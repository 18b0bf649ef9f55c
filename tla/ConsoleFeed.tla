----------------------------- MODULE ConsoleFeed -----------------------------
(***************************************************************************)
(* The activity feed of the console: the browser's polls against the event *)
(* log.  tick asks for api/state every three seconds and, when that is     *)
(* answered and the table has been painted once, for the events since the  *)
(* last one shown.  A tick does not wait for the one before it, and a      *)
(* click on the filter asks for everything anew: the answers of several    *)
(* requests can be under way, and they arrive in any order.                *)
(*                                                                         *)
(* Requests that fail are left out, the next tick asks again; so is the    *)
(* limit of 400 rows, which drops the oldest.                              *)
(***************************************************************************)
EXTENDS EventLog

CONSTANTS
    Requests,    \* the requests the browser has under way at most
    StatePage,   \* how many events api/state carries
    EventPage,   \* how many events a poll asks for
    Clicks       \* bound on the clicks on the filter

ASSUME FeedAssumption ==
    StatePage \in Nat \ {0} /\ EventPage \in Nat \ {0} /\ Clicks \in Nat

VARIABLES
    call,      \* call[c]: a request under way
    painted,   \* eventsPainted
    lastSeq,   \* the newest event shown since the table was cleared
    eventKind, \* the filter
    rows,      \* the rows of the table, newest first
    clicks,
    since0     \* history: nothing before this was asked to be shown

vars == <<log, call, painted, lastSeq, eventKind, rows, clicks, since0>>

Done == [at |-> "done"]

Highest(events, n) == Max({n} \cup {events[i].seq : i \in DOMAIN events})

\* appendEvents
AppendEvents(events, table, last) ==
    /\ rows' = Reverse(events) \o table
    /\ lastSeq' = Highest(events, last)

Ask(c, since, kind) ==
    call' = [call EXCEPT ![c] = [at |-> "events", since |-> since, kind |-> kind]]

-----------------------------------------------------------------------------

Happens ==
    /\ \E kind \in Kinds : Add(kind)
    /\ UNCHANGED <<call, painted, lastSeq, eventKind, rows, clicks, since0>>

\* tick asks for the state.
Tick(c) ==
    /\ call[c] = Done
    /\ call' = [call EXCEPT ![c] = [at |-> "state"]]
    /\ UNCHANGED <<log, painted, lastSeq, eventKind, rows, clicks, since0>>

\* apiState and apiEvents answer from the log as it is now.
Answer(c) ==
    /\ \/ /\ call[c].at = "state"
          /\ call' = [call EXCEPT ![c] = [at |-> "painting", events |-> Reverse(Recent(StatePage))]]
       \/ /\ call[c].at = "events"
          /\ call' = [call EXCEPT ![c] =
                [at |-> "appending", events |-> SinceKind(call[c].since, EventPage, call[c].kind)]]
    /\ UNCHANGED <<log, painted, lastSeq, eventKind, rows, clicks, since0>>

\* renderState paints the table once, then pollEvents asks for what is newer.
RenderState(c) ==
    LET first == ~painted /\ call[c].events # <<>> IN
    /\ call[c].at = "painting"
    /\ IF first THEN AppendEvents(call[c].events, <<>>, lastSeq) ELSE UNCHANGED <<rows, lastSeq>>
    /\ painted' = (painted \/ first)
    /\ since0' = IF first THEN Head(call[c].events).seq - 1 ELSE since0
    /\ IF painted' THEN Ask(c, lastSeq', eventKind) ELSE call' = [call EXCEPT ![c] = Done]
    /\ UNCHANGED <<log, eventKind, clicks>>

\* Mutant of AppendPoll: the newest sequence number of the log is taken over.
AppendPollToHead(c) ==
    /\ call[c].at = "appending"
    /\ rows' = Reverse(call[c].events) \o rows
    /\ lastSeq' = seq
    /\ call' = [call EXCEPT ![c] = Done]
    /\ UNCHANGED <<log, painted, eventKind, clicks, since0>>

\* The answer of a poll or of a click is appended, whatever was shown meanwhile.
AppendPoll(c) ==
    /\ call[c].at = "appending"
    /\ AppendEvents(call[c].events, rows, lastSeq)
    /\ call' = [call EXCEPT ![c] = Done]
    /\ UNCHANGED <<log, painted, eventKind, clicks, since0>>

\* setEventKind: the table is cleared and filled again from the start of the ring.
SetEventKind(c, kind) ==
    /\ call[c] = Done /\ clicks < Clicks /\ kind # eventKind
    /\ clicks' = clicks + 1
    /\ eventKind' = kind
    /\ lastSeq' = 0 /\ since0' = 0
    /\ painted' = TRUE
    /\ rows' = <<>>
    /\ Ask(c, 0, kind)
    /\ UNCHANGED log

Init ==
    /\ LogInit
    /\ call = [c \in Requests |-> Done]
    /\ painted = FALSE /\ lastSeq = 0 /\ eventKind = AnyKind /\ rows = <<>>
    /\ clicks = 0 /\ since0 = 0

Respond(c) == Answer(c) \/ RenderState(c) \/ AppendPoll(c)

Next ==
    \/ Happens
    \/ \E c \in Requests : Tick(c) \/ Respond(c)
    \/ \E c \in Requests, kind \in Kinds \cup {AnyKind} : SetEventKind(c, kind)

\* The timer fires and requests are answered.
Fairness == \A c \in Requests : WF_vars(Tick(c)) /\ WF_vars(Respond(c))

Spec == Init /\ [][Next]_vars /\ Fairness

-----------------------------------------------------------------------------
(* Properties. *)

\* pollEvents appends everything since the last poll: up to lastSeq no event is
\* missing from the table, except those the ring had overwritten or the page did
\* not hold.  A change of the filter ends that: the late answer to a poll for the
\* old filter moves lastSeq past what the new one has not asked for yet.
NothingSkipped ==
    painted /\ clicks = 0 => \A e \in ToSet(history) :
        \/ e.seq <= since0 \/ e.seq > lastSeq
        \/ e \in ToSet(rows)
        \/ e.seq <= seq - Size \/ e.seq <= seq - EventPage

\* The newest event the filter lets through is in the table, if there is one.
NewestIsShown ==
    LET wanted == SinceKind(0, 0, eventKind)
    IN  painted /\ (wanted # <<>> => Last(wanted) \in ToSet(rows))

\* However late answers arrive, once nothing more happens the feed comes to show the
\* newest event, as long as the filter is left alone.
FeedCatchesUp ==
    \A n \in 1..MaxEvents :
        (seq = n /\ clicks = 0) ~> (seq > n \/ clicks > 0 \/ NewestIsShown)
=============================================================================
