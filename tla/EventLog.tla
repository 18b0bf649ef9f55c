------------------------------ MODULE EventLog ------------------------------
(***************************************************************************)
(* eventLog: the console's memory of what happened, two fixed rings under  *)
(* one mutex and one sequence number.  Every event goes into the ring of   *)
(* all of them; all but the rejects also go into a ring of their own,      *)
(* which a flood of rejects cannot overwrite.                              *)
(*                                                                         *)
(* An event is its number and its kind.                                    *)
(***************************************************************************)
EXTENDS Integers, Sequences, SequencesExt

CONSTANTS
    Size,       \* admin.eventLogSize: the length of each ring
    Kinds,      \* the kinds of events
    Reject,     \* the kind of the events of requests turned away
    MaxEvents   \* bound on the events ever added

ASSUME LogAssumption ==
    /\ Size \in Nat \ {0} /\ Reject \in Kinds /\ MaxEvents \in Nat

AnyKind == "any kind"

VARIABLES
    seq,      \* l.seq
    all,      \* l.all
    bans,     \* l.bans
    history   \* history: every event ever added

log == <<seq, all, bans, history>>

NoEvent == [seq |-> 0, kind |-> AnyKind]

NewRing == [buf |-> [i \in 0..(Size - 1) |-> NoEvent], next |-> 0, filled |-> FALSE]

\* eventRing.add
Added(ring, e) ==
    [buf    |-> [ring.buf EXCEPT ![ring.next] = e],
     next   |-> (ring.next + 1) % Size,
     filled |-> ring.filled \/ (ring.next + 1) % Size = 0]

\* eventRing.count
Count(ring) == IF ring.filled THEN Size ELSE ring.next

\* eventRing.at: the i-th newest, 0 being the newest.
At(ring, i) == ring.buf[(ring.next - 1 - i + Size) % Size]

\* eventLog.add
Add(kind) ==
    LET e == [seq |-> seq + 1, kind |-> kind] IN
    /\ seq < MaxEvents
    /\ seq' = seq + 1
    /\ all' = Added(all, e)
    /\ bans' = IF kind # Reject THEN Added(bans, e) ELSE bans
    /\ history' = Append(history, e)

\* recent: up to n events, newest first.
Recent(n) == [i \in 1..(IF n < Count(all) THEN n ELSE Count(all)) |-> At(all, i - 1)]

\* A ring from its oldest event to its newest.
Chronological(ring) == [i \in 1..Count(ring) |-> At(ring, Count(ring) - i)]

\* The elements of s at the positions P, in their order.
Picked(s, P) ==
    LET pick[i \in 0..Len(s)] ==
            IF i = 0 THEN <<>>
            ELSE IF i \in P THEN Append(pick[i - 1], s[i]) ELSE pick[i - 1]
    IN  pick[Len(s)]

\* What a poll asks for: newer than since, of a kind or of any.
Matching(s, since, kind) ==
    Picked(s, {i \in DOMAIN s : s[i].seq > since /\ kind \in {AnyKind, s[i].kind}})

\* The newest n of a sequence.
Newest(s, n) == IF Len(s) > n THEN SubSeq(s, Len(s) - n + 1, Len(s)) ELSE s

\* Mutant of SinceKind: the limit is applied before the filter.
SinceKindOfPage(since, limit, kind) ==
    LET ring == IF kind \in {AnyKind, Reject} THEN all ELSE bans
    IN  Matching(Newest(Chronological(ring), limit), since, kind)

\* sinceKind: events newer than since, oldest first; limit 0 asks for all.
SinceKind(since, limit, kind) ==
    LET ring == IF kind \in {AnyKind, Reject} THEN all ELSE bans
    IN  Newest(Matching(Chronological(ring), since, kind), IF limit = 0 THEN Size ELSE limit)

LogInit ==
    /\ seq = 0 /\ all = NewRing /\ bans = NewRing /\ history = <<>>

LogNext == \E kind \in Kinds : Add(kind)

-----------------------------------------------------------------------------
(* Properties. *)

\* The events of h other than the rejects.
OtherThanRejects(h) == Picked(h, {i \in DOMAIN h : h[i].kind # Reject})

\* What is kept: the last Size events, and of the others than rejects the last
\* Size however many rejects came since.
Kept(kind) ==
    IF kind \in {AnyKind, Reject} THEN Newest(history, Size)
    ELSE Newest(OtherThanRejects(history), Size)

\* Whatever is asked, the answer is the newest of the kept events that match: none is
\* skipped, repeated or out of order, wherever the rings have wrapped.  The page the
\* console paints first is the newest events, newest first.
AnswersTheNewest ==
    /\ \A since \in 0..seq, limit \in 0..(Size + 1), kind \in Kinds \cup {AnyKind} :
          SinceKind(since, limit, kind) =
              Newest(Matching(Kept(kind), since, kind), IF limit = 0 THEN Size ELSE limit)
    /\ \A n \in 1..(Size + 1) :
          Recent(n) = Reverse(Newest(history, IF n < Size THEN n ELSE Size))
=============================================================================
