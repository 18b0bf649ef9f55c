# scanguard in TLA+

scanguard is a Traefik middleware plugin, written in Go and interpreted by Yaegi. It watches the
requests of every router it is attached to, detects scanners, bans their source addresses on an
escalating ladder, and shows all of it in a console. This directory models the parts of it where
state is shared between goroutines, processes or restarts, checks the models with TLC and proves
every safety property that holds with TLAPS, for every value of the constants. Everything is
translated from the Go (and, for the console, JavaScript) sources; comments in the modules name the
functions.

    tlc -config <run>.cfg <MC module>.tla     # one model-checking run
    tlapm LadderProofs.tla                    # one proof module

## The system

One process (Traefik) builds one or more middlewares per *instance*; they share a `runtime` found
in a package-level registry. What it keeps, who changes it, and what makes it correct:

| part | state | operations and who calls them | what must hold |
|---|---|---|---|
| escalation ladder (`counters.go`, `enforce.go` banDuration) | a capped table of per-source records: offences, last offence, end of the ban | `recordOffence`, the `note*` calls (requests), `seed` (start-up, backend switch), `forget` (unban), `sweep` (janitor) | one rung per return, decay from the end of the ban, no rung lost to the janitor |
| detectors that remember (`counters.go`, `detect.go`, `respwriter.go`) | two distinct-item buckets, a window of failures, a token bucket in the same record | `detectRequest` before the backend, `detectResponse` after it | what trips, trips exactly when it should |
| ban table (`store.go`) | `bans`, the index `wide` of odd-width ranges, the dirty flag | `get` (every request), `put`, `delete`, `sweep`, `setKeyWidths`, `replaceAll`, `restore` | a covered source is found; the index is exact; the cap spares operators' bans |
| file backend (`store_file.go`) | one snapshot on disk, its `.tmp`, `writeMu` | `flush` by requests, console and janitor; `load` at start | nothing lost, nothing torn, no older copy on top |
| request path (`scanguard.go`, `enforce.go`) | requests in flight with the settings and clock they read on arrival; real and shadow ban list; counts of banned members per range | `ServeHTTP`, `applyBan`, `applySubnetBan`; against them `banManual`, `unban`, the dry-run switch, the janitor | ladder and lists agree; one burst one ban; a dry run bans nobody |
| Redis backend (`store_redis.go`) | the local table, a shared keyspace | `put`, `delete` write through; the janitor's `refresh` reads back | replicas converge; an outage lifts no ban |
| runtime and console rules (`runtime.go`, `overrides.go`) | file configuration, saved overrides, settings in force, two mutexes | `acquireRuntime` for each middleware on each reload, `setOverrides`, `syncOverrides` | edits survive reloads, restarts and other replicas |
| event log (`events.go`) | two rings and a sequence number | `add`, `recent`, `sinceKind` | the answer to a query is exact |
| console feed (`admin_ui.go`) | `lastSeq`, the rows, the filter, requests under way | a timer, clicks, answers in any order | no event skipped, the newest shown in the end |
| notifier, country cache, tarpit (`notify.go`, `geo.go`, `enforce.go`) | a process-wide semaphore, caches, in-flight sets, a channel; replaced by reloads | `dispatch`, `score`, `lookup`, `tarpit` from requests; goroutines that outlive the objects they began with | every slot is given back once and where it was taken; nobody is reported or asked about twice |
| client address, exemptions (`clientip.go`, `detect.go`) | none | `resolve`, `exemptFor` at the head of every request | the right address is judged; no way around a ban but the meant ones |
| patterns (`matcher.go`, `rules_default.go`) | none | pure functions of a request | what matches is a choice here |
| admin API (`admin.go`) | none of its own | handlers behind a token or an identity header | only the authorised change anything; a ban that is typed bites and hits nobody protected |

They interact through calls under short mutexes: `applyBan` goes through the counters, then the
ban table, then the disk or Redis, then the counters again for the range, holding nothing in
between. The janitor (`runtime.tick`, every 30 s) walks the same objects in order. What is hard
about the program follows from that: a fact checked under one mutex is used under the next; a
request carries the settings and the clock reading of its arrival; two lists (real and dry run)
hang on one ladder; tables are replaced by what was read a while ago; a process dies between two
writes; and everything is capped. PROJECT.json lists these hazards line by line.

## The modules

| module | models | state and actions against the code |
|---|---|---|
| `Ladder` | the counter table's ladder | `tracked`/`st` is `counters.tbl`; one action per exported method, since each is one critical section under `counters.mu`. `Lag` lets a caller's clock reading be old |
| `LadderPromise`, `LadderRefinement` | what the ladder promises, without clock, table or janitor; the refinement mapping | a rung, a ban left to run, ticks of freedom |
| `Detectors` | `distinctBucket.note`, `noteAuthFailure`, `noteRequest` and the order in which `detectRequest` and `detectResponse` ask them | one source; a level is counted in halves of what leaks in a tick, so `halfEvent` is exact |
| `BanStore` | `memStore` | `bans`, `wide`, `widths`; one action per method |
| `FileStore` | `fileStore` | `flush` is seven steps (claim the flag, lock, copy bans, copy rules, create, fill, rename), each may be the last one before the process dies |
| `Enforcement` | the request path, over two instances of `BanStore` and one of `Ladder` | each call a request makes on a shared object is a step; the operator, the settings and the janitor step in between |
| `RedisReplicas` | `redisStore` in several replicas around one Redis | local write, then the command; `refresh` is SCAN, MGET and the swap |
| `ConsoleRules` | `acquireRuntime`, `setOverrides`, restore and sync of rules | reads and publications are separate steps wherever the code does not hold one mutex over both |
| `ClientAddress` | the proxies a request comes through, and `settings.resolve` | `Delivered` is every set of headers with which a chain of up to `MaxHops` trusted proxies can hand on what a client sent, forged lines included; `Resolve` and `Walk` are the code's |
| `Admission` | `ServeHTTP` from the address to the verdict, and the console's handlers | settings, address and clock are read on arrival; ban lookup, detection and response are steps; bans, unbans, allowlist edits, a change of key widths, a ban's running out and the sweep step in between. The lookup is `memStore.get` with its order (`Hit`, `Get`); a ban that has run out stays in the table until the sweep. Time is reduced to which bans have run out (`expired`), and to which had by the request's clock (`ended`). A change of key widths reaches the requests (`keying`) before the table (`widths`) |
| `Outbound` | sends, lookups, tarpit | one of the four services per behaviour (they share only the clock). A goroutine keeps the generation of the notifier or channel it began with; a reload begins another |
| `EventLog`, `ConsoleFeed` | the rings; the browser that polls them | a request is under way until its answer is handled; answers overtake each other |
| `LadderProofs`, `DetectorsProofs`, `BanStoreProofs`, `EnforcementProofs`, `AdmissionProofs`, `OutboundProofs` | theorems and proofs | one for each module named |
| `BackendProofs`, `ConsoleProofs` | theorems and proofs | `FileStore` and `RedisReplicas`; `EventLog`, `ConsoleFeed` and `ConsoleRules`. Unrelated specifications side by side, which is why those of `RedisReplicas` and `ConsoleRules` are called `RedisSpec` and `RulesSpec` |
| `MC*` | constants of the runs | |

Each operator named "Mutant of X" is X with a plausible bug, kept beside it to show that a
property notices.

## The runs

| run | asks | bounds, and why they are enough |
|---|---|---|
| `ladder_promise` | does the ladder answer as `LadderPromise` does, sweeps and replayed bans included? | two sources, a ladder of three rungs ending in the permanent one, decay 2, seven ticks: up the ladder, through a ban and down by decay again; a two-rung ban of two ticks replayed at any time, created at any time |
| `detectors_memory` | what trips, and when? | five calls over seven ticks; capacities 3, 3 and 2 with one item more; leak 2, window 3, so that items arrive within half a leak, at it, and after the bucket ran dry; the sweep's idle time covers all of them |
| `store_index` | index, lookup and eviction | two hosts, their range and the range above it in a table of three; three settings of the widths, snapshots that overfill it |
| `store_shadowed` | **violation**: is every ban in force found? | the same |
| `file_snapshots` | durability, with liveness | one request goroutine and the janitor, two changes, two failures, one death at any step |
| `enforce_serving` | ladder against lists, dry run switched in flight | two requests at a time from two sources of one range, threshold 2, one switch, a clock that may advance once within a request |
| `enforce_operator` | manual bans and unbans against detections | one source, two requests, any number of both, manual bans of one tick and for good, a clock that may advance once within a request; its range is out of play (threshold 2) |
| `redis_replicas` | refresh, outage, convergence, with liveness | two replicas with one writer each, `store.failOpen` false, so that a start-up without Redis fails; one key, two bans and any number of unbans, one outage, one restart |
| `rules_layers` | edits against reloads, restarts, other replicas, with liveness | two sections that must not both be off; a file deployment with a console of its own and a Redis one, with both sections on or just one (the sections are alike); two edits, one reload, one switch to Redis, one restart |
| `feed_log` | rings, and the feed that reads them, with liveness | four events of two kinds through rings of two, pages smaller than the rings, two requests under way, one click |
| `admission` | who is blamed, who gets past a ban, who is refused | an edge and a load balancer, two hosts of one network and a third; two hops that append, begin a line, add a port or write nonsense; five forged headers, with and without a client-IP header; four routers (console, prefix, blocking, exempting); keys of one address or of a network; a range; two bans in the table at a time (`MaxBans`), as many as it takes for one that has run out to hide another, or for a request's own ban to meet an operator's. One request at a time: requests in flight together are `Enforcement`'s |
| `outbound` | slots, in-flight marks, places, double reports and double lookups | three senders for two slots, three addresses for two lookups, caches that overflow at two entries and a map of reports at three, a failure remembered for longer than an answer, three scanners for a tarpit of two places and then of one, one reload, three ticks (the longest time that counts is two) |

`CHECK_DEADLOCK FALSE` is set where the bounds end a behaviour (the clock, the number of calls);
the program itself goes on.

Passing properties worth explaining:

- `KeepsPromise`: the refinement. It needs a table below its cap and callers with a fresh clock.
  `CapCorrect` and `WindowsGrow` are proved without either condition. `Inherit`, the abstract
  replay, leaves open how far up the source is put: `seed` raises the time from which decay counts
  along with the ban, so rungs that had decayed can come back.
- `ServingIsBanned`: as long as the ladder says a source serves a ban, there is one, or a request
  is about to write it, or an unban has just taken it. It is what `applyBan` relies on when it
  answers "not fresh" with nothing. Keys the operator has `overruled` are left out: a ban by hand
  that is shorter than the ladder's replaces it in the list and leaves the ladder counting, and an
  unban between an offence and its ban leaves a ban without a ladder.
- `OneBanPerBurst` leaves them out for the same reason. Both, like the theorems about them, speak of
  the setting in which ladder and lists can be compared at all: tables with room for every key
  (`RoomForAll`), bans longer than a request waits (`BansOutlast`), and a permanent ban's record that
  does not run out within the model (`HorizonIsFar`). The runs' constants are of that kind.
- `RealTripsAreEarned`: whatever is in flight across a switch of dry run, a real range ban stands
  for `Threshold` members really banned within the window, each counted once. `earned` is history:
  when a source was last banned for real, or 0 once a trip has counted it.
- `QuickScansTrip` and `OnlyDistinctItemsTrip` bound the bucket from both sides. The comment at
  counters.go:190 says more ("trips on the Nth distinct path whenever those arrive faster than the
  leak"); that is not so for gaps close to the leak, which is why the property speaks of half a leak.
- `SweepKeepsDetection`: a record the janitor drops is one that no detector would treat otherwise
  than a new one. It needs an idle time that covers window and buckets, which `tick` does not
  compute from them (an hour, the decay, the range window); with the defaults it does.
- `NoOlderSnapshot`, `NothingForgotten`: the order in which memory held its contents is kept as
  versions, so "older" is exact.
- `RefreshIsRegular`: a refresh gives each key a verdict Redis gave at some time during it, the
  guarantee of a regular register.
- `ReplicasConverge` is about the replicas that have come up. With `failOpen` false a start-up that
  cannot reach Redis ends in an error of `New` (store_redis.go:57, runtime.go:170, scanguard.go:57);
  there is no janitor then, and nothing but Traefik's next build tries again.
- `EditsStayInForce` says two things. The rules in force are the file's with the overrides on top;
  and the overrides are still the `latest` edits, a history of what was last edited here, adopted
  from Redis, or saved when Traefik restarted. So an edit that a reload or a restart drops is a
  violation even if rules and overrides agree afterwards. It leaves out what the startup refused,
  and the move to a Redis that nobody has saved rules in, which does drop the edits (see the
  disagreements). With Redis an adoption counts as the latest edit, an older answer than
  the last edit included: that the newest one prevails in the end is `RulesConverge`.
  The first half leaves out the behaviours in which rules were published that were made from others
  than those they replaced (`outdated`). That happens where the console's branch publishes what it
  read without `rt.mu`, and where an edit made for the old file is published between the new file's
  rules and a re-layering that finds no edit. Until the next reload or edit the rules are not those
  of file and edits.
- `BannableIsOrigin`: `clean` says of a request that all the proxies wrote down their peers and
  nothing was lost on the way; only then must it be attributable, but whatever happened, it may not
  be attributed to somebody else.
- `NoWayAround` and `ProtectedIsServed` are the two sides of one order of checks. `steady` is
  history: the bans over the true origin that were in force on arrival and stood until the lookup.
  Two ways past them are the program's and not meant: a ban of the same source that has run out,
  not swept yet and met first (`Shadowed`; store.go:191, and `store_shadowed` in the table's own
  terms), and the moment between the two publications of other key widths, in which `steady` is
  empty. Without either exception the property is violated.
- `BansAreEarned` judges a range by the allowlist the request arrived with, which is the one the
  code asks (enforce.go:171). That it may protect others by the time it is put is why
  `ProtectedIsServed` is stated separately, of what is refused.
- `ManualBansBite` is about what the lookup finds, not about what is listed. It excepts keys made
  wider after the ban (such a ban stays listed and matches nothing), the moment of that change, and
  a ban that has run out and is met first.
- `SlotsAreExact`, `LookupsAreExact` and `TarpitIsExact` are equalities: a slot kept and a slot given
  back twice both break them, as does one given back to the object of another generation.
- `ReportedOnce` is about one notifier (the map of the next starts empty) that has reported no more
  addresses than the map holds: past that the map starts over with the last one alone (notify.go:286).
- `NothingSkipped` and `FeedCatchesUp` hold until the filter is clicked.

### Fairness

Weak fairness only, and only of what the code schedules: the janitor's ticker (`TimerFires`,
`Tick`; in `RedisReplicas` it begins with a store that has been built, and nothing is obliged to
`Build` one), the completion of a flush, a command or an edit that has begun (they hold a
goroutine and time out), Traefik building the middlewares that are configured, the browser's timer
and the answers to its requests, and that an outage of Redis ends. Nobody is obliged to send
requests, to ban or to edit. The convergence properties are conditional on such actions ceasing.

## Disagreements between the code and what it says

One has a run:

- `store_shadowed` (store.go:191): an expired ban of the source itself, until the janitor removes
  it, hides an active range ban over it, because the lookup stops at the exact key.

Others were met while modelling and are recorded here and under the hazards:

- After a dry run is switched off (enforce.go:43), a source it "banned" is detected and refused, but
  not banned for real until the hypothetical ban would have ended, which a permanent rung's never
  does: the ladder is shared, the lists are not, and `recordOffence` answers "not fresh" for a burst
  that enforce.go:45 says is banned already. `ServingIsBanned` allows for it by naming the list that
  was enforced before the switch.
- `exempt` asks for the path before the User-Agent (detect.go:63), so a client on both an exempt
  path and an exempt User-Agent, or an exempt crawler on such a path, counts as exempt by path only
  and is refused if it is banned, although a User-Agent exemption "bypasses everything, the ban list
  included" (scanguard.go:149) and "forgives a crawler that some other router already banned"
  (detect.go:82). `Exempt` has the code's order.
- Failed lookups are remembered without looking at the size of `scores` (notify.go:64; only a
  success does, :415), so the map grows while the service is down; README.md:150 promises bounded
  memory. An answer that cannot be decoded (:410) is not remembered at all.
- A reload replaces the notifier: an address reported a moment ago may be reported again, and four
  lookups start beside the four under way.
- `cacheTTL` of "0" or "never" (config.go:529: "does not expire") makes no answer fresh, as 0 is
  compared like a duration (notify.go:361, geo.go:69).
- A reload that moves the state to Redis loses the console's edits. The bans are copied into the new
  store (runtime.go:252-273), the edits are not; the next `syncOverrides` compares them with the
  nothing found there, takes it for a revert made elsewhere and publishes the file's rules
  (runtime.go:737-762). README.md:112: "A Traefik reload re-layers your edits onto the new file
  config rather than discarding them." `EditsStayInForce` excepts exactly this; without the
  exception TLC finds it.
- A ban keyed narrower than the key widths after a change of configuration stays in force in the
  list and matches nothing (runtime.go:357); parseBanKey refuses to create one.
- A ban whose SET to Redis failed is "enforced on this replica only" (store_redis.go:87), but only
  until the next refresh, which replaces the local table by what Redis holds.
- DEL and SET of one key by two goroutines can reach Redis in the other order, which leaves a ban
  there that an operator lifted.
- A request that was in flight during a whole unban can write its ban over a newer and longer one.
- The console's branch of `acquireRuntime` (runtime.go:226) copies settings and publishes them
  without `rt.mu`.
- The detector's branch publishes the new file's rules (runtime.go:277) before it takes `rt.mu` to
  layer the edits on them (:294). An edit built on the old file in between replaces the new file's
  rules, and a re-layering whose rules no longer parse leaves that so. The proof of
  `EditsCorrect` found this one: `outdated` did not record it.
- An informational status hides the one that follows from `responseObserver` (respwriter.go:44).
- `badPaths.capacity` above `maxDistinctPaths` is accepted (config.go:890), unlike the one of
  `uaRotation` (config.go:964); past it a repeated path counts again.
- Two overlapping polls of the console show an event twice; a late answer to a poll for the old
  filter puts other kinds into the table and moves `lastSeq` past events not yet asked for.
- At the cap, `getLocked` may evict the record it has just created (counters.go:82), whose time
  stamp is still zero.

## What is proved

Each for all values of the constants, from the named assumption of its module (`LadderAssumption`,
`DetectorsAssumption`, `StoreAssumption`, `FileAssumption`, `EnforcementAssumption`,
`AddressAssumption` and `AdmissionAssumption`, `OutboundAssumption`, `LogAssumption`,
`FeedAssumption`, `RulesAssumption`: finite sets, natural numbers, positive caps, what
`Config.parse` lets through). The theorems about Redis need none. A theorem that needs more than its
module's assumption says so in an ASSUME of its own, with a named hypothesis. Where a model computes
with a recursive function, or a fact is about any number of rounds, the proofs use induction in the
form "a set of numbers that holds 0 and with each number the next one holds them all" (`NatSet`,
`UpTo`), which needs no operator parameter.

*LadderProofs.* `TypeCorrect`: records stay well-formed, and absent keys have none. It is inductive
with `PutEffect`/`DropEffect`, which say what any call can do to the table. `CapCorrect`: after an
eviction the table is within its cap (`EvictionMakesRoom`: the excess plus a tenth is never less
than the excess; cardinalities do the rest). `WindowsGrow`: a call either leaves `banUntil` or
raises it, as it climbs only when the old window has ended at its own reading. `SweepIsHarmless`:
what `sweep` drops stands on no rung, since `offences` full periods have passed (`SweptHasDecayed`,
by `PeriodsPassed` on integer division). `KeepsThePromise` is the refinement: with a table that
holds all keys (`TableHoldsAll`) and callers whose readings are fresh (`FreshClock`), every step of
`Ladder` is a step of `LadderPromise` or leaves it unchanged. Both conditions are needed: an
eviction loses a rung, and a late reading lets an older burst end a newer one. The invariant under
it, `LadderIsSane`, relates the three instants of a record (no offence lies in the future, a ban
starts at an offence); the arithmetic is that of a clock tick against the periods of quiet that have
passed (`NextDivision`).

*DetectorsProofs.* The invariant `IInv` says of each detector how what it keeps relates to all it
was told since its last hit. Of a bucket (`Agrees`): it has counted each item at most once, so its
level is no more than an event for each item in its set, or the set has started over and there were
enough items anyway (`CountsOnce`); and from any call on, the level is at least an event for each
item that was new then, less what has leaked since (`CountsAll`). `OnlyDistinctItemsAreHits` follows
from the one, `QuickScansAreHits` from the other and the half event. Of the window: what is kept is
the end of the history, and the rest of that is too old (`WindowAgrees`; `KeptIs` is the induction
over the loop of `noteAuthFailure`), which gives `AuthWindowIsKept`. Of the tokens: none of the
spans to now has passed more than its allowance less what is left, and some span has asked for all
the rest (`RateAgrees`); `RateIsFair` is both sides of it. `SweepIsHarmless` has the hypothesis
`IdleCovers`, as `tick` does not derive the idle time from leak, window and rate.

*BanStoreProofs.* The invariant is `TypeOK /\ WideIndexExact /\ CapHolds`; the index is exact after
`put` only because it was exact before, and after everything else because it is rebuilt.
`CoverageCorrect` follows from it: `LookupFindsCover` shows by cases on the width of a covering ban
that exact lookup, range lookup or index finds one. `EvictionsAreFair`: an operator's ban is evicted
only when no automatic one is spared, a permanent automatic one only when no timed automatic one is
(`EvictIsFair`).

*BackendProofs.* For the file, `NothingForgotten` is not inductive: whether the disk holds
everything depends on the flushes under way. The invariant `Inv` says that `writeMu` has one holder,
that the holder's copy is no older than the disk, and that a lowered flag means memory is on disk or
in the hands of a flush that will write it or raise the flag again. `WholeSnapshot`,
`NoChangeForgotten` and `SnapshotsAdvance` follow. For Redis, any number of replicas, clients,
outages and restarts: while a refresh runs, `seen` follows every write to Redis, and a key that MGET
need not ask for any more has a value that was seen (`Regular`). What the refresh swaps in was
therefore in Redis at some time during it (`RefreshCorrect`), and one that swaps during an outage
had all its answers before (`OutageCorrect`).

*EnforcementProofs.* Beside `Typed`: a request's reading is at most `Patience` old (`Punctual`).
`OperatorsBanStandsAlways` needs only that a request which meets a ban by hand past its lookup was
in flight when the ban was set (`RacesAreNoted`). `RealTripsAreEarnedAlways` rests on
`CountsAreEarned`: a member in an enforcing count was really banned when the count says, and no trip
has used it up. `SweepKeepsCountsAlways` on `CountsAreFresh`, under `CountsOutlast` (the window and
a request's wait fit into the janitor's idle time). `ServingIsBannedAlways` and
`OneBanPerBurstAlways` share the invariant `Serving`. Neither property is inductive: that a writer
finds no ban in force follows from its holding the rung it climbed (`WriterHoldsRung`) and being the
only one to (`OneWriter`), and that a burst is covered (`LadderIsCovered`) from an automatic ban in
force being on the ladder for as long as it lasts (`BanIsOnLadder`, `NothingOverwritten`).
`SameMode` ties them to the list of the mode that is enforced until dry run is first switched. The
proofs corrected the model: without `overruled` the properties hold only while no manual ban is
shorter than the ladder's.

*AdmissionProofs.* `BannableIsOriginAlways` is an induction over the hops: whatever is forged and
however many proxies have handed a request on, behind the last entry of the chain that names the
origin, or is unreadable, there are only trusted proxies; `walkChain` stops at it. The other
theorems follow from `Inv`: each request is judged by its origin or as nobody's, the bans that stood
since its arrival are still in the table at its lookup and had not run out by its clock, and what
the operator typed is listed and covers the keys its addresses had. Of the lookup, `HitFirst` shows
what it meets: the key's own ban, else a range's, else the narrowest of the wide ones, so that where
a ban in force covers the key, what is found is in force or is one that hides it; that a narrowest
one exists is an induction over cardinalities (`NarrowestExists`). `AdmissionAssumption` says of
configurations what those proofs use: finitely many addresses, ranges are nested or disjoint, each
address has one key of each width, and the escalation range is wider than any key.

*OutboundProofs.* With `Typed` beside them the three equalities are inductive: a slot, a mark in the
in-flight set and a place in the tarpit are each taken and given back in the step that moves the
goroutine, so the cardinality of "those who hold one" moves with the counter (`InFlightAfter`,
`ExactMeans`). For lookups the invariant needs "one goroutine per address", otherwise `Ended` would
free an address that another goroutine is still out for; for the tarpit it is one equation per
generation of the channel, since a request leaves the channel it entered. Any number of goroutines,
addresses and reloads. `ReportsCorrect`: the map of a notifier is the history of its reports, until
there are more of them than it holds (`Remembered`). `AnswersCorrect`: an answer that is still good
is in the cache with a time that keeps it fresh as long, or the cache has been dropped since
(`Answers`, `Kept`).

*ConsoleProofs.* The ring and the feed are about sequences picked from a longer one. `Picked` is a
recursive function; that the function exists, and what it returns of a sequence that has grown by
one, are shown by induction over its length (`PickedIs`, `PickedAppend`). A ring holds the end of
its history, the newest at `next - 1` (`Holds`), so `recent` and `sinceKind` answer exactly
(`LogCorrect`). For the feed, every answer under way continues at or before `lastSeq` (`Underway`)
and everything up to `lastSeq` has been shown (`Unfiltered`), whatever the order of the answers;
`FeedCorrect` follows. For the rules, `Process` says where a build or an edit stands; `InForce` that
an edit on its way was made from the base as it is and that the rules in force are the file's with
the edits on top, unless outdated; `Saved` what is kept in which place; `Upheld` that the latest
edits are the overrides or accounted for, and before they are restored what the backend has saved.
`EditsCorrect` follows from `InForce` and `Upheld`, and `RestoreCorrect` from `Saved`: the only
backend a running process can be switched to is Redis, so what a file store has saved is never
another replica's.

Type correctness and `CapHolds` have no run of their own; every other theorem's property is checked
by one.

Only model-checked: liveness (`EventuallyDurable`, `ReplicasConverge`, `RulesConverge`,
`FeedCatchesUp`), which the proof system cannot express here. The clock is discrete, and a tick is
longer than a call waits for a mutex except where `Lag` or `Patience` says otherwise.

## Not modelled, and why

The tallies of the console (`tally.add`: approximate by design), the bans' side of a backend switch
(`acquireRuntime` copies the live bans into the new store while requests go on with the old one:
what is banned in between is lost, runtime.go:258), the defaults and the merging of configurations,
and the read-only endpoints of the admin API. Pattern matching, the RESP codec, JSON, logging and
the page's rendering are data or output: what they decide is a choice of the environment, and what
`Config.parse` refuses is an assumption on constants.

## Plan

Order of work, most important behaviour first. Done: (1) ladder, promise and proofs; (2) ban table
and proofs; (3) file backend and proofs; (4) request path over both; (5) Redis; (6) rules; (7) event
log and feed; (8) detectors; (9) client address, exemptions, console: `Admission`; (10) sends,
lookups, tarpit: `Outbound` and proofs; (11) proofs of (4) to (9), and of the refinement in (1).
Next:

1. The backend switch with bans and `seedLadder` beside it (runtime.go:258): what is lost, and that
   nothing else is.
2. The restart with the known gap of runtime.go:506.
3. The feed over a change of filter and a sign-out (admin_ui.go:442).
4. The capped tally.
