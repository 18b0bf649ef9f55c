---------------------------- MODULE BackendProofs ----------------------------
(* The two backends that keep the bans beyond the process: the flush of        *)
(* store_file.go loses no change, for any number of goroutines, changes,       *)
(* failed writes and restarts; the refresh of store_redis.go misses no ban,    *)
(* for any number of replicas, keys, commands, outages and restarts.  Each     *)
(* part stands alone.                                                          *)
EXTENDS FileStore, RedisReplicas, TLAPS

-----------------------------------------------------------------------------
(* The file backend: the inductive invariant. *)

HasBans(p)  == pc[p] \in {"rules", "write", "fill", "rename"}
HasRules(p) == pc[p] \in {"write", "fill", "rename"}

\* A claim is made on a store that persists, and a complete temporary file is
\* the copy of the goroutine about to rename it.
FlushInv ==
    /\ \A p \in Procs : InFlush(p) => writable
    /\ \A p \in Procs : pc[p] = "rename" => tmp = Complete(copy[p])
    /\ disk.state # "torn"

\* Some later flush will copy what this one has missed.
Waiting == dirty \/ \E q \in Procs : pc[q] = "lock"

\* What a flush copied is what memory holds, unless a later flush will follow.
CopyCurrent ==
    /\ \A p \in Procs : HasBans(p)  => copy[p].bans = mem.bans \/ Waiting
    /\ \A p \in Procs : HasRules(p) => copy[p].rules = mem.rules \/ Waiting

DiskCurrent ==
    (writable /\ descends /\ \A p \in Procs : ~Writing(p)) => disk.data = mem \/ Waiting

\* The snapshot is never ahead of a copy, nor a copy of the memory.
Ordered ==
    /\ descends => disk.data.bans <= mem.bans /\ disk.data.rules <= mem.rules
    /\ \A p \in Procs : HasBans(p) =>
          /\ copy[p].bans <= mem.bans
          /\ descends => disk.data.bans <= copy[p].bans
    /\ \A p \in Procs : HasRules(p) =>
          /\ copy[p].rules <= mem.rules
          /\ descends => disk.data.rules <= copy[p].rules

Inv == TypeOK /\ FlushInv /\ CopyCurrent /\ DiskCurrent /\ Ordered

USE DEF Labels

LEMMA EmptyIsContents == Empty \in Contents
  BY DEF Empty, Contents

LEMMA FilesTyped ==
  /\ Absent \in Files /\ Torn \in Files
  /\ Absent.state = "absent" /\ Absent.data = Empty
  BY EmptyIsContents DEF Absent, Torn, Files

LEMMA InitInv == Init => Inv
<1> SUFFICES ASSUME Init PROVE Inv
  OBVIOUS
<1> USE DEF Init
<1>1. \A p \in Procs : pc[p] = "idle"
  OBVIOUS
<1>2. TypeOK
  <2>1. \A p \in Procs : Writing(p) <=> lock = p
    BY <1>1, FileAssumption DEF Writing
  <2> QED BY <2>1, EmptyIsContents, FilesTyped DEF TypeOK
<1>3. FlushInv
  BY <1>1, FilesTyped DEF FlushInv, InFlush, Writing
<1>4. CopyCurrent
  BY <1>1 DEF CopyCurrent, HasBans, HasRules
<1>5. DiskCurrent
  BY FilesTyped DEF DiskCurrent
<1>6. Ordered
  BY <1>1, FilesTyped, EmptyIsContents DEF Ordered, HasBans, HasRules, Contents
<1> QED BY <1>2, <1>3, <1>4, <1>5, <1>6 DEF Inv

LEMMA StepType == TypeOK /\ [Next]_vars => TypeOK'
<1> SUFFICES ASSUME TypeOK, [Next]_vars PROVE TypeOK'
  OBVIOUS
<1> USE FileAssumption DEF TypeOK, Goto, Writing
<1>1. ASSUME NEW p \in Procs, Change(p) PROVE TypeOK'
  BY <1>1 DEF Change, Changed, Contents
<1>2. ASSUME NEW p \in Procs, Claim(p) PROVE TypeOK'
  BY <1>2 DEF Claim
<1>3. ASSUME NEW p \in Procs, Acquire(p) PROVE TypeOK'
  BY <1>3 DEF Acquire
<1>4. ASSUME NEW p \in Procs, CopyBans(p) PROVE TypeOK'
  BY <1>4 DEF CopyBans, Contents
<1>5. ASSUME NEW p \in Procs, CopyRules(p) PROVE TypeOK'
  BY <1>5 DEF CopyRules, Contents
<1>6. ASSUME NEW p \in Procs, Truncate(p) PROVE TypeOK'
  BY <1>6 DEF Truncate, Torn, Files, Contents, Empty
<1>7. ASSUME NEW p \in Procs, Fill(p) PROVE TypeOK'
  BY <1>7 DEF Fill, Complete, Files
<1>8. ASSUME NEW p \in Procs, Rename(p) PROVE TypeOK'
  BY <1>8 DEF Rename, Absent, Files, Contents, Empty
<1>9. ASSUME NEW p \in Procs, Fail(p) PROVE TypeOK'
  BY <1>9 DEF Fail, Absent, Files, Contents, Empty
<1>10. CASE TimerFires
  BY <1>10 DEF TimerFires, Procs
<1>11. CASE Loads \/ LoadFails \/ StartsUnwritable
  <2>1. Reboot /\ mem' \in Contents /\ writable' \in BOOLEAN /\ descends' \in BOOLEAN
    BY <1>11, EmptyIsContents DEF Loads, LoadFails, StartsUnwritable, Files
  <2>2. \A p \in Procs : pc'[p] = "idle"
    BY <2>1 DEF Reboot
  <2>3. \A p \in Procs : Writing(p)' <=> lock' = p
    BY <2>1, <2>2 DEF Reboot
  <2>4. /\ lock' \in Procs \cup {Nobody} /\ pc' \in [Procs -> Labels]
        /\ copy' \in [Procs -> Contents]
    BY <2>1, EmptyIsContents DEF Reboot
  <2>5. dirty' \in BOOLEAN /\ tmp' = tmp /\ disk' = disk /\ failures' = failures
    BY <2>1 DEF Reboot
  <2>6. restarts' \in Nat
    BY <2>1 DEF Reboot
  <2> QED BY <2>1, <2>3, <2>4, <2>5, <2>6
<1>12. CASE UNCHANGED vars
  BY <1>12 DEF vars
<1> QED BY <1>1, <1>2, <1>3, <1>4, <1>5, <1>6, <1>7, <1>8, <1>9, <1>10, <1>11, <1>12
        DEF Next, Flush

-----------------------------------------------------------------------------
(* Each part is kept by every step. *)

Restarted == Loads \/ LoadFails \/ StartsUnwritable

LEMMA RestartedIdle ==
  ASSUME Restarted PROVE \A p \in Procs : pc'[p] = "idle"
  BY DEF Restarted, Loads, LoadFails, StartsUnwritable, Reboot

LEMMA OneWriter ==
  ASSUME TypeOK, NEW p \in Procs, NEW q \in Procs, Writing(p), Writing(q) PROVE p = q
  BY DEF TypeOK

LEMMA StepFlush == Inv /\ [Next]_vars => FlushInv'
<1> SUFFICES ASSUME Inv, [Next]_vars PROVE FlushInv'
  OBVIOUS
<1> USE DEF Inv, TypeOK, FlushInv, Goto, InFlush, Writing
<1>1. ASSUME NEW p \in Procs, Change(p) PROVE FlushInv'
  BY <1>1 DEF Change
<1>2. ASSUME NEW p \in Procs, Claim(p) PROVE FlushInv'
  BY <1>2 DEF Claim
<1>3. ASSUME NEW p \in Procs, Acquire(p) PROVE FlushInv'
  BY <1>3 DEF Acquire
<1>4. ASSUME NEW p \in Procs, CopyBans(p) PROVE FlushInv'
  BY <1>4 DEF CopyBans
<1>5. ASSUME NEW p \in Procs, CopyRules(p) PROVE FlushInv'
  BY <1>5 DEF CopyRules
<1>6. ASSUME NEW p \in Procs, Truncate(p) PROVE FlushInv'
  BY <1>6 DEF Truncate
<1>7. ASSUME NEW p \in Procs, Fill(p) PROVE FlushInv'
  BY <1>7 DEF Fill
<1>8. ASSUME NEW p \in Procs, Rename(p) PROVE FlushInv'
  <2>1. disk'.state # "torn"
    BY <1>8 DEF Rename, Complete
  <2> QED BY <1>8, <2>1 DEF Rename
<1>9. ASSUME NEW p \in Procs, Fail(p) PROVE FlushInv'
  BY <1>9 DEF Fail
<1>10. CASE TimerFires
  BY <1>10 DEF TimerFires, Procs
<1>11. CASE Restarted
  BY <1>11, RestartedIdle DEF Restarted, Loads, LoadFails, StartsUnwritable, Reboot
<1>12. CASE UNCHANGED vars
  BY <1>12 DEF vars
<1> QED BY <1>1, <1>2, <1>3, <1>4, <1>5, <1>6, <1>7, <1>8, <1>9, <1>10, <1>11, <1>12
        DEF Next, Flush, Restarted

LEMMA StepCopy == Inv /\ [Next]_vars => CopyCurrent'
<1> SUFFICES ASSUME Inv, [Next]_vars PROVE CopyCurrent'
  OBVIOUS
<1> USE DEF Inv, TypeOK, CopyCurrent, Goto, HasBans, HasRules, Waiting
<1>1. ASSUME NEW p \in Procs, Change(p) PROVE CopyCurrent'
  BY <1>1 DEF Change
<1>2. ASSUME NEW p \in Procs, Claim(p) PROVE CopyCurrent'
  BY <1>2 DEF Claim
<1>3. ASSUME NEW p \in Procs, Acquire(p) PROVE CopyCurrent'
  <2>1. \A q \in Procs : ~Writing(q)
    BY <1>3, FileAssumption DEF Acquire
  <2>2. \A q \in Procs : ~HasBans(q)' /\ ~HasRules(q)'
    BY <1>3, <2>1 DEF Acquire, Writing
  <2> QED BY <2>2
<1>4. ASSUME NEW p \in Procs, CopyBans(p) PROVE CopyCurrent'
  BY <1>4 DEF CopyBans, Contents
<1>5. ASSUME NEW p \in Procs, CopyRules(p) PROVE CopyCurrent'
  BY <1>5 DEF CopyRules, Contents
<1>6. ASSUME NEW p \in Procs, Truncate(p) PROVE CopyCurrent'
  BY <1>6 DEF Truncate
<1>7. ASSUME NEW p \in Procs, Fill(p) PROVE CopyCurrent'
  BY <1>7 DEF Fill
<1>8. ASSUME NEW p \in Procs, Rename(p) PROVE CopyCurrent'
  BY <1>8 DEF Rename
<1>9. ASSUME NEW p \in Procs, Fail(p) PROVE CopyCurrent'
  BY <1>9 DEF Fail
<1>10. CASE TimerFires
  BY <1>10 DEF TimerFires, Procs
<1>11. CASE Restarted
  BY <1>11, RestartedIdle
<1>12. CASE UNCHANGED vars
  BY <1>12 DEF vars
<1> QED BY <1>1, <1>2, <1>3, <1>4, <1>5, <1>6, <1>7, <1>8, <1>9, <1>10, <1>11, <1>12
        DEF Next, Flush, Restarted

LEMMA StepDisk == Inv /\ [Next]_vars => DiskCurrent'
<1> SUFFICES ASSUME Inv, [Next]_vars PROVE DiskCurrent'
  OBVIOUS
<1> USE DEF Inv, TypeOK, DiskCurrent, Goto, Writing, Waiting
<1>1. ASSUME NEW p \in Procs, Change(p) PROVE DiskCurrent'
  BY <1>1 DEF Change
<1>2. ASSUME NEW p \in Procs, Claim(p) PROVE DiskCurrent'
  BY <1>2 DEF Claim
<1>3. ASSUME NEW p \in Procs, Acquire(p) PROVE DiskCurrent'
  BY <1>3 DEF Acquire
<1>4. ASSUME NEW p \in Procs, CopyBans(p) PROVE DiskCurrent'
  BY <1>4 DEF CopyBans
<1>5. ASSUME NEW p \in Procs, CopyRules(p) PROVE DiskCurrent'
  BY <1>5 DEF CopyRules
<1>6. ASSUME NEW p \in Procs, Truncate(p) PROVE DiskCurrent'
  BY <1>6 DEF Truncate
<1>7. ASSUME NEW p \in Procs, Fill(p) PROVE DiskCurrent'
  BY <1>7 DEF Fill
<1>8. ASSUME NEW p \in Procs, Rename(p) PROVE DiskCurrent'
  <2>1. disk'.data = copy[p] /\ mem' = mem /\ copy[p] \in Contents
    BY <1>8 DEF Rename, FlushInv, Complete
  <2>2. copy[p] = mem \/ Waiting
    BY <1>8, <2>1 DEF Rename, CopyCurrent, HasBans, HasRules, Contents
  <2>3. Waiting => Waiting'
    BY <1>8 DEF Rename
  <2> QED BY <2>1, <2>2, <2>3
<1>9. ASSUME NEW p \in Procs, Fail(p) PROVE DiskCurrent'
  BY <1>9 DEF Fail
<1>10. CASE TimerFires
  BY <1>10 DEF TimerFires, Procs
<1>11. CASE Restarted
  BY <1>11 DEF Restarted, Loads, LoadFails, StartsUnwritable, Reboot
<1>12. CASE UNCHANGED vars
  BY <1>12 DEF vars
<1> QED BY <1>1, <1>2, <1>3, <1>4, <1>5, <1>6, <1>7, <1>8, <1>9, <1>10, <1>11, <1>12
        DEF Next, Flush, Restarted

LEMMA StepOrdered == Inv /\ [Next]_vars => Ordered'
<1> SUFFICES ASSUME Inv, [Next]_vars PROVE Ordered'
  OBVIOUS
<1> USE DEF Inv, TypeOK, Ordered, Goto, HasBans, HasRules
<1>1. ASSUME NEW p \in Procs, Change(p) PROVE Ordered'
  BY <1>1 DEF Change, Changed, Contents, Files
<1>2. ASSUME NEW p \in Procs, Claim(p) PROVE Ordered'
  BY <1>2 DEF Claim
<1>3. ASSUME NEW p \in Procs, Acquire(p) PROVE Ordered'
  BY <1>3 DEF Acquire
<1>4. ASSUME NEW p \in Procs, CopyBans(p) PROVE Ordered'
  BY <1>4 DEF CopyBans, Contents, Files
<1>5. ASSUME NEW p \in Procs, CopyRules(p) PROVE Ordered'
  BY <1>5 DEF CopyRules, Contents, Files
<1>6. ASSUME NEW p \in Procs, Truncate(p) PROVE Ordered'
  BY <1>6 DEF Truncate
<1>7. ASSUME NEW p \in Procs, Fill(p) PROVE Ordered'
  BY <1>7 DEF Fill
<1>8. ASSUME NEW p \in Procs, Rename(p) PROVE Ordered'
  <2>1. disk'.data = copy[p] /\ mem' = mem
    BY <1>8 DEF Rename, FlushInv, Complete
  <2>2. \A q \in Procs : ~Writing(q)'
    BY <1>8, OneWriter DEF Rename, Writing
  <2> QED BY <1>8, <2>1, <2>2 DEF Rename, Writing
<1>9. ASSUME NEW p \in Procs, Fail(p) PROVE Ordered'
  BY <1>9 DEF Fail
<1>10. CASE TimerFires
  BY <1>10 DEF TimerFires, Procs
<1>11. CASE Restarted
  BY <1>11, RestartedIdle
     DEF Restarted, Loads, LoadFails, StartsUnwritable, Reboot, Files, Contents
<1>12. CASE UNCHANGED vars
  BY <1>12 DEF vars
<1> QED BY <1>1, <1>2, <1>3, <1>4, <1>5, <1>6, <1>7, <1>8, <1>9, <1>10, <1>11, <1>12
        DEF Next, Flush, Restarted

-----------------------------------------------------------------------------
(* The theorems. *)

\* Every reachable state of the flush protocol satisfies the inductive invariant.
THEOREM FlushInvariant == Spec => []Inv
<1>1. Inv /\ [Next]_vars => Inv'
  BY StepType, StepFlush, StepCopy, StepDisk, StepOrdered DEF Inv
<1> QED BY InitInv, <1>1, PTL DEF Spec

\* writeMu admits one writer between the copy and the rename.
THEOREM TypeCorrect == Spec => []TypeOK
<1>1. Inv => TypeOK
  BY DEF Inv
<1> QED BY FlushInvariant, <1>1, PTL

\* A death at any point leaves a whole snapshot behind.
THEOREM WholeSnapshot == Spec => []SnapshotIsWhole
<1>1. Inv => SnapshotIsWhole
  BY DEF Inv, FlushInv, SnapshotIsWhole
<1> QED BY FlushInvariant, <1>1, PTL

\* A lowered dirty flag with no flush under way means the disk has everything.
THEOREM NoChangeForgotten == Spec => []NothingForgotten
<1>1. Inv => NothingForgotten
  BY DEF Inv, DiskCurrent, NothingForgotten, InFlush, Waiting
<1> QED BY FlushInvariant, <1>1, PTL

\* No overlap of flushes replaces a snapshot by an older one.
THEOREM SnapshotsAdvance == Spec => NoOlderSnapshot
<1> DEFINE Advances == descends => /\ disk'.data.bans >= disk.data.bans
                                   /\ disk'.data.rules >= disk.data.rules
<1>1. Inv /\ [Next]_vars => [Advances]_vars
  <2> SUFFICES ASSUME Inv, Next PROVE Advances
    BY DEF vars
  <2> USE DEF Inv, TypeOK, Files, Contents
  <2>1. CASE disk' = disk
    BY <2>1
  <2>2. ASSUME NEW p \in Procs, Rename(p) PROVE Advances
    <3>1. disk'.data = copy[p]
      BY <2>2 DEF Rename, FlushInv, Complete
    <3> QED BY <2>2, <3>1 DEF Rename, Ordered, HasBans, HasRules
  <2> QED BY <2>1, <2>2
          DEF Next, Flush, Change, Claim, Acquire, CopyBans, CopyRules, Truncate, Fill, Fail,
              TimerFires, Loads, LoadFails, StartsUnwritable, Reboot
<1> QED BY FlushInvariant, <1>1, PTL DEF Spec, NoOlderSnapshot

-----------------------------------------------------------------------------
(* The Redis backend. *)

Command == {Idle} \cup [cmd : {"SET"}, key : Keys, ban : Nat] \cup [cmd : {"DEL"}, key : Keys]
Pass    == [at : {"rest", "scan", "mget"}, keys : SUBSET Keys, got : [Keys -> Nat]]

RedisTyped ==
    /\ redis \in [Keys -> Nat]
    /\ cache \in [Replicas -> [Keys -> Nat]]
    /\ writer \in [Clients -> Command]
    /\ refresh \in [Replicas -> Pass]
    /\ seen \in [Replicas -> [Keys -> SUBSET Nat]]
    /\ puts \in Nat /\ replicaRestarts \in Nat

\* While a refresh runs, `seen` follows Redis; and a key it need not ask for any more
\* has a value that was seen.
Regular(r) ==
    /\ Refreshing(r) => \A k \in Keys : redis[k] \in seen[r][k]
    /\ refresh[r].at = "mget" =>
          \A k \in Keys : k \in refresh[r].keys \/ refresh[r].got[k] \in seen[r][k]

RedisInv == RedisTyped /\ \A r \in Replicas : Regular(r)

LEMMA RedisInitInv == RedisInit => RedisInv
  BY DEF RedisInit, RedisInv, RedisTyped, Regular, Refreshing, Nothing,
         NoBan, Idle, Command, Resting, Pass

LEMMA WriteIsSeen ==
    ASSUME RedisInv, NEW k \in Keys, NEW ban \in Nat, Write(k, ban), UNCHANGED refresh
    PROVE  /\ redis' \in [Keys -> Nat] /\ seen' \in [Replicas -> [Keys -> SUBSET Nat]]
           /\ \A r \in Replicas : Regular(r)'
<1>1. redis' \in [Keys -> Nat] /\ seen' \in [Replicas -> [Keys -> SUBSET Nat]]
  BY DEF Write, RedisInv, RedisTyped
<1>2. ASSUME NEW r \in Replicas PROVE Regular(r)'
  <2>1. \A j \in Keys : seen[r][j] \subseteq seen'[r][j]
    BY DEF Write, RedisInv, RedisTyped
  <2>2. Refreshing(r) => \A j \in Keys : redis'[j] \in seen'[r][j]
    BY DEF Write, RedisInv, RedisTyped, Regular
  <2> QED BY <2>1, <2>2 DEF RedisInv, Regular, Refreshing
<1> QED BY <1>1, <1>2

LEMMA CommandsKeep ==
    ASSUME RedisInv, NEW w \in Clients,
           (\E k \in Keys : PutLocal(w, k) \/ DeleteLocal(w, k)) \/ Send(w)
    PROVE  RedisInv'
<1>1. ASSUME NEW k \in Keys, PutLocal(w, k) PROVE RedisInv'
  <2>1. puts + 1 \in Nat
    BY DEF RedisInv, RedisTyped
  <2>2. RedisTyped'
    BY <1>1, <2>1 DEF RedisInv, RedisTyped, PutLocal, Command, network
  <2> QED BY <1>1, <2>2 DEF RedisInv, PutLocal, Regular, Refreshing
<1>2. ASSUME NEW k \in Keys, DeleteLocal(w, k) PROVE RedisInv'
  <2>1. RedisTyped'
    BY <1>2 DEF RedisInv, RedisTyped, DeleteLocal, Command, NoBan
  <2> QED BY <1>2, <2>1 DEF RedisInv, DeleteLocal, Regular, Refreshing
<1>3. ASSUME PutRemote(w) \/ DeleteRemote(w) PROVE RedisInv'
  <2>1. /\ UNCHANGED <<cache, refresh, puts, replicaRestarts>>
        /\ writer' \in [Clients -> Command]
    BY <1>3 DEF PutRemote, DeleteRemote, RedisInv, RedisTyped, Command
  <2>2. \/ UNCHANGED <<redis, seen>>
        \/ \E k \in Keys, ban \in Nat : Write(k, ban)
    <3>1. CASE PutRemote(w)
      <4>1. writer[w].key \in Keys /\ writer[w].ban \in Nat
        BY <3>1 DEF PutRemote, RedisInv, RedisTyped, Command, Idle
      <4> QED BY <3>1, <4>1 DEF PutRemote
    <3>2. CASE DeleteRemote(w)
      <4>1. writer[w].key \in Keys /\ NoBan \in Nat
        BY <3>2 DEF DeleteRemote, RedisInv, RedisTyped, Command, Idle, NoBan
      <4> QED BY <3>2, <4>1 DEF DeleteRemote
    <3> QED BY <1>3, <3>1, <3>2
  <2>3. CASE UNCHANGED <<redis, seen>>
    BY <2>1, <2>3 DEF RedisInv, RedisTyped, Regular, Refreshing
  <2>4. CASE \E k \in Keys, ban \in Nat : Write(k, ban)
    BY <2>1, <2>4, WriteIsSeen DEF RedisInv, RedisTyped
  <2> QED BY <2>2, <2>3, <2>4
<1> QED BY <1>1, <1>2, <1>3 DEF Send

LEMMA RefreshKeeps ==
    ASSUME RedisInv, NEW r \in Replicas, Build(r) \/ Refresh(r)
    PROVE  RedisInv'
<1>1. /\ UNCHANGED <<redis, writer, puts, replicaRestarts>>
      /\ refresh[r] \in Pass
  BY DEF Refresh, Build, Tick, Begin, Scan, MGet, Swap, Abort,
         RedisInv, RedisTyped
<1>2. ASSUME \A q \in Replicas \ {r} : refresh'[q] = refresh[q] /\ seen'[q] = seen[q], Regular(r)'
      PROVE  \A q \in Replicas : Regular(q)'
  BY <1>1, <1>2 DEF RedisInv, Regular, Refreshing
<1>3. CASE Begin(r)
  <2>1. RedisTyped'
    <3>1. [refresh[r] EXCEPT !.at = "scan"] \in Pass
      BY <1>1 DEF Pass
    <3>2. refresh' = [refresh EXCEPT ![r] = [refresh[r] EXCEPT !.at = "scan"]]
      BY <1>3 DEF Begin, RedisInv, RedisTyped
    <3>3. [k \in Keys |-> {redis[k]}] \in [Keys -> SUBSET Nat]
      BY DEF RedisInv, RedisTyped
    <3> QED BY <1>1, <1>3, <3>1, <3>2, <3>3 DEF Begin, RedisInv, RedisTyped
  <2>2. Regular(r)'
    BY <1>1, <1>3 DEF Begin, RedisInv, RedisTyped, Regular
  <2> QED BY <1>2, <1>3, <2>1, <2>2 DEF Begin, RedisInv, RedisTyped
<1>4. CASE Scan(r)
  <2>1. PICK found \in SUBSET {k \in Keys : seen[r][k] # {NoBan}} :
            /\ {k \in Keys : NoBan \notin seen[r][k]} \subseteq found
            /\ refresh' = [refresh EXCEPT ![r] =
                  [at |-> "mget", keys |-> found, got |-> Nothing]]
    BY <1>4 DEF Scan
  <2>2. [at |-> "mget", keys |-> found, got |-> Nothing] \in Pass
    BY DEF Pass, Nothing, NoBan
  <2>3. RedisTyped'
    BY <1>1, <1>4, <2>1, <2>2 DEF Scan, RedisInv, RedisTyped
  <2>4. Regular(r)'
    BY <1>1, <1>4, <2>1 DEF Scan, RedisInv, RedisTyped, Regular, Refreshing,
                            Nothing
  <2> QED BY <1>2, <1>4, <2>1, <2>3, <2>4 DEF Scan, RedisInv, RedisTyped
<1>5. CASE MGet(r)
  <2>1. PICK batch \in SUBSET refresh[r].keys :
            refresh' = [refresh EXCEPT
                ![r].keys = @ \ batch,
                ![r].got  = [k \in Keys |-> IF k \in batch THEN redis[k] ELSE @[k]]]
    BY <1>5 DEF MGet
  <2> DEFINE pass == [at   |-> "mget", keys |-> refresh[r].keys \ batch,
                      got  |-> [k \in Keys |-> IF k \in batch THEN redis[k]
                                               ELSE refresh[r].got[k]]]
  <2>2. refresh' = [refresh EXCEPT ![r] = pass]
    BY <1>1, <1>5, <2>1 DEF MGet, RedisInv, RedisTyped, Pass
  <2>3. pass \in Pass
    BY <1>1 DEF RedisInv, RedisTyped, Pass
  <2>4. /\ pass.at = "mget" /\ pass.keys = refresh[r].keys \ batch
        /\ \A k \in Keys : pass.got[k] = IF k \in batch THEN redis[k] ELSE refresh[r].got[k]
    OBVIOUS
  <2> HIDE DEF pass
  <2>5. RedisTyped'
    BY <1>1, <1>5, <2>2, <2>3 DEF MGet, RedisInv, RedisTyped
  <2>6. refresh'[r] = pass /\ seen' = seen /\ Refreshing(r)
    BY <1>5, <2>2 DEF MGet, RedisInv, RedisTyped, Refreshing
  <2>7. \A k \in Keys : redis[k] \in seen[r][k]
    BY <2>6 DEF RedisInv, Regular
  <2>8. \A k \in Keys : k \in refresh[r].keys \/ refresh[r].got[k] \in seen[r][k]
    BY <1>5 DEF MGet, RedisInv, Regular
  <2>9. Regular(r)'
    BY <1>1, <2>4, <2>6, <2>7, <2>8 DEF Regular
  <2> QED BY <1>2, <1>5, <2>2, <2>5, <2>9 DEF MGet, RedisInv, RedisTyped
<1>6. CASE Swap(r) \/ Abort(r)
  <2>1. /\ refresh' = [refresh EXCEPT ![r] = Resting]
        /\ seen' = [seen EXCEPT ![r] = [k \in Keys |-> {}]]
    BY <1>6 DEF Swap, Abort
  <2>2. cache' \in [Replicas -> [Keys -> Nat]]
    <3>1. Loaded(r) \in [Keys -> Nat]
      BY <1>1 DEF Loaded, Pass, NoBan
    <3> QED BY <1>6, <3>1 DEF Swap, Abort, RedisInv, RedisTyped
  <2>3. Resting \in Pass
    BY DEF Resting, Pass, Nothing, NoBan
  <2>4. RedisTyped'
    BY <1>1, <2>1, <2>2, <2>3 DEF RedisInv, RedisTyped
  <2>5. Regular(r)'
    BY <2>1 DEF RedisInv, RedisTyped, Regular, Refreshing, Resting
  <2> QED BY <1>2, <2>1, <2>4, <2>5 DEF RedisInv, RedisTyped
<1> QED BY <1>3, <1>4, <1>5, <1>6 DEF Refresh, Build, Tick

LEMMA RedisStepInv == RedisInv /\ [RedisNext]_redisVars => RedisInv'
<1> SUFFICES ASSUME RedisInv, [RedisNext]_redisVars PROVE RedisInv'
  OBVIOUS
<1>1. ASSUME NEW r \in Replicas, Restart(r) PROVE RedisInv'
  <2>1. RedisTyped'
    BY <1>1 DEF Restart, RedisInv, RedisTyped, Command, Resting, Pass, Nothing,
                NoBan, network
  <2>2. \A q \in Replicas : Regular(q)'
    BY <1>1 DEF Restart, RedisInv, RedisTyped, Regular, Refreshing, Resting
  <2> QED BY <2>1, <2>2 DEF RedisInv
<1>2. CASE \/ Outage \/ Recover
           \/ \E b \in 1..MaxPuts : Lapse(b)
           \/ UNCHANGED redisVars
  <2>1. UNCHANGED <<redis, cache, writer, refresh, puts, replicaRestarts, seen>>
    BY <1>2 DEF Outage, Recover, Lapse, redisVars
  <2> QED BY <2>1 DEF RedisInv, RedisTyped, Regular, Refreshing
<1>3. ASSUME NEW k \in Keys, Expire(k) PROVE RedisInv'
  <2>1. CASE /\ Write(k, NoBan)
             /\ UNCHANGED <<cache, writer, refresh, puts, replicaRestarts>>
    <3>1. NoBan \in Nat
      BY DEF NoBan
    <3> QED BY <2>1, <3>1, WriteIsSeen DEF RedisInv, RedisTyped
  <2>2. ASSUME NEW r \in Replicas, cache' = [cache EXCEPT ![r][k] = NoBan],
               UNCHANGED <<redis, writer, refresh, puts, replicaRestarts, seen>>
        PROVE  RedisInv'
    BY <2>2 DEF RedisInv, RedisTyped, Regular, Refreshing, NoBan
  <2> QED BY <1>3, <2>1, <2>2 DEF Expire
<1> QED BY <1>1, <1>2, <1>3, CommandsKeep, RefreshKeeps DEF RedisNext

LEMMA RedisInvariant == RedisSpec => []RedisInv
  BY RedisInitInv, RedisStepInv, PTL DEF RedisSpec

\* Every verdict of a refresh is one Redis gave while it ran, whatever other replicas
\* write between its SCAN and its MGETs (store_redis.go:190-260).
THEOREM RefreshCorrect == RedisSpec => RefreshIsRegular
<1>1. RedisInv /\ [RedisNext]_redisVars =>
        [\A r \in Replicas : Swap(r) =>
            \A k \in Keys :
               \/ cache'[r][k] \in seen[r][k]
               \/ cache'[r][k] = NoBan /\ seen[r][k] \cap lapsed # {}]_redisVars
  <2> SUFFICES ASSUME RedisInv, NEW r \in Replicas, Swap(r), NEW k \in Keys
               PROVE  \/ cache'[r][k] \in seen[r][k]
                      \/ cache'[r][k] = NoBan /\ seen[r][k] \cap lapsed # {}
    OBVIOUS
  <2>1. refresh[r].got[k] \in seen[r][k]
    BY DEF RedisInv, Regular, Swap
  <2>2. cache'[r][k] = IF refresh[r].got[k] \in lapsed THEN NoBan ELSE refresh[r].got[k]
    BY DEF Swap, Loaded, RedisInv, RedisTyped
  <2> QED BY <2>1, <2>2
<1> QED BY RedisInvariant, <1>1, PTL DEF RedisSpec, RefreshIsRegular

\* Without Redis a replica goes on with the bans it has: none goes out of force there
\* but by its own doing, by time, or by a refresh that had all its answers
\* (store_redis.go:190-260).
THEOREM OutageCorrect == RedisSpec => OutageKeepsBans
<1>1. RedisInv /\ [RedisNext]_redisVars =>
        [\A r \in Replicas, k \in Keys :
            /\ ~reachable
            /\ InForce(cache[r])[k] # NoBan
            /\ cache'[r][k] # cache[r][k]
            => \/ replicaRestarts' # replicaRestarts
               \/ \E w \in Clients : HomeOf[w] = r /\ writer'[w] # writer[w] /\ writer'[w].key = k
               \/ refresh[r].at = "mget" /\ refresh[r].keys = {}]_redisVars
  <2> SUFFICES ASSUME RedisInv, [RedisNext]_redisVars, NEW r \in Replicas, NEW k \in Keys,
                      InForce(cache[r])[k] # NoBan, cache'[r][k] # cache[r][k]
               PROVE  \/ replicaRestarts' # replicaRestarts
                      \/ \E w \in Clients :
                            HomeOf[w] = r /\ writer'[w] # writer[w] /\ writer'[w].key = k
                      \/ refresh[r].at = "mget" /\ refresh[r].keys = {}
    OBVIOUS
  <2>1. cache[r][k] \notin lapsed
    BY DEF InForce
  <2>2. ASSUME NEW w \in Clients, NEW j \in Keys, PutLocal(w, j) \/ DeleteLocal(w, j)
        PROVE  HomeOf[w] = r /\ writer'[w] # writer[w] /\ writer'[w].key = k
    <3>1. HomeOf[w] = r /\ j = k
      BY <2>2 DEF PutLocal, DeleteLocal, RedisInv, RedisTyped
    <3>2. writer[w] = Idle /\ writer'[w].cmd # "none" /\ writer'[w].key = j
      BY <2>2 DEF PutLocal, DeleteLocal, RedisInv, RedisTyped
    <3> QED BY <3>1, <3>2 DEF Idle
  <2>3. ASSUME NEW q \in Replicas, Restart(q) PROVE replicaRestarts' # replicaRestarts
    BY <2>3 DEF Restart, RedisInv, RedisTyped
  <2>4. ASSUME NEW q \in Replicas, Build(q) \/ Refresh(q)
        PROVE  refresh[r].at = "mget" /\ refresh[r].keys = {}
    <3>1. Swap(q)
      BY <2>4 DEF Refresh, Build, Tick, Begin, Scan, MGet, Abort
    <3> QED BY <3>1 DEF Swap, RedisInv, RedisTyped
  <2>5. ASSUME NEW j \in Keys, Expire(j) PROVE FALSE
    BY <2>1, <2>5 DEF Expire, RedisInv, RedisTyped
  <2>6. ~(\/ Outage \/ Recover
          \/ \E b \in 1..MaxPuts : Lapse(b)
          \/ \E w \in Clients : Send(w)
          \/ UNCHANGED redisVars)
    BY DEF Outage, Recover, Lapse, Send, PutRemote,
           DeleteRemote, redisVars
  <2> QED BY <2>2, <2>3, <2>4, <2>5, <2>6 DEF RedisNext
<1> QED BY RedisInvariant, <1>1, PTL DEF RedisSpec, OutageKeepsBans
=============================================================================
