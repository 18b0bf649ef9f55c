------------------------------ MODULE FileStore ------------------------------
(***************************************************************************)
(* The file backend of store_file.go: how changes of the in-memory state   *)
(* reach the snapshot on disk while request goroutines, the console and    *)
(* the janitor change it and flush it concurrently, writes fail, and the   *)
(* process dies and comes back.                                            *)
(*                                                                         *)
(* The contents are abstracted to versions: every change of the ban table  *)
(* or of the saved rules makes the next one, so the order of two contents  *)
(* is the order in which memory held them.  The three locks are kept apart *)
(* as the code keeps them: memStore.mu makes each step on the flag or the  *)
(* table atomic, writeMu covers copy, write and rename.                    *)
(***************************************************************************)
EXTENDS Integers

CONSTANTS
    Writers,     \* goroutines that change the table and flush it at once
    Janitor,     \* the goroutine that flushes on a timer
    Nobody,      \* writeMu is free
    MaxVersion,  \* bound: changes of either part
    MaxFailures, \* bound: writes and renames that fail
    MaxRestarts  \* bound: deaths of the process

Procs == Writers \cup {Janitor}

ASSUME FileAssumption ==
    /\ Janitor \notin Writers
    /\ Nobody \notin Procs
    /\ MaxVersion \in Nat /\ MaxFailures \in Nat /\ MaxRestarts \in Nat

VARIABLES
    mem,       \* the ban table and the saved rules in memory
    dirty,     \* memStore.dirty
    writable,  \* fileStore.writable
    lock,      \* the holder of fileStore.writeMu
    pc,        \* where each goroutine is
    copy,      \* the snapshotFile each flush is building
    tmp,       \* path + ".tmp": absent, torn, or complete
    disk,      \* the snapshot at path
    descends,  \* memory was loaded from disk, or disk written from memory
    failures, restarts

vars == <<mem, dirty, writable, lock, pc, copy, tmp, disk, descends, failures, restarts>>

Contents == [bans : Nat, rules : Nat]
Empty    == [bans |-> 0, rules |-> 0]

Absent         == [state |-> "absent", data |-> Empty]
Torn           == [state |-> "torn", data |-> Empty]
Complete(data) == [state |-> "complete", data |-> data]

Goto(p, label) == pc' = [pc EXCEPT ![p] = label]

-----------------------------------------------------------------------------
(* Changes.  Whoever makes one flushes next. *)

Changed(c) == {[c EXCEPT !.bans = @ + 1], [c EXCEPT !.rules = @ + 1]}

\* put, delete, saveOverrides, or a janitor sweep that removed something.
Change(p) ==
    /\ pc[p] = "idle"
    /\ mem' \in {c \in Changed(mem) : c.bans <= MaxVersion /\ c.rules <= MaxVersion}
    /\ dirty' = TRUE
    /\ Goto(p, "claim")
    /\ UNCHANGED <<writable, lock, copy, tmp, disk, descends, failures, restarts>>

\* The janitor flushes on its timer whether or not its sweep removed anything.
TimerFires ==
    /\ pc[Janitor] = "idle"
    /\ Goto(Janitor, "claim")
    /\ UNCHANGED <<mem, dirty, writable, lock, copy, tmp, disk, descends, failures, restarts>>

-----------------------------------------------------------------------------
(* flush *)

\* clearDirtyIfSet: claim the pending changes BEFORE copying the table.
Claim(p) ==
    /\ pc[p] = "claim"
    /\ IF writable /\ dirty
       THEN dirty' = FALSE /\ Goto(p, "lock")
       ELSE Goto(p, "idle") /\ UNCHANGED dirty
    /\ UNCHANGED <<mem, writable, lock, copy, tmp, disk, descends, failures, restarts>>

\* Mutant of Acquire: no mutex around copy, write and rename.
AcquireUnlocked(p) ==
    /\ pc[p] = "lock"
    /\ lock' = p
    /\ Goto(p, "bans")
    /\ UNCHANGED <<mem, dirty, writable, copy, tmp, disk, descends, failures, restarts>>

Acquire(p) ==
    /\ pc[p] = "lock"
    /\ lock = Nobody
    /\ lock' = p
    /\ Goto(p, "bans")
    /\ UNCHANGED <<mem, dirty, writable, copy, tmp, disk, descends, failures, restarts>>

\* snapshot and loadOverrides take memStore.mu one after the other.
CopyBans(p) ==
    /\ pc[p] = "bans"
    /\ copy' = [copy EXCEPT ![p].bans = mem.bans]
    /\ Goto(p, "rules")
    /\ UNCHANGED <<mem, dirty, writable, lock, tmp, disk, descends, failures, restarts>>

CopyRules(p) ==
    /\ pc[p] = "rules"
    /\ copy' = [copy EXCEPT ![p].rules = mem.rules]
    /\ Goto(p, "write")
    /\ UNCHANGED <<mem, dirty, writable, lock, tmp, disk, descends, failures, restarts>>

\* Mutant of Truncate: the snapshot is rewritten in place.
TruncateInPlace(p) ==
    /\ pc[p] = "write"
    /\ tmp' = Torn
    /\ disk' = Torn
    /\ Goto(p, "fill")
    /\ UNCHANGED <<mem, dirty, writable, lock, copy, descends, failures, restarts>>

\* os.WriteFile truncates the temporary file first and fills it then.
Truncate(p) ==
    /\ pc[p] = "write"
    /\ tmp' = Torn
    /\ Goto(p, "fill")
    /\ UNCHANGED <<mem, dirty, writable, lock, copy, disk, descends, failures, restarts>>

Fill(p) ==
    /\ pc[p] = "fill"
    /\ tmp' = Complete(copy[p])
    /\ Goto(p, "rename")
    /\ UNCHANGED <<mem, dirty, writable, lock, copy, disk, descends, failures, restarts>>

\* Mutant of Rename: the flag is cleared once the file is written.
RenameThenClear(p) ==
    /\ pc[p] = "rename"
    /\ disk' = tmp
    /\ tmp' = Absent
    /\ descends' = TRUE
    /\ lock' = Nobody
    /\ dirty' = FALSE
    /\ Goto(p, "idle")
    /\ UNCHANGED <<mem, writable, copy, failures, restarts>>

Rename(p) ==
    /\ pc[p] = "rename"
    /\ disk' = tmp
    /\ tmp' = Absent
    /\ descends' = TRUE
    /\ lock' = Nobody
    /\ Goto(p, "idle")
    /\ UNCHANGED <<mem, dirty, writable, copy, failures, restarts>>

\* Mutant of Fail: the error path forgets the flag.
FailSilently(p) ==
    /\ pc[p] \in {"write", "fill", "rename"}
    /\ failures < MaxFailures
    /\ failures' = failures + 1
    /\ tmp' = IF pc[p] = "rename" THEN Absent ELSE tmp
    /\ lock' = Nobody
    /\ Goto(p, "idle")
    /\ UNCHANGED <<mem, dirty, writable, copy, disk, descends, restarts>>

\* The write or the rename failed: the flag goes back up.
Fail(p) ==
    /\ pc[p] \in {"write", "fill", "rename"}
    /\ failures < MaxFailures
    /\ failures' = failures + 1
    /\ dirty' = TRUE
    /\ tmp' = IF pc[p] = "rename" THEN Absent ELSE tmp
    /\ lock' = Nobody
    /\ Goto(p, "idle")
    /\ UNCHANGED <<mem, writable, copy, disk, descends, restarts>>

Flush(p) ==
    \/ Claim(p) \/ Acquire(p) \/ CopyBans(p) \/ CopyRules(p)
    \/ Truncate(p) \/ Fill(p) \/ Rename(p) \/ Fail(p)

-----------------------------------------------------------------------------
(* The process dies at any point and newFileStore starts over. *)

Reboot ==
    /\ restarts < MaxRestarts
    /\ restarts' = restarts + 1
    /\ lock' = Nobody
    /\ pc' = [p \in Procs |-> "idle"]
    /\ copy' = [p \in Procs |-> Empty]
    /\ dirty' = FALSE
    /\ UNCHANGED <<tmp, disk, failures>>

\* load and restore: an absent snapshot is an empty one.
Loads ==
    /\ disk.state # "torn"
    /\ Reboot
    /\ writable' = TRUE
    /\ mem' = disk.data
    /\ descends' = TRUE

\* The snapshot cannot be read, and failOpen: start empty, go on persisting.
LoadFails ==
    /\ disk.state # "absent"
    /\ Reboot
    /\ writable' = TRUE
    /\ mem' = Empty
    /\ descends' = FALSE

\* The directory is not writable, and failOpen: memory only.
StartsUnwritable ==
    /\ Reboot
    /\ writable' = FALSE
    /\ mem' = Empty
    /\ descends' = FALSE

-----------------------------------------------------------------------------

Init ==
    /\ mem = Empty
    /\ dirty = FALSE
    /\ writable = TRUE
    /\ lock = Nobody
    /\ pc = [p \in Procs |-> "idle"]
    /\ copy = [p \in Procs |-> Empty]
    /\ tmp = Absent
    /\ disk = Absent
    /\ descends = TRUE
    /\ failures = 0
    /\ restarts = 0

Next ==
    \/ \E p \in Procs : Change(p) \/ Flush(p)
    \/ TimerFires
    \/ Loads \/ LoadFails \/ StartsUnwritable

\* Goroutines are scheduled, writeMu is handed on, and the janitor's timer keeps
\* firing.  Nothing makes a change, a failure or a death happen.
Fairness ==
    /\ \A p \in Procs : WF_vars(Flush(p))
    /\ WF_vars(TimerFires)

Spec     == Init /\ [][Next]_vars
FairSpec == Spec /\ Fairness

-----------------------------------------------------------------------------
(* Properties. *)

Labels == {"idle", "claim", "lock", "bans", "rules", "write", "fill", "rename"}
Files  == [state : {"absent", "torn", "complete"}, data : Contents]

Writing(p) == pc[p] \in {"bans", "rules", "write", "fill", "rename"}
InFlush(p) == Writing(p) \/ pc[p] = "lock"

\* Well-typed, and writeMu is held by the goroutine between copy and rename.
TypeOK ==
    /\ mem \in Contents
    /\ dirty \in BOOLEAN /\ writable \in BOOLEAN /\ descends \in BOOLEAN
    /\ lock \in Procs \cup {Nobody}
    /\ pc \in [Procs -> Labels]
    /\ copy \in [Procs -> Contents]
    /\ tmp \in Files /\ disk \in Files
    /\ failures \in Nat /\ restarts \in Nat
    /\ \A p \in Procs : Writing(p) <=> lock = p

\* A reader never finds half a snapshot, whenever the process died: the file at
\* path only ever appears by renaming a complete one.
SnapshotIsWhole == disk.state # "torn"

\* No change is ever forgotten: once no flush is under way and the flag is down,
\* the snapshot is the memory (unless memory did not come from this disk).
NothingForgotten ==
    (writable /\ descends /\ ~dirty /\ \A p \in Procs : ~InFlush(p)) => disk.data = mem

\* The snapshot never goes back to an older table or older rules, however many
\* flushes overlap, as long as memory descends from it.
NoOlderSnapshot ==
    [][descends => /\ disk'.data.bans >= disk.data.bans
                   /\ disk'.data.rules >= disk.data.rules]_vars

\* Every change reaches the disk in the end, although its own flush may have
\* found the flag already claimed and although writes fail now and then, unless
\* the process dies first or cannot persist.
EventuallyDurable ==
    \A v \in 1..MaxVersion :
        (mem.bans = v /\ writable) ~> (disk.data.bans >= v \/ mem.bans < v)
=============================================================================
