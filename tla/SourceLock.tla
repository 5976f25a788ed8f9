------------------------------ MODULE SourceLock ------------------------------
(* The lock file that keeps two processes of the live editing tool from writing *)
(* one source file at a time (withSourceLockSync in live/source-lock.mjs).      *)
(* Every step is one call of the file system or of the kernel; between any two  *)
(* of them another process may run.  A process takes the lock once.            *)
EXTENDS FiniteSets

CONSTANTS
  Procs,
  Stallers   \* those whose lock may be a minute old when its age is looked at

VARIABLES
  lock,     \* the lock file: who created it, and whether its text is written
  pc,       \* where each process is
  seen,     \* whose lock clearStaleLock has read
  stalled   \* the processes whose lock is older than UNREADABLE_LOCK_STALE_MS

vars == <<lock, pc, seen, stalled>>

NoLock == [owner |-> {}, readable |-> FALSE]
LockOf(p) == [owner |-> {p}, readable |-> FALSE]
Mine(p) == lock.owner = {p}

Init ==
  /\ lock = NoLock
  /\ pc = [p \in Procs |-> "idle"]
  /\ seen = [p \in Procs |-> {}]
  /\ stalled = {}

Goto(p, to) == pc' = [pc EXCEPT ![p] = to]
Step(p, from, to) == pc[p] = from /\ Goto(p, to)

Call(p) == Step(p, "idle", "clear") /\ UNCHANGED <<lock, seen, stalled>>

-----------------------------------------------------------------------------
(* clearStaleLock.                                                              *)

ReadLock(p) ==
  /\ pc[p] = "clear"
  /\ Goto(p, CASE lock = NoLock -> "open"
               [] lock.readable -> "check"
               [] OTHER -> "stat")
  /\ seen' = [seen EXCEPT ![p] = lock.owner]
  /\ UNCHANGED <<lock, stalled>>

CheckPid(p) ==
  /\ pc[p] = "check"
  /\ Goto(p, IF \E q \in seen[p] : pc[q] = "exited" THEN "sweep" ELSE "open")
  /\ UNCHANGED <<lock, seen, stalled>>

\* The file that is looked at need not be the one that could not be read.
CheckAge(p) ==
  /\ pc[p] = "stat"
  /\ Goto(p, IF lock.owner \cap stalled # {} THEN "sweep" ELSE "open")
  /\ UNCHANGED <<lock, seen, stalled>>

\* Whatever the file is by now, it goes.
Sweep(p) == Step(p, "sweep", "open") /\ lock' = NoLock /\ UNCHANGED <<seen, stalled>>

-----------------------------------------------------------------------------
(* withSourceLockSync and releaseOwnLock.                                       *)

Create(p) ==
  /\ lock = NoLock /\ Step(p, "open", "write")
  /\ lock' = LockOf(p)
  /\ UNCHANGED <<seen, stalled>>

\* The file exists: once more, or SOURCE_LOCKED when the deadline has passed.
Exists(p) ==
  /\ lock # NoLock /\ (Step(p, "open", "clear") \/ Step(p, "open", "done"))
  /\ UNCHANGED <<lock, seen, stalled>>

\* What is written to a file that was unlinked is lost with it.
Write(p) ==
  /\ Step(p, "write", "section")
  /\ lock' = IF Mine(p) THEN [lock EXCEPT !.readable = TRUE] ELSE lock
  /\ stalled' = stalled \ {p}
  /\ UNCHANGED seen

\* The disk is full: the call throws, and the empty file stays.
WriteFails(p) == Step(p, "write", "done") /\ UNCHANGED <<lock, seen, stalled>>

Finish(p) == Step(p, "section", "release") /\ UNCHANGED <<lock, seen, stalled>>

\* A lock that is readable and has another token is left alone.
ReadOwn(p) ==
  /\ Step(p, "release", IF lock.readable /\ ~Mine(p) THEN "done" ELSE "unlink")
  /\ UNCHANGED <<lock, seen, stalled>>

Unlink(p) == Step(p, "unlink", "done") /\ lock' = NoLock /\ UNCHANGED <<seen, stalled>>

\* A process ends, after its call or in the middle of it.
Exit(p) ==
  /\ pc[p] # "exited" /\ Goto(p, "exited")
  /\ UNCHANGED <<lock, seen, stalled>>

\* A minute passes while the file is empty, or while somebody who has found it
\* empty has yet to look at its age.
Stall(p) ==
  /\ p \in Stallers /\ Mine(p)
  /\ ~lock.readable \/ \E q \in Procs : pc[q] = "stat"
  /\ stalled' = stalled \cup {p}
  /\ UNCHANGED <<lock, pc, seen>>

Process(p) ==
  \/ Call(p) \/ ReadLock(p) \/ CheckPid(p) \/ CheckAge(p) \/ Sweep(p)
  \/ Create(p) \/ Exists(p) \/ Write(p) \/ WriteFails(p) \/ Finish(p) \/ ReadOwn(p)
  \/ Unlink(p)
Next == \E p \in Procs : Process(p) \/ Exit(p) \/ Stall(p)

Spec == Init /\ [][Next]_vars

-----------------------------------------------------------------------------
(* Properties.                                                                  *)

\* Two writers are never in the source file at once: a lock is taken away only
\* from an owner that is gone (the comment of clearStaleLock).
MutualExclusion ==
  \A p, q \in Procs : pc[p] = "section" /\ pc[q] = "section" => p = q

\* No process has ended and none is stalled.
AllLive == stalled = {} /\ \A p \in Procs : pc[p] # "exited"

\* As long as all live, two writers are never in the source file at once: what the
\* exclusive creation of the file and the token of its owner do achieve.
ExclusiveWhileAllLive == []AllLive => []MutualExclusion
=============================================================================
