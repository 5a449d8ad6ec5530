------------------------------ MODULE FileLock ------------------------------
(***************************************************************************)
(* TeaBot\Telegram\Mutex (Mutex.php) on top of Swoole's hooked flock()     *)
(* (file_lock.cc, plain_wrapper.c).                                        *)
(*                                                                         *)
(* A worker process runs many coroutines on one thread.  A coroutine that  *)
(* meets a lock taken inside its own process is parked in the queue of the *)
(* process's file_lock_manager for that path; otherwise it calls the       *)
(* blocking flock(2), which stops the whole thread, and with it every      *)
(* coroutine of the process, until the kernel grants the lock.  A release  *)
(* resumes the oldest parked coroutine at once, and that one calls flock(2)*)
(* in its turn: between LOCK_UN and LOCK_EX another process may get in.    *)
(*                                                                         *)
(* A handle is one Mutex object: a path, an open file description, and the *)
(* coroutine that uses it.  Lock files are never unlinked by Mutex.php, so *)
(* a path and its inode are the same thing here (realpath() succeeds).     *)
(***************************************************************************)
EXTENDS Naturals, Sequences

CONSTANTS
  Proc,      \* worker processes
  File,      \* lock files (paths under TELEGRAM_MUTEXES_LOCK_DIR)
  Handle,    \* Mutex objects
  NoHandle,
  procOf,    \* the process a handle lives in
  fileOf,    \* the file it was opened on
  outer      \* the handle its coroutine already holds when it locks, or NoHandle

ASSUME HandleAssumption ==
  /\ NoHandle \notin Handle
  /\ procOf \in [Handle -> Proc]
  /\ fileOf \in [Handle -> File]
  /\ outer \in [Handle -> Handle \cup {NoHandle}]
  /\ \A h \in Handle : outer[h] # NoHandle => procOf[outer[h]] = procOf[h]

VARIABLES
  alive,     \* processes that have not died
  lock_pool, \* <<p, f>>: p has a manager for f (its lock_ex flag is set)
  queue,     \* queue[<<p, f>>]: the coroutines parked in that manager
  owner,     \* kernel: owner[f] holds flock(2) on f, or NoHandle
  state,     \* state[h]: progress of the handle
  thread     \* thread[p]: the handle whose flock(2) the thread of p is in

vars == <<alive, lock_pool, queue, owner, state, thread>>

State == {"open", "queued", "flock", "held", "unlocked", "closed", "dead"}
Key == Proc \X File

key(h) == <<procOf[h], fileOf[h]>>
Inner(h) == {g \in Handle : outer[g] = h}
OuterHeld(h) == \A g \in Handle : outer[h] = g => state[g] = "held"

\* The coroutine of h can run: its process lives and its thread is not in flock(2).
Running(h) == procOf[h] \in alive /\ thread[procOf[h]] = NoHandle

Init ==
  /\ alive = Proc
  /\ lock_pool = {}
  /\ queue = [k \in Key |-> <<>>]
  /\ owner = [f \in File |-> NoHandle]
  /\ state = [h \in Handle |-> "open"]
  /\ thread = [p \in Proc |-> NoHandle]

-----------------------------------------------------------------------------
\* Mutex::lock() => lock_ex(): a manager with lock_ex set parks the caller,
\* else the flag is set and the thread enters the blocking flock(fd, LOCK_EX).
CanLock(h) ==
  /\ Running(h)
  /\ state[h] = "open"
  /\ OuterHeld(h)

\* Faulty variant: the manager is not consulted.
LockParks_Never(h) == FALSE

LockParks(h) == key(h) \in lock_pool

lock(h) ==
  /\ CanLock(h)
  /\ IF LockParks(h)
     THEN /\ queue' = [queue EXCEPT ![key(h)] = Append(@, h)]
          /\ state' = [state EXCEPT ![h] = "queued"]
          /\ UNCHANGED <<lock_pool, thread>>
     ELSE /\ lock_pool' = lock_pool \cup {key(h)}
          /\ state' = [state EXCEPT ![h] = "flock"]
          /\ thread' = [thread EXCEPT ![procOf[h]] = h]
          /\ UNCHANGED queue
  /\ UNCHANGED <<alive, owner>>

\* The kernel grants flock(2) to one of the processes waiting for the file.
KernelFree(f) == owner[f] = NoHandle

flockReturns(h) ==
  /\ procOf[h] \in alive
  /\ state[h] = "flock"
  /\ KernelFree(fileOf[h])
  /\ owner' = [owner EXCEPT ![fileOf[h]] = h]
  /\ state' = [state EXCEPT ![h] = "held"]
  /\ thread' = [thread EXCEPT ![procOf[h]] = NoHandle]
  /\ UNCHANGED <<alive, lock_pool, queue>>

\* Faulty variant: the manager outlives its last user.
PoolAfterRelease_Kept(h) == lock_pool

\* Faulty variant: the manager is dropped although coroutines are still parked in it.
PoolAfterRelease_Dropped(h) == lock_pool \ {key(h)}

\* lock_release(): with an empty queue the manager is deleted; else its oldest
\* coroutine is popped and resumed on the spot, after LOCK_UN, and calls flock(2).
PoolAfterRelease(h) == IF queue[key(h)] = <<>> THEN lock_pool \ {key(h)} ELSE lock_pool

\* Faulty variant: the lock is given back without resuming a parked coroutine.
lock_release_NoResume(h, after) ==
  /\ owner' = [owner EXCEPT ![fileOf[h]] = NoHandle]
  /\ state' = [state EXCEPT ![h] = after]
  /\ lock_pool' = PoolAfterRelease(h)
  /\ UNCHANGED <<alive, queue, thread>>

lock_release(h, after) ==
  /\ owner' = [owner EXCEPT ![fileOf[h]] = NoHandle]
  /\ lock_pool' = PoolAfterRelease(h)
  /\ IF queue[key(h)] = <<>>
     THEN /\ state' = [state EXCEPT ![h] = after]
          /\ UNCHANGED <<queue, thread>>
     ELSE LET co == Head(queue[key(h)]) IN
          /\ queue' = [queue EXCEPT ![key(h)] = Tail(@)]
          /\ state' = [state EXCEPT ![h] = after, ![co] = "flock"]
          /\ thread' = [thread EXCEPT ![procOf[h]] = co]
  /\ UNCHANGED alive

\* The code under the lock is over: no Mutex taken inside it is still in use.
CanRelease(h) ==
  /\ Running(h)
  /\ state[h] = "held"
  /\ \A g \in Inner(h) : state[g] \in {"open", "closed"}

\* Mutex::unlock()
unlock(h) == CanRelease(h) /\ lock_release(h, "unlocked")

\* Mutex::__destruct(): fclose() gives the lock back only if lock_flag still says
\* LOCK_EX (an exception left the locked section without unlock()).
closeLocked(h) == CanRelease(h) /\ lock_release(h, "closed")

\* Faulty variant: fclose() releases whatever lock_flag says.
closeUnlocked_Releases(h) ==
  /\ Running(h)
  /\ state[h] = "unlocked"
  /\ lock_release(h, "closed")

closeUnlocked(h) ==
  /\ Running(h)
  /\ state[h] = "unlocked"
  /\ state' = [state EXCEPT ![h] = "closed"]
  /\ UNCHANGED <<alive, lock_pool, queue, owner, thread>>

\* An uncaught exception ends the process; it is never forked again.  Its memory
\* (managers, queues) is gone and the kernel drops the locks of its descriptors.
HandlesOf(p) == {h \in Handle : procOf[h] = p}

OwnerAfterExit(p) ==
  [f \in File |-> IF owner[f] \in HandlesOf(p) THEN NoHandle ELSE owner[f]]

die(p) ==
  /\ p \in alive
  /\ thread[p] = NoHandle
  /\ alive' = alive \ {p}
  /\ lock_pool' = {k \in lock_pool : k[1] # p}
  /\ queue' = [k \in Key |-> IF k[1] = p THEN <<>> ELSE queue[k]]
  /\ owner' = OwnerAfterExit(p)
  /\ state' = [h \in Handle |-> IF procOf[h] = p THEN "dead" ELSE state[h]]
  /\ UNCHANGED thread

Step(h) == lock(h) \/ flockReturns(h) \/ unlock(h) \/ closeLocked(h) \/ closeUnlocked(h)

Next == (\E h \in Handle : Step(h)) \/ (\E p \in Proc : die(p))

Spec == Init /\ [][Next]_vars

(***************************************************************************)
(* The kernel grants a free lock, and the code under a lock, which ends    *)
(* after its database and API calls, gives it back; nothing makes a        *)
(* coroutine ask for a lock.                                               *)
(***************************************************************************)
Fairness ==
  \A h \in Handle :
    /\ WF_vars(flockReturns(h))
    /\ WF_vars(unlock(h) \/ closeLocked(h) \/ closeUnlocked(h))

FairSpec == Spec /\ Fairness

-----------------------------------------------------------------------------
\* Every variable has its type; a manager queues handles of its own process and
\* path, and a thread waits for a handle of its own process.
TypeOK ==
  /\ alive \in SUBSET Proc
  /\ lock_pool \in SUBSET Key
  /\ queue \in [Key -> Seq(Handle)]
  /\ \A k \in Key : \A i \in 1..Len(queue[k]) :
       procOf[queue[k][i]] = k[1] /\ fileOf[queue[k][i]] = k[2]
  /\ owner \in [File -> Handle \cup {NoHandle}]
  /\ state \in [Handle -> State]
  /\ thread \in [Proc -> Handle \cup {NoHandle}]

\* Two Mutex objects of one file are never both locked, in one process or in two:
\* what every critical section of the loggers (resolveUser, trackPhoto, ...) needs.
MutualExclusion ==
  \A g, h \in Handle :
    state[g] = "held" /\ state[h] = "held" /\ fileOf[g] = fileOf[h] => g = h

\* A thread that blocks in flock(2) never waits for a coroutine of its own process,
\* which could then not run to release the lock: lock_ex() parks such callers.
NoSelfDeadlock ==
  \A p \in Proc : thread[p] # NoHandle =>
    owner[fileOf[thread[p]]] \notin HandlesOf(p)

Acquiring(k) == {h \in Handle : key(h) = k /\ state[h] \in {"flock", "held"}}

\* A parked coroutine always has somebody in its process whose release will resume
\* it: lock_release() is the only place that pops the queue.
NoOrphanWaiter ==
  \A h \in Handle : state[h] = "queued" => Acquiring(key(h)) # {}

\* A manager exists only while a handle of its process has or takes the lock; one
\* left behind would park every later lock() of that path for ever.
NoLeakedManager == \A k \in lock_pool : Acquiring(k) # {}

\* lock() never overtakes a coroutine parked earlier in the same manager: lock_ex
\* stays set across the hand-over in lock_release().
NoBarging ==
  [][\A h \in Handle : state[h] = "open" /\ state'[h] = "flock" =>
       ~ \E g \in Handle : key(g) = key(h) /\ state[g] = "queued"]_vars

\* The kernel's owner, the blocked threads, the managers and their queues all agree
\* with the progress of the handles (the inductive invariant of the lock).
OwnerAgrees ==
  /\ \A h \in Handle : state[h] = "held" <=> owner[fileOf[h]] = h
  /\ \A x \in File : owner[x] # NoHandle => fileOf[owner[x]] = x

ThreadAgrees ==
  /\ \A h \in Handle : state[h] = "flock" <=> thread[procOf[h]] = h
  /\ \A p \in Proc : thread[p] # NoHandle => procOf[thread[p]] = p

PoolAgrees ==
  /\ \A h \in Handle : state[h] \in {"flock", "held"} => key(h) \in lock_pool
  /\ \A k \in lock_pool : \E h \in Handle : key(h) = k /\ state[h] \in {"flock", "held"}
  /\ \A x, y \in Handle :
       /\ state[x] \in {"flock", "held"}
       /\ state[y] \in {"flock", "held"}
       /\ key(x) = key(y)
       => x = y

QueueAgrees ==
  /\ \A h \in Handle : state[h] = "queued" =>
       \E i \in 1..Len(queue[key(h)]) : queue[key(h)][i] = h
  /\ \A k \in Key : \A i \in 1..Len(queue[k]) : state[queue[k][i]] = "queued"
  /\ \A k \in Key : \A i, j \in 1..Len(queue[k]) : queue[k][i] = queue[k][j] => i = j
  /\ \A k \in Key : queue[k] # <<>> => k \in lock_pool

DeadAgrees == \A h \in Handle : procOf[h] \notin alive => state[h] = "dead"

LockAgrees == OwnerAgrees /\ ThreadAgrees /\ PoolAgrees /\ QueueAgrees /\ DeadAgrees

\* The lock as a whole: two Mutex objects of one file are never both locked, no thread waits
\* in flock(2) for a coroutine of its own process, a parked coroutine always has somebody
\* whose lock_release() will resume it, and no manager is left behind to park others.
LockSafe ==
  /\ TypeOK /\ LockAgrees
  /\ MutualExclusion /\ NoSelfDeadlock /\ NoOrphanWaiter /\ NoLeakedManager

Unfinished(h) ==
  \/ state[h] \in {"queued", "flock", "held", "unlocked"}
  \/ state[h] = "open" /\ OuterHeld(h)

CanStep(h) ==
  \/ CanLock(h) \/ CanRelease(h)
  \/ Running(h) /\ state[h] = "unlocked"
  \/ state[h] = "flock" /\ KernelFree(fileOf[h])

\* The process that keeps the thread of p in flock(2).
BlockedBy(p) == procOf[owner[fileOf[thread[p]]]]

\* When unfinished handles remain and none can move, worker processes block each
\* other: each one's thread is in flock(2) for a file that a parked coroutine of
\* another of them has locked.  The managers and the nesting of Mutexes add no
\* other way to get stuck.
StuckOnlyByCycle ==
  (\E h \in Handle : Unfinished(h)) /\ (\A h \in Handle : ~ CanStep(h)) =>
    \E S \in SUBSET Proc :
      /\ S # {}
      /\ \A p \in S :
           /\ thread[p] # NoHandle
           /\ owner[fileOf[thread[p]]] # NoHandle
           /\ BlockedBy(p) \in S \ {p}

\* A lock() call returns, unless its process dies.
LockServed ==
  \A h \in Handle : state[h] \in {"queued", "flock"} ~> state[h] \in {"held", "dead"}

\* The handles behave as the locks that Mutex promises: flock(2)'s owner is the
\* holder, and parking, queues and blocked threads are all just waiting.
phaseOf(s) ==
  CASE s = "open" -> "idle"
    [] s \in {"queued", "flock"} -> "waiting"
    [] s = "held" -> "holding"
    [] s \in {"unlocked", "closed"} -> "released"
    [] s = "dead" -> "lost"

Abstract == INSTANCE MutexSpec WITH
  holder <- owner, phase <- [h \in Handle |-> phaseOf(state[h])]

ImplementsMutex == Abstract!Spec
=============================================================================
