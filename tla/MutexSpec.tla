------------------------------ MODULE MutexSpec ------------------------------
(***************************************************************************)
(* What TeaBot\Telegram\Mutex promises its callers, without the coroutine  *)
(* managers, the kernel or the worker processes that provide it: a handle  *)
(* asks for the lock of its file, gets it when nobody has it, and gives it *)
(* back once.  Handles may vanish together (their process died).           *)
(***************************************************************************)

CONSTANTS
  File,      \* lock files
  Handle,    \* Mutex objects, one open file description each
  NoHandle,
  fileOf     \* the file each Mutex was opened on

VARIABLES
  holder,    \* holder[f]: the handle that has the lock of f, or NoHandle
  phase      \* phase[h]: where the handle is in its lock/unlock cycle

mutexVars == <<holder, phase>>

Init ==
  /\ holder = [f \in File |-> NoHandle]
  /\ phase = [h \in Handle |-> "idle"]

Request(h) ==
  /\ phase[h] = "idle"
  /\ phase' = [phase EXCEPT ![h] = "waiting"]
  /\ UNCHANGED holder

Acquire(h) ==
  /\ phase[h] = "waiting"
  /\ holder[fileOf[h]] = NoHandle
  /\ holder' = [holder EXCEPT ![fileOf[h]] = h]
  /\ phase' = [phase EXCEPT ![h] = "holding"]

Release(h) ==
  /\ phase[h] = "holding"
  /\ holder[fileOf[h]] = h
  /\ holder' = [holder EXCEPT ![fileOf[h]] = NoHandle]
  /\ phase' = [phase EXCEPT ![h] = "released"]

Lose(lost) ==
  /\ holder' = [f \in File |-> IF holder[f] \in lost THEN NoHandle ELSE holder[f]]
  /\ phase' = [h \in Handle |-> IF h \in lost THEN "lost" ELSE phase[h]]

Next ==
  \/ \E h \in Handle : Request(h) \/ Acquire(h) \/ Release(h)
  \/ \E lost \in SUBSET Handle : Lose(lost)

Spec == Init /\ [][Next]_mutexVars
==============================================================================
