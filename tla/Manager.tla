------------------------------ MODULE Manager -------------------------------
(***************************************************************************)
(* The manager process of a server: it forks the event workers and the     *)
(* task workers, replaces those that end, reloads them when SIGUSR1 or     *)
(* SIGUSR2 arrives, and stops them when SIGTERM does.                      *)
(*                                                                         *)
(* With reload_async a worker with an event loop that is told to end, or   *)
(* has handled max_request requests, puts a message into the message box,  *)
(* sends SIGIO to the manager, which forks its successor at once, and goes *)
(* on until its event loop is empty.                                       *)
(*                                                                         *)
(* The handler of a signal runs between any two steps of the manager.  It  *)
(* discards a signal that arrives while another one is handled (_lock).    *)
(* wait() returns -1 only if a handler runs while the manager is inside.   *)
(***************************************************************************)
EXTENDS Integers, Sequences, FiniteSets, Functions

CONSTANTS
  worker_num, task_worker_num,
  reload_async,
  TaskLoop,       \* the task workers have an event loop (task_enable_coroutine)
  max_wait_time,  \* it is not 0
  Obeys,          \* a worker that was told to end does so sooner or later
  ForkMayFail,
  MaxFork,        \* bound of the forks
  MaxSignal,      \* bound of the signals SIGUSR1 and SIGUSR2
  BoxSize         \* how many messages the box holds

ManagerAssumption ==
  /\ worker_num \in Nat \ {0} /\ task_worker_num \in Nat
  /\ {reload_async, TaskLoop, max_wait_time, Obeys, ForkMayFail} \subseteq BOOLEAN
  /\ MaxSignal \in Nat /\ BoxSize \in Nat /\ MaxFork \in Nat
  /\ MaxFork >= worker_num + task_worker_num

Event == 0 .. worker_num - 1
Task == worker_num .. worker_num + task_worker_num - 1
Id == Event \cup Task
Pid == 1 .. MaxFork
NoPid == 0

VARIABLES
  pc, pid,            \* where the manager is, and what wait() returned (NoPid: -1)
  running,            \* SwooleG.running
  _lock,              \* a handler runs
  read_message, signal_alarm, force_kill,
  lists,              \* the reload_list_t of the pending timers
  workers,            \* the pid in the record of each worker
  reloading, reload_all_worker, reload_task_worker, reload_init,
  reload_worker_i, reload_worker_num, reload_worker_pid,
  reload_workers,     \* the copy of the pids
  box,                \* the message box: ids
  proc,               \* the process of each pid: none, run, term, pushed, leaving, zombie, gone
  id,                 \* the id of the worker in each process
  signals,            \* number of signals SIGUSR1 and SIGUSR2
  missed              \* a worker has put a message for which no SIGIO was handled

asked == <<reloading, reload_all_worker, reload_task_worker>>
reload == <<reload_init, reload_worker_i, reload_worker_num, reload_worker_pid, reload_workers>>
kernel == <<proc, id>>
ghosts == <<signals, missed>>
vars == <<pc, pid, running, _lock, read_message, signal_alarm, force_kill, lists, workers,
          asked, reload, box, kernel, ghosts>>

Exists(p) == p \in Pid /\ proc[p] \notin {"none", "gone"}
Alive(p) == p \in Pid /\ proc[p] \notin {"none", "gone", "zombie"}
Unused == {p \in Pid : proc[p] = "none"}
Fresh == CHOOSE p \in Unused : \A q \in Unused : p <= q

\* swManager_start() has forked every worker.
Init ==
  /\ pc = "loop" /\ pid = NoPid /\ running = TRUE /\ _lock = FALSE
  /\ read_message = FALSE /\ signal_alarm = FALSE /\ force_kill = FALSE /\ lists = <<>>
  /\ workers = [i \in Id |-> i + 1]
  /\ reloading = FALSE /\ reload_all_worker = FALSE /\ reload_task_worker = FALSE
  /\ reload_init = FALSE /\ reload_worker_i = 0 /\ reload_worker_num = 0
  /\ reload_worker_pid = NoPid /\ reload_workers = [i \in Id |-> NoPid]
  /\ box = <<>>
  /\ proc = [p \in Pid |-> IF p - 1 \in Id THEN "run" ELSE "none"]
  /\ id = [p \in Pid |-> IF p - 1 \in Id THEN p - 1 ELSE 0]
  /\ signals = 0 /\ missed = FALSE

-----------------------------------------------------------------------------
(* Signals to the manager.  swProcessPool_shutdown() blocks them. *)

Heard == pc \notin {"shutdown", "end"}

Interrupts ==
  IF pc = "wait" THEN pc' = "woken" /\ pid' = NoPid ELSE UNCHANGED <<pc, pid>>

leave ==
  /\ _lock /\ _lock' = FALSE
  /\ UNCHANGED <<pc, pid, running, read_message, signal_alarm, force_kill, lists, workers, asked,
                 reload, box, kernel, ghosts>>

SIGTERM ==
  /\ Heard /\ ~_lock /\ running
  /\ running' = FALSE /\ _lock' = TRUE /\ Interrupts
  /\ UNCHANGED <<read_message, signal_alarm, force_kill, lists, workers, asked, reload, box,
                 kernel, ghosts>>

\* A signal that finds a reload under way is dropped.
SIGUSR1 ==
  /\ Heard /\ ~_lock /\ signals < MaxSignal
  /\ signals' = signals + 1 /\ _lock' = TRUE /\ Interrupts
  /\ IF reloading THEN UNCHANGED asked
     ELSE reloading' = TRUE /\ reload_all_worker' = TRUE /\ UNCHANGED reload_task_worker
  /\ UNCHANGED <<running, read_message, signal_alarm, force_kill, lists, workers, reload, box,
                 kernel, missed>>

SIGUSR2 ==
  /\ Heard /\ ~_lock /\ signals < MaxSignal
  /\ signals' = signals + 1 /\ _lock' = TRUE /\ Interrupts
  /\ IF reloading THEN UNCHANGED asked
     ELSE reloading' = TRUE /\ reload_task_worker' = TRUE /\ UNCHANGED reload_all_worker
  /\ UNCHANGED <<running, read_message, signal_alarm, force_kill, lists, workers, reload, box,
                 kernel, missed>>

\* The alarm of the end comes once, and may be discarded.
alarmLost ==
  /\ Heard /\ _lock /\ force_kill /\ force_kill' = FALSE
  /\ UNCHANGED <<pc, pid, running, _lock, read_message, signal_alarm, lists, workers, asked, reload,
                 box, kernel, ghosts>>

\* The timer of the lists repeats it.
SIGALRM ==
  /\ Heard /\ ~_lock
  /\ \/ lists # <<>> /\ (signal_alarm => pc = "wait") /\ UNCHANGED <<force_kill, proc>>
     \/ /\ force_kill /\ force_kill' = FALSE
        /\ proc' = [p \in Pid |-> IF p \in Range(workers) /\ Alive(p) THEN "zombie" ELSE proc[p]]
  /\ signal_alarm' = TRUE /\ _lock' = TRUE /\ Interrupts
  /\ UNCHANGED <<running, read_message, lists, workers, asked, reload, box, id, ghosts>>

-----------------------------------------------------------------------------
(* The workers. *)

HasLoop(p) == id[p] \in Event \/ TaskLoop

\* swWorker_stop(), in the handler of SIGTERM or after the last request: the message, if there
\* is room, and then the signal.
push(p) ==
  /\ proc[p] \in {"run", "term"} /\ reload_async /\ HasLoop(p)
  /\ IF Len(box) < BoxSize
       THEN box' = Append(box, id[p]) /\ proc' = [proc EXCEPT ![p] = "pushed"]
       ELSE proc' = [proc EXCEPT ![p] = "leaving"] /\ UNCHANGED box
  /\ UNCHANGED <<pc, pid, running, _lock, read_message, signal_alarm, force_kill, lists, workers,
                 asked, reload, id, ghosts>>

\* SIGIO sets read_message, which the manager may be about to clear.
SIGIO(p) ==
  /\ proc[p] = "pushed"
  /\ proc' = [proc EXCEPT ![p] = "leaving"]
  /\ IF Heard /\ ~_lock
       THEN /\ _lock' = TRUE /\ read_message' = TRUE /\ Interrupts
            /\ missed' = (missed \/ pc = "clear")
       ELSE missed' = TRUE /\ UNCHANGED <<_lock, read_message, pc, pid>>
  /\ UNCHANGED <<running, signal_alarm, force_kill, lists, workers, asked, reload, box, id,
                 signals>>

\* A worker ends, by a fault, after its last request or because it was told to; the handler of
\* SIGCHLD does nothing.
exit(p) ==
  /\ Alive(p) /\ proc[p] # "pushed"
  /\ proc' = [proc EXCEPT ![p] = "zombie"]
  /\ _lock' \in {_lock, Heard}
  /\ UNCHANGED <<pc, pid, running, read_message, signal_alarm, force_kill, lists, workers, asked,
                 reload, box, id, ghosts>>

-----------------------------------------------------------------------------
(* swManager_loop() *)

\* pid is not used again before wait() assigns it.
loop ==
  /\ ~_lock /\ pc = "loop"
  /\ pc' = IF running THEN "call" ELSE "stop"
  /\ pid' = NoPid
  /\ UNCHANGED <<running, _lock, read_message, signal_alarm, force_kill, lists, workers,
                 asked, reload, box, kernel, ghosts>>

\* The signal that comes before this step is handled before wait() begins.
call ==
  /\ ~_lock /\ pc = "call" /\ pc' = "wait"
  /\ UNCHANGED <<pid, running, _lock, read_message, signal_alarm, force_kill, lists, workers,
                 asked, reload, box, kernel, ghosts>>

wait ==
  /\ ~_lock /\ pc = "wait"
  /\ \E p \in Pid : /\ proc[p] = "zombie"
                    /\ proc' = [proc EXCEPT ![p] = "gone"] /\ pid' = p
  /\ pc' = "woken"
  /\ UNCHANGED <<running, _lock, read_message, signal_alarm, force_kill, lists, workers, asked,
                 reload, box, id, ghosts>>

\* Faulty variant: the successor of a worker is not entered in its record.
Spawn_Stale(i) ==
  /\ Unused # {}
  /\ proc' = [proc EXCEPT ![Fresh] = "run"] /\ id' = [id EXCEPT ![Fresh] = i]
  /\ UNCHANGED workers

\* swManager_spawn_worker(), or swProcessPool_spawn() for a task worker.
Spawn(i) ==
  /\ Unused # {}
  /\ proc' = [proc EXCEPT ![Fresh] = "run"] /\ id' = [id EXCEPT ![Fresh] = i]
  /\ workers' = [workers EXCEPT ![i] = Fresh]

NoSpawn == UNCHANGED <<kernel, workers>>

\* The messages, of either kind of worker, are popped until the box is empty, and read_message
\* is cleared after that.
readMessage ==
  /\ ~_lock /\ pc = "woken"
  /\ pc' = IF ~read_message THEN "timer" ELSE IF box = <<>> THEN "clear" ELSE pc
  /\ IF read_message /\ box # <<>>
       THEN /\ box' = Tail(box)
            /\ IF running THEN Spawn(Head(box)) \/ (ForkMayFail /\ NoSpawn) ELSE NoSpawn
       ELSE NoSpawn /\ UNCHANGED box
  /\ UNCHANGED <<pid, running, _lock, read_message, signal_alarm, force_kill, lists, asked, reload,
                 ghosts>>

clear ==
  /\ ~_lock /\ pc = "clear"
  /\ read_message' = FALSE /\ pc' = "timer"
  /\ UNCHANGED <<pid, running, _lock, signal_alarm, force_kill, lists, workers, asked, reload, box,
                 kernel, ghosts>>

\* The oldest list is due: those of it that are still there are killed.
swManager_kill_timeout_process ==
  /\ lists' = Tail(lists)
  /\ proc' = [p \in Pid |-> IF p \in Head(lists) /\ Alive(p) THEN "zombie" ELSE proc[p]]

swTimer_select ==
  /\ ~_lock /\ pc = "timer"
  /\ IF signal_alarm /\ lists # <<>>
       THEN /\ signal_alarm' = FALSE
            /\ swManager_kill_timeout_process \/ UNCHANGED <<lists, proc>>
       ELSE UNCHANGED <<signal_alarm, lists, proc>>
  /\ pc' = IF pid = NoPid THEN "failed" ELSE "reaped"
  /\ UNCHANGED <<pid, running, _lock, read_message, force_kill, workers, asked, reload, box, id,
                 ghosts>>

swManager_add_timeout_killer(ids) ==
  IF max_wait_time THEN <<{workers[i] : i \in ids}>> ELSE <<>>

\* wait() returned -1, and both kinds of workers are to be reloaded.  With reload_async the event
\* workers are told to end all at once.
reloadAll ==
  IF reload_init THEN UNCHANGED <<asked, reload, lists, proc>>
  ELSE /\ reload_init' = TRUE /\ reload_workers' = workers /\ reload_all_worker' = FALSE
       /\ reload_worker_num' = worker_num + task_worker_num
       /\ lists' = lists \o swManager_add_timeout_killer(Event)
                         \o (IF task_worker_num > 0
                               THEN swManager_add_timeout_killer(Task) ELSE <<>>)
       /\ IF reload_async
            THEN /\ proc' = [p \in Pid |-> IF proc[p] = "run" /\ \E i \in Event : workers[i] = p
                                             THEN "term" ELSE proc[p]]
                 /\ reload_worker_i' = worker_num
            ELSE reload_worker_i' = 0 /\ UNCHANGED proc
       /\ UNCHANGED <<reloading, reload_task_worker, reload_worker_pid>>

\* Only the task workers are.
reloadTasks ==
  IF reload_init THEN UNCHANGED <<asked, reload, lists>>
  ELSE /\ reload_init' = TRUE /\ reload_task_worker' = FALSE /\ reload_worker_i' = 0
       /\ reload_workers' = [i \in Id |-> IF i < task_worker_num THEN workers[worker_num + i]
                                          ELSE reload_workers[i]]
       /\ reload_worker_num' = task_worker_num
       /\ lists' = lists \o swManager_add_timeout_killer(Task)
       /\ UNCHANGED <<reloading, reload_all_worker, reload_worker_pid>>

failed ==
  /\ ~_lock /\ pc = "failed"
  /\ \/ /\ ~reloading \/ ~(reload_all_worker \/ reload_task_worker)
        /\ pc' = "loop" /\ UNCHANGED <<asked, reload, lists, proc>>
     \/ /\ reloading /\ reload_all_worker
        /\ reloadAll /\ pc' = "kill"
     \/ /\ reloading /\ ~reload_all_worker /\ reload_task_worker
        /\ IF task_worker_num = 0
             THEN /\ reloading' = FALSE /\ pc' = "loop"
                  /\ UNCHANGED <<reload_all_worker, reload_task_worker, reload, lists>>
             ELSE reloadTasks /\ pc' = "kill"
        /\ UNCHANGED proc
  /\ UNCHANGED <<pid, running, _lock, read_message, signal_alarm, force_kill, workers, box, id,
                 ghosts>>

\* A child has ended.  The fork of an event worker is tried until it succeeds.
reaped ==
  /\ ~_lock /\ pc = "reaped"
  /\ IF running /\ \E i \in Id : workers[i] = pid
       THEN LET i == CHOOSE j \in Id : workers[j] = pid IN
            Spawn(i) \/ (i \in Task /\ ForkMayFail /\ NoSpawn)
       ELSE NoSpawn
  /\ reload_worker_i' = IF running /\ reloading /\ pid = reload_worker_pid
                          THEN reload_worker_i + 1 ELSE reload_worker_i
  /\ pc' = "kill"
  /\ UNCHANGED <<pid, running, _lock, read_message, signal_alarm, force_kill, lists, asked,
                 reload_init, reload_worker_num, reload_worker_pid, reload_workers, box, ghosts>>

\* _kill_worker: the next one of the reload is told to end; one that is gone is passed over.
\* After a reload its number and its copy of the pids are not used again before they are assigned.
_kill_worker ==
  /\ ~_lock /\ pc = "kill"
  /\ \/ ~reloading /\ pc' = "loop" /\ UNCHANGED <<reloading, reload, proc>>
     \/ /\ reloading /\ reload_worker_i >= reload_worker_num
        /\ reload_worker_pid' = NoPid /\ reload_worker_i' = 0
        /\ reload_init' = FALSE /\ reloading' = FALSE
        /\ reload_worker_num' = 0 /\ reload_workers' = [i \in Id |-> NoPid]
        /\ pc' = "loop" /\ UNCHANGED proc
     \/ /\ reloading /\ reload_worker_i < reload_worker_num
        /\ LET p == reload_workers[reload_worker_i] IN
           /\ reload_worker_pid' = p
           /\ IF Exists(p)
                THEN /\ proc' = IF proc[p] = "run" THEN [proc EXCEPT ![p] = "term"] ELSE proc
                     /\ pc' = "loop" /\ UNCHANGED reload_worker_i
                ELSE reload_worker_i' = reload_worker_i + 1 /\ UNCHANGED <<pc, proc>>
        /\ UNCHANGED <<reloading, reload_init, reload_worker_num, reload_workers>>
  /\ UNCHANGED <<pid, running, _lock, read_message, signal_alarm, force_kill, lists, workers,
                 reload_all_worker, reload_task_worker, box, id, ghosts>>

Told(ids) ==
  [p \in Pid |-> IF proc[p] = "run" /\ \E i \in ids : workers[i] = p THEN "term" ELSE proc[p]]
Reaped(ids) ==
  [p \in Pid |-> IF proc[p] = "zombie" /\ \E i \in ids : workers[i] = p THEN "gone" ELSE proc[p]]
AllDead(ids) == \A i \in ids : ~Alive(workers[i])

\* The end of the loop: the timers go, the alarm is set, and the event workers are told to end.
stop ==
  /\ ~_lock /\ pc = "stop"
  /\ lists' = <<>> /\ force_kill' = max_wait_time
  /\ proc' = Told(Event) /\ pc' = "swManager_kill_workers"
  /\ UNCHANGED <<pid, running, _lock, read_message, signal_alarm, workers, asked, reload, box, id,
                 ghosts>>

\* waitpid() of the event workers; then swProcessPool_shutdown() blocks the signals and tells the
\* task workers to end.
swManager_kill_workers ==
  /\ ~_lock /\ pc = "swManager_kill_workers" /\ AllDead(Event)
  /\ proc' = [p \in Pid |-> IF p \in {workers[i] : i \in Event} THEN Reaped(Event)[p]
                            ELSE Told(Task)[p]]
  /\ pc' = "shutdown"
  /\ UNCHANGED <<pid, running, _lock, read_message, signal_alarm, force_kill, lists, workers,
                 asked, reload, box, id, ghosts>>

swManager_kill_task_workers ==
  /\ ~_lock /\ pc = "shutdown" /\ AllDead(Task)
  /\ proc' = Reaped(Task) /\ force_kill' = FALSE /\ pc' = "end"
  /\ UNCHANGED <<pid, running, _lock, read_message, signal_alarm, lists, workers, asked, reload,
                 box, id, ghosts>>

MainLoop ==
  \/ loop \/ call \/ wait \/ readMessage \/ clear \/ swTimer_select \/ failed \/ reaped
  \/ _kill_worker \/ stop \/ swManager_kill_workers \/ swManager_kill_task_workers

Next ==
  \/ MainLoop \/ leave \/ SIGTERM \/ SIGUSR1 \/ SIGUSR2 \/ SIGALRM \/ alarmLost
  \/ \E p \in Pid : push(p) \/ SIGIO(p) \/ exit(p)

Spec == Init /\ [][Next]_vars

\* The manager and its handlers run; the timer fires until the lists are empty; a worker that
\* runs swWorker_stop() goes through it, and one that was told to end does where Obeys says so.
Fairness ==
  /\ WF_vars(MainLoop) /\ WF_vars(leave) /\ SF_vars(SIGALRM)
  /\ SF_vars(swTimer_select /\ lists' # lists)
  /\ \A p \in Pid : WF_vars(proc[p] = "term" /\ push(p)) /\ WF_vars(SIGIO(p))
  /\ Obeys => \A p \in Pid : WF_vars(proc[p] \in {"term", "leaving"} /\ exit(p))

FairSpec == Spec /\ Fairness

-----------------------------------------------------------------------------
\* Every variable has its type.
TypeOK ==
  /\ pid \in {NoPid} \cup Pid /\ workers \in [Id -> Pid]
  /\ reload_workers \in [Id -> {NoPid} \cup Pid]
  /\ reload_worker_i \in 0 .. worker_num + task_worker_num
  /\ reload_worker_num \in {0, task_worker_num, worker_num + task_worker_num}
  /\ id \in [Pid -> Id] /\ Range(box) \subseteq Id /\ Len(box) <= BoxSize

\* A worker that has not been told to end is the one in its record: the manager has not started
\* two for one id.
NoTwin ==
  \A p \in Pid : proc[p] = "run" => workers[id[p]] = p

\* The same, as long as every message was followed by a SIGIO that the manager could see.
NoTwinUnlessMissed == ~missed => NoTwin

\* A process that was forked and not reaped is in its record or has been told to end: the
\* manager can still reach it when it stops.
ReachedOrLeaving ==
  ~missed => \A p \in Pid :
    Exists(p) => workers[id[p]] = p \/ proc[p] \in {"pushed", "leaving", "zombie"}

HasProcess(i) == \E p \in Pid : Alive(p) /\ id[p] = i
Excused == ~running \/ Unused = {}

\* An id does not stay without a process: not after a crash, and not when a message, its SIGIO or
\* the fork is lost.  Nobody tries the fork of a task worker again.
Served ==
  \A i \in IF ForkMayFail THEN Event ELSE Id : ~HasProcess(i) ~> (HasProcess(i) \/ Excused)

Listed(p) == \E n \in DOMAIN lists : p \in lists[n]

\* With max_wait_time every worker of a list goes, whatever it does.
LimitedReload == \A p \in Pid : Listed(p) ~> (proc[p] = "gone" \/ Excused)

\* With max_wait_time the manager gets through the end of the task workers, whatever they do.
\* Refuted: the code does otherwise (README.md, Disagreements).
TaskStopEnds == pc = "shutdown" ~> pc = "end"
=============================================================================
