---------------------------- MODULE MCScheduling ----------------------------
(***************************************************************************)
(* The parts of Swoole that decide who runs next and who is woken: the     *)
(* switch of coroutines, what coroutines wait for, the timers and the      *)
(* event loop, the threads behind blocking calls, and the processes of a   *)
(* pool and of a server.                                                   *)
(*                                                                         *)
(* The parts share no variable, so running them together would only        *)
(* interleave steps that do not depend on each other.  A behaviour         *)
(* therefore picks one part, which moves, while the others stay where they *)
(* begin.  A name that several parts have is prefixed with its part.       *)
(***************************************************************************)
EXTENDS Coroutine, CoWait, WaitPid, WaitSignal, CoSocket, AsyncThreads, Integers

VARIABLES
  part,
  heap, timer_map, num, _next_id, _current_id, _next_msec, exec_msec, interval,
  timer_added, removed, timeout_msec, check_timer, timer_defer_tasks, timer_running, timer_pc,
  now_msec, now, waiting, events, deferred, timer_fired, cleared, timer_late,
  event_open, epoll, socket, event_socket_map, event_num, batch, event_defer_tasks, doing,
  event_pc, ops, event_exited, fault,
  pool_pc, pool_pid, pool_running, pool_signal_alarm, pool_timers, pool_workers, pool_map,
  pool_reload_workers, pool_reloading, pool_reload_init, pool_reload_worker_i,
  pool_reload_worker_pid, pool_proc, pool_signals,
  manager_pc, manager_pid, manager_running, _lock, read_message, manager_signal_alarm,
  force_kill, lists, manager_workers, manager_reloading, reload_all_worker, reload_task_worker,
  manager_reload_init, manager_reload_worker_i, reload_worker_num, manager_reload_worker_pid,
  manager_reload_workers, box, manager_proc, id, manager_signals, manager_missed

Silence == INSTANCE Coroutine WITH max_num <- 1, MaxSilence <- 1, MaxDefer <- 0

Timer == INSTANCE Timer WITH Node <- 1 .. 2, type <- "min", Msec <- 1 .. 2, MaxNow <- 2,
  MaxEvent <- 1, MaxDefer <- 1, map <- timer_map, added <- timer_added,
  defer_tasks <- timer_defer_tasks, running <- timer_running, pc <- timer_pc,
  fired <- timer_fired, late <- timer_late

\* Two descriptors, or more calls on one, of a user who gives every callback and deletes before
\* closing; and a user who need not, and passes the numbers of other flags.
EventLoop == INSTANCE EventLoop WITH Fd <- 1 .. 2, Sock <- 11 .. 13, None <- 0, MaxOp <- 3,
  Flags <- {}, Complete <- TRUE, DelFirst <- TRUE, open <- event_open,
  defer_tasks <- event_defer_tasks, pc <- event_pc, exited <- event_exited

LongLoop == INSTANCE EventLoop WITH Fd <- 1 .. 1, Sock <- 11 .. 12, None <- 0, MaxOp <- 5,
  Flags <- {}, Complete <- TRUE, DelFirst <- TRUE, open <- event_open,
  defer_tasks <- event_defer_tasks, pc <- event_pc, exited <- event_exited

Careless == INSTANCE EventLoop WITH Fd <- 1 .. 1, Sock <- 11 .. 12, None <- 0, MaxOp <- 3,
  Flags <- {"error", "once"}, Complete <- FALSE, DelFirst <- FALSE, open <- event_open,
  defer_tasks <- event_defer_tasks, pc <- event_pc, exited <- event_exited

ProcessPool == INSTANCE ProcessPool WITH worker_num <- 2, max_wait_time <- FALSE, Obeys <- TRUE,
  MaxFork <- 4, MaxSignal <- 2, pc <- pool_pc, pid <- pool_pid, running <- pool_running,
  signal_alarm <- pool_signal_alarm, timers <- pool_timers, workers <- pool_workers,
  map <- pool_map, reload_workers <- pool_reload_workers, reloading <- pool_reloading,
  reload_init <- pool_reload_init, reload_worker_i <- pool_reload_worker_i,
  reload_worker_pid <- pool_reload_worker_pid, proc <- pool_proc, signals <- pool_signals

LimitedPool == INSTANCE ProcessPool WITH worker_num <- 2, max_wait_time <- TRUE, Obeys <- FALSE,
  MaxFork <- 4, MaxSignal <- 2, pc <- pool_pc, pid <- pool_pid, running <- pool_running,
  signal_alarm <- pool_signal_alarm, timers <- pool_timers, workers <- pool_workers,
  map <- pool_map, reload_workers <- pool_reload_workers, reloading <- pool_reloading,
  reload_init <- pool_reload_init, reload_worker_i <- pool_reload_worker_i,
  reload_worker_pid <- pool_reload_worker_pid, proc <- pool_proc, signals <- pool_signals

\* An event worker with reload_async, whose forks may fail.
Manager == INSTANCE Manager WITH worker_num <- 1, task_worker_num <- 0, reload_async <- TRUE,
  TaskLoop <- FALSE, max_wait_time <- FALSE, Obeys <- TRUE, ForkMayFail <- TRUE, MaxFork <- 3,
  MaxSignal <- 1, BoxSize <- 1,
  pc <- manager_pc, pid <- manager_pid, running <- manager_running,
  signal_alarm <- manager_signal_alarm, workers <- manager_workers,
  reloading <- manager_reloading, reload_init <- manager_reload_init,
  reload_worker_i <- manager_reload_worker_i, reload_worker_pid <- manager_reload_worker_pid,
  reload_workers <- manager_reload_workers, proc <- manager_proc, signals <- manager_signals,
  missed <- manager_missed

\* An event worker and a task worker that has an event loop, with reload_async.
TaskManager == INSTANCE Manager WITH worker_num <- 1, task_worker_num <- 1,
  reload_async <- TRUE, TaskLoop <- TRUE, max_wait_time <- FALSE, Obeys <- TRUE,
  ForkMayFail <- FALSE, MaxFork <- 3, MaxSignal <- 0, BoxSize <- 1,
  pc <- manager_pc, pid <- manager_pid, running <- manager_running,
  signal_alarm <- manager_signal_alarm, workers <- manager_workers,
  reloading <- manager_reloading, reload_init <- manager_reload_init,
  reload_worker_i <- manager_reload_worker_i, reload_worker_pid <- manager_reload_worker_pid,
  reload_workers <- manager_reload_workers, proc <- manager_proc, signals <- manager_signals,
  missed <- manager_missed

\* An event worker and a task worker without, and a limit for their end.
SyncManager == INSTANCE Manager WITH worker_num <- 1, task_worker_num <- 1,
  reload_async <- FALSE, TaskLoop <- FALSE, max_wait_time <- TRUE, Obeys <- FALSE,
  ForkMayFail <- FALSE, MaxFork <- 4, MaxSignal <- 1, BoxSize <- 1,
  pc <- manager_pc, pid <- manager_pid, running <- manager_running,
  signal_alarm <- manager_signal_alarm, workers <- manager_workers,
  reloading <- manager_reloading, reload_init <- manager_reload_init,
  reload_worker_i <- manager_reload_worker_i, reload_worker_pid <- manager_reload_worker_pid,
  reload_workers <- manager_reload_workers, proc <- manager_proc, signals <- manager_signals,
  missed <- manager_missed

ASSUME PartsAssumption ==
  /\ Silence!CoroutineAssumption
  /\ Timer!TimerAssumption /\ Timer!HeapAssumption
  /\ EventLoop!EventLoopAssumption /\ LongLoop!EventLoopAssumption
  /\ Careless!EventLoopAssumption
  /\ ProcessPool!ProcessPoolAssumption /\ LimitedPool!ProcessPoolAssumption
  /\ Manager!ManagerAssumption /\ TaskManager!ManagerAssumption
  /\ SyncManager!ManagerAssumption

timerVars == <<heap, timer_map, num, _next_id, _current_id, _next_msec, exec_msec,
  interval, timer_added, removed, timeout_msec, check_timer, timer_defer_tasks, timer_running,
  timer_pc, now_msec, now, waiting, events, deferred, timer_fired, cleared, timer_late>>
eventVars == <<event_open, epoll, socket, event_socket_map, event_num, batch, event_defer_tasks,
  doing, event_pc, event_exited, ops, fault>>
poolVars == <<pool_pc, pool_pid, pool_running, pool_signal_alarm, pool_timers, pool_workers,
  pool_map, pool_reload_workers, pool_reloading, pool_reload_init, pool_reload_worker_i,
  pool_reload_worker_pid, pool_proc, pool_signals>>
managerVars == <<manager_pc, manager_pid, manager_running, _lock, read_message,
  manager_signal_alarm, force_kill, lists, manager_workers, manager_reloading,
  reload_all_worker, reload_task_worker, manager_reload_init, manager_reload_worker_i,
  reload_worker_num, manager_reload_worker_pid, manager_reload_workers, box, manager_proc, id,
  manager_signals, manager_missed>>
all == <<part, vars, waitVars, timerVars, eventVars, childVars, signalVars, aioVars, socketVars,
  poolVars, managerVars>>

EventParts == {"EventLoop", "LongLoop", "Careless"}
PoolParts == {"ProcessPool", "LimitedPool"}
ManagerParts == {"Manager", "TaskManager", "SyncManager"}
Parts == {"Coroutine", "Silence", "CoWait", "Timer", "WaitPid", "WaitSignal", "AsyncThreads",
  "CoSocket"} \cup EventParts \cup PoolParts \cup ManagerParts

SchedulingInit ==
  /\ part \in Parts
  /\ Init /\ WaitInit /\ Timer!Init /\ ChildInit /\ SignalInit /\ AioInit /\ SocketInit
  /\ ProcessPool!Init
  /\ part # "CoSocket" => program = {"recv", "send", "dns4", "close"}
  /\ IF part \in {"LongLoop", "Careless"} THEN LongLoop!Init ELSE EventLoop!Init
  /\ CASE part = "TaskManager" -> TaskManager!Init
       [] part = "SyncManager" -> SyncManager!Init
       [] OTHER -> Manager!Init

\* Only part p moves.
Only(p) ==
  /\ part = p /\ UNCHANGED part
  /\ p \notin {"Coroutine", "Silence"} => UNCHANGED vars
  /\ p # "CoWait" => UNCHANGED waitVars
  /\ p # "Timer" => UNCHANGED timerVars
  /\ p \notin EventParts => UNCHANGED eventVars
  /\ p # "WaitPid" => UNCHANGED childVars
  /\ p # "WaitSignal" => UNCHANGED signalVars
  /\ p # "AsyncThreads" => UNCHANGED aioVars
  /\ p # "CoSocket" => UNCHANGED socketVars
  /\ p \notin PoolParts => UNCHANGED poolVars
  /\ p \notin ManagerParts => UNCHANGED managerVars

SchedulingNext ==
  \/ Only("Coroutine") /\ Next
  \/ Only("Silence") /\ Silence!Next
  \/ Only("CoWait") /\ WaitNext
  \/ Only("Timer") /\ Timer!Next
  \/ Only("EventLoop") /\ EventLoop!Next
  \/ Only("LongLoop") /\ LongLoop!Next
  \/ Only("Careless") /\ Careless!Next
  \/ Only("WaitPid") /\ ChildNext
  \/ Only("WaitSignal") /\ SignalNext
  \/ Only("AsyncThreads") /\ AioNext
  \/ Only("CoSocket") /\ SocketNext
  \/ Only("ProcessPool") /\ ProcessPool!Next
  \/ Only("LimitedPool") /\ LimitedPool!Next
  \/ Only("Manager") /\ Manager!Next
  \/ Only("TaskManager") /\ TaskManager!Next
  \/ Only("SyncManager") /\ SyncManager!Next

SchedulingSpec == SchedulingInit /\ [][SchedulingNext]_all

\* The variables of the part that moves.
moving ==
  CASE part \in {"Coroutine", "Silence"} -> vars
    [] part = "CoWait" -> waitVars
    [] part = "Timer" -> timerVars
    [] part \in EventParts -> eventVars
    [] part = "WaitPid" -> childVars
    [] part = "WaitSignal" -> signalVars
    [] part = "AsyncThreads" -> aioVars
    [] part = "CoSocket" -> socketVars
    [] part \in PoolParts -> poolVars
    [] OTHER -> managerVars

Moves(p) == part = p /\ UNCHANGED part

\* The fairness of every part, as its module states it.  No two disjuncts of one of these
\* are about one part, so each is fair as if it stood alone.
Loops ==
  \/ Moves("CoWait") /\ WaitLoop
  \/ Moves("Timer") /\ Timer!Loop
  \/ Moves("EventLoop") /\ EventLoop!Turn
  \/ Moves("LongLoop") /\ LongLoop!Turn
  \/ Moves("WaitSignal") /\ event_wait
  \/ Moves("AsyncThreads") /\ swAio_callback
  \/ Moves("CoSocket") /\ on_pending
  \/ Moves("ProcessPool") /\ ProcessPool!Master
  \/ Moves("LimitedPool") /\ LimitedPool!Master
  \/ Moves("Manager") /\ Manager!MainLoop
  \/ Moves("TaskManager") /\ TaskManager!MainLoop
  \/ Moves("SyncManager") /\ SyncManager!MainLoop

Ticks ==
  \/ Moves("Timer") /\ Timer!tick
  \/ Moves("EventLoop") /\ EventLoop!return
  \/ Moves("LongLoop") /\ LongLoop!return
  \/ Moves("ProcessPool") /\ ProcessPool!SIGALRM
  \/ Moves("LimitedPool") /\ LimitedPool!SIGALRM
  \/ Moves("Manager") /\ Manager!leave
  \/ Moves("TaskManager") /\ TaskManager!leave
  \/ Moves("SyncManager") /\ SyncManager!leave

Threads == <<"t1", "t2">>
Events == <<"e1", "e2">>

Works(i) ==
  \/ Moves("WaitPid") /\ i <= 2 /\ ChildRuns(i)
  \/ Moves("WaitSignal") /\ i <= 2 /\ onSignal(10 + i)
  \/ Moves("AsyncThreads") /\ i <= 2 /\ ThreadWorks(Threads[i])
  \/ Moves("CoSocket") /\ i <= 3 /\ closes(i)
  \/ Moves("Manager") /\ i <= 3 /\ manager_proc[i] = "term" /\ Manager!push(i)
  \/ Moves("TaskManager") /\ i <= 3 /\ manager_proc[i] = "term" /\ TaskManager!push(i)

Wakes(i) ==
  \/ Moves("WaitSignal") /\ i <= 2 /\ signal_timeout(i)
  \/ Moves("AsyncThreads") /\ i <= 2 /\ aio_pc[Threads[i]] = "notified"
       /\ wakeUp(Threads[i])
  \/ Moves("Manager") /\ i <= 3 /\ Manager!SIGIO(i)
  \/ Moves("TaskManager") /\ i <= 3 /\ TaskManager!SIGIO(i)

Exits(i) ==
  \/ Moves("AsyncThreads") /\ i <= 2 /\ aio_dispatch(Events[i])
  \/ Moves("ProcessPool") /\ pool_proc[i] = "term" /\ ProcessPool!exit(i)
  \/ Moves("Manager") /\ i <= 3 /\ manager_proc[i] \in {"term", "leaving"}
       /\ Manager!exit(i)
  \/ Moves("TaskManager") /\ i <= 3 /\ manager_proc[i] \in {"term", "leaving"}
       /\ TaskManager!exit(i)

Recurs ==
  \/ Moves("WaitPid") /\ ChildLoop
  \/ Moves("CoSocket") /\ \E c \in Users : leave(c)
  \/ Moves("AsyncThreads") /\ aio_pipe # <<>> /\ aio_schedule("read")
  \/ Moves("ProcessPool") /\ ProcessPool!swTimer_select /\ pool_timers' < pool_timers
  \/ Moves("LimitedPool") /\ LimitedPool!swTimer_select /\ pool_timers' < pool_timers
  \/ Moves("SyncManager") /\ SyncManager!SIGALRM

TimesOut(i) ==
  \/ Moves("CoWait") /\ \E w \in Wakeup : w[1] = i /\ on_timer(w)
  \/ Moves("WaitPid") /\ i <= 2 /\ child_timeout(i)
  \/ Moves("CoSocket") /\ i <= 2
       /\ timer_callback(IF i = 1 THEN "read_timer" ELSE "write_timer")
  \/ Moves("CoSocket") /\ i = 3 /\ on_events
  \/ Moves("SyncManager") /\ i = 1 /\ SyncManager!swTimer_select /\ lists' # lists

FairSpec ==
  /\ SchedulingSpec
  /\ WF_moving(Loops) /\ WF_moving(Ticks)
  /\ \A i \in 1 .. 3 : WF_moving(Works(i)) /\ WF_moving(Wakes(i)) /\ SF_moving(TimesOut(i))
  /\ \A i \in 1 .. 4 : WF_moving(Exits(i))
  /\ SF_moving(Recurs)

\* The heap, the map and the count of timers agree, also while callbacks add and clear
\* timers; what swTimer_select() takes off the heap is the timer it has called, and it calls
\* a timer once; the loop waits no longer than for the first timer, unless a deferred task
\* has added one, and ends when there is none (core/timer.cc, reactor/base.cc).
TimersKept ==
  /\ [](/\ Timer!TypeOK /\ Timer!TimersAgree /\ Timer!PopsWhatFired /\ Timer!NeverForgotten
        /\ Timer!WaitsForFirst /\ Timer!EndsEmpty)
  /\ Timer!FiresOnce

\* Neither the kernel nor the batch being handled points to a freed object, and the loop ends
\* only when it listens to nothing, or by Event::exit(), or after SW_EVENT_ONCE has counted a
\* descriptor out twice.  If the user passes no other flag than SW_EVENT_READ and
\* SW_EVENT_WRITE, gives a callback for every event listened for, and calls Event::del() before
\* fclose(), then no event is handled through a deleted object, none is freed twice, and
\* event_num counts what the kernel listens to; and a missing object (NULL) is met only after a
\* hang-up of a descriptor that was set to listen for nothing and has no callback for writing
\* (swoole_event.cc, reactor/epoll.cc).
LoopSound ==
  /\ part \notin {"LongLoop", "Careless"} =>
       /\ EventLoop!TypeOK /\ EventLoop!PointersLive /\ EventLoop!EndsEmpty
       /\ EventLoop!NoFault /\ EventLoop!CountAgrees
  /\ part = "LongLoop" =>
       /\ LongLoop!TypeOK /\ LongLoop!PointersLive /\ LongLoop!EndsEmpty
       /\ LongLoop!NoFault /\ LongLoop!CountAgrees
  /\ part = "Careless" => Careless!TypeOK /\ Careless!PointersLive /\ Careless!EndsEmpty

\* A pool has every process it forked in one record and finds it there when it ends, also when
\* the timer of a reload fires in the next one, and a reload without a limit takes one worker at
\* a time (os/process_pool.cc).  The manager of a server can reach every worker or has told it
\* to end, and has started no two for one id; with reload_async that holds until a SIGIO is
\* missed: the worker of the message that was not read may end and be replaced first, and is
\* replaced once more when the message is read (server/manager.cc).
PoolsAgree ==
  /\ ProcessPool!TypeOK /\ ProcessPool!NoOrphan /\ ProcessPool!MapAgrees
  /\ part # "LimitedPool" => ProcessPool!OneAtATime
  /\ part \notin {"TaskManager", "SyncManager"} =>
       Manager!TypeOK /\ Manager!NoTwinUnlessMissed /\ Manager!ReachedOrLeaving
  /\ part = "TaskManager" =>
       TaskManager!TypeOK /\ TaskManager!NoTwinUnlessMissed /\ TaskManager!ReachedOrLeaving
  /\ part = "SyncManager" => SyncManager!TypeOK /\ SyncManager!NoTwin

\* What is waited for in each part, in two groups, and when the wait is over.
IsWaiting(i) ==
  CASE part = "CoWait" -> WaitLimited(i)
    [] part = "CoSocket" -> Plain /\ Limited(i)
    [] part = "Timer" -> Timer!DueInTime(i)
    [] part = "WaitPid" -> child[10 + i] = "zombie" /\ WaitedFor(10 + i)
    [] part = "WaitSignal" -> Called(i)
    [] part = "AsyncThreads" -> IF i = 1 THEN aio_dispatched # {} ELSE ~ aio_running
    [] part = "EventLoop" -> i = 1 /\ EventLoop!Deserted
    [] part = "LongLoop" -> i = 1 /\ LongLoop!Deserted
    [] part = "ProcessPool" -> i = 1 /\ \E p \in 1 .. 4 : pool_proc[p] = "zombie"
    [] part = "LimitedPool" -> \E p \in 2 * i - 1 .. i + 1 : LimitedPool!StillToReplace(p)
    [] part = "Manager" -> i = 1 /\ ~Manager!HasProcess(0)
    [] part = "TaskManager" -> ~TaskManager!HasProcess(i - 1)
    [] part = "SyncManager" -> SyncManager!Listed(i)
    [] OTHER -> FALSE

IsServed(i) ==
  CASE part = "CoWait" -> Over(i)
    [] part = "CoSocket" -> pc[i] \notin Waits \/ crashed
    [] part = "Timer" -> Timer!Over(i)
    [] part = "WaitPid" -> Noticed(10 + i)
    [] part = "WaitSignal" -> Answered(i)
    [] part = "AsyncThreads" ->
         IF i = 1 THEN \A e \in aio_dispatched : EventSettled(e) ELSE ThreadsJoined
    [] part \in {"EventLoop", "LongLoop"} -> event_pc = "ended"
    [] part = "ProcessPool" ->
         \A p \in 1 .. 4 : pool_proc[p] \in {"zombie", "gone"} => ProcessPool!Replaced(p)
    [] part = "LimitedPool" -> \A p \in 2 * i - 1 .. i + 1 : LimitedPool!Gone(p)
    [] part = "Manager" -> Manager!HasProcess(0) \/ Manager!Excused
    [] part = "TaskManager" -> TaskManager!HasProcess(i - 1) \/ TaskManager!Excused
    [] part = "SyncManager" -> manager_proc[i] = "gone" \/ SyncManager!Excused
    [] OTHER -> FALSE

\* Nothing waits for ever:
\* - a coroutine that waits with a timeout, for whatever resumes it (CoWait), or in an operation
\*   of a socket (two of the three coroutines, which are interchangeable), if the program uses
\*   neither TLS nor poll(), cancel(WRITE) or connect() to a name with AF_INET6, and until the
\*   process has crashed on an event that was captured before a cancel(READ);
\* - a timer that is due in the modelled time, unless it is cleared;
\* - a child that has ended while somebody waits for it, unless its end fell between the first
\*   look and the handler of SIGCHLD;
\* - a signal that somebody waits for, unless two wait for it or another one ends the process;
\* - an event given to the AIO threads, unless it is canceled or a notification was taken for a
\*   timeout, and the end of the threads after shutdown();
\* - the end of an event loop, once the user is done and has deleted every descriptor;
\* - a worker of a pool that has ended, to be replaced, until the pool is shut down, and one that
\*   a reload with a time limit has still to replace, to be gone;
\* - an id of a server without a process, and with a time limit the worker of a reload: these
\*   until the server stops or the bound of the forks is reached.
WaitsEnd == \A i \in 1 .. 2 : IsWaiting(i) ~> IsServed(i)
=============================================================================
