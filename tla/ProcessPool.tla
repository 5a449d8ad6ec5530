---------------------------- MODULE ProcessPool -----------------------------
(***************************************************************************)
(* swProcessPool: a master that forks worker_num workers, waits for them,  *)
(* replaces the ones that end, reloads them one after the other when       *)
(* SIGUSR1 arrives, and shuts down when SIGTERM does.                      *)
(*                                                                         *)
(* A signal handler may run between any two steps of the master.  wait()   *)
(* returns -1 only if a handler runs while the master is inside it: a      *)
(* signal that comes before the call does not end it.                      *)
(***************************************************************************)
EXTENDS Integers, FiniteSets, Functions

CONSTANTS
  worker_num,
  max_wait_time,  \* pool->max_wait_time is set: a reload has a time limit
  Obeys,          \* a worker that got SIGTERM ends sooner or later
  MaxFork,        \* bound of the forks
  MaxSignal       \* bound of the signals SIGUSR1

ProcessPoolAssumption ==
  /\ worker_num \in Nat \ {0} /\ MaxFork \in Nat /\ MaxSignal \in Nat
  /\ max_wait_time \in BOOLEAN /\ Obeys \in BOOLEAN /\ MaxFork >= worker_num

Slot == 0 .. worker_num - 1
Pid == 1 .. MaxFork
NoPid == 0        \* the pid of an empty record

VARIABLES
  pc,                \* where in start() the master is
  pid,               \* what wait() returned; NoPid stands for -1
  running,           \* SwooleG.running
  signal_alarm,      \* SwooleWG.signal_alarm
  timers,            \* number of pending timers of swProcessPool_kill_timeout_worker
  workers,           \* pool->workers[i].pid
  map,               \* pool->map: pids to places
  reload_workers,    \* pool->reload_workers[i].pid
  reloading, reload_init, reload_worker_i,
  reload_worker_pid,
  proc,              \* the process of each pid: none, run, term, zombie or gone
  signals            \* number of signals SIGUSR1 sent

flags == <<reloading, reload_init, reload_worker_i, reload_worker_pid>>
books == <<workers, map>>
vars == <<pc, pid, running, signal_alarm, timers, workers, map, reload_workers,
          reloading, reload_init, reload_worker_i, reload_worker_pid, proc, signals>>

Exists(p) == p \in Pid /\ proc[p] \in {"run", "term", "zombie"}
Unused == {p \in Pid : proc[p] = "none"}

\* swProcessPool_start()
Init ==
  /\ pc = "loop" /\ pid = NoPid /\ running = TRUE /\ signal_alarm = FALSE /\ timers = 0
  /\ workers = [i \in Slot |-> i + 1]
  /\ map = [p \in 1 .. worker_num |-> p - 1]
  /\ reload_workers = [i \in Slot |-> NoPid]
  /\ reloading = FALSE /\ reload_init = FALSE /\ reload_worker_i = 0 /\ reload_worker_pid = NoPid
  /\ proc = [p \in Pid |-> IF p <= worker_num THEN "run" ELSE "none"]
  /\ signals = 0

-----------------------------------------------------------------------------
(* The workers. *)

\* A worker ends by itself, by a fault or because it was told to.
exit(p) ==
  /\ proc[p] \in {"run", "term"}
  /\ proc' = [proc EXCEPT ![p] = "zombie"]
  /\ UNCHANGED <<pc, pid, running, signal_alarm, timers, books, reload_workers, flags, signals>>

-----------------------------------------------------------------------------
(* The handlers.  The one that runs inside wait() ends it. *)

Interrupts ==
  IF pc = "wait" THEN pc' = "woken" /\ pid' = NoPid ELSE UNCHANGED <<pc, pid>>

\* swProcessPool_shutdown() blocks every signal.
Heard == pc \notin {"shutdown", "reap", "end"}

SIGTERM ==
  /\ Heard /\ running
  /\ running' = FALSE /\ Interrupts
  /\ UNCHANGED <<signal_alarm, timers, books, reload_workers, flags, proc, signals>>

SIGUSR1 ==
  /\ Heard /\ signals < MaxSignal
  /\ signals' = signals + 1
  /\ reloading' = TRUE /\ reload_init' = FALSE /\ Interrupts
  /\ UNCHANGED <<running, signal_alarm, timers, books, reload_workers, reload_worker_i,
                 reload_worker_pid, proc>>

\* setitimer() repeats the signal as long as a timer is pending.
SIGALRM ==
  /\ Heard /\ timers > 0 /\ (signal_alarm => pc = "wait")
  /\ signal_alarm' = TRUE /\ Interrupts
  /\ UNCHANGED <<running, timers, books, reload_workers, flags, proc, signals>>

-----------------------------------------------------------------------------
(* swProcessPool_wait() *)

\* pid is not used again before wait() assigns it.
loop ==
  /\ pc = "loop"
  /\ pc' = IF running THEN "call" ELSE "shutdown"
  /\ pid' = NoPid
  /\ UNCHANGED <<running, signal_alarm, timers, books, reload_workers, flags, proc, signals>>

\* The signal that comes before this step is handled before wait() begins.
call ==
  /\ pc = "call" /\ pc' = "wait"
  /\ UNCHANGED <<pid, running, signal_alarm, timers, books, reload_workers, flags, proc, signals>>

wait ==
  /\ pc = "wait"
  /\ \E p \in Pid : /\ proc[p] = "zombie"
                    /\ proc' = [proc EXCEPT ![p] = "gone"] /\ pid' = p
  /\ pc' = "woken"
  /\ UNCHANGED <<running, signal_alarm, timers, books, reload_workers, flags, signals>>

\* Every worker that is still to be reloaded is killed, and the reload is over.
swProcessPool_kill_timeout_worker ==
  /\ reloading' = FALSE /\ reload_worker_i' = 0 /\ reload_init' = FALSE
  /\ proc' = [p \in Pid |-> IF proc[p] \in {"run", "term"}
                                /\ \E i \in Slot : i >= reload_worker_i /\ reload_workers[i] = p
                              THEN "zombie" ELSE proc[p]]
  /\ UNCHANGED reload_worker_pid

\* The timers that are due: none, or the oldest.
swTimer_select ==
  /\ pc = "woken"
  /\ IF signal_alarm /\ timers > 0
       THEN /\ signal_alarm' = FALSE
            /\ \/ timers' = timers - 1 /\ swProcessPool_kill_timeout_worker
               \/ UNCHANGED <<timers, flags, proc>>
       ELSE UNCHANGED <<signal_alarm, timers, flags, proc>>
  /\ pc' = IF pid = NoPid THEN "failed" ELSE "reaped"
  /\ UNCHANGED <<pid, running, books, reload_workers, signals>>

\* wait() returned -1.
failed ==
  /\ pc = "failed"
  /\ pc' = IF ~running THEN "shutdown" ELSE IF ~reloading THEN "loop" ELSE "kill"
  /\ IF running /\ reloading /\ ~reload_init
       THEN /\ reload_init' = TRUE /\ reload_workers' = workers
            /\ timers' = timers + (IF max_wait_time THEN 1 ELSE 0)
       ELSE UNCHANGED <<reload_init, reload_workers, timers>>
  /\ UNCHANGED <<pid, running, signal_alarm, books, reloading, reload_worker_i,
                 reload_worker_pid, proc, signals>>

\* Faulty variant: the record keeps the old pid.
swProcessPool_spawn_Stale(i, p) ==
  /\ map' = [q \in (DOMAIN map \ {workers[i]}) \cup {p} |-> IF q = p THEN i ELSE map[q]]
  /\ proc' = [proc EXCEPT ![p] = "run"]
  /\ UNCHANGED workers

swProcessPool_spawn(i, p) ==
  /\ workers' = [workers EXCEPT ![i] = p]
  /\ map' = [q \in (DOMAIN map \ {workers[i]}) \cup {p} |-> IF q = p THEN i ELSE map[q]]
  /\ proc' = [proc EXCEPT ![p] = "run"]

\* Faulty variant: a worker that ends during a reload is not replaced.
reaped_Reloads ==
  /\ pc = "reaped"
  /\ IF ~running \/ reloading THEN UNCHANGED <<books, proc>>
     ELSE \E p \in Unused : (\A q \in Unused : p <= q) /\ swProcessPool_spawn(map[pid], p)
  /\ reload_worker_i' = reload_worker_i + (IF pid = reload_worker_pid THEN 1 ELSE 0)
  /\ pc' = "kill"
  /\ UNCHANGED <<pid, running, signal_alarm, timers, reload_workers, reloading, reload_init,
                 reload_worker_pid, signals>>

\* A worker has ended: it is replaced.  If fork() fails, the pool is shut down.
reaped ==
  /\ pc = "reaped"
  /\ IF ~running THEN pc' = "kill" /\ UNCHANGED <<books, proc, reload_worker_i>>
     ELSE IF pid \notin DOMAIN map THEN pc' = "loop" /\ UNCHANGED <<books, proc, reload_worker_i>>
     ELSE \/ \E p \in Unused :
               /\ \A q \in Unused : p <= q
               /\ swProcessPool_spawn(map[pid], p)
               /\ reload_worker_i' = reload_worker_i + (IF pid = reload_worker_pid THEN 1 ELSE 0)
               /\ pc' = "kill"
          \/ pc' = "shutdown" /\ UNCHANGED <<books, proc, reload_worker_i>>
  /\ UNCHANGED <<pid, running, signal_alarm, timers, reload_workers, reloading, reload_init,
                 reload_worker_pid, signals>>

\* _kill_worker: the next worker of the reload is told to end.  kill() fails for a process that
\* is gone, with ESRCH and never with ECHILD, and for the empty record.
_kill_worker ==
  /\ pc = "kill"
  /\ IF ~reloading THEN UNCHANGED <<reloading, reload_init, reload_worker_i, reload_worker_pid, proc>>
     ELSE IF reload_worker_i >= worker_num
       THEN /\ reloading' = FALSE /\ reload_init' = FALSE
            /\ reload_worker_pid' = NoPid /\ reload_worker_i' = 0
            /\ UNCHANGED proc
       ELSE LET p == reload_workers[reload_worker_i] IN
            /\ reload_worker_pid' = p
            /\ proc' = IF p \in Pid /\ proc[p] = "run" THEN [proc EXCEPT ![p] = "term"] ELSE proc
            /\ UNCHANGED <<reloading, reload_init, reload_worker_i>>
  /\ pc' = "loop"
  /\ UNCHANGED <<pid, running, signal_alarm, timers, books, reload_workers, signals>>

-----------------------------------------------------------------------------
(* swProcessPool_shutdown() *)

shutdown ==
  /\ pc = "shutdown"
  /\ running' = FALSE
  /\ proc' = [p \in Pid |-> IF proc[p] = "run" /\ p \in Range(workers) THEN "term" ELSE proc[p]]
  /\ pc' = "reap"
  /\ UNCHANGED <<pid, signal_alarm, timers, books, reload_workers, flags, signals>>

\* waitpid() of every worker; it fails at once for one that was reaped before.
reap ==
  /\ pc = "reap"
  /\ \A i \in Slot : proc[workers[i]] \in {"zombie", "gone"}
  /\ proc' = [p \in Pid |-> IF p \in Range(workers) THEN "gone" ELSE proc[p]]
  /\ pc' = "end"
  /\ UNCHANGED <<pid, running, signal_alarm, timers, books, reload_workers, flags, signals>>

Master ==
  \/ loop \/ call \/ wait \/ swTimer_select \/ failed \/ reaped \/ _kill_worker \/ shutdown \/ reap

Next == Master \/ SIGTERM \/ SIGUSR1 \/ SIGALRM \/ \E p \in Pid : exit(p)

Spec == Init /\ [][Next]_vars

\* The master runs, the timer goes on firing until its timers have run, and a worker that was
\* told to end does, where Obeys says so.
Fairness ==
  /\ WF_vars(Master) /\ WF_vars(SIGALRM)
  /\ SF_vars(swTimer_select /\ timers' < timers)
  /\ Obeys => \A p \in Pid : WF_vars(proc[p] = "term" /\ exit(p))

FairSpec == Spec /\ Fairness

-----------------------------------------------------------------------------
\* Every variable has its type.
TypeOK ==
  /\ pc \in {"loop", "call", "wait", "woken", "failed", "reaped", "kill", "shutdown", "reap", "end"}
  /\ pid \in {NoPid} \cup Pid /\ timers \in 0 .. MaxSignal
  /\ workers \in [Slot -> Pid] /\ reload_workers \in [Slot -> {NoPid} \cup Pid]
  /\ reload_worker_i \in 0 .. worker_num
  /\ DOMAIN map \subseteq Pid
  /\ proc \in [Pid -> {"none", "run", "term", "zombie", "gone"}]

\* The pool knows every process that it has forked and not reaped, and knows it in one place:
\* none is lost by the reload, the timer and the deaths in between.
NoOrphan ==
  /\ \A p \in Pid : Exists(p) => \E i \in Slot : workers[i] = p
  /\ \A i, j \in Slot : workers[i] = workers[j] => i = j

\* The map agrees with the records: a worker that ends is found, and found in its place.
MapAgrees ==
  /\ DOMAIN map = Range(workers)
  /\ \A p \in DOMAIN map : workers[map[p]] = p

\* A reload replaces the workers one after the other: two that have been told to end are there
\* at a time only when a second signal or the timer came in between.
OneAtATime ==
  running /\ signals <= 1 /\ timers = 0 /\ pc \notin {"shutdown", "reap", "end"} =>
    Cardinality({p \in Pid : proc[p] = "term"}) <= 1

Replaced(p) == p \notin Range(workers) \/ ~running \/ pc = "end"

\* swProcessPool_wait() replaces a worker that has ended, unless the pool is shut down.
DeadIsReplaced == \A p \in Pid : (proc[p] = "zombie") ~> Replaced(p)

StillToReplace(p) == reload_init /\ \E i \in Slot : i >= reload_worker_i /\ reload_workers[i] = p
Gone(p) == proc[p] = "gone" \/ ~running

\* With a time limit every worker that a reload has still to replace goes.
LimitedReloadReplaces == \A p \in Pid : StillToReplace(p) ~> Gone(p)

\* A reload that has begun ends, whatever its workers do if it has a time limit, and if they
\* end when they are told to otherwise.
\* Refuted: the code does otherwise (README.md, Disagreements).
ReloadFinishes == reload_init ~> (~reload_init \/ ~running)

\* start() returns after SIGTERM.
\* Refuted: the code does otherwise (README.md, Disagreements).
ShutdownEnds == ~running ~> pc = "end"
=============================================================================
