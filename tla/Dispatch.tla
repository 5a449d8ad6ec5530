------------------------------ MODULE Dispatch ------------------------------
(***************************************************************************)
(* How the master hands updates to the logger workers: send_to_logger() in *)
(* master.php, the accept loop and logger_handler() of logger.php, and the *)
(* worker processes that telegram.php forks once and never replaces.       *)
(*                                                                         *)
(* Every update is handled by one coroutine of the master.  The index in   *)
(* the Swoole table is read and advanced without yielding; the connection  *)
(* attempt that follows yields, so the coroutines of other updates move    *)
(* the index in the meantime.                                              *)
(***************************************************************************)
EXTENDS Integers, Sequences

CONSTANTS
  Update,     \* updates the webhook delivers
  Short,      \* those the master forwards without their last bytes (module Relay)
  Fatal,      \* those whose logging throws an Exception that nothing catches
  nlogger,    \* number of logger workers
  Backlog,    \* connections a worker's socket holds before accept() (500)
  NoWorker

Worker == 0..(nlogger - 1)

ASSUME DispatchAssumption ==
  /\ Short \in SUBSET Update /\ Fatal \in SUBSET (Update \ Short)
  /\ nlogger \in Nat \ {0}
  /\ Backlog \in Nat \ {0}
  /\ NoWorker \notin Worker

VARIABLES
  i,        \* $table["logger"]["i"]
  update,   \* update[u]: how far u has come
  target,   \* target[u]: the worker the coroutine of u picked last
  backlog,  \* backlog[w]: connections waiting for accept(), oldest first
  worker,   \* worker[w]: up, spinning (in logger_handler's loop) or dead
  recent    \* the last nlogger - 1 picks, oldest first (history)

dispatchVars == <<i, update, target, backlog, worker, recent>>

Progress == {"new", "connecting", "queued", "handled", "done", "lost"}

DispatchInit ==
  /\ i = 0
  /\ update = [u \in Update |-> "new"]
  /\ target = [u \in Update |-> NoWorker]
  /\ backlog = [w \in Worker |-> <<>>]
  /\ worker = [w \in Worker |-> "up"]
  /\ recent = <<>>

-----------------------------------------------------------------------------

\* send_data: the index wraps when it has reached the number of workers; the table
\* keeps the index of the next pick.
pick == IF i >= nlogger THEN 0 ELSE i

\* Faulty variant: the index is not written back.
advance_Forgotten == i

advance == pick + 1

LastPicks(s) == SubSeq(s, IF Len(s) < nlogger THEN 1 ELSE 2, Len(s))

send_data(u) ==
  /\ i' = advance
  /\ target' = [target EXCEPT ![u] = pick]
  /\ update' = [update EXCEPT ![u] = "connecting"]
  /\ recent' = LastPicks(Append(recent, pick))

\* conn_handler() has read the update: go() runs send_to_logger() up to its first
\* yield, and the webhook is told "ok".
conn_handler(u) ==
  /\ update[u] = "new"
  /\ send_data(u)
  /\ UNCHANGED <<backlog, worker>>

\* The kernel of a listening worker completes connections, even while the worker
\* itself is spinning, until the backlog is full.
Reachable(w) == worker[w] # "dead" /\ Len(backlog[w]) < Backlog

\* stream_socket_client() returns a socket; the data is written and the socket closed.
connected(u) ==
  /\ update[u] = "connecting"
  /\ Reachable(target[u])
  /\ update' = [update EXCEPT ![u] = "queued"]
  /\ backlog' = [backlog EXCEPT ![target[u]] = Append(@, u)]
  /\ UNCHANGED <<i, target, worker, recent>>

\* Refused, or not completed within the timeout of one second: goto send_data.
connectFailed(u) ==
  /\ update[u] = "connecting"
  /\ ~ Reachable(target[u])
  /\ send_data(u)
  /\ UNCHANGED <<backlog, worker>>

-----------------------------------------------------------------------------

\* Faulty variant: the connection is taken but no handler is started.
accept_Drops(w) ==
  /\ worker[w] = "up"
  /\ backlog[w] # <<>>
  /\ backlog' = [backlog EXCEPT ![w] = Tail(@)]
  /\ UNCHANGED <<i, update, target, worker, recent>>

\* The accept loop starts a coroutine of logger_handler() for the oldest connection.
accept(w) ==
  /\ worker[w] = "up"
  /\ backlog[w] # <<>>
  /\ backlog' = [backlog EXCEPT ![w] = Tail(@)]
  /\ update' = [update EXCEPT ![Head(backlog[w])] = "handled"]
  /\ UNCHANGED <<i, target, worker, recent>>

Handling(u) == update[u] = "handled" /\ worker[target[u]] = "up"

\* logger_handler() answers "fail", or "ok" and logs; an Error is caught and reported.
logger_handler(u) ==
  /\ Handling(u)
  /\ u \notin Short \cup Fatal
  /\ update' = [update EXCEPT ![u] = "done"]
  /\ UNCHANGED <<i, target, backlog, worker, recent>>

\* At the end of a short stream fread() returns "" at once: the loop never ends and
\* never yields, so no coroutine of the worker runs again.
spins(u) ==
  /\ Handling(u)
  /\ u \in Short
  /\ worker' = [worker EXCEPT ![target[u]] = "spinning"]
  /\ UNCHANGED <<i, update, target, backlog, recent>>

\* What a dying worker had accepted or had waiting in its backlog is gone.
LostWith(w) == {v \in Update : target[v] = w /\ update[v] \in {"queued", "handled"}}

\* Faulty variant: what waits for the dead worker stays in its backlog.
dies_Alone(u) ==
  /\ Handling(u)
  /\ u \in Fatal
  /\ worker' = [worker EXCEPT ![target[u]] = "dead"]
  /\ update' = [update EXCEPT ![u] = "lost"]
  /\ UNCHANGED <<i, target, backlog, recent>>

\* An uncaught Exception in a coroutine ends the worker process.
dies(u) ==
  /\ Handling(u)
  /\ u \in Fatal
  /\ worker' = [worker EXCEPT ![target[u]] = "dead"]
  /\ backlog' = [backlog EXCEPT ![target[u]] = <<>>]
  /\ update' = [v \in Update |-> IF v \in LostWith(target[u]) THEN "lost" ELSE update[v]]
  /\ UNCHANGED <<i, target, recent>>

Master(u) == conn_handler(u) \/ connected(u) \/ connectFailed(u)
Logger(u) == logger_handler(u) \/ spins(u) \/ dies(u)

DispatchNext ==
  \/ \E u \in Update : Master(u) \/ Logger(u)
  \/ \E w \in Worker : accept(w)

DispatchSpec == DispatchInit /\ [][DispatchNext]_dispatchVars

\* Running processes run: the master resumes coroutines whose connection attempt is
\* over, workers accept and handle what they are sent.
DispatchFairness ==
  /\ \A u \in Update :
       /\ WF_dispatchVars(connected(u)) /\ WF_dispatchVars(connectFailed(u))
       /\ WF_dispatchVars(Logger(u))
  /\ \A w \in Worker : WF_dispatchVars(accept(w))

FairDispatch == DispatchSpec /\ DispatchFairness

-----------------------------------------------------------------------------
\* Every variable has its type; $i is always the index of a configured worker.
DispatchTypeOK ==
  /\ i \in 0..nlogger
  /\ update \in [Update -> Progress]
  /\ target \in [Update -> Worker \cup {NoWorker}]
  /\ \A u \in Update : update[u] # "new" => target[u] \in Worker
  /\ backlog \in [Worker -> Seq(Update)]
  /\ worker \in [Worker -> {"up", "spinning", "dead"}]
  /\ recent \in Seq(Worker)

\* However the coroutines of several updates interleave and retry, the next pick is
\* none of the last nlogger - 1: every worker is tried once in each round.
RoundRobin == \A k \in 1..Len(recent) : recent[k] # pick

\* An update is given to at most one worker, once: the retry in send_to_logger() never
\* repeats a delivery.
DeliveredOnce ==
  \A w \in Worker : \A k \in 1..Len(backlog[w]) :
    LET u == backlog[w][k] IN
    /\ update[u] = "queued" /\ target[u] = w
    /\ \A j \in 1..Len(backlog[w]) : backlog[w][j] = u => j = k

\* An update is lost only together with an update whose Exception killed the worker
\* both were given to; the other workers lose nothing.
LossHasCause ==
  \A u \in Update : update[u] = "lost" =>
    \E v \in Fatal : update[v] = "lost" /\ target[v] = target[u]

\* A worker that died keeps nothing that could still be waiting for it.
DeadHoldsNothing ==
  \A u \in Update : update[u] \in {"queued", "handled"} => worker[target[u]] # "dead"

\* The dispatch as a whole, over interleaved retries, spinning and dying workers:
\* send_to_logger() takes the workers in turn and delivers an update once, and an update is
\* lost only together with one that killed the worker of both.
DispatchSound ==
  DispatchTypeOK /\ RoundRobin /\ DeliveredOnce /\ LossHasCause /\ DeadHoldsNothing

\* While fewer updates are harmful than there are workers, every retry in
\* send_to_logger() ends with a delivery.
FailoverEnds == \A u \in Update : update[u] = "connecting" ~> update[u] # "connecting"

\* A delivered update is logged or rejected, unless its worker dies or spins.
DeliveredIsHandled ==
  \A u \in Update :
    update[u] = "queued" ~>
      update[u] \in {"done", "lost"} \/ target[u] \in {w \in Worker : worker[w] = "spinning"}

\* "Recovering to another logger worker...": after a failed connection the update is
\* tried with a worker other than the one that failed.
RecoversToAnother ==
  [][\A u \in Update : connectFailed(u) => target'[u] # target[u]]_dispatchVars
=============================================================================
