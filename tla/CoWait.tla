------------------------------- MODULE CoWait -------------------------------
(***************************************************************************)
(* How coroutines wait in Swoole\Coroutine\System: sleep(), socket_poll(), *)
(* wait_event() and calls that a thread does (async()).  Up to three       *)
(* things may wake a wait: its event, a timer, and a task that the event's *)
(* handler has deferred.  A turn of the event loop runs the handlers, the  *)
(* timers that are due, and the deferred tasks, in this order.             *)
(*                                                                         *)
(* A wakeup is named by its coroutine, the number of the wait it is for    *)
(* and the function; the coroutine that it resumes cleans up and begins    *)
(* its next wait.                                                          *)
(***************************************************************************)
EXTENDS Naturals, Sequences

CONSTANTS
  Waiters,
  MaxWaits  \* bound of the waits of a coroutine

ASSUME CoWaitAssumption == MaxWaits \in Nat

Ops == {"sleep", "poll", "event", "async"}

VARIABLES
  phase,       \* of the event loop
  op,          \* op[c]: what c waits in, or "idle"
  wait_n,      \* wait_n[c]: number of waits that c has begun
  wait_timed,  \* wait_timed[c]: c waits with a timeout
  timers,      \* armed timers
  watched,     \* the sockets of socket_poll() and wait_event() that are in the reactor
  fired,       \* those that had an event
  tasks,       \* deferred tasks
  threads,     \* calls that a thread does, or has done
  canceled,    \* of these, the ones that timed out
  stale        \* what c was doing when the wakeup of an earlier wait resumed it, and which

waitVars == <<phase, op, wait_n, wait_timed, timers, watched, fired, tasks, threads, canceled,
              stale>>

Wait(c) == <<c, wait_n[c], op[c]>>
NoWakeup == <<"none", "none">>

WaitInit ==
  /\ phase = "handlers"
  /\ op = [c \in Waiters |-> "idle"] /\ wait_n = [c \in Waiters |-> 0]
  /\ wait_timed = [c \in Waiters |-> FALSE]
  /\ timers = {} /\ watched = {} /\ fired = {} /\ tasks = <<>>
  /\ threads = {} /\ canceled = {}
  /\ stale = NoWakeup

-----------------------------------------------------------------------------

\* The coroutine ends, or calls one of the functions, which registers what it waits for
\* with timers ts, sockets ws and threads ths, and yields.
Goes(c, ts, ws, ths) ==
  \/ /\ op' = [op EXCEPT ![c] = "idle"] /\ UNCHANGED <<wait_n, wait_timed>>
     /\ timers' = ts /\ watched' = ws /\ threads' = ths
  \/ \E o \in Ops, t \in BOOLEAN :
       LET w == <<c, wait_n[c] + 1, o>>
           With(set, b) == IF b THEN set \cup {w} ELSE set
       IN  /\ wait_n[c] < MaxWaits /\ (o = "sleep" => t)
           /\ op' = [op EXCEPT ![c] = o]
           /\ wait_n' = [wait_n EXCEPT ![c] = @ + 1]
           /\ wait_timed' = [wait_timed EXCEPT ![c] = t]
           /\ timers' = With(ts, t)
           /\ watched' = With(ws, o \in {"poll", "event"})
           /\ threads' = With(ths, o = "async")

\* A coroutine begins to wait in code that was not resumed by a wait.
begin(c) ==
  /\ stale = NoWakeup /\ phase = "handlers" /\ op[c] = "idle" /\ wait_n[c] < MaxWaits
  /\ Goes(c, timers, watched, threads)
  /\ op'[c] # "idle"
  /\ UNCHANGED <<phase, fired, tasks, canceled, stale>>

\* co->resume() by the wakeup of wait w, whose coroutine cleans up what it waits in:
\* the timer is deleted and the socket leaves the reactor.  The wakeup of a wait that is
\* over reads what is left of the waiter on the stack of its coroutine, and resumes that
\* coroutine wherever it is; the model stops there.
wait_resume(w, ths) ==
  LET c == w[1] IN
  IF op[c] # "idle" /\ w = Wait(c)
    THEN Goes(c, timers \ {w}, watched \ {w}, ths) /\ UNCHANGED stale
    ELSE /\ stale' = <<op[c], w>>
         /\ UNCHANGED <<op, wait_n, wait_timed, timers, watched>> /\ threads' = ths

-----------------------------------------------------------------------------
\* Handlers of socket events: the coroutine is resumed by a deferred task.
Defers(w) == tasks' = Append(tasks, w) /\ fired' = fired \cup {w}

\* Faulty variant: the timer stays.
socket_poll_trigger_event_Timer(w) == Defers(w) /\ UNCHANGED timers

\* socket_poll_trigger_event(): the first event deletes the timer.
socket_poll_trigger_event(w) == Defers(w) /\ timers' = timers \ {w}

\* event_waiter_callback(): the first event defers, and the timer stays.
event_waiter_callback(w) == Defers(w) /\ UNCHANGED timers

on_event(c) ==
  LET w == Wait(c) IN
  /\ stale = NoWakeup /\ phase = "handlers"
  /\ w \in watched \ fired
  /\ IF op[c] = "poll" THEN socket_poll_trigger_event(w) ELSE event_waiter_callback(w)
  /\ UNCHANGED <<phase, op, wait_n, wait_timed, watched, threads, canceled, stale>>

\* async_task_completed(): the coroutine is resumed at once, unless it has timed out.
async_task_completed(w) ==
  IF w \in canceled
    THEN /\ threads' = threads \ {w} /\ canceled' = canceled \ {w}
         /\ UNCHANGED <<op, wait_n, wait_timed, timers, watched, stale>>
    ELSE wait_resume(w, threads \ {w}) /\ UNCHANGED canceled

on_completed(w) ==
  /\ stale = NoWakeup /\ phase = "handlers" /\ w \in threads
  /\ async_task_completed(w)
  /\ UNCHANGED <<phase, fired, tasks>>

\* A timer: sleep_timeout(), socket_poll_timeout(), async_task_timeout() or the one of
\* event_waiter; it is not armed any more.
on_timer(w) ==
  /\ stale = NoWakeup /\ phase = "timers" /\ w \in timers
  /\ canceled' = IF w \in threads THEN canceled \cup {w} ELSE canceled
  /\ wait_resume(w, threads)
  /\ UNCHANGED <<phase, fired, tasks>>

\* A deferred task: socket_poll_completed(), or the one of event_waiter_callback().
on_task ==
  /\ stale = NoWakeup /\ phase = "tasks" /\ tasks # <<>>
  /\ tasks' = Tail(tasks)
  /\ fired' = fired \ {Head(tasks)}
  /\ wait_resume(Head(tasks), threads)
  /\ UNCHANGED <<phase, canceled>>

\* The event loop goes on.
turn ==
  /\ stale = NoWakeup
  /\ \/ phase = "handlers" /\ phase' = "timers"
     \/ phase = "timers" /\ phase' = "tasks"
     \/ phase = "tasks" /\ tasks = <<>> /\ phase' = "handlers"
  /\ UNCHANGED <<op, wait_n, wait_timed, timers, watched, fired, tasks, threads, canceled,
                 stale>>

WaitLoop == turn \/ on_task
Wakeup == Waiters \X (1..MaxWaits) \X Ops

WaitNext ==
  \/ \E c \in Waiters : begin(c) \/ on_event(c)
  \/ \E w \in Wakeup : on_completed(w) \/ on_timer(w)
  \/ WaitLoop

WaitSpec == WaitInit /\ [][WaitNext]_waitVars

\* The event loop goes on, and timers come due.
WaitFairness ==
  /\ WF_waitVars(WaitLoop)
  /\ \A c \in Waiters : SF_waitVars(\E w \in Wakeup : w[1] = c /\ on_timer(w))

FairWait == WaitSpec /\ WaitFairness

-----------------------------------------------------------------------------
\* Every variable has its type.
WaitTypeOK ==
  /\ phase \in {"handlers", "timers", "tasks"}
  /\ op \in [Waiters -> Ops \cup {"idle"}] /\ wait_n \in [Waiters -> 0..MaxWaits]
  /\ wait_timed \in [Waiters -> BOOLEAN]
  /\ timers \subseteq Wakeup /\ watched \subseteq Wakeup /\ fired \subseteq Wakeup
  /\ threads \subseteq Wakeup /\ canceled \subseteq threads
  /\ tasks \in Seq(Wakeup)

\* A coroutine is resumed by nothing that an earlier wait has left behind, except the
\* deferred task of an event in the turn in which wait_event() timed out.
OnlyOwnWakeups == stale # NoWakeup => stale[2][3] = "event" /\ phase = "tasks"

\* No timer, no socket and no call that is not canceled outlives the wait it is for:
\* what follows co->yield() in each function undoes what it registered.
NothingLeft ==
  stale = NoWakeup =>
    \A w \in timers \cup watched \cup (threads \ canceled) : op[w[1]] # "idle" /\ w = Wait(w[1])

\* A coroutine that sleeps, polls, waits for an event or for a thread is not resumed by the
\* timer, the event or the thread of an earlier wait, and no wait leaves anything registered
\* behind (coroutine/system.cc).  The one exception is an event in the very turn in which
\* wait_event() timed out.
WaitsArePrivate == WaitTypeOK /\ OnlyOwnWakeups /\ NothingLeft

\* A sleep lasts until its own timer ends it: nothing else resumes a coroutine in sleep().
\* Refuted: the code does otherwise (README.md, Disagreements).
SleepLasts == stale[1] # "sleep"

WaitLimited(c) == op[c] # "idle" /\ wait_timed[c]
Over(c) == ~WaitLimited(c) \/ stale # NoWakeup

\* Every wait with a timeout ends, whatever events and threads do.
TimedWaitEnds == \A c \in Waiters : WaitLimited(c) ~> Over(c)
=============================================================================
