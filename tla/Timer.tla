-------------------------------- MODULE Timer --------------------------------
(***************************************************************************)
(* Swoole's timers and the event loop that drives them.  One turn of the   *)
(* loop waits for at most timeout_msec, runs the handlers of events, the   *)
(* timers that are due (swTimer_select), the deferred tasks, and ends when *)
(* nothing is left to wait for.  Code of the user runs in four places      *)
(* (UserCode) and adds and clears timers there; time passes meanwhile.     *)
(*                                                                         *)
(* A timer's node and its node in the heap are both named by its id.       *)
(***************************************************************************)
EXTENDS Heap, Integers, FiniteSets

CONSTANTS
  Msec,      \* the delays users ask for
  MaxNow,    \* bound of the clock, in milliseconds
  MaxEvent,  \* bound of the socket events that arrive
  MaxDefer   \* bound of the deferred tasks

TimerAssumption ==
  /\ Node \subseteq Nat /\ 0 \notin Node /\ Msec \subseteq Nat \ {0}
  /\ MaxNow \in Nat /\ MaxEvent \in Nat /\ MaxDefer \in Nat

VARIABLES
  heap, map, num,                       \* the swTimer; map is the set of its ids
  _next_id, _current_id, _next_msec,
  exec_msec, interval, removed,         \* per node
  added,      \* the timers of the round of the swTimer, which is only compared for equality
  timeout_msec, check_timer, defer_tasks, running,  \* the swReactor
  pc,         \* where the loop is
  now_msec,   \* what swTimer_select() has read from the clock
  now,        \* the clock
  waiting,    \* milliseconds until epoll_wait() returns, -1: only for an event
  events, deferred,   \* counters for the bounds
  fired,      \* the timers that this call of swTimer_select() has fired
  cleared,    \* the timers that were cleared
  late        \* a timer was added after swTimer_select(), in this turn of the loop

timer == <<heap, map, num, _next_id, _current_id, _next_msec, exec_msec, interval,
           added, removed, timeout_msec, check_timer>>
ghosts == <<fired, cleared, late>>
vars == <<timer, defer_tasks, running, pc, now_msec, now, waiting, events, deferred, ghosts>>

UserCode == {"main", "handler", "callback", "defer"}

Init ==
  /\ heap = swHeap_new /\ map = {} /\ num = 0
  /\ _next_id = 1 /\ _current_id = -1 /\ _next_msec = -1
  /\ exec_msec = [n \in Node |-> 0] /\ interval = [n \in Node |-> 0]
  /\ added = {} /\ removed = [n \in Node |-> FALSE]
  /\ timeout_msec = 0 /\ check_timer = FALSE /\ defer_tasks = FALSE /\ running = TRUE
  /\ pc = "main" /\ now_msec = 0 /\ now = 0 /\ waiting = 0
  /\ events = 0 /\ deferred = 0
  /\ fired = {} /\ cleared = {} /\ late = FALSE

-----------------------------------------------------------------------------
\* The wait is set to the new timer's if it is the shortest so far; the first timer
\* initializes the swTimer with its delay.
set(ms) ==
  IF ~ check_timer \/ _next_msec < 0 \/ _next_msec > ms
    THEN timeout_msec' = ms /\ _next_msec' = ms ELSE UNCHANGED <<timeout_msec, _next_msec>>

\* swoole_timer_after(), swoole_timer_tick(): swTimer_init() if needed, and swTimer_add().
add(ms, persistent) ==
  LET id == _next_id IN
  /\ pc \in UserCode /\ id \in Node
  /\ set(ms)
  /\ check_timer' = TRUE
  /\ _next_id' = id + 1
  /\ exec_msec' = [exec_msec EXCEPT ![id] = now + ms]
  /\ interval' = [interval EXCEPT ![id] = IF persistent THEN ms ELSE 0]
  /\ added' = added \cup {id}
  /\ heap' = push(heap, id, now + ms)
  /\ map' = map \cup {id}
  /\ num' = num + 1
  /\ late' = (late \/ pc = "defer")
  /\ UNCHANGED <<_current_id, removed, defer_tasks, running, pc, now_msec, now, waiting,
                 events, deferred, fired, cleared>>

\* A timer is taken from the map and the heap, and its node freed.
Freed(id, h) ==
  /\ map' = map \ {id}
  /\ heap' = h
  /\ num' = num - 1
  /\ exec_msec' = [exec_msec EXCEPT ![id] = 0]
  /\ interval' = [interval EXCEPT ![id] = 0]
  /\ added' = added \ {id}
  /\ removed' = [removed EXCEPT ![id] = FALSE]

\* Faulty variant: the timer whose callback runs is freed like any other.
del_Current(id) == Freed(id, remove(heap, id))

\* swTimer_del().  The timer whose callback runs is only marked: swTimer_select() still
\* uses it.
del(id) ==
  IF id = _current_id
    THEN /\ removed' = [removed EXCEPT ![id] = TRUE]
         /\ UNCHANGED <<map, heap, num, exec_msec, interval, added>>
    ELSE Freed(id, remove(heap, id))

\* swoole_timer_clear().
clear(id) ==
  /\ pc \in UserCode /\ id \in map /\ ~ removed[id]
  /\ del(id)
  /\ cleared' = cleared \cup {id}
  /\ UNCHANGED <<_next_id, _current_id, _next_msec, timeout_msec, check_timer,
                 defer_tasks, running, pc, now_msec, now, waiting, events, deferred, fired, late>>

defer_task_add ==
  /\ pc \in UserCode /\ deferred < MaxDefer
  /\ defer_tasks' = TRUE /\ deferred' = deferred + 1
  /\ UNCHANGED <<timer, running, pc, now_msec, now, waiting, events, ghosts>>

-----------------------------------------------------------------------------
\* epoll_wait() begins.
Waits(m) ==
  /\ pc' = "wait"
  /\ timeout_msec' = m
  /\ waiting' = IF defer_tasks THEN 0 ELSE m

loop_start ==
  /\ pc = "main"
  /\ Waits(IF timeout_msec = 0 THEN -1 ELSE timeout_msec)
  /\ UNCHANGED <<heap, map, num, _next_id, _current_id, _next_msec, exec_msec, interval,
                 added, removed, check_timer, defer_tasks, running, now_msec, now, events,
                 deferred, ghosts>>

\* epoll_wait() returns: an event, whose handler runs, or onTimeout.
event ==
  /\ pc = "wait" /\ events < MaxEvent
  /\ events' = events + 1
  /\ pc' = "handler" /\ waiting' = 0
  /\ UNCHANGED <<timer, defer_tasks, running, now_msec, now, deferred, ghosts>>

\* reactor_finish(), and the beginning of swTimer_select().
reactor_finish ==
  /\ pc = "handler" \/ (pc = "wait" /\ waiting = 0)
  /\ pc' = IF check_timer THEN "select" ELSE "tasks"
  /\ now_msec' = now
  /\ late' = FALSE
  /\ UNCHANGED <<timer, defer_tasks, running, now, waiting, events, deferred, fired, cleared>>

isDue(id) == exec_msec[id] <= now_msec /\ id \notin added

\* The loop of swTimer_select(): the first timer is due, its callback begins...
fire ==
  /\ pc = "select" /\ heap.nodes # <<>> /\ isDue(top(heap))
  /\ _current_id' = top(heap)
  /\ pc' = IF removed[top(heap)] THEN "fired" ELSE "callback"
  /\ fired' = fired \cup {top(heap)}
  /\ UNCHANGED <<heap, map, num, _next_id, _next_msec, exec_msec, interval, added,
                 removed, timeout_msec, check_timer, defer_tasks, running, now_msec, now, waiting,
                 events, deferred, cleared, late>>

callback_returns ==
  /\ pc = "callback" /\ pc' = "fired"
  /\ UNCHANGED <<timer, defer_tasks, running, now_msec, now, waiting, events, deferred, ghosts>>

\* ... and the timer is set again, after now_msec, or freed.  swHeap_pop() takes what is
\* on top then.
NextTime(id) ==
  CHOOSE t \in now_msec + 1 .. now_msec + interval[id] : (t - exec_msec[id]) % interval[id] = 0

rearm ==
  /\ pc = "fired" /\ interval[_current_id] > 0 /\ ~ removed[_current_id]
  /\ exec_msec' = [exec_msec EXCEPT ![_current_id] = NextTime(_current_id)]
  /\ heap' = change_priority(heap, NextTime(_current_id), _current_id)
  /\ _current_id' = -1
  /\ pc' = "select"
  /\ UNCHANGED <<map, num, _next_id, _next_msec, interval, added, removed, timeout_msec,
                 check_timer, defer_tasks, running, now_msec, now, waiting, events, deferred,
                 ghosts>>

free ==
  /\ pc = "fired" /\ (interval[_current_id] = 0 \/ removed[_current_id])
  /\ Freed(_current_id, pop(heap))
  /\ _current_id' = -1
  /\ pc' = "select"
  /\ UNCHANGED <<_next_id, _next_msec, timeout_msec, check_timer, defer_tasks, running,
                 now_msec, now, waiting, events, deferred, ghosts>>

\* Faulty variant: the round stays, and timers added since wait for ever.
select_end_SameRound ==
  /\ IF heap.nodes = <<>>
       THEN _next_msec' = -1 /\ timeout_msec' = -1
       ELSE LET next_msec == exec_msec[top(heap)] - now_msec IN
            timeout_msec' = (IF next_msec <= 0 THEN 1 ELSE next_msec) /\ UNCHANGED _next_msec
  /\ UNCHANGED added

\* The end of swTimer_select(); _next_msec is written only when no timer is left.
select_end ==
  /\ IF heap.nodes = <<>>
       THEN _next_msec' = -1 /\ timeout_msec' = -1
       ELSE LET next_msec == exec_msec[top(heap)] - now_msec IN
            timeout_msec' = (IF next_msec <= 0 THEN 1 ELSE next_msec) /\ UNCHANGED _next_msec
  /\ added' = {}

swTimer_select ==
  /\ pc = "select" /\ (heap.nodes # <<>> => ~ isDue(top(heap)))
  /\ select_end
  /\ pc' = "tasks" /\ fired' = {}
  /\ UNCHANGED <<heap, map, num, _next_id, _current_id, exec_msec, interval, removed,
                 check_timer, defer_tasks, running, now_msec, now, waiting, events, deferred,
                 cleared, late>>

\* The rest of reactor_finish(): the deferred tasks, as they were at the beginning...
defer_task_do ==
  /\ pc = "tasks"
  /\ pc' = IF defer_tasks THEN "defer" ELSE "end"
  /\ defer_tasks' = FALSE
  /\ UNCHANGED <<timer, running, now_msec, now, waiting, events, deferred, ghosts>>

defer_task_done ==
  /\ pc = "defer" /\ pc' = "end"
  /\ UNCHANGED <<timer, defer_tasks, running, now_msec, now, waiting, events, deferred, ghosts>>

\* ... and the end of the loop if it is empty, or the next wait.  Of the other things the
\* loop may wait for there are sockets here, until MaxEvent events have arrived.
swReactor_empty ==
  ~ (check_timer /\ num > 0) /\ ~ defer_tasks /\ events = MaxEvent

loop_end ==
  /\ pc = "end"
  /\ running' = ~ swReactor_empty
  /\ IF running' THEN Waits(timeout_msec) ELSE pc' = "exit" /\ UNCHANGED <<timeout_msec, waiting>>
  /\ UNCHANGED <<heap, map, num, _next_id, _current_id, _next_msec, exec_msec, interval,
                 added, removed, check_timer, defer_tasks, now_msec, now, events, deferred,
                 ghosts>>

-----------------------------------------------------------------------------
\* A millisecond passes; epoll_wait() returns in time.  The clock stops at MaxNow, but a
\* wait still ends if a timer is due.
tick ==
  /\ \/ pc \in UserCode /\ now < MaxNow /\ UNCHANGED waiting
     \/ /\ pc = "wait" /\ waiting # 0
        /\ now < MaxNow \/ \E id \in map : exec_msec[id] <= MaxNow
        /\ waiting' = IF waiting < 0 THEN waiting ELSE waiting - 1
  /\ now' = IF now < MaxNow THEN now + 1 ELSE now
  /\ UNCHANGED <<timer, defer_tasks, running, pc, now_msec, events, deferred, ghosts>>

Loop ==
  \/ loop_start \/ reactor_finish \/ fire \/ callback_returns \/ rearm \/ free
  \/ swTimer_select \/ defer_task_do \/ defer_task_done \/ loop_end

Next ==
  \/ \E ms \in Msec, persistent \in BOOLEAN : add(ms, persistent)
  \/ \E id \in Node : clear(id)
  \/ defer_task_add \/ event \/ tick \/ Loop

Spec == Init /\ [][Next]_vars

\* The loop goes on, code of the user returns, and time passes.
FairSpec == Spec /\ WF_vars(Loop) /\ WF_vars(tick)

-----------------------------------------------------------------------------
InHeap == {heap.nodes[i] : i \in 1..Len(heap.nodes)}

\* Every variable has its type.
TypeOK ==
  /\ map \subseteq Node /\ fired \subseteq Node /\ cleared \subseteq Node
  /\ num \in Nat /\ _next_id \in Nat
  /\ _current_id \in Node \cup {-1} /\ (_next_msec = -1 \/ _next_msec \in Msec)
  /\ exec_msec \in [Node -> Nat] /\ interval \in [Node -> Msec \cup {0}]
  /\ added \subseteq Node /\ removed \in [Node -> BOOLEAN]
  /\ timeout_msec \in Nat \cup {-1} /\ waiting \in Nat \cup {-1}
  /\ pc \in UserCode \cup {"wait", "select", "fired", "tasks", "end", "exit"}

\* The three records of which timers there are agree, and a timer's place in the heap is
\* the time it is due, also while callbacks add and clear timers.
TimersAgree ==
  /\ InHeap = map /\ num = Cardinality(map)
  /\ \A id \in map : heap.priority[id] = exec_msec[id]

\* What swTimer_select() takes from the heap after a callback is the timer it has called,
\* whatever the callback did to the heap.
PopsWhatFired ==
  pc \in {"callback", "fired"} => heap.nodes # <<>> /\ top(heap) = _current_id

\* A timer fires at most once in a call of swTimer_select(), so the call ends even if
\* callbacks take longer than the delays they ask for; and not after it was cleared.
FiresOnce ==
  [][pc = "select" /\ pc' = "callback" => _current_id' \notin fired \cup cleared]_vars

\* While there are timers the loop never waits for events only.
NeverForgotten == pc = "wait" /\ map # {} => waiting >= 0

\* The wait is past the first timer (and longer than a millisecond), reckoned from when
\* swTimer_select() read the clock.
Overslept == now_msec + waiting > exec_msec[top(heap)] /\ waiting > 1

\* The loop waits no longer than until the first timer is due, unless a deferred task has
\* added a timer.
WaitsForFirst == pc = "wait" /\ map # {} /\ ~ late => ~ Overslept

\* A sleep takes as long as was asked for: the loop never waits past a timer.
\* Refuted: the code does otherwise (README.md, Disagreements).
SleepsAsAsked == pc = "wait" /\ map # {} => ~ Overslept

\* The loop ends only when there is no timer and no task left.
EndsEmpty == pc = "exit" => map = {} /\ ~ defer_tasks

DueInTime(id) == id \in map /\ exec_msec[id] <= MaxNow
Over(id) == id \in fired \/ id \in cleared

\* Every timer that is due within the modelled time fires, unless it is cleared.
TimerFires == \A id \in Node : DueInTime(id) ~> Over(id)
=============================================================================
