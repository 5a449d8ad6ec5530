---------------------------- MODULE AsyncThreads ----------------------------
(***************************************************************************)
(* Swoole's thread pool for blocking calls (files, DNS): the event loop    *)
(* pushes events on a queue, threads run them and write them to a pipe,    *)
(* and the event loop calls them back.  Threads beyond the core ones are   *)
(* created when events wait long, and leave when they were idle long.      *)
(*                                                                         *)
(* What a thread does under event_mutex is one step; a condition variable  *)
(* wait gives the mutex back.  Threads of the model are the entries of     *)
(* ThreadPool::threads; a released entry can be used again.                *)
(***************************************************************************)
EXTENDS Naturals, FiniteSets, Sequences

CONSTANTS
  AioEvent,    \* events, each dispatched at most once
  Core,        \* the core_worker_num threads that start() creates
  Extra,       \* the threads that schedule() may create
  worker_num,  \* bound of threads.size()
  AioLoop      \* the event loop is between two callbacks

ASSUME AioAssumption ==
  /\ IsFiniteSet(Core) /\ IsFiniteSet(Extra) /\ Core \cap Extra = {} /\ Core # {}
  /\ worker_num \in Nat /\ Cardinality(Core) <= worker_num
  /\ AioEvent \cap (Core \cup Extra) = {} /\ AioLoop \notin AioEvent /\ "read" \notin AioEvent

Thread == Core \cup Extra

VARIABLES
  aio_running, aio_queue, n_waiting, n_closing,  \* the ThreadPool
  aio_threads,       \* ThreadPool::threads
  aio_pc,            \* aio_pc[t]: how far the thread has come
  aio_event,         \* aio_event[t]: what the thread handles
  aio_pipe,          \* events, and threads that ask to be released
  aio_task_num,
  aio_main,          \* what the event loop does: AioLoop, "read", or the event it dispatches
  aio_measured,      \* the event loop has found n_waiting = 0 and looks at the queue next
  aio_dispatched, aio_called, aio_canceled,  \* events so far
  aio_stolen         \* a thread has left though it was notified of an event

aioPool == <<aio_running, aio_queue, n_waiting, n_closing, aio_threads, aio_pc, aio_event>>
aioLoop == <<aio_task_num, aio_main, aio_measured, aio_dispatched, aio_called, aio_canceled>>
aioVars == <<aioPool, aio_pipe, aioLoop, aio_stolen>>

\* swAio_init(), start().
AioInit ==
  /\ aio_running = TRUE /\ aio_queue = <<>> /\ n_waiting = 0 /\ n_closing = 0
  /\ aio_threads = Core
  /\ aio_pc = [t \in Thread |-> IF t \in Core THEN "top" ELSE "none"]
  /\ aio_event = [t \in Thread |-> AioLoop]
  /\ aio_pipe = <<>>
  /\ aio_task_num = 0
  /\ aio_main = AioLoop /\ aio_measured = FALSE
  /\ aio_dispatched = {} /\ aio_called = {} /\ aio_canceled = {}
  /\ aio_stolen = FALSE

-----------------------------------------------------------------------------
\* swAio_dispatch2() and swAio_callback() begin with schedule(): if nobody waits and
\* there may be more threads, it looks how long the first event has waited.
mayCreate == n_waiting = 0 /\ Cardinality(aio_threads) < worker_num

aio_schedule(op) ==
  /\ aio_running /\ aio_main = AioLoop
  /\ aio_main' = op
  /\ aio_measured' = mayCreate
  /\ UNCHANGED <<aioPool, aio_pipe, aio_task_num, aio_dispatched, aio_called, aio_canceled,
                 aio_stolen>>

\* The first event has waited longer than max_wait_time: create_thread().
create_thread(t) ==
  /\ aio_measured /\ aio_queue # <<>>
  /\ t \in Extra \ aio_threads
  /\ aio_threads' = aio_threads \cup {t}
  /\ aio_pc' = [aio_pc EXCEPT ![t] = "top"]
  /\ aio_measured' = FALSE
  /\ UNCHANGED <<aio_running, aio_queue, n_waiting, n_closing, aio_event, aio_pipe, aio_task_num,
                 aio_main, aio_dispatched, aio_called, aio_canceled, aio_stolen>>

\* Faulty variant: nobody is notified.
notify_one_Never == UNCHANGED aio_pc

\* notify_one(): some waiting thread, if there is one, leaves the wait.
notify_one ==
  IF \E t \in aio_threads : aio_pc[t] = "wait"
    THEN \E t \in aio_threads :
           aio_pc[t] = "wait" /\ aio_pc' = [aio_pc EXCEPT ![t] = "notified"]
    ELSE UNCHANGED aio_pc

\* The rest of swAio_dispatch2(); max_wait_time has not passed, or a thread was created.
aio_dispatch(e) ==
  /\ aio_main = e
  /\ aio_queue' = Append(aio_queue, e)
  /\ notify_one
  /\ aio_task_num' = aio_task_num + 1
  /\ aio_dispatched' = aio_dispatched \cup {e}
  /\ aio_main' = AioLoop /\ aio_measured' = FALSE
  /\ UNCHANGED <<aio_running, n_waiting, n_closing, aio_threads, aio_event, aio_pipe, aio_called,
                 aio_canceled, aio_stolen>>

\* Somebody who dispatched an event no longer waits for it.
aio_cancel(e) ==
  /\ aio_main = AioLoop /\ e \in aio_dispatched \ (aio_called \cup aio_canceled)
  /\ aio_canceled' = aio_canceled \cup {e}
  /\ UNCHANGED <<aioPool, aio_pipe, aio_task_num, aio_main, aio_measured, aio_dispatched,
                 aio_called, aio_stolen>>

-----------------------------------------------------------------------------
\* The rest of swAio_callback(), for one event of the pipe.
aio_callback(e) ==
  /\ aio_called' = IF e \in aio_canceled THEN aio_called ELSE aio_called \cup {e}
  /\ aio_task_num' = aio_task_num - 1
  /\ UNCHANGED <<aio_threads, aio_pc>>

\* aio_thread_release() joins a thread that has ended.  "balance": its event was never
\* counted.
aio_thread_release(t) ==
  /\ aio_pc[t] = "gone"
  /\ aio_threads' = aio_threads \ {t}
  /\ aio_pc' = [aio_pc EXCEPT ![t] = "none"]
  /\ UNCHANGED <<aio_task_num, aio_called>>

swAio_callback ==
  /\ aio_main = "read" /\ aio_pipe # <<>>
  /\ IF Head(aio_pipe) \in Thread
       THEN aio_thread_release(Head(aio_pipe))
       ELSE aio_callback(Head(aio_pipe))
  /\ aio_pipe' = Tail(aio_pipe)
  /\ aio_main' = AioLoop /\ aio_measured' = FALSE
  /\ UNCHANGED <<aio_running, aio_queue, n_waiting, n_closing, aio_event, aio_dispatched,
                 aio_canceled, aio_stolen>>

\* The event loop is empty and ends: swAio_free(), shutdown(), notify_all().
aio_shutdown ==
  /\ aio_running /\ aio_main = AioLoop
  /\ aio_task_num = 0
  /\ aio_running' = FALSE
  /\ aio_pc' = [t \in Thread |-> IF aio_pc[t] = "wait" THEN "notified" ELSE aio_pc[t]]
  /\ UNCHANGED <<aio_queue, n_waiting, n_closing, aio_threads, aio_event, aio_pipe, aioLoop,
                 aio_stolen>>

-----------------------------------------------------------------------------
Turns(t, from, to) == aio_pc[t] = from /\ aio_pc' = [aio_pc EXCEPT ![t] = to]

\* while (running)
aio_top(t) ==
  /\ Turns(t, "top", IF aio_running THEN "pop" ELSE "gone")
  /\ UNCHANGED <<aio_running, aio_queue, n_waiting, n_closing, aio_threads, aio_event, aio_pipe,
                 aioLoop, aio_stolen>>

aio_pop(t) ==
  /\ Turns(t, "pop", IF aio_queue = <<>> THEN "empty" ELSE "handle")
  /\ IF aio_queue = <<>> THEN UNCHANGED <<aio_queue, aio_event>>
     ELSE /\ aio_queue' = Tail(aio_queue)
          /\ aio_event' = [aio_event EXCEPT ![t] = Head(aio_queue)]
  /\ UNCHANGED <<aio_running, n_waiting, n_closing, aio_threads, aio_pipe, aioLoop, aio_stolen>>

\* The handler, unless the event is canceled, and write().
aio_handle(t) ==
  /\ Turns(t, "handle", "top")
  /\ aio_pipe' = Append(aio_pipe, aio_event[t])
  /\ aio_event' = [aio_event EXCEPT ![t] = AioLoop]
  /\ UNCHANGED <<aio_running, aio_queue, n_waiting, n_closing, aio_threads, aioLoop, aio_stolen>>

\* Faulty variant: the queue is not looked at again.
aio_wait_Blindly(t) ==
  /\ Turns(t, "empty", IF ~ aio_running THEN "gone" ELSE "wait")
  /\ n_waiting' = IF aio_pc'[t] = "wait" THEN n_waiting + 1 ELSE n_waiting
  /\ UNCHANGED <<aio_running, aio_queue, n_closing, aio_threads, aio_event, aio_pipe, aioLoop,
                 aio_stolen>>

\* The queue was empty: look again under the mutex, then wait.
aio_wait(t) ==
  /\ Turns(t, "empty", IF aio_queue # <<>> THEN "top" ELSE IF ~aio_running THEN "gone" ELSE "wait")
  /\ n_waiting' = IF aio_pc'[t] = "wait" THEN n_waiting + 1 ELSE n_waiting
  /\ UNCHANGED <<aio_running, aio_queue, n_closing, aio_threads, aio_event, aio_pipe, aioLoop,
                 aio_stolen>>

\* The wait ends with a notification, or with none.
wakeUp(t) ==
  /\ \/ Turns(t, "notified", "top") \/ Turns(t, "wait", "top")
  /\ n_waiting' = n_waiting - 1
  /\ UNCHANGED <<aio_running, aio_queue, n_closing, aio_threads, aio_event, aio_pipe, aioLoop,
                 aio_stolen>>

\* Another thread is already leaving: wait for the next round.
nextRound == aio_running /\ n_closing # 0

\* wait_for() of a thread that is not a core worker says timeout: the time is over,
\* though the thread may have been notified meanwhile.
aio_timeout(t) ==
  /\ t \in Extra /\ aio_pc[t] \in {"wait", "notified"}
  /\ IF nextRound
       THEN aio_pc' = [aio_pc EXCEPT ![t] = "wait"] /\ UNCHANGED <<n_waiting, n_closing>>
       ELSE /\ aio_pc' = [aio_pc EXCEPT ![t] = "send"]
            /\ n_waiting' = n_waiting - 1
            /\ n_closing' = n_closing + 1
  /\ aio_stolen' = (aio_stolen \/ (aio_pc[t] = "notified" /\ aio_queue # <<>>))
  /\ UNCHANGED <<aio_running, aio_queue, aio_threads, aio_event, aio_pipe, aioLoop>>

\* The thread asks to be released, and ends.
aio_send(t) ==
  /\ Turns(t, "send", "closing")
  /\ aio_pipe' = Append(aio_pipe, t)
  /\ UNCHANGED <<aio_running, aio_queue, n_waiting, n_closing, aio_threads, aio_event, aioLoop,
                 aio_stolen>>

aio_closing(t) ==
  /\ Turns(t, "closing", "gone")
  /\ n_closing' = n_closing - 1
  /\ UNCHANGED <<aio_running, aio_queue, n_waiting, aio_threads, aio_event, aio_pipe, aioLoop,
                 aio_stolen>>

ThreadWorks(t) ==
  aio_top(t) \/ aio_pop(t) \/ aio_handle(t) \/ aio_wait(t) \/ aio_send(t) \/ aio_closing(t)

AioNext ==
  \/ \E e \in AioEvent \ (aio_dispatched \cup {aio_main}) : aio_schedule(e)
  \/ aio_pipe # <<>> /\ aio_schedule("read")
  \/ \E t \in Extra : create_thread(t)
  \/ \E e \in AioEvent : aio_dispatch(e) \/ aio_cancel(e)
  \/ swAio_callback \/ aio_shutdown
  \/ \E t \in Thread : ThreadWorks(t) \/ wakeUp(t) \/ aio_timeout(t)

AioSpec == AioInit /\ [][AioNext]_aioVars

\* Threads get on with what they do, blocking calls return, a notified thread gets the
\* mutex, and the event loop finishes what it has begun and reads its pipe.
AioFairness ==
  /\ \A t \in Thread :
       WF_aioVars(ThreadWorks(t)) /\ WF_aioVars(aio_pc[t] = "notified" /\ wakeUp(t))
  /\ \A e \in AioEvent : WF_aioVars(aio_dispatch(e))
  /\ WF_aioVars(swAio_callback)
  /\ SF_aioVars(aio_pipe # <<>> /\ aio_schedule("read"))

FairAio == AioSpec /\ AioFairness

-----------------------------------------------------------------------------
Listed(s) == {s[i] : i \in 1..Len(s)}
ThreadsAt(l) == {t \in Thread : aio_pc[t] = l}
Outstanding ==
  Listed(aio_queue) \cup (Listed(aio_pipe) \ Thread) \cup {aio_event[t] : t \in ThreadsAt("handle")}

\* Every variable has its type, and the counters that threads change under the mutex or
\* atomically count what they are named for.
AioTypeOK ==
  /\ aio_running \in BOOLEAN /\ aio_measured \in BOOLEAN /\ aio_stolen \in BOOLEAN
  /\ aio_threads \subseteq Thread /\ Core \subseteq aio_threads
  /\ aio_pc \in [Thread -> {"none", "top", "pop", "empty", "handle", "wait", "notified", "send",
                        "closing", "gone"}]
  /\ aio_event \in [Thread -> AioEvent \cup {AioLoop}]
  /\ aio_queue \in Seq(AioEvent) /\ aio_pipe \in Seq(AioEvent \cup Thread)
  /\ aio_main \in AioEvent \cup {AioLoop, "read"}
  /\ n_waiting = Cardinality(ThreadsAt("wait") \cup ThreadsAt("notified"))
  /\ n_closing = Cardinality(ThreadsAt("send") \cup ThreadsAt("closing"))

\* There are never more threads than worker_num, though threads come and go while the
\* event loop decides.
ThreadsBounded == Cardinality(aio_threads) <= worker_num

\* While the pool runs at most one thread at a time is on its way out.
OneLeaves == aio_running => n_closing <= 1

\* aio_task_num counts exactly the events not yet called back; the event loop relies on it
\* to know that it may end.  So no event is lost when the pool is shut down.
TaskNumExact ==
  /\ aio_task_num = Cardinality(Outstanding)
  /\ aio_dispatched = aio_called \cup aio_canceled \cup Outstanding

\* A thread that asks to be released is in threads ("AIO thread is missing" is never
\* logged), and it asks once.
ReleaseFinds ==
  \A i, j \in 1..Len(aio_pipe) : aio_pipe[i] \in Thread =>
    /\ aio_pipe[i] \in aio_threads /\ aio_pc[aio_pipe[i]] \in {"closing", "gone"}
    /\ aio_pipe[i] = aio_pipe[j] => i = j

\* An event is in the queue only while some thread is sure to look there again, unless a
\* thread took the notification of an event for a timeout.
NoLostEvent ==
  aio_running /\ aio_queue # <<>> /\ ~ aio_stolen =>
    \E t \in Thread : aio_pc[t] \in {"top", "pop", "empty", "handle", "notified"}

\* The pool behind blocking calls stays within worker_num, closes one thread at a time,
\* keeps the count of tasks exact, releases only threads it knows, and leaves an event in
\* the queue only while a thread is sure to look there, unless a thread took a notification
\* for a timeout (os/async_thread.cc).
ThreadsKept ==
  /\ AioTypeOK /\ ThreadsBounded /\ OneLeaves /\ TaskNumExact /\ ReleaseFinds /\ NoLostEvent

EventSettled(e) == e \in aio_called \cup aio_canceled \/ aio_stolen
ThreadsJoined == \A t \in aio_threads : aio_pc[t] = "gone"

\* Every event that is dispatched is called back, unless it is canceled or a notification
\* was taken for a timeout.
CallbackComes == \A e \in AioEvent : (e \in aio_dispatched) ~> EventSettled(e)

\* shutdown() ends: every thread sees it, so all of them can be joined.
PoolShutdownEnds == ~ aio_running ~> ThreadsJoined
=============================================================================
