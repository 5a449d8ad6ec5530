------------------------------ MODULE Channel ------------------------------
(***************************************************************************)
(* Swoole\Coroutine\Channel: a bounded queue between coroutines of one     *)
(* process.  pop() and push() wait in a queue of their own, a coroutine    *)
(* that makes room or brings data resumes the first waiter AT ONCE, inside *)
(* its own call, and a timer may end a wait instead.  A resumed coroutine  *)
(* runs on top of the one that resumed it (Coroutine::current and origin)  *)
(* and hands control back when it yields.                                  *)
(***************************************************************************)
EXTENDS Integers, Sequences

CONSTANTS
  Co,        \* coroutines
  None,      \* no coroutine: the event loop
  capacity,  \* of the channel
  MaxPush    \* bound: calls of push()

\* __construct() makes a capacity of at least 1.
ASSUME ChannelAssumption ==
  /\ None \notin Co
  /\ capacity \in Nat \ {0}
  /\ MaxPush \in Nat

VARIABLES
  data_queue, producer_queue, consumer_queue, closed,  \* the Channel
  current,   \* Coroutine::current
  origin,    \* origin[c]: the coroutine that resumed c
  pc,        \* pc[c]: what c does, or will do when control returns to it
  timer,     \* coroutines with an armed timer
  item,      \* item[c]: what c pushes; items are numbered by the calls of push()
  sent       \* calls of push() so far

chan == <<data_queue, producer_queue, consumer_queue, closed>>
vars == <<data_queue, producer_queue, consumer_queue, closed, current, origin, pc, timer,
          item, sent>>

Waiting == {"popWait", "pushWait"}
Active == {"run", "popTake", "pushPut", "closing"}

Init ==
  /\ data_queue = <<>> /\ producer_queue = <<>> /\ consumer_queue = <<>>
  /\ closed = FALSE
  /\ current = None
  /\ origin = [c \in Co |-> None]
  /\ pc = [c \in Co |-> "idle"]
  /\ timer = {}
  /\ item = [c \in Co |-> 0]
  /\ sent = 0

At(c, l) == current = c /\ pc[c] = l

-----------------------------------------------------------------------------
\* Coroutine::resume(): d runs on top of the current coroutine, at l.
resume(d, l, pcs) ==
  /\ origin' = [origin EXCEPT ![d] = current]
  /\ current' = d
  /\ pc' = [pcs EXCEPT ![d] = l]

\* Coroutine::yield(): control returns to the origin.
yield(c, l) ==
  /\ current' = origin[c]
  /\ pc' = [pc EXCEPT ![c] = l]
  /\ UNCHANGED origin

\* A new coroutine, or one that waited for something else, runs: from the event loop,
\* or from a running coroutine.
begin(c) ==
  /\ pc[c] = "idle"
  /\ current # None => pc[current] = "run"
  /\ resume(c, "run", pc)
  /\ UNCHANGED <<chan, timer, item, sent>>

\* A running coroutine waits for something else, or ends.
leave(c) ==
  /\ At(c, "run")
  /\ yield(c, "idle")
  /\ UNCHANGED <<chan, timer, item, sent>>

-----------------------------------------------------------------------------
is_empty == data_queue = <<>>

is_full == Len(data_queue) = capacity

\* pop() up to the data: wait (with a timer if timed), or take at once.  On a closed
\* channel it returns and changes nothing.
pop(c, timed) ==
  /\ At(c, "run") /\ ~ closed
  /\ IF is_empty \/ consumer_queue # <<>>
       THEN /\ consumer_queue' = Append(consumer_queue, c)
            /\ timer' = IF timed THEN timer \cup {c} ELSE timer
            /\ yield(c, "popWait")
       ELSE /\ pc' = [pc EXCEPT ![c] = "popTake"]
            /\ UNCHANGED <<consumer_queue, timer, current, origin>>
  /\ UNCHANGED <<data_queue, producer_queue, closed, item, sent>>

push(c, timed) ==
  /\ At(c, "run") /\ ~ closed
  /\ sent < MaxPush
  /\ sent' = sent + 1
  /\ item' = [item EXCEPT ![c] = sent']
  /\ IF is_full \/ producer_queue # <<>>
       THEN /\ producer_queue' = Append(producer_queue, c)
            /\ timer' = IF timed THEN timer \cup {c} ELSE timer
            /\ yield(c, "pushWait")
       ELSE /\ pc' = [pc EXCEPT ![c] = "pushPut"]
            /\ UNCHANGED <<producer_queue, timer, current, origin>>
  /\ UNCHANGED <<data_queue, consumer_queue, closed>>

swoole_timer_del(c) == timer' = timer \ {c}

\* Faulty variant: the last producer is resumed.
wakeProducer_Last(pcs) ==
  LET n == Len(producer_queue) IN
  /\ producer_queue' = SubSeq(producer_queue, 1, n - 1)
  /\ resume(producer_queue[n], IF closed THEN "run" ELSE "pushPut", pcs)
  /\ swoole_timer_del(producer_queue[n])

\* pop_coroutine() and resume(): the first waiter deletes its timer and goes on; if the
\* channel is closed, its call returns.
wakeProducer(pcs) ==
  /\ producer_queue' = Tail(producer_queue)
  /\ resume(Head(producer_queue), IF closed THEN "run" ELSE "pushPut", pcs)
  /\ swoole_timer_del(Head(producer_queue))

wakeConsumer(pcs) ==
  /\ consumer_queue' = Tail(consumer_queue)
  /\ resume(Head(consumer_queue), IF closed THEN "run" ELSE "popTake", pcs)
  /\ swoole_timer_del(Head(consumer_queue))

\* Faulty variant: no producer is resumed.
take_Silent(c) ==
  /\ At(c, "popTake") /\ data_queue # <<>>
  /\ data_queue' = Tail(data_queue)
  /\ pc' = [pc EXCEPT ![c] = "run"]
  /\ UNCHANGED <<producer_queue, consumer_queue, closed, current, origin, timer, item, sent>>

\* The rest of pop(): data_queue.front(), and a producer is resumed.
take(c) ==
  /\ At(c, "popTake") /\ data_queue # <<>>
  /\ data_queue' = Tail(data_queue)
  /\ IF producer_queue # <<>>
       THEN wakeProducer([pc EXCEPT ![c] = "run"])
       ELSE /\ pc' = [pc EXCEPT ![c] = "run"]
            /\ UNCHANGED <<producer_queue, current, origin, timer>>
  /\ UNCHANGED <<consumer_queue, closed, item, sent>>

\* The rest of push(): the data goes in, and a consumer is resumed.
put(c) ==
  /\ At(c, "pushPut")
  /\ data_queue' = Append(data_queue, item[c])
  /\ IF consumer_queue # <<>>
       THEN wakeConsumer([pc EXCEPT ![c] = "run"])
       ELSE /\ pc' = [pc EXCEPT ![c] = "run"]
            /\ UNCHANGED <<consumer_queue, current, origin, timer>>
  /\ UNCHANGED <<producer_queue, closed, item, sent>>

\* close(), and the turns of its loops: producers first, then consumers.
close(c) ==
  /\ At(c, "run") /\ ~ closed
  /\ closed' = TRUE
  /\ pc' = [pc EXCEPT ![c] = "closing"]
  /\ UNCHANGED <<data_queue, producer_queue, consumer_queue, current, origin, timer, item,
                 sent>>

closeEnds == producer_queue = <<>> /\ consumer_queue = <<>>

closing(c) ==
  /\ At(c, "closing")
  /\ \/ /\ closeEnds
        /\ pc' = [pc EXCEPT ![c] = "run"]
        /\ UNCHANGED <<producer_queue, consumer_queue, current, origin, timer>>
     \/ /\ ~ closeEnds /\ producer_queue # <<>>
        /\ wakeProducer(pc)
        /\ UNCHANGED consumer_queue
     \/ /\ ~ closeEnds /\ producer_queue = <<>>
        /\ wakeConsumer(pc)
        /\ UNCHANGED producer_queue
  /\ UNCHANGED <<data_queue, closed, item, sent>>

\* consumer_remove(), producer_remove(); a queue holds a coroutine at most once.
remove(q, c) ==
  IF \E i \in 1..Len(q) : q[i] = c
    THEN LET i == CHOOSE i \in 1..Len(q) : q[i] = c
         IN  [j \in 1..(Len(q) - 1) |-> IF j < i THEN q[j] ELSE q[j + 1]]
    ELSE q

\* Faulty variant: the coroutine is not resumed.
timer_callback_Quiet(c) ==
  /\ current = None
  /\ c \in timer
  /\ timer' = timer \ {c}
  /\ consumer_queue' = remove(consumer_queue, c)
  /\ producer_queue' = remove(producer_queue, c)
  /\ UNCHANGED <<data_queue, closed, current, origin, pc, item, sent>>

\* The event loop runs a timer: the wait is over, its call returns.
timer_callback(c) ==
  /\ current = None
  /\ c \in timer
  /\ timer' = timer \ {c}
  /\ IF pc[c] = "popWait"
       THEN consumer_queue' = remove(consumer_queue, c) /\ UNCHANGED producer_queue
       ELSE producer_queue' = remove(producer_queue, c) /\ UNCHANGED consumer_queue
  /\ resume(c, "run", pc)
  /\ UNCHANGED <<data_queue, closed, item, sent>>

Next ==
  \E c \in Co :
    \/ begin(c) \/ leave(c)
    \/ \E timed \in BOOLEAN : pop(c, timed) \/ push(c, timed)
    \/ take(c) \/ put(c)
    \/ close(c) \/ closing(c)
    \/ timer_callback(c)

Spec == Init /\ [][Next]_vars

\* A running coroutine sooner or later waits or ends, the rest of a call is executed,
\* and the event loop looks at its timers again and again.
Fairness ==
  \A c \in Co :
    /\ SF_vars(leave(c)) /\ SF_vars(timer_callback(c))
    /\ WF_vars(take(c) \/ put(c) \/ closing(c))

FairSpec == Spec /\ Fairness

-----------------------------------------------------------------------------
Member(q) == {q[i] : i \in 1..Len(q)}
NoRepeat(q) == \A i, j \in 1..Len(q) : q[i] = q[j] => i = j
Holds(l) == current # None /\ pc[current] = l

\* Every variable has its type, and Coroutine::current is not suspended.
TypeOK ==
  /\ data_queue \in Seq(Nat)
  /\ producer_queue \in Seq(Co) /\ consumer_queue \in Seq(Co)
  /\ closed \in BOOLEAN
  /\ current \in Co \cup {None}
  /\ origin \in [Co -> Co \cup {None}]
  /\ pc \in [Co -> {"idle"} \cup Waiting \cup Active]
  /\ timer \subseteq Co
  /\ item \in [Co -> Nat]
  /\ sent \in Nat
  /\ current # None => pc[current] \in Active

\* A queue holds exactly the coroutines that wait in it, each once, and only they have
\* timers: whoever pop_coroutine() or timer_callback() resumes is suspended in that wait,
\* and never the current coroutine ("current != this" in Coroutine::resume()).
WaitersQueued ==
  /\ NoRepeat(consumer_queue) /\ NoRepeat(producer_queue)
  /\ Member(consumer_queue) = {c \in Co : pc[c] = "popWait"}
  /\ Member(producer_queue) = {c \in Co : pc[c] = "pushWait"}
  /\ \A c \in timer : pc[c] \in Waiting

\* Nobody waits in vain: in an open channel consumers wait only if every item is already
\* claimed by a resumed consumer, producers only if every place is taken or claimed.
\* So a waiter needs no second notification.
NoLostWakeup ==
  ~ closed =>
    /\ consumer_queue # <<>> => Len(data_queue) = IF Holds("popTake") THEN 1 ELSE 0
    /\ producer_queue # <<>> =>
         Len(data_queue) = IF Holds("pushPut") THEN capacity - 1 ELSE capacity

\* data_queue.front() is never called on an empty queue, and the queue never holds more
\* than capacity items, though push() and pop() do not look again after their wait.
QueueBounds ==
  /\ Holds("popTake") => data_queue # <<>>
  /\ Holds("pushPut") => Len(data_queue) < capacity
  /\ Len(data_queue) <= capacity

\* Once close() has returned nobody waits, and nobody waits again.
ClosedIsEmpty ==
  closed /\ (\A c \in Co : pc[c] # "closing") =>
    consumer_queue = <<>> /\ producer_queue = <<>>

\* Nobody waits in vain and nothing is taken or put beyond the bounds: the queues are those
\* who wait, a notified coroutine finds what it was notified of, and close() leaves nobody.
ChannelSound == TypeOK /\ WaitersQueued /\ NoLostWakeup /\ QueueBounds /\ ClosedIsEmpty

\* Items are stored in the order of the calls of push(), also those that had to wait: no
\* call overtakes another.
InOrder ==
  LET put_ == IF Holds("pushPut") THEN <<item[current]>> ELSE <<>>
      wait == [i \in 1..Len(producer_queue) |-> item[producer_queue[i]]]
      all == data_queue \o put_ \o wait
  IN  ~ closed => \A i, j \in 1..Len(all) : i < j => all[i] < all[j]

\* A wait with a timeout ends, whatever the other coroutines do.
TimedWaitEnds ==
  \A c \in Co : (c \in timer) ~> (pc[c] \notin Waiting)

\* close() resumes every waiter.
CloseWakesAll ==
  \A c \in Co : (closed /\ pc[c] \in Waiting) ~> (pc[c] \notin Waiting)
=============================================================================
