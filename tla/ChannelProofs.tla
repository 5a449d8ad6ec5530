--------------------------- MODULE ChannelProofs ---------------------------
(***************************************************************************)
(* For every set of coroutines and every capacity: the waiters of a        *)
(* Channel are where its queues say, nobody waits in vain, its bounds      *)
(* hold, nobody waits once close() has returned, and items are stored in   *)
(* the order of the calls of push().                                       *)
(*                                                                         *)
(* The invariants of the channel are not inductive without Chain, which    *)
(* says how coroutines stand on top of one another: the coroutine that is  *)
(* about to take or put is the current one, so no other step comes between *)
(* a notification and what it was for.  The order needs that no call of    *)
(* push() so far is later than the last one (Ordered).                     *)
(*                                                                         *)
(* The last part is about OutBuffer: for every size of the buffer, the     *)
(* chunks and the writes, what is accepted for a socket leaves it without  *)
(* a gap or a repetition (BufferInv).                                      *)
(***************************************************************************)
EXTENDS Channel, OutBuffer, Integers, TLAPS

\* The coroutines that are not suspended form a chain from Coroutine::current along
\* origin; those below the current one have resumed another from PHP code or close().
Chain ==
  /\ \A c \in Co : pc[c] \in {"popTake", "pushPut"} => c = current /\ ~ closed
  /\ \A c \in Co : pc[c] \in Active /\ origin[c] # None =>
       pc[origin[c]] \in Active /\ origin[c] # current
  /\ \A c, d \in Co : pc[c] \in Active /\ pc[d] \in Active /\ origin[c] # None
                      /\ origin[c] = origin[d] => c = d
  /\ \A c \in Co : pc[c] = "closing" => closed

IInv ==
  TypeOK /\ WaitersQueued /\ Chain /\ NoLostWakeup /\ QueueBounds /\ ClosedIsEmpty

-----------------------------------------------------------------------------
\* What yield() adds to a queue.
LEMMA AppendQueue ==
  ASSUME NEW S, NEW q \in Seq(S), NEW c \in S
  PROVE  /\ Append(q, c) \in Seq(S)
         /\ Append(q, c) # <<>>
         /\ Member(Append(q, c)) = Member(q) \cup {c}
         /\ NoRepeat(q) /\ c \notin Member(q) => NoRepeat(Append(q, c))
<1> DEFINE r == Append(q, c)
<1>1. /\ r \in Seq(S) /\ Len(r) = Len(q) + 1 /\ r[Len(q) + 1] = c
      /\ \A i \in 1..Len(q) : r[i] = q[i]
      /\ Len(q) \in Nat
  OBVIOUS
<1>2. r # <<>>
  BY <1>1
<1> HIDE DEF r
<1>3. Member(r) = Member(q) \cup {c}
  BY <1>1 DEF Member
<1>4. ASSUME NoRepeat(q), c \notin Member(q) PROVE NoRepeat(r)
  BY <1>1, <1>4 DEF NoRepeat, Member
<1> QED
  BY <1>1, <1>2, <1>3, <1>4, Zenon DEF r

\* What pop_coroutine() takes from a queue.
LEMMA TailQueue ==
  ASSUME NEW S, NEW q \in Seq(S), q # <<>>, NoRepeat(q)
  PROVE  /\ Tail(q) \in Seq(S)
         /\ Head(q) \in Member(q)
         /\ Member(Tail(q)) = Member(q) \ {Head(q)}
         /\ NoRepeat(Tail(q))
<1> DEFINE r == Tail(q)
<1>1. /\ r \in Seq(S) /\ Len(q) \in Nat \ {0} /\ Len(r) = Len(q) - 1 /\ Head(q) = q[1]
      /\ \A i \in 1..Len(r) : r[i] = q[i + 1]
  OBVIOUS
<1> HIDE DEF r
<1>2. Head(q) \in Member(q)
  BY <1>1 DEF Member
<1>3. NoRepeat(r)
  <2> SUFFICES ASSUME NEW i \in 1..Len(r), NEW j \in 1..Len(r), r[i] = r[j] PROVE i = j
    BY Zenon DEF NoRepeat
  <2>1. i + 1 \in 1..Len(q) /\ j + 1 \in 1..Len(q) /\ q[i + 1] = q[j + 1]
    BY <1>1
  <2> QED
    BY <2>1, <1>1 DEF NoRepeat
<1>4. ASSUME NEW x \in Member(r) PROVE x \in Member(q) /\ x # Head(q)
  <2>1. PICK i \in 1..Len(r) : x = r[i]
    BY <1>4, Zenon DEF Member
  <2>2. i + 1 \in 1..Len(q) /\ 1 \in 1..Len(q) /\ x = q[i + 1] /\ i + 1 # 1
    BY <2>1, <1>1
  <2> QED
    BY <2>2, <1>1, Zenon DEF NoRepeat, Member
<1>5. ASSUME NEW x \in Member(q), x # Head(q) PROVE x \in Member(r)
  <2>1. PICK i \in 1..Len(q) : x = q[i]
    BY <1>5, Zenon DEF Member
  <2>2. i - 1 \in 1..Len(r) /\ r[i - 1] = q[i]
    BY <2>1, <1>1, <1>5
  <2> QED
    BY <2>1, <2>2, Zenon DEF Member
<1> QED
  BY <1>1, <1>2, <1>3, <1>4, <1>5, Zenon DEF r

\* What consumer_remove() and producer_remove() leave of a queue.
LEMMA RemoveQueue ==
  ASSUME NEW S, NEW q \in Seq(S), NEW c, NoRepeat(q)
  PROVE  /\ remove(q, c) \in Seq(S)
         /\ q = <<>> => remove(q, c) = <<>>
         /\ Member(remove(q, c)) = Member(q) \ {c}
         /\ NoRepeat(remove(q, c))
<1>1. CASE ~ \E i \in 1..Len(q) : q[i] = c
  BY <1>1, Zenon DEF remove, Member
<1>2. CASE \E i \in 1..Len(q) : q[i] = c
  <2> DEFINE k == CHOOSE i \in 1..Len(q) : q[i] = c
             r == [j \in 1..(Len(q) - 1) |-> IF j < k THEN q[j] ELSE q[j + 1]]
  <2>1. k \in 1..Len(q) /\ q[k] = c
    BY <1>2, Zenon
  <2>2. remove(q, c) = r
    BY <1>2, Zenon DEF remove
  <2> HIDE DEF k
  <2>3. Len(q) \in Nat /\ (\A i \in 1..Len(q) : q[i] \in S) /\ Len(q) - 1 \in Nat /\ k \in Int
    BY <2>1
  <2>4. \A j \in 1..(Len(q) - 1) :
          /\ r[j] = IF j < k THEN q[j] ELSE q[j + 1]
          /\ j \in 1..Len(q) /\ j + 1 \in 1..Len(q)
    BY <2>3
  <2>5. r \in Seq(S) /\ Len(r) = Len(q) - 1
    <3>1. \A j \in 1..(Len(q) - 1) : (IF j < k THEN q[j] ELSE q[j + 1]) \in S
      BY <2>3, <2>4, Zenon
    <3>2. r \in [1..(Len(q) - 1) -> S]
      BY <3>1, Zenon
    <3> QED
      BY <3>2, <2>3
  <2> HIDE DEF r
  <2>6. q # <<>>
    BY <2>1
  <2>7. \A j \in 1..Len(r) : r[j] # c
    <3> SUFFICES ASSUME NEW j \in 1..Len(r) PROVE r[j] # c
      BY Zenon
    <3>1. CASE j < k
      BY <3>1, <2>1, <2>3, <2>4, <2>5 DEF NoRepeat
    <3>2. CASE ~ (j < k)
      <4>1. r[j] = q[j + 1] /\ j + 1 \in 1..Len(q) /\ j + 1 # k
        BY <3>2, <2>1, <2>3, <2>4, <2>5
      <4> QED
        BY <4>1, <2>1, Zenon DEF NoRepeat
    <3> QED
      BY <3>1, <3>2, Zenon
  <2>8. Member(r) \subseteq Member(q)
    BY <2>4, <2>5, Zenon DEF Member
  <2>9. ASSUME NEW x \in Member(q), x # c PROVE x \in Member(r)
    <3>1. PICK i \in 1..Len(q) : x = q[i]
      BY <2>9, Zenon DEF Member
    <3>2. i # k
      BY <3>1, <2>9, <2>1, Zenon
    <3>3. CASE i < k
      <4>1. i \in 1..Len(r) /\ r[i] = x
        BY <3>1, <3>3, <2>1, <2>3, <2>4, <2>5
      <4> QED
        BY <4>1, Zenon DEF Member
    <3>4. CASE i > k
      <4>1. i - 1 \in 1..Len(r)
        BY <3>1, <3>4, <2>1, <2>3, <2>5
      <4>2. ~ (i - 1 < k) /\ (i - 1) + 1 = i
        BY <3>1, <3>4, <2>1
      <4>3. r[i - 1] = x
        BY <4>1, <4>2, <3>1, <2>4, <2>5, Zenon
      <4> QED
        BY <4>1, <4>3, Zenon DEF Member
    <3> QED
      BY <3>1, <3>2, <3>3, <3>4, <2>1
  <2>10. NoRepeat(r)
    <3> SUFFICES ASSUME NEW i \in 1..Len(r), NEW j \in 1..Len(r), r[i] = r[j] PROVE i = j
      BY Zenon DEF NoRepeat
    <3>1. \A a, b \in 1..Len(q) : q[a] = q[b] => a = b
      BY Zenon DEF NoRepeat
    <3>2. i \in 1..(Len(q) - 1) /\ j \in 1..(Len(q) - 1)
      BY <2>5, Zenon
    <3>3. CASE i < k /\ j < k
      BY <3>1, <3>2, <3>3, <2>4, Zenon
    <3>4. CASE ~ (i < k) /\ ~ (j < k)
      <4>1. i + 1 = j + 1
        BY <3>1, <3>2, <3>4, <2>4, Zenon
      <4> QED
        BY <4>1
    <3>5. CASE i < k /\ ~ (j < k)
      <4>1. i = j + 1
        BY <3>1, <3>2, <3>5, <2>4, Zenon
      <4> QED
        BY <4>1, <3>5, <2>3
    <3>6. CASE ~ (i < k) /\ j < k
      <4>1. i + 1 = j
        BY <3>1, <3>2, <3>6, <2>4, Zenon
      <4> QED
        BY <4>1, <3>6, <2>3
    <3> QED
      BY <3>3, <3>4, <3>5, <3>6, Zenon
  <2>11. c \notin Member(r)
    BY <2>7, Zenon DEF Member
  <2>12. Member(r) = Member(q) \ {c}
    BY <2>8, <2>9, <2>11, Zenon
  <2> QED
    BY <2>2, <2>5, <2>6, <2>10, <2>12, Zenon
<1> QED
  BY <1>1, <1>2, Zenon

-----------------------------------------------------------------------------
\* resume() of a suspended coroutine keeps the chain; the coroutine below goes on in its
\* PHP code or in close().
LEMMA ResumeChain ==
  ASSUME TypeOK, Chain, NEW d \in Co, pc[d] \notin Active,
         NEW l \in Active, l \in {"popTake", "pushPut"} => ~ closed, l # "closing",
         NEW STATE pcs, pcs \in [Co -> {"idle"} \cup Waiting \cup Active],
         \A c \in Co : c # current => pcs[c] = pc[c],
         current # None => pcs[current] \in {"run", "closing"},
         current # None /\ pcs[current] = "closing" => closed,
         resume(d, l, pcs), closed' = closed
  PROVE  Chain' /\ current' \in Co /\ pc'[current'] \in Active /\ current' = d
<1>1. d # current /\ None \notin Co
  BY ChannelAssumption, Zenon DEF TypeOK
<1>2. /\ current' = d /\ pc'[d] = l /\ origin'[d] = current
      /\ \A c \in Co : c # d => pc'[c] = pcs[c] /\ origin'[c] = origin[c]
  BY Zenon DEF resume, TypeOK
<1>3. \A c \in Co : c # d => (pc'[c] \in Active <=> pc[c] \in Active)
  BY <1>1, <1>2, Zenon DEF TypeOK, Active
<1>4. \A c \in Co : pc'[c] \in {"popTake", "pushPut"} => c = d /\ ~ closed
  BY <1>1, <1>2 DEF Chain
<1>5. \A c \in Co : pc'[c] \in Active /\ origin'[c] # None =>
        pc'[origin'[c]] \in Active /\ origin'[c] # d
  <2> SUFFICES ASSUME NEW c \in Co, pc'[c] \in Active, origin'[c] # None
               PROVE  pc'[origin'[c]] \in Active /\ origin'[c] # d
    BY Zenon
  <2>1. CASE c = d
    BY <2>1, <1>1, <1>2, <1>3, Zenon DEF TypeOK
  <2>2. CASE c # d
    <3>1. pc[c] \in Active /\ origin'[c] = origin[c] /\ origin[c] \in Co
      BY <2>2, <1>2, <1>3, Zenon DEF TypeOK
    <3>2. pc[origin[c]] \in Active
      BY <3>1, Zenon DEF Chain
    <3> QED
      BY <3>1, <3>2, <1>3, Zenon
  <2> QED
    BY <2>1, <2>2, Zenon
<1>6. \A a, b \in Co : pc'[a] \in Active /\ pc'[b] \in Active /\ origin'[a] # None
                       /\ origin'[a] = origin'[b] => a = b
  <2> SUFFICES ASSUME NEW a \in Co, NEW b \in Co, pc'[a] \in Active, pc'[b] \in Active,
                      origin'[a] # None, origin'[a] = origin'[b], a # b
               PROVE  FALSE
    BY Zenon
  <2>1. CASE a # d /\ b # d
    BY <2>1, <1>2, <1>3 DEF Chain
  <2>2. CASE a = d /\ b # d
    BY <2>2, <1>2, <1>3, Zenon DEF Chain
  <2>3. CASE a # d /\ b = d
    BY <2>3, <1>2, <1>3, Zenon DEF Chain
  <2> QED
    BY <2>1, <2>2, <2>3, Zenon
<1>7. \A c \in Co : pc'[c] = "closing" => closed
  BY <1>1, <1>2 DEF Chain
<1> QED
  BY <1>2, <1>4, <1>5, <1>6, <1>7, Zenon DEF Chain

\* yield() of the current coroutine keeps the chain: its origin is current again.
LEMMA YieldChain ==
  ASSUME TypeOK, Chain, NEW c \in Co, At(c, "run"), NEW l, l \notin Active,
         yield(c, l), closed' = closed
  PROVE  /\ Chain' /\ (current' # None => pc'[current'] \in Active)
         /\ \A d \in Co : pc'[d] \notin {"popTake", "pushPut"}
<1>1. /\ current = c /\ current' = origin[c] /\ origin' = origin /\ pc'[c] = l
      /\ \A d \in Co : d # c => pc'[d] = pc[d]
      /\ pc[c] = "run" /\ pc[c] \in Active
  BY Zenon DEF yield, At, TypeOK, Active
<1>2. \A d \in Co : pc'[d] \in Active => d # c /\ pc[d] \in Active
  BY <1>1, Zenon
<1>3. \A d \in Co : pc'[d] \notin {"popTake", "pushPut"}
  BY <1>1, <1>2, Zenon DEF Chain, Active
<1>4. ASSUME NEW d \in Co, pc'[d] \in Active, origin[d] # None
      PROVE  pc'[origin[d]] \in Active /\ origin[d] # origin[c]
  <2>1. pc[d] \in Active /\ d # c /\ origin[d] \in Co
    BY <1>2, <1>4, Zenon DEF TypeOK
  <2>2. pc[origin[d]] \in Active /\ origin[d] # c
    BY <2>1, <1>1, <1>4, Zenon DEF Chain
  <2>3. origin[d] # origin[c]
    BY <2>1, <1>1, <1>4, Zenon DEF Chain
  <2> QED
    BY <2>1, <2>2, <2>3, <1>1, Zenon
<1>5. \A a, b \in Co : pc'[a] \in Active /\ pc'[b] \in Active /\ origin[a] # None
                       /\ origin[a] = origin[b] => a = b
  BY <1>2, Zenon DEF Chain
<1>6. \A d \in Co : pc'[d] = "closing" => closed
  BY <1>1, <1>2, Zenon DEF Chain, Active
<1>7. Chain'
  BY <1>1, <1>3, <1>4, <1>5, <1>6, Zenon DEF Chain
<1>8. ASSUME origin[c] # None PROVE pc'[origin[c]] \in Active
  <2>1. origin[c] \in Co /\ pc[origin[c]] \in Active /\ origin[c] # c
    BY <1>1, <1>8, Zenon DEF Chain, TypeOK
  <2> QED
    BY <2>1, <1>1, Zenon
<1> QED
  BY <1>1, <1>3, <1>7, <1>8, Zenon

\* A change of what the current coroutine does keeps the chain.
LEMMA StepChain ==
  ASSUME TypeOK, Chain, NEW c \in Co, current = c, pc[c] \in Active, NEW l \in Active,
         pc' = [pc EXCEPT ![c] = l], UNCHANGED <<current, origin>>,
         closed => closed',
         l \in {"popTake", "pushPut"} => ~ closed',
         l = "closing" => closed',
         closed' => pc[c] \notin {"popTake", "pushPut"} \/ closed
  PROVE  Chain'
<1>1. pc'[c] = l /\ \A d \in Co : d # c => pc'[d] = pc[d]
  BY Zenon DEF TypeOK
<1>2. \A d \in Co : pc'[d] \in Active <=> pc[d] \in Active
  BY <1>1, Zenon
<1>3. \A d \in Co : origin[d] # None => origin[d] \in Co
  BY Zenon DEF TypeOK
<1>4. \A d \in Co : pc'[d] \in {"popTake", "pushPut"} => d = current /\ ~ closed'
  BY <1>1, Zenon DEF Chain
<1>5. \A d \in Co : pc'[d] = "closing" => closed'
  BY <1>1, Zenon DEF Chain
<1> QED
  BY <1>2, <1>3, <1>4, <1>5, Zenon DEF Chain

\* The part of the type that control and waits are about.
ControlType ==
  /\ producer_queue \in Seq(Co) /\ consumer_queue \in Seq(Co)
  /\ current \in Co \cup {None}
  /\ origin \in [Co -> Co \cup {None}]
  /\ pc \in [Co -> {"idle"} \cup Waiting \cup Active]
  /\ timer \subseteq Co
  /\ current # None => pc[current] \in Active

\* The first producer is suspended in its wait, and is resumed out of it.
LEMMA WakeProducer ==
  ASSUME TypeOK, WaitersQueued, Chain, producer_queue # <<>>,
         NEW STATE pcs, pcs \in [Co -> {"idle"} \cup Waiting \cup Active],
         \A c \in Co : c # current => pcs[c] = pc[c],
         current # None, pcs[current] \in {"run", "closing"},
         pcs[current] = "closing" => closed,
         wakeProducer(pcs), UNCHANGED <<consumer_queue, closed>>
  PROVE  /\ ControlType' /\ WaitersQueued' /\ Chain'
         /\ current' # None /\ pc'[current'] = (IF closed THEN "run" ELSE "pushPut")
         /\ \A c \in Co : pcs[c] = "closing" => pc'[c] = "closing"
<1> DEFINE d == Head(producer_queue)
           l == IF closed THEN "run" ELSE "pushPut"
<1>1. /\ Tail(producer_queue) \in Seq(Co)
      /\ d \in Member(producer_queue)
      /\ Member(Tail(producer_queue)) = Member(producer_queue) \ {d}
      /\ NoRepeat(Tail(producer_queue))
  BY TailQueue, Zenon DEF TypeOK, WaitersQueued
<1>2. d \in Co /\ pc[d] = "pushWait"
  BY <1>1, Zenon DEF WaitersQueued
<1>3. /\ producer_queue' = Tail(producer_queue) /\ resume(d, l, pcs) /\ timer' = timer \ {d}
      /\ consumer_queue' = consumer_queue /\ closed' = closed
  BY Zenon DEF wakeProducer, swoole_timer_del
<1>4. pc[d] \notin Active /\ l \in Active /\ l # "closing" /\ (l = "pushPut" => ~ closed)
      /\ closed \in BOOLEAN
  BY <1>2, Zenon DEF Active, TypeOK
<1> HIDE DEF d, l
<1>5. l \in {"popTake", "pushPut"} => ~ closed
  BY <1>4, Zenon DEF l
<1>6. Chain' /\ current' \in Co /\ pc'[current'] \in Active /\ current' = d
  BY <1>2, <1>3, <1>4, <1>5, ResumeChain, Zenon
<1>7. /\ pc' = [pcs EXCEPT ![d] = l] /\ origin' = [origin EXCEPT ![d] = current]
  BY <1>3, Zenon DEF resume
<1>8. ControlType'
  BY <1>1, <1>2, <1>3, <1>4, <1>6, <1>7, Zenon DEF ControlType, TypeOK
<1>9. pc'[d] = l /\ \A c \in Co : c # d => pc'[c] = pcs[c]
  BY <1>2, <1>7, Zenon
<1>10. d # current /\ current \in Co /\ pc[current] \in Active
  BY <1>2, <1>4, Zenon DEF TypeOK
<1>11. \A c \in Co : c # d => \A w \in Waiting : pc'[c] = w <=> pc[c] = w
  BY <1>9, <1>10, Zenon DEF Waiting, Active
<1>12. l \notin Waiting
  BY <1>4, Zenon DEF Waiting, Active
<1>13. Member(producer_queue') = {c \in Co : pc'[c] = "pushWait"}
  BY <1>1, <1>2, <1>3, <1>9, <1>11, <1>12, Zenon DEF WaitersQueued, Waiting
<1>14. Member(consumer_queue') = {c \in Co : pc'[c] = "popWait"}
  BY <1>2, <1>3, <1>9, <1>11, <1>12, Zenon DEF WaitersQueued, Waiting
<1>15. \A c \in timer' : pc'[c] \in Waiting
  BY <1>3, <1>11, Zenon DEF WaitersQueued, Waiting, TypeOK
<1>16. WaitersQueued'
  BY <1>1, <1>3, <1>13, <1>14, <1>15, Zenon DEF WaitersQueued
<1>17. \A c \in Co : pcs[c] = "closing" => pc'[c] = "closing"
  BY <1>2, <1>9, <1>10, Zenon
<1>18. current' # None /\ pc'[current'] = l
  BY <1>6, <1>9, ChannelAssumption, Zenon
<1> QED
  BY <1>6, <1>8, <1>16, <1>17, <1>18, Zenon DEF l

\* The first consumer is suspended in its wait, and is resumed out of it.
LEMMA WakeConsumer ==
  ASSUME TypeOK, WaitersQueued, Chain, consumer_queue # <<>>,
         NEW STATE pcs, pcs \in [Co -> {"idle"} \cup Waiting \cup Active],
         \A c \in Co : c # current => pcs[c] = pc[c],
         current # None, pcs[current] \in {"run", "closing"},
         pcs[current] = "closing" => closed,
         wakeConsumer(pcs), UNCHANGED <<producer_queue, closed>>
  PROVE  /\ ControlType' /\ WaitersQueued' /\ Chain'
         /\ current' # None /\ pc'[current'] = (IF closed THEN "run" ELSE "popTake")
         /\ \A c \in Co : pcs[c] = "closing" => pc'[c] = "closing"
<1> DEFINE d == Head(consumer_queue)
           l == IF closed THEN "run" ELSE "popTake"
<1>1. /\ Tail(consumer_queue) \in Seq(Co)
      /\ d \in Member(consumer_queue)
      /\ Member(Tail(consumer_queue)) = Member(consumer_queue) \ {d}
      /\ NoRepeat(Tail(consumer_queue))
  BY TailQueue, Zenon DEF TypeOK, WaitersQueued
<1>2. d \in Co /\ pc[d] = "popWait"
  BY <1>1, Zenon DEF WaitersQueued
<1>3. /\ consumer_queue' = Tail(consumer_queue) /\ resume(d, l, pcs) /\ timer' = timer \ {d}
      /\ producer_queue' = producer_queue /\ closed' = closed
  BY Zenon DEF wakeConsumer, swoole_timer_del
<1>4. pc[d] \notin Active /\ l \in Active /\ l # "closing" /\ (l = "popTake" => ~ closed)
      /\ closed \in BOOLEAN
  BY <1>2, Zenon DEF Active, TypeOK
<1> HIDE DEF d, l
<1>5. l \in {"popTake", "pushPut"} => ~ closed
  BY <1>4, Zenon DEF l
<1>6. Chain' /\ current' \in Co /\ pc'[current'] \in Active /\ current' = d
  BY <1>2, <1>3, <1>4, <1>5, ResumeChain, Zenon
<1>7. /\ pc' = [pcs EXCEPT ![d] = l] /\ origin' = [origin EXCEPT ![d] = current]
  BY <1>3, Zenon DEF resume
<1>8. ControlType'
  BY <1>1, <1>2, <1>3, <1>4, <1>6, <1>7, Zenon DEF ControlType, TypeOK
<1>9. pc'[d] = l /\ \A c \in Co : c # d => pc'[c] = pcs[c]
  BY <1>2, <1>7, Zenon
<1>10. d # current /\ current \in Co /\ pc[current] \in Active
  BY <1>2, <1>4, Zenon DEF TypeOK
<1>11. \A c \in Co : c # d => \A w \in Waiting : pc'[c] = w <=> pc[c] = w
  BY <1>9, <1>10, Zenon DEF Waiting, Active
<1>12. l \notin Waiting
  BY <1>4, Zenon DEF Waiting, Active
<1>13. Member(consumer_queue') = {c \in Co : pc'[c] = "popWait"}
  BY <1>1, <1>2, <1>3, <1>9, <1>11, <1>12, Zenon DEF WaitersQueued, Waiting
<1>14. Member(producer_queue') = {c \in Co : pc'[c] = "pushWait"}
  BY <1>2, <1>3, <1>9, <1>11, <1>12, Zenon DEF WaitersQueued, Waiting
<1>15. \A c \in timer' : pc'[c] \in Waiting
  BY <1>3, <1>11, Zenon DEF WaitersQueued, Waiting, TypeOK
<1>16. WaitersQueued'
  BY <1>1, <1>3, <1>13, <1>14, <1>15, Zenon DEF WaitersQueued
<1>17. \A c \in Co : pcs[c] = "closing" => pc'[c] = "closing"
  BY <1>2, <1>9, <1>10, Zenon
<1>18. current' # None /\ pc'[current'] = l
  BY <1>6, <1>9, ChannelAssumption, Zenon
<1> QED
  BY <1>6, <1>8, <1>16, <1>17, <1>18, Zenon DEF l

-----------------------------------------------------------------------------
\* A coroutine starts or stops running outside the channel.
LEMMA BeginStep == ASSUME IInv, NEW c \in Co, begin(c) PROVE IInv'
<1> USE ChannelAssumption
<1>1. /\ pc[c] = "idle" /\ resume(c, "run", pc)
      /\ UNCHANGED <<data_queue, producer_queue, consumer_queue, closed, timer, item, sent>>
      /\ current # None => pc[current] = "run"
  BY Zenon DEF begin, chan
<1>2. TypeOK /\ WaitersQueued /\ Chain /\ NoLostWakeup /\ QueueBounds /\ ClosedIsEmpty
  BY Zenon DEF IInv
<1>3. /\ pc[c] \notin Active /\ "run" \in Active
      /\ pc \in [Co -> {"idle"} \cup Waiting \cup Active]
      /\ current # None => pc[current] \in {"run", "closing"}
      /\ current # None /\ pc[current] = "closing" => closed
      /\ closed' = closed
  BY <1>1, <1>2, Zenon DEF Active, TypeOK
<1>4. Chain' /\ current' \in Co /\ pc'[current'] \in Active /\ current' = c
  BY <1>1, <1>2, <1>3, ResumeChain, Zenon
<1>5. pc' = [pc EXCEPT ![c] = "run"] /\ origin' = [origin EXCEPT ![c] = current]
  BY <1>1, Zenon DEF resume
<1>6. TypeOK'
  BY <1>1, <1>2, <1>3, <1>4, <1>5, Zenon DEF TypeOK
<1>7. pc'[c] = "run" /\ \A d \in Co : d # c => pc'[d] = pc[d]
  BY <1>2, <1>5, Zenon DEF TypeOK
<1>8. WaitersQueued'
  BY <1>1, <1>2, <1>7, Zenon DEF WaitersQueued, Waiting, TypeOK
<1>9. /\ ~ Holds("popTake") /\ ~ Holds("pushPut")
      /\ ~ Holds("popTake")' /\ ~ Holds("pushPut")'
  BY <1>1, <1>4, <1>7, Zenon DEF Holds
<1>10. NoLostWakeup' /\ QueueBounds'
  BY <1>1, <1>2, <1>9, Zenon DEF NoLostWakeup, QueueBounds
<1>11. ClosedIsEmpty'
  BY <1>1, <1>2, <1>7, Zenon DEF ClosedIsEmpty
<1> QED
  BY <1>4, <1>6, <1>8, <1>10, <1>11, Zenon DEF IInv

\* A coroutine of PHP code that ends or yields elsewhere keeps the invariant.
LEMMA LeaveStep == ASSUME IInv, NEW c \in Co, leave(c) PROVE IInv'
<1> USE ChannelAssumption
<1>1. /\ At(c, "run") /\ yield(c, "idle")
      /\ UNCHANGED <<data_queue, producer_queue, consumer_queue, closed, timer, item, sent>>
  BY Zenon DEF leave, chan
<1>2. TypeOK /\ WaitersQueued /\ Chain /\ NoLostWakeup /\ QueueBounds /\ ClosedIsEmpty
  BY Zenon DEF IInv
<1>3. "idle" \notin Active /\ closed' = closed
  BY <1>1, Zenon DEF Active
<1>4. /\ Chain' /\ (current' # None => pc'[current'] \in Active)
      /\ \A d \in Co : pc'[d] \notin {"popTake", "pushPut"}
  BY <1>1, <1>2, <1>3, YieldChain, Zenon
<1>5. /\ pc' = [pc EXCEPT ![c] = "idle"] /\ origin' = origin /\ current' = origin[c]
      /\ current = c /\ pc[c] = "run"
  BY <1>1, Zenon DEF yield, At
<1>6. TypeOK'
  BY <1>1, <1>2, <1>4, <1>5, Zenon DEF TypeOK
<1>7. pc'[c] = "idle" /\ \A d \in Co : d # c => pc'[d] = pc[d]
  BY <1>2, <1>5, Zenon DEF TypeOK
<1>8. WaitersQueued'
  BY <1>1, <1>2, <1>5, <1>7, Zenon DEF WaitersQueued, Waiting, TypeOK
<1>9. /\ ~ Holds("popTake") /\ ~ Holds("pushPut")
      /\ ~ Holds("popTake")' /\ ~ Holds("pushPut")'
  BY <1>4, <1>5, <1>6, Zenon DEF Holds, TypeOK
<1>10. NoLostWakeup' /\ QueueBounds'
  BY <1>1, <1>2, <1>9, Zenon DEF NoLostWakeup, QueueBounds
<1>11. ClosedIsEmpty'
  BY <1>1, <1>2, <1>5, <1>7, Zenon DEF ClosedIsEmpty
<1> QED
  BY <1>4, <1>6, <1>8, <1>10, <1>11, Zenon DEF IInv

\* pop() waits only when every item is gone, and goes on only when there is one.
LEMMA PopStep == ASSUME IInv, NEW c \in Co, NEW timed \in BOOLEAN, pop(c, timed) PROVE IInv'
<1> USE ChannelAssumption
<1>1. At(c, "run") /\ ~ closed /\ UNCHANGED <<data_queue, producer_queue, closed, item, sent>>
  BY Zenon DEF pop
<1>2. TypeOK /\ WaitersQueued /\ Chain /\ NoLostWakeup /\ QueueBounds /\ ClosedIsEmpty
  BY Zenon DEF IInv
<1>3. /\ current = c /\ current # None /\ pc[c] = "run"
      /\ ~ Holds("popTake") /\ ~ Holds("pushPut")
      /\ closed' = closed /\ ~ closed'
      /\ Len(data_queue) \in Nat /\ (data_queue = <<>> <=> Len(data_queue) = 0)
  BY <1>1, <1>2 DEF At, Holds, TypeOK
<1>4. CASE is_empty \/ consumer_queue # <<>>
  <2>1. /\ consumer_queue' = Append(consumer_queue, c)
        /\ timer' = (IF timed THEN timer \cup {c} ELSE timer)
        /\ yield(c, "popWait")
    BY <1>4, Zenon DEF pop
  <2>2. Len(data_queue) = 0
    BY <1>2, <1>3, <1>4, Zenon DEF NoLostWakeup, is_empty
  <2>3. "popWait" \notin Active
    BY Zenon DEF Active
  <2>4. /\ Chain' /\ (current' # None => pc'[current'] \in Active)
        /\ \A d \in Co : pc'[d] \notin {"popTake", "pushPut"}
    BY <2>1, <2>3, <1>1, <1>2, <1>3, YieldChain, Zenon
  <2>5. pc' = [pc EXCEPT ![c] = "popWait"] /\ origin' = origin /\ current' = origin[c]
    BY <2>1, Zenon DEF yield
  <2>6. /\ consumer_queue' \in Seq(Co)
        /\ Member(consumer_queue') = Member(consumer_queue) \cup {c}
        /\ c \notin Member(consumer_queue)
        /\ NoRepeat(consumer_queue')
    <3>1. c \notin Member(consumer_queue)
      BY <1>2, <1>3, Zenon DEF WaitersQueued
    <3> QED
      BY <3>1, <2>1, <1>2, AppendQueue DEF TypeOK, WaitersQueued
  <2>7. TypeOK'
    BY <2>1, <2>4, <2>5, <2>6, <1>1, <1>2, Zenon DEF TypeOK, Waiting
  <2>8. pc'[c] = "popWait" /\ \A d \in Co : d # c => pc'[d] = pc[d]
    BY <2>5, <1>2, Zenon DEF TypeOK
  <2>9. Member(consumer_queue') = {d \in Co : pc'[d] = "popWait"}
    BY <2>6, <2>8, <1>2, Zenon DEF WaitersQueued
  <2>10. Member(producer_queue') = {d \in Co : pc'[d] = "pushWait"}
    BY <2>8, <1>1, <1>2, <1>3, Zenon DEF WaitersQueued
  <2>11. \A d \in timer' : pc'[d] \in Waiting
    BY <2>1, <2>8, <1>2, Zenon DEF WaitersQueued, Waiting, TypeOK
  <2>12. WaitersQueued'
    BY <2>6, <2>9, <2>10, <2>11, <1>1, <1>2, Zenon DEF WaitersQueued
  <2>13. ~ Holds("popTake")' /\ ~ Holds("pushPut")'
    BY <2>4, <2>7, Zenon DEF Holds, TypeOK
  <2>14. NoLostWakeup' /\ QueueBounds'
    BY <2>2, <2>13, <1>1, <1>2, <1>3 DEF NoLostWakeup, QueueBounds
  <2>15. ClosedIsEmpty'
    BY <1>3, Zenon DEF ClosedIsEmpty
  <2> QED
    BY <2>4, <2>7, <2>12, <2>14, <2>15, Zenon DEF IInv
<1>5. CASE ~ (is_empty \/ consumer_queue # <<>>)
  <2>1. /\ pc' = [pc EXCEPT ![c] = "popTake"]
        /\ UNCHANGED <<consumer_queue, timer, current, origin>>
    BY <1>5, Zenon DEF pop
  <2>2. data_queue # <<>> /\ consumer_queue = <<>>
    BY <1>2, <1>3, <1>5, Zenon DEF is_empty, QueueBounds
  <2>3. pc[c] \in Active /\ "popTake" \in Active
    BY <1>3, Zenon DEF Active
  <2>4. Chain'
    BY <2>1, <2>3, <1>2, <1>3, StepChain, Zenon
  <2>5. pc'[c] = "popTake" /\ \A d \in Co : d # c => pc'[d] = pc[d]
    BY <2>1, <1>2, Zenon DEF TypeOK
  <2>6. TypeOK'
    BY <2>1, <2>3, <2>5, <1>1, <1>2, <1>3, Zenon DEF TypeOK
  <2>7. WaitersQueued'
    BY <2>1, <2>5, <1>1, <1>2, <1>3, Zenon DEF WaitersQueued, Waiting, TypeOK
  <2>8. Holds("popTake")' /\ ~ Holds("pushPut")'
    BY <2>1, <2>5, <1>3, Zenon DEF Holds
  <2>9. NoLostWakeup' /\ QueueBounds'
    BY <2>1, <2>2, <2>8, <1>1, <1>2, <1>3, Zenon DEF NoLostWakeup, QueueBounds
  <2>10. ClosedIsEmpty'
    BY <1>3, Zenon DEF ClosedIsEmpty
  <2> QED
    BY <2>4, <2>6, <2>7, <2>9, <2>10, Zenon DEF IInv
<1> QED
  BY <1>4, <1>5, Zenon

\* push() waits only when every place is taken, and goes on only when there is one.
LEMMA PushStep == ASSUME IInv, NEW c \in Co, NEW timed \in BOOLEAN, push(c, timed) PROVE IInv'
<1> USE ChannelAssumption
<1>1. At(c, "run") /\ ~ closed /\ UNCHANGED <<data_queue, consumer_queue,
                                              closed>> /\ item' \in [Co -> Nat] /\ sent' \in Nat
  BY DEF push, TypeOK, IInv
<1>2. TypeOK /\ WaitersQueued /\ Chain /\ NoLostWakeup /\ QueueBounds /\ ClosedIsEmpty
  BY Zenon DEF IInv
<1>3. /\ current = c /\ current # None /\ pc[c] = "run"
      /\ ~ Holds("popTake") /\ ~ Holds("pushPut")
      /\ closed' = closed /\ ~ closed'
      /\ Len(data_queue) \in Nat /\ (data_queue = <<>> <=> Len(data_queue) = 0)
  BY <1>1, <1>2 DEF At, Holds, TypeOK
<1>4. CASE is_full \/ producer_queue # <<>>
  <2>1. /\ producer_queue' = Append(producer_queue, c)
        /\ timer' = (IF timed THEN timer \cup {c} ELSE timer)
        /\ yield(c, "pushWait")
    BY <1>4, Zenon DEF push
  <2>2. Len(data_queue) = capacity
    BY <1>2, <1>3, <1>4, Zenon DEF NoLostWakeup, is_full
  <2>3. "pushWait" \notin Active
    BY Zenon DEF Active
  <2>4. /\ Chain' /\ (current' # None => pc'[current'] \in Active)
        /\ \A d \in Co : pc'[d] \notin {"popTake", "pushPut"}
    BY <2>1, <2>3, <1>1, <1>2, <1>3, YieldChain, Zenon
  <2>5. pc' = [pc EXCEPT ![c] = "pushWait"] /\ origin' = origin /\ current' = origin[c]
    BY <2>1, Zenon DEF yield
  <2>6. /\ producer_queue' \in Seq(Co)
        /\ Member(producer_queue') = Member(producer_queue) \cup {c}
        /\ c \notin Member(producer_queue)
        /\ NoRepeat(producer_queue')
    <3>1. c \notin Member(producer_queue)
      BY <1>2, <1>3, Zenon DEF WaitersQueued
    <3> QED
      BY <3>1, <2>1, <1>2, AppendQueue DEF TypeOK, WaitersQueued
  <2>7. TypeOK'
    BY <2>1, <2>4, <2>5, <2>6, <1>1, <1>2, Zenon DEF TypeOK, Waiting
  <2>8. pc'[c] = "pushWait" /\ \A d \in Co : d # c => pc'[d] = pc[d]
    BY <2>5, <1>2, Zenon DEF TypeOK
  <2>9. Member(producer_queue') = {d \in Co : pc'[d] = "pushWait"}
    BY <2>6, <2>8, <1>2, Zenon DEF WaitersQueued
  <2>10. Member(consumer_queue') = {d \in Co : pc'[d] = "popWait"}
    BY <2>8, <1>1, <1>2, <1>3, Zenon DEF WaitersQueued
  <2>11. \A d \in timer' : pc'[d] \in Waiting
    BY <2>1, <2>8, <1>2, Zenon DEF WaitersQueued, Waiting, TypeOK
  <2>12. WaitersQueued'
    BY <2>6, <2>9, <2>10, <2>11, <1>1, <1>2, Zenon DEF WaitersQueued
  <2>13. ~ Holds("popTake")' /\ ~ Holds("pushPut")'
    BY <2>4, <2>7, Zenon DEF Holds, TypeOK
  <2>14. NoLostWakeup' /\ QueueBounds'
    BY <2>2, <2>13, <1>1, <1>2, <1>3, Zenon DEF NoLostWakeup, QueueBounds
  <2>15. ClosedIsEmpty'
    BY <1>3, Zenon DEF ClosedIsEmpty
  <2> QED
    BY <2>4, <2>7, <2>12, <2>14, <2>15, Zenon DEF IInv
<1>5. CASE ~ (is_full \/ producer_queue # <<>>)
  <2>1. /\ pc' = [pc EXCEPT ![c] = "pushPut"]
        /\ UNCHANGED <<producer_queue, timer, current, origin>>
    BY <1>5, Zenon DEF push
  <2>2. Len(data_queue) < capacity /\ producer_queue = <<>>
    BY <1>2, <1>3, <1>5 DEF is_full, QueueBounds
  <2>3. pc[c] \in Active /\ "pushPut" \in Active
    BY <1>3, Zenon DEF Active
  <2>4. Chain'
    BY <2>1, <2>3, <1>2, <1>3, StepChain, Zenon
  <2>5. pc'[c] = "pushPut" /\ \A d \in Co : d # c => pc'[d] = pc[d]
    BY <2>1, <1>2, Zenon DEF TypeOK
  <2>6. TypeOK'
    BY <2>1, <2>3, <2>5, <1>1, <1>2, <1>3, Zenon DEF TypeOK
  <2>7. WaitersQueued'
    BY <2>1, <2>5, <1>1, <1>2, <1>3, Zenon DEF WaitersQueued, Waiting, TypeOK
  <2>8. Holds("pushPut")' /\ ~ Holds("popTake")'
    BY <2>1, <2>5, <1>3, Zenon DEF Holds
  <2>9. NoLostWakeup' /\ QueueBounds'
    BY <2>1, <2>2, <2>8, <1>1, <1>2, <1>3, Zenon DEF NoLostWakeup, QueueBounds
  <2>10. ClosedIsEmpty'
    BY <1>3, Zenon DEF ClosedIsEmpty
  <2> QED
    BY <2>4, <2>6, <2>7, <2>9, <2>10, Zenon DEF IInv
<1> QED
  BY <1>4, <1>5, Zenon

\* The rest of pop() gives the place it frees to the first producer.
LEMMA TakeStep == ASSUME IInv, NEW c \in Co, take(c) PROVE IInv'
<1> USE ChannelAssumption
<1> DEFINE pcs == [pc EXCEPT ![c] = "run"]
<1>1. /\ At(c, "popTake") /\ data_queue' = Tail(data_queue)
      /\ UNCHANGED <<consumer_queue, closed, item, sent>>
  BY Zenon DEF take
<1>2. TypeOK /\ WaitersQueued /\ Chain /\ NoLostWakeup /\ QueueBounds /\ ClosedIsEmpty
  BY Zenon DEF IInv
<1>3. /\ current = c /\ current # None /\ pc[c] = "popTake" /\ ~ closed /\ closed' = closed
      /\ Holds("popTake") /\ ~ Holds("pushPut")
  BY <1>1, <1>2, Zenon DEF At, Holds, Chain
<1>4. /\ data_queue # <<>> /\ data_queue' \in Seq(Nat)
      /\ Len(data_queue) \in Nat /\ Len(data_queue') = Len(data_queue) - 1
      /\ Len(data_queue') \in Nat /\ (data_queue' = <<>> <=> Len(data_queue') = 0)
  <2>1. data_queue # <<>> /\ data_queue \in Seq(Nat) /\ item[c] \in Nat
    BY <1>2, <1>3, Zenon DEF QueueBounds, TypeOK
  <2>2. /\ Tail(data_queue) \in Seq(Nat) /\ Len(data_queue) \in Nat
        /\ Len(Tail(data_queue)) = Len(data_queue) - 1
    BY <2>1
  <2>3. \A q \in Seq(Nat) : Len(q) \in Nat /\ (q = <<>> <=> Len(q) = 0)
    OBVIOUS
  <2> QED
    BY <2>1, <2>2, <2>3, <1>1, Zenon
<1>5. /\ pcs \in [Co -> {"idle"} \cup Waiting \cup Active] /\ pcs[c] = "run"
      /\ \A d \in Co : d # c => pcs[d] = pc[d]
  BY <1>2, Zenon DEF TypeOK, Active
<1>6. CASE producer_queue # <<>>
  <2>1. wakeProducer(pcs)
    BY <1>6, Zenon DEF take
  <2> HIDE DEF pcs
  <2>2. /\ ControlType' /\ WaitersQueued' /\ Chain'
        /\ current' # None /\ pc'[current'] = (IF closed THEN "run" ELSE "pushPut")
    <3>1. /\ \A d \in Co : d # current => pcs[d] = pc[d]
          /\ pcs[current] \in {"run", "closing"} /\ (pcs[current] = "closing" => closed)
          /\ UNCHANGED <<consumer_queue, closed>>
      BY <1>1, <1>3, <1>5, Zenon
    <3> QED
      BY <3>1, <2>1, <1>2, <1>3, <1>5, <1>6, WakeProducer, Zenon
  <2>3. Holds("pushPut")' /\ ~ Holds("popTake")'
    BY <2>2, <1>3, Zenon DEF Holds
  <2>4. TypeOK'
    BY <2>2, <1>1, <1>2, <1>4, Zenon DEF ControlType, TypeOK
  <2>5. Len(data_queue) = capacity
    BY <1>2, <1>3, <1>6, Zenon DEF NoLostWakeup
  <2>6. NoLostWakeup' /\ QueueBounds'
    BY <2>3, <2>5, <1>1, <1>2, <1>3, <1>4 DEF NoLostWakeup, QueueBounds
  <2>7. ClosedIsEmpty'
    BY <1>3, Zenon DEF ClosedIsEmpty
  <2> QED
    BY <2>2, <2>4, <2>6, <2>7, Zenon DEF IInv
<1>7. CASE producer_queue = <<>>
  <2>1. pc' = [pc EXCEPT ![c] = "run"] /\ UNCHANGED <<producer_queue, current, origin, timer>>
    BY <1>7, Zenon DEF take
  <2>2. pc[c] \in Active /\ "run" \in Active
    BY <1>3, Zenon DEF Active
  <2>3. Chain'
    BY <2>1, <2>2, <1>2, <1>3, StepChain, Zenon
  <2>4. pc'[c] = "run" /\ \A d \in Co : d # c => pc'[d] = pc[d]
    BY <2>1, <1>2, Zenon DEF TypeOK
  <2>5. TypeOK'
    BY <2>1, <2>2, <2>4, <1>1, <1>2, <1>3, <1>4, Zenon DEF TypeOK
  <2>6. WaitersQueued'
    BY <2>1, <2>4, <1>1, <1>2, <1>3, Zenon DEF WaitersQueued, Waiting, TypeOK
  <2>7. ~ Holds("popTake")' /\ ~ Holds("pushPut")'
    BY <2>1, <2>4, <1>3, Zenon DEF Holds
  <2>8. NoLostWakeup' /\ QueueBounds'
    BY <2>1, <2>7, <1>1, <1>2, <1>3, <1>4, <1>7 DEF NoLostWakeup, QueueBounds
  <2>9. ClosedIsEmpty'
    BY <1>3, Zenon DEF ClosedIsEmpty
  <2> QED
    BY <2>3, <2>5, <2>6, <2>8, <2>9, Zenon DEF IInv
<1> QED
  BY <1>6, <1>7, Zenon

\* The rest of push() gives the item it stores to the first consumer.
LEMMA PutStep == ASSUME IInv, NEW c \in Co, put(c) PROVE IInv'
<1> USE ChannelAssumption
<1> DEFINE pcs == [pc EXCEPT ![c] = "run"]
<1>1. /\ At(c, "pushPut") /\ data_queue' = Append(data_queue, item[c])
      /\ UNCHANGED <<producer_queue, closed, item, sent>>
  BY Zenon DEF put
<1>2. TypeOK /\ WaitersQueued /\ Chain /\ NoLostWakeup /\ QueueBounds /\ ClosedIsEmpty
  BY Zenon DEF IInv
<1>3. /\ current = c /\ current # None /\ pc[c] = "pushPut" /\ ~ closed /\ closed' = closed
      /\ Holds("pushPut") /\ ~ Holds("popTake")
  BY <1>1, <1>2, Zenon DEF At, Holds, Chain
<1>4. /\ Len(data_queue) < capacity /\ data_queue' \in Seq(Nat)
      /\ Len(data_queue) \in Nat /\ Len(data_queue') = Len(data_queue) + 1
      /\ Len(data_queue') \in Nat /\ (data_queue' = <<>> <=> Len(data_queue') = 0)
  <2>1. Len(data_queue) < capacity /\ data_queue \in Seq(Nat) /\ item[c] \in Nat
    BY <1>2, <1>3, Zenon DEF QueueBounds, TypeOK
  <2> QED
    BY <2>1, <1>1
<1>5. /\ pcs \in [Co -> {"idle"} \cup Waiting \cup Active] /\ pcs[c] = "run"
      /\ \A d \in Co : d # c => pcs[d] = pc[d]
  BY <1>2, Zenon DEF TypeOK, Active
<1>6. CASE consumer_queue # <<>>
  <2>1. wakeConsumer(pcs)
    BY <1>6, Zenon DEF put
  <2> HIDE DEF pcs
  <2>2. /\ ControlType' /\ WaitersQueued' /\ Chain'
        /\ current' # None /\ pc'[current'] = (IF closed THEN "run" ELSE "popTake")
    <3>1. /\ \A d \in Co : d # current => pcs[d] = pc[d]
          /\ pcs[current] \in {"run", "closing"} /\ (pcs[current] = "closing" => closed)
          /\ UNCHANGED <<producer_queue, closed>>
      BY <1>1, <1>3, <1>5, Zenon
    <3> QED
      BY <3>1, <2>1, <1>2, <1>3, <1>5, <1>6, WakeConsumer, Zenon
  <2>3. Holds("popTake")' /\ ~ Holds("pushPut")'
    BY <2>2, <1>3, Zenon DEF Holds
  <2>4. TypeOK'
    BY <2>2, <1>1, <1>2, <1>4, Zenon DEF ControlType, TypeOK
  <2>5. Len(data_queue) = 0
    BY <1>2, <1>3, <1>6, Zenon DEF NoLostWakeup
  <2>6. NoLostWakeup' /\ QueueBounds'
    BY <2>3, <2>5, <1>1, <1>2, <1>3, <1>4 DEF NoLostWakeup, QueueBounds
  <2>7. ClosedIsEmpty'
    BY <1>3, Zenon DEF ClosedIsEmpty
  <2> QED
    BY <2>2, <2>4, <2>6, <2>7, Zenon DEF IInv
<1>7. CASE consumer_queue = <<>>
  <2>1. pc' = [pc EXCEPT ![c] = "run"] /\ UNCHANGED <<consumer_queue, current, origin, timer>>
    BY <1>7, Zenon DEF put
  <2>2. pc[c] \in Active /\ "run" \in Active
    BY <1>3, Zenon DEF Active
  <2>3. Chain'
    BY <2>1, <2>2, <1>2, <1>3, StepChain, Zenon
  <2>4. pc'[c] = "run" /\ \A d \in Co : d # c => pc'[d] = pc[d]
    BY <2>1, <1>2, Zenon DEF TypeOK
  <2>5. TypeOK'
    BY <2>1, <2>2, <2>4, <1>1, <1>2, <1>3, <1>4, Zenon DEF TypeOK
  <2>6. WaitersQueued'
    BY <2>1, <2>4, <1>1, <1>2, <1>3, Zenon DEF WaitersQueued, Waiting, TypeOK
  <2>7. ~ Holds("popTake")' /\ ~ Holds("pushPut")'
    BY <2>1, <2>4, <1>3, Zenon DEF Holds
  <2>8. NoLostWakeup' /\ QueueBounds'
    BY <2>1, <2>7, <1>1, <1>2, <1>3, <1>4, <1>7 DEF NoLostWakeup, QueueBounds
  <2>9. ClosedIsEmpty'
    BY <1>3, Zenon DEF ClosedIsEmpty
  <2> QED
    BY <2>3, <2>5, <2>6, <2>8, <2>9, Zenon DEF IInv
<1> QED
  BY <1>6, <1>7, Zenon

\* close() marks the channel, and its loops end when nobody waits.
LEMMA CloseStep == ASSUME IInv, NEW c \in Co, close(c) PROVE IInv'
<1> USE ChannelAssumption
<1>1. /\ At(c, "run") /\ ~ closed /\ closed' = TRUE /\ pc' = [pc EXCEPT ![c] = "closing"]
      /\ UNCHANGED <<data_queue, producer_queue, consumer_queue, current, origin, timer,
                     item, sent>>
  BY Zenon DEF close
<1>2. TypeOK /\ WaitersQueued /\ Chain /\ NoLostWakeup /\ QueueBounds /\ ClosedIsEmpty
  BY Zenon DEF IInv
<1>3. current = c /\ current # None /\ pc[c] = "run" /\ pc[c] \in Active /\ "closing" \in Active
  BY <1>1, Zenon DEF At, Active
<1>4. Chain'
  BY <1>1, <1>2, <1>3, StepChain, Zenon
<1>5. pc'[c] = "closing" /\ \A d \in Co : d # c => pc'[d] = pc[d]
  BY <1>1, <1>2, Zenon DEF TypeOK
<1>6. TypeOK'
  BY <1>1, <1>2, <1>3, <1>5, Zenon DEF TypeOK
<1>7. WaitersQueued'
  BY <1>1, <1>2, <1>3, <1>5, Zenon DEF WaitersQueued, Waiting, TypeOK
<1>8. ~ Holds("popTake")' /\ ~ Holds("pushPut")'
  BY <1>1, <1>3, <1>5, Zenon DEF Holds
<1>9. NoLostWakeup' /\ QueueBounds'
  BY <1>1, <1>2, <1>8, Zenon DEF NoLostWakeup, QueueBounds
<1>10. ClosedIsEmpty'
  BY <1>5, Zenon DEF ClosedIsEmpty
<1> QED
  BY <1>4, <1>6, <1>7, <1>9, <1>10, Zenon DEF IInv

\* So does a turn of the loop of close(), which resumes one waiter.
LEMMA ClosingStep == ASSUME IInv, NEW c \in Co, closing(c) PROVE IInv'
<1> USE ChannelAssumption
<1>1. At(c, "closing") /\ UNCHANGED <<data_queue, closed, item, sent>>
  BY Zenon DEF closing
<1>2. TypeOK /\ WaitersQueued /\ Chain /\ NoLostWakeup /\ QueueBounds /\ ClosedIsEmpty
  BY Zenon DEF IInv
<1>3. /\ current = c /\ current # None /\ pc[c] = "closing" /\ closed /\ closed'
      /\ closed' = closed
  BY <1>1, <1>2, Zenon DEF At, Chain
<1>4. /\ pc \in [Co -> {"idle"} \cup Waiting \cup Active]
      /\ pc[current] \in {"run", "closing"} /\ (pc[current] = "closing" => closed)
  BY <1>2, <1>3, Zenon DEF TypeOK
<1>5. ASSUME ControlType', WaitersQueued', Chain', current' # None, pc'[current'] = "run",
             pc'[c] = "closing"
      PROVE  IInv'
  <2>1. TypeOK'
    BY <1>1, <1>2, <1>5, Zenon DEF ControlType, TypeOK
  <2>2. ~ Holds("popTake")' /\ ~ Holds("pushPut")'
    BY <1>5, Zenon DEF Holds
  <2>3. NoLostWakeup' /\ QueueBounds'
    BY <2>2, <1>1, <1>2, <1>3, Zenon DEF NoLostWakeup, QueueBounds
  <2>4. ClosedIsEmpty'
    BY <1>5, Zenon DEF ClosedIsEmpty
  <2> QED
    BY <2>1, <2>3, <2>4, <1>5, Zenon DEF IInv
<1>6. CASE /\ closeEnds /\ pc' = [pc EXCEPT ![c] = "run"]
           /\ UNCHANGED <<producer_queue, consumer_queue, current, origin, timer>>
  <2>1. pc[c] \in Active /\ "run" \in Active
    BY <1>3, Zenon DEF Active
  <2>2. Chain'
    BY <2>1, <1>2, <1>3, <1>6, StepChain, Zenon
  <2>3. pc'[c] = "run" /\ \A d \in Co : d # c => pc'[d] = pc[d]
    BY <1>2, <1>6, Zenon DEF TypeOK
  <2>4. TypeOK'
    BY <2>1, <2>3, <1>1, <1>2, <1>3, <1>6, Zenon DEF TypeOK
  <2>5. WaitersQueued'
    BY <2>3, <1>1, <1>2, <1>3, <1>6, Zenon DEF WaitersQueued, Waiting, TypeOK
  <2>6. ~ Holds("popTake")' /\ ~ Holds("pushPut")'
    BY <2>3, <1>3, <1>6, Zenon DEF Holds
  <2>7. NoLostWakeup' /\ QueueBounds'
    BY <2>6, <1>1, <1>2, <1>3, Zenon DEF NoLostWakeup, QueueBounds
  <2>8. ClosedIsEmpty'
    BY <1>6, Zenon DEF ClosedIsEmpty, closeEnds
  <2> QED
    BY <2>2, <2>4, <2>5, <2>7, <2>8, Zenon DEF IInv
<1>7. CASE producer_queue # <<>> /\ wakeProducer(pc) /\ UNCHANGED consumer_queue
  <2>1. /\ ControlType' /\ WaitersQueued' /\ Chain'
        /\ current' # None /\ pc'[current'] = (IF closed THEN "run" ELSE "pushPut")
        /\ \A d \in Co : pc[d] = "closing" => pc'[d] = "closing"
    BY <1>2, <1>3, <1>4, <1>7, WakeProducer, Zenon
  <2> QED
    BY <2>1, <1>3, <1>5, Zenon
<1>8. CASE /\ ~ closeEnds /\ producer_queue = <<>> /\ wakeConsumer(pc)
           /\ UNCHANGED producer_queue
  <2>1. consumer_queue # <<>>
    BY <1>8, Zenon DEF closeEnds
  <2>2. /\ ControlType' /\ WaitersQueued' /\ Chain'
        /\ current' # None /\ pc'[current'] = (IF closed THEN "run" ELSE "popTake")
        /\ \A d \in Co : pc[d] = "closing" => pc'[d] = "closing"
    BY <2>1, <1>2, <1>3, <1>4, <1>8, WakeConsumer, Zenon
  <2> QED
    BY <2>2, <1>3, <1>5, Zenon
<1> QED
  BY <1>6, <1>7, <1>8, Zenon DEF closing

\* A timer finds its coroutine in the wait it was armed for.
LEMMA TimerStep == ASSUME IInv, NEW c \in Co, timer_callback(c) PROVE IInv'
<1> USE ChannelAssumption
<1>1. /\ current = None /\ c \in timer /\ timer' = timer \ {c} /\ resume(c, "run", pc)
      /\ UNCHANGED <<data_queue, closed, item, sent>>
  BY Zenon DEF timer_callback
<1>2. TypeOK /\ WaitersQueued /\ Chain /\ NoLostWakeup /\ QueueBounds /\ ClosedIsEmpty
  BY Zenon DEF IInv
<1>3. /\ pc[c] \in Waiting /\ pc[c] \notin Active /\ "run" \in Active
      /\ pc \in [Co -> {"idle"} \cup Waiting \cup Active] /\ closed' = closed
  BY <1>1, <1>2, Zenon DEF WaitersQueued, Waiting, Active, TypeOK
<1>4. Chain' /\ current' \in Co /\ pc'[current'] \in Active /\ current' = c
  BY <1>1, <1>2, <1>3, ResumeChain, Zenon
<1>5. pc' = [pc EXCEPT ![c] = "run"] /\ origin' = [origin EXCEPT ![c] = current]
  BY <1>1, Zenon DEF resume
<1>6. pc'[c] = "run" /\ \A d \in Co : d # c => pc'[d] = pc[d]
  BY <1>2, <1>5, Zenon DEF TypeOK
<1>7. /\ consumer_queue' \in Seq(Co) /\ producer_queue' \in Seq(Co)
      /\ NoRepeat(consumer_queue') /\ NoRepeat(producer_queue')
      /\ Member(consumer_queue') = Member(consumer_queue) \ {c}
      /\ Member(producer_queue') = Member(producer_queue) \ {c}
      /\ consumer_queue = <<>> => consumer_queue' = <<>>
      /\ producer_queue = <<>> => producer_queue' = <<>>
  <2>1. CASE pc[c] = "popWait"
    <3>1. consumer_queue' = remove(consumer_queue, c) /\ producer_queue' = producer_queue
      BY <2>1, Zenon DEF timer_callback
    <3>2. c \notin Member(producer_queue)
      BY <2>1, <1>2, Zenon DEF WaitersQueued
    <3>3. /\ remove(consumer_queue, c) \in Seq(Co)
          /\ consumer_queue = <<>> => remove(consumer_queue, c) = <<>>
          /\ Member(remove(consumer_queue, c)) = Member(consumer_queue) \ {c}
          /\ NoRepeat(remove(consumer_queue, c))
      BY <1>2, RemoveQueue, Zenon DEF TypeOK, WaitersQueued
    <3> QED
      BY <3>1, <3>2, <3>3, <1>2, Zenon DEF TypeOK, WaitersQueued
  <2>2. CASE pc[c] # "popWait"
    <3>1. producer_queue' = remove(producer_queue, c) /\ consumer_queue' = consumer_queue
      BY <2>2, Zenon DEF timer_callback
    <3>2. c \notin Member(consumer_queue)
      BY <2>2, <1>2, Zenon DEF WaitersQueued
    <3>3. /\ remove(producer_queue, c) \in Seq(Co)
          /\ producer_queue = <<>> => remove(producer_queue, c) = <<>>
          /\ Member(remove(producer_queue, c)) = Member(producer_queue) \ {c}
          /\ NoRepeat(remove(producer_queue, c))
      BY <1>2, RemoveQueue, Zenon DEF TypeOK, WaitersQueued
    <3> QED
      BY <3>1, <3>2, <3>3, <1>2 DEF TypeOK, WaitersQueued
  <2> QED
    BY <2>1, <2>2, Zenon
<1>8. TypeOK'
  BY <1>1, <1>2, <1>3, <1>4, <1>5, <1>7, Zenon DEF TypeOK
<1>9. WaitersQueued'
  <2>1. /\ Member(consumer_queue') = {d \in Co : pc'[d] = "popWait"}
        /\ Member(producer_queue') = {d \in Co : pc'[d] = "pushWait"}
    BY <1>2, <1>6, <1>7, Zenon DEF WaitersQueued
  <2>2. \A d \in timer' : pc'[d] \in Waiting
    BY <1>1, <1>2, <1>6, Zenon DEF WaitersQueued, TypeOK
  <2> QED
    BY <2>1, <2>2, <1>7, Zenon DEF WaitersQueued
<1>10. /\ ~ Holds("popTake") /\ ~ Holds("pushPut")
       /\ ~ Holds("popTake")' /\ ~ Holds("pushPut")'
  BY <1>1, <1>4, <1>6, Zenon DEF Holds
<1>11. NoLostWakeup' /\ QueueBounds'
  BY <1>1, <1>2, <1>7, <1>10, Zenon DEF NoLostWakeup, QueueBounds
<1>12. ClosedIsEmpty'
  <2>1. \A d \in Co : pc'[d] = "closing" <=> pc[d] = "closing"
    BY <1>3, <1>6, Zenon DEF Waiting
  <2> QED
    BY <2>1, <1>1, <1>2, <1>7, Zenon DEF ClosedIsEmpty
<1> QED
  BY <1>4, <1>8, <1>9, <1>11, <1>12, Zenon DEF IInv

-----------------------------------------------------------------------------
\* A new channel satisfies the invariant.
LEMMA InitIInv == Init => IInv
<1> SUFFICES ASSUME Init PROVE IInv
  BY Zenon
<1> USE ChannelAssumption
<1>1. TypeOK
  <2>1. data_queue \in Seq(Nat) /\ producer_queue \in Seq(Co) /\ consumer_queue \in Seq(Co)
    BY DEF Init
  <2>2. closed \in BOOLEAN /\ timer \subseteq Co /\ sent \in Nat
    BY Zenon DEF Init
  <2>3. /\ current \in Co \cup {None} /\ origin \in [Co -> Co \cup {None}]
        /\ pc \in [Co -> {"idle"} \cup Waiting \cup Active] /\ item \in [Co -> Nat]
        /\ current # None => pc[current] \in Active
    BY Zenon DEF Init
  <2> QED
    BY <2>1, <2>2, <2>3, Zenon DEF TypeOK
<1>2. Chain
  BY Zenon DEF Init, Chain, Active
<1>3. WaitersQueued
  BY DEF Init, WaitersQueued, NoRepeat, Member
<1>4. NoLostWakeup /\ QueueBounds /\ ClosedIsEmpty
  BY DEF Init, NoLostWakeup, QueueBounds, ClosedIsEmpty, Holds
<1> QED
  BY <1>1, <1>2, <1>3, <1>4, Zenon DEF IInv

\* Every step of every coroutine, of close() and of the timers keeps the invariant.
LEMMA NextIInv == IInv /\ [Next]_vars => IInv'
<1> SUFFICES ASSUME IInv, [Next]_vars PROVE IInv'
  BY Zenon
<1>1. CASE UNCHANGED vars
  BY <1>1 DEF vars, IInv, TypeOK, WaitersQueued, Chain, NoLostWakeup, QueueBounds,
              ClosedIsEmpty, Holds, Member, NoRepeat
<1>2. CASE Next
  <2>1. PICK c \in Co :
          \/ begin(c) \/ leave(c)
          \/ \E timed \in BOOLEAN : pop(c, timed) \/ push(c, timed)
          \/ take(c) \/ put(c) \/ close(c) \/ closing(c) \/ timer_callback(c)
    BY <1>2, Zenon DEF Next
  <2>2. CASE \E timed \in BOOLEAN : pop(c, timed) \/ push(c, timed)
    BY <2>2, PopStep, PushStep, Zenon
  <2> QED
    BY <2>1, <2>2, BeginStep, LeaveStep, TakeStep, PutStep, CloseStep, ClosingStep,
       TimerStep, Zenon
<1> QED
  BY <1>1, <1>2, Zenon

\* Coroutine::current is never suspended, and every variable keeps its type.
THEOREM ControlTypes == Spec => []TypeOK
<1>1. IInv => TypeOK
  BY Zenon DEF IInv
<1> QED
  BY <1>1, InitIInv, NextIInv, PTL DEF Spec

\* pop_coroutine() and timer_callback() resume only coroutines suspended in that wait.
THEOREM WaitersAreQueued == Spec => []WaitersQueued
<1>1. IInv => WaitersQueued
  BY Zenon DEF IInv
<1> QED
  BY <1>1, InitIInv, NextIInv, PTL DEF Spec

\* In an open channel nobody waits for an item or a place that is there and unclaimed.
THEOREM NobodyWaitsInVain == Spec => []NoLostWakeup
<1>1. IInv => NoLostWakeup
  BY Zenon DEF IInv
<1> QED
  BY <1>1, InitIInv, NextIInv, PTL DEF Spec

\* front() is never called on an empty queue, and the capacity is never exceeded.
THEOREM BoundsHold == Spec => []QueueBounds
<1>1. IInv => QueueBounds
  BY Zenon DEF IInv
<1> QED
  BY <1>1, InitIInv, NextIInv, PTL DEF Spec

\* Once close() has returned nobody waits in the channel.
THEOREM CloseLeavesNobody == Spec => []ClosedIsEmpty
<1>1. IInv => ClosedIsEmpty
  BY Zenon DEF IInv
<1> QED
  BY <1>1, InitIInv, NextIInv, PTL DEF Spec

\* Nobody waits in vain and no bound is passed, for any capacity and number of coroutines.
THEOREM ChannelIsSound == Spec => []ChannelSound
  BY ControlTypes, WaitersAreQueued, NobodyWaitsInVain, BoundsHold, CloseLeavesNobody, PTL
     DEF ChannelSound

-----------------------------------------------------------------------------
(* The order of the items. *)

\* What is stored, then what the current coroutine is about to store, then what waits is in
\* the order of the calls, none of which is later than the last one.
StoredOrder ==
  /\ \A i, j \in 1..Len(data_queue) : i < j => data_queue[i] < data_queue[j]
  /\ \A i \in 1..Len(data_queue) : data_queue[i] <= sent

PutOrder ==
  Holds("pushPut") =>
    /\ \A i \in 1..Len(data_queue) : data_queue[i] < item[current]
    /\ item[current] <= sent

WaitOrder ==
  /\ \A i, j \in 1..Len(producer_queue) : i < j => item[producer_queue[i]] < item[producer_queue[j]]
  /\ \A j \in 1..Len(producer_queue) :
       /\ item[producer_queue[j]] <= sent
       /\ Holds("pushPut") => item[current] < item[producer_queue[j]]
       /\ \A i \in 1..Len(data_queue) : data_queue[i] < item[producer_queue[j]]

Ordered == ~ closed => StoredOrder /\ PutOrder /\ WaitOrder

\* What is left of a queue without its head, or without c, is in the order of the queue.
LEMMA TailOrder ==
  ASSUME NEW S, NEW q \in Seq(S), q # <<>>
  PROVE  /\ 1 \in 1..Len(q) /\ Head(q) = q[1]
         /\ \A i \in 1..Len(Tail(q)) : i \in Int /\ i + 1 \in 1..Len(q) /\ Tail(q)[i] = q[i + 1]
  OBVIOUS

\* Taking an element out of a queue keeps the others in their order.
LEMMA RemoveOrder ==
  ASSUME NEW S, NEW q \in Seq(S), NEW c
  PROVE  \E k \in Int : \A i \in 1..Len(remove(q, c)) :
           /\ i \in Int
           /\ i < k => i \in 1..Len(q) /\ remove(q, c)[i] = q[i]
           /\ ~ (i < k) => i + 1 \in 1..Len(q) /\ remove(q, c)[i] = q[i + 1]
<1>1. CASE ~ \E i \in 1..Len(q) : q[i] = c
  <2>1. remove(q, c) = q /\ Len(q) + 1 \in Int
    BY <1>1 DEF remove
  <2>2. \A i \in 1..Len(q) : i < Len(q) + 1 /\ i \in Int
    OBVIOUS
  <2> QED
    BY <2>1, <2>2, Zenon
<1>2. CASE \E i \in 1..Len(q) : q[i] = c
  <2> DEFINE k == CHOOSE i \in 1..Len(q) : q[i] = c
             r == [j \in 1..(Len(q) - 1) |-> IF j < k THEN q[j] ELSE q[j + 1]]
  <2>1. k \in 1..Len(q) /\ q[k] = c
    BY <1>2, Zenon
  <2>2. remove(q, c) = r
    BY <1>2, Zenon DEF remove
  <2> HIDE DEF k
  <2>3. Len(q) \in Nat /\ Len(q) - 1 \in Nat /\ k \in Int
    BY <2>1
  <2>4. Len(r) = Len(q) - 1
    BY <2>3
  <2>5. \A j \in 1..(Len(q) - 1) :
          /\ j \in Int /\ j \in 1..Len(q) /\ j + 1 \in 1..Len(q)
          /\ r[j] = IF j < k THEN q[j] ELSE q[j + 1]
    BY <2>3
  <2> HIDE DEF r
  <2> QED
    BY <2>2, <2>3, <2>4, <2>5, Zenon
<1> QED
  BY <1>1, <1>2, Zenon

\* A step that neither stores nor starts a push, and after which nobody is about to store.
LEMMA QuietOrder ==
  ASSUME IInv, Ordered, UNCHANGED <<data_queue, producer_queue, closed, item, sent>>,
         ~ closed => ~ Holds("pushPut")'
  PROVE  Ordered'
<1> SUFFICES ASSUME ~ closed PROVE StoredOrder' /\ PutOrder' /\ WaitOrder'
  BY Zenon DEF Ordered
<1>1. StoredOrder'
  BY Zenon DEF Ordered, StoredOrder
<1>2. PutOrder'
  BY Zenon DEF PutOrder
<1>3. WaitOrder'
  BY Zenon DEF Ordered, WaitOrder
<1> QED
  BY <1>1, <1>2, <1>3, Zenon

\* The order of items is kept by push(), which stores its item or waits with it,
LEMMA PushOrder ==
  ASSUME IInv, Ordered, NEW c \in Co, NEW timed \in BOOLEAN, push(c, timed)
  PROVE  Ordered'
<1> USE ChannelAssumption
<1>1. /\ TypeOK /\ WaitersQueued /\ Chain /\ At(c, "run") /\ ~ closed /\ closed' = closed
      /\ data_queue' = data_queue /\ sent' = sent + 1 /\ item' = [item EXCEPT ![c] = sent']
      /\ StoredOrder /\ WaitOrder
  BY Zenon DEF IInv, push, Ordered
<1>2. /\ sent \in Nat /\ item \in [Co -> Nat] /\ item'[c] = sent + 1
      /\ producer_queue \in Seq(Co)
      /\ data_queue \in Seq(Nat) /\ Len(data_queue) \in Nat /\ Len(producer_queue) \in Nat
      /\ \A d \in Co : d # c => item'[d] = item[d]
      /\ \A i \in 1..Len(data_queue) : data_queue[i] \in Nat
  BY <1>1 DEF TypeOK
<1>3. \A i \in 1..Len(producer_queue) :
        producer_queue[i] \in Co /\ item'[producer_queue[i]] = item[producer_queue[i]]
        /\ item[producer_queue[i]] \in Nat
  <2> SUFFICES ASSUME NEW i \in 1..Len(producer_queue)
               PROVE  producer_queue[i] \in Co /\ producer_queue[i] # c
    BY <1>2, Zenon
  <2>1. producer_queue[i] \in Member(producer_queue)
    BY Zenon DEF Member
  <2> QED
    BY <2>1, <1>1, Zenon DEF WaitersQueued, At
<1>4. StoredOrder'
  BY <1>1, <1>2 DEF StoredOrder
<1>5. CASE is_full \/ producer_queue # <<>>
  <2>1. producer_queue' = Append(producer_queue, c) /\ yield(c, "pushWait")
    BY <1>5, Zenon DEF push
  <2>2. ~ Holds("pushPut")'
    <3>1. \A d \in Co : pc'[d] \notin {"popTake", "pushPut"}
      BY <1>1, <2>1, YieldChain, Zenon DEF Active
    <3>2. current' \in Co \cup {None}
      BY <2>1, <1>1, Zenon DEF yield, TypeOK
    <3> QED
      BY <3>1, <3>2, Zenon DEF Holds
  <2> DEFINE n == Len(producer_queue)
  <2>3. /\ Len(producer_queue') = n + 1 /\ producer_queue'[n + 1] = c
        /\ \A i \in 1..(n + 1) : i # n + 1 => i \in 1..n /\ producer_queue'[i] = producer_queue[i]
        /\ \A i \in 1..(n + 1) : i \in Int
    BY <2>1, <1>2
  <2>4. ASSUME NEW i \in 1..(n + 1), NEW j \in 1..(n + 1), i < j
        PROVE  item'[producer_queue'[i]] < item'[producer_queue'[j]]
    <3>1. i # n + 1 /\ i \in 1..n /\ producer_queue'[i] = producer_queue[i]
      BY <2>3, <2>4, <1>2
    <3>2. CASE j = n + 1
      BY <3>1, <3>2, <2>3, <1>1, <1>2, <1>3 DEF WaitOrder
    <3>3. CASE j # n + 1
      BY <3>1, <3>3, <2>3, <2>4, <1>1, <1>2, <1>3, ZenonT(40) DEF WaitOrder
    <3> QED
      BY <3>2, <3>3, Zenon
  <2>5. ASSUME NEW j \in 1..(n + 1)
        PROVE  /\ item'[producer_queue'[j]] <= sent'
               /\ \A i \in 1..Len(data_queue) : data_queue[i] < item'[producer_queue'[j]]
    <3>1. CASE j = n + 1
      BY <3>1, <2>3, <1>1, <1>2 DEF StoredOrder
    <3>2. CASE j # n + 1
      <4>1. j \in 1..n /\ item'[producer_queue'[j]] = item[producer_queue[j]]
        BY <3>2, <2>3, <1>3, Zenon
      <4>2. /\ item[producer_queue[j]] <= sent /\ item[producer_queue[j]] \in Nat
            /\ \A i \in 1..Len(data_queue) : data_queue[i] < item[producer_queue[j]]
        BY <4>1, <1>1, <1>3, Zenon DEF WaitOrder
      <4> QED
        BY <4>1, <4>2, <1>1, <1>2
    <3> QED
      BY <3>1, <3>2, Zenon
  <2>6. WaitOrder'
    BY <2>2, <2>3, <2>4, <2>5, <1>1, Zenon DEF WaitOrder
  <2> QED
    BY <2>2, <2>6, <1>4, Zenon DEF Ordered, PutOrder
<1>6. CASE ~ (is_full \/ producer_queue # <<>>)
  <2>1. /\ producer_queue' = <<>> /\ current' = c
        /\ \A i \in 1..Len(data_queue) : data_queue[i] < item'[c]
    BY <1>6, <1>1, <1>2 DEF push, StoredOrder, At
  <2>2. PutOrder'
    BY <2>1, <1>1, <1>2 DEF PutOrder
  <2>3. WaitOrder'
    BY <2>1 DEF WaitOrder
  <2> QED
    BY <2>2, <2>3, <1>4, Zenon DEF Ordered
<1> QED
  BY <1>5, <1>6, Zenon

\* by pop(), which takes the first,
LEMMA TakeOrder == ASSUME IInv, Ordered, NEW c \in Co, take(c) PROVE Ordered'
<1> USE ChannelAssumption
<1>1. /\ TypeOK /\ Chain /\ At(c, "popTake") /\ data_queue # <<>>
      /\ data_queue' = Tail(data_queue)
      /\ closed' = closed /\ item' = item /\ sent' = sent
  BY Zenon DEF IInv, take
<1>2. ~ closed /\ StoredOrder /\ WaitOrder /\ current = c
  BY <1>1, Zenon DEF Chain, Ordered, At
<1>3. /\ data_queue \in Seq(Nat) /\ producer_queue \in Seq(Co)
      /\ \A i \in 1..Len(data_queue') :
           i \in Int /\ i + 1 \in 1..Len(data_queue) /\ data_queue'[i] = data_queue[i + 1]
  BY <1>1, TailOrder, Zenon DEF TypeOK
<1>4. StoredOrder'
  BY <1>1, <1>2, <1>3 DEF StoredOrder
<1>5. CASE producer_queue # <<>>
  <2>1. /\ producer_queue' = Tail(producer_queue) /\ current' = Head(producer_queue)
    BY <1>5, Zenon DEF take, wakeProducer, resume
  <2>2. /\ 1 \in 1..Len(producer_queue) /\ current' = producer_queue[1]
        /\ \A i \in 1..Len(producer_queue') :
             /\ i \in Int /\ i + 1 \in 1..Len(producer_queue) /\ 1 < i + 1
             /\ producer_queue'[i] = producer_queue[i + 1]
    BY <2>1, <1>3, <1>5, TailOrder
  <2>3. PutOrder'
    BY <2>2, <1>1, <1>2, <1>3, Zenon DEF WaitOrder, PutOrder
  <2>4. ASSUME NEW i \in 1..Len(producer_queue'), NEW j \in 1..Len(producer_queue'), i < j
        PROVE  item[producer_queue'[i]] < item[producer_queue'[j]]
    <3>1. i + 1 < j + 1
      BY <2>2, <2>4
    <3> QED
      BY <3>1, <2>2, <1>2, Zenon DEF WaitOrder
  <2>5. ASSUME NEW j \in 1..Len(producer_queue')
        PROVE  /\ item[producer_queue'[j]] <= sent /\ item[current'] < item[producer_queue'[j]]
               /\ \A i \in 1..Len(data_queue') : data_queue'[i] < item[producer_queue'[j]]
    BY <2>2, <1>2, <1>3, Zenon DEF WaitOrder
  <2>6. WaitOrder'
    BY <2>4, <2>5, <1>1, Zenon DEF WaitOrder
  <2> QED
    BY <2>3, <2>6, <1>4, Zenon DEF Ordered
<1>6. CASE producer_queue = <<>>
  <2>1. producer_queue' = <<>> /\ ~ Holds("pushPut")'
    BY <1>6, <1>1, <1>2, Zenon DEF take, Holds, TypeOK
  <2> QED
    BY <2>1, <1>4 DEF Ordered, PutOrder, WaitOrder
<1> QED
  BY <1>5, <1>6, Zenon

\* by a push() that goes on after its wait,
LEMMA PutsOrder == ASSUME IInv, Ordered, NEW c \in Co, put(c) PROVE Ordered'
<1> USE ChannelAssumption
<1>1. /\ TypeOK /\ WaitersQueued /\ Chain /\ At(c, "pushPut")
      /\ data_queue' = Append(data_queue, item[c])
      /\ closed' = closed /\ item' = item /\ sent' = sent /\ producer_queue' = producer_queue
  BY Zenon DEF IInv, put
<1>2. ~ closed /\ StoredOrder /\ PutOrder /\ WaitOrder /\ current = c /\ Holds("pushPut")
  BY <1>1, Zenon DEF Chain, Ordered, At, Holds
<1> DEFINE n == Len(data_queue)
<1>3. /\ n \in Nat /\ Len(data_queue') = n + 1 /\ data_queue'[n + 1] = item[c]
      /\ item[c] \in Nat /\ sent \in Nat
      /\ \A i \in 1..(n + 1) : i \in Int
      /\ \A i \in 1..(n + 1) : i # n + 1 => i \in 1..n /\ data_queue'[i] = data_queue[i]
  BY <1>1 DEF TypeOK
<1>4. StoredOrder'
  BY <1>1, <1>2, <1>3 DEF StoredOrder, PutOrder
<1>5. ~ Holds("pushPut")'
  <2>1. CASE consumer_queue # <<>>
    <3>1. /\ consumer_queue \in Seq(Co) /\ Head(consumer_queue) \in Member(consumer_queue)
      BY <2>1, <1>1, TailQueue, Zenon DEF TypeOK, WaitersQueued
    <3>2. /\ current' = Head(consumer_queue) /\ Head(consumer_queue) \in Co
          /\ pc'[current'] = "popTake"
      BY <3>1, <2>1, <1>1, <1>2 DEF put, wakeConsumer, resume, WaitersQueued, TypeOK
    <3> QED
      BY <3>2, Zenon DEF Holds
  <2>2. CASE consumer_queue = <<>>
    BY <2>2, <1>1, <1>2, Zenon DEF put, Holds, TypeOK
  <2> QED
    BY <2>1, <2>2, Zenon
<1>6. WaitOrder'
  BY <1>1, <1>2, <1>3, <1>5, Zenon DEF WaitOrder
<1> QED
  BY <1>4, <1>5, <1>6, Zenon DEF Ordered, PutOrder

\* by the timer of a wait,
LEMMA TimerOrder == ASSUME IInv, Ordered, NEW c \in Co, timer_callback(c) PROVE Ordered'
<1> USE ChannelAssumption
<1>1. /\ TypeOK /\ data_queue' = data_queue /\ closed' = closed /\ item' = item /\ sent' = sent
      /\ resume(c, "run", pc)
  BY Zenon DEF IInv, timer_callback
<1>2. ~ Holds("pushPut")'
  BY <1>1, Zenon DEF resume, Holds, TypeOK
<1> SUFFICES ASSUME ~ closed PROVE StoredOrder' /\ WaitOrder'
  BY <1>1, <1>2, Zenon DEF Ordered, PutOrder
<1>3. StoredOrder /\ WaitOrder
  BY Zenon DEF Ordered
<1>4. StoredOrder'
  BY <1>1, <1>3, Zenon DEF StoredOrder
<1>5. CASE pc[c] = "popWait"
  BY <1>1, <1>2, <1>3, <1>4, <1>5, Zenon DEF timer_callback, WaitOrder
<1>6. CASE pc[c] # "popWait"
  <2>1. producer_queue' = remove(producer_queue, c) /\ producer_queue \in Seq(Co)
    BY <1>1, <1>6, Zenon DEF timer_callback, TypeOK
  <2>2. PICK k \in Int : \A i \in 1..Len(producer_queue') :
          /\ i \in Int
          /\ i < k => i \in 1..Len(producer_queue) /\ producer_queue'[i] = producer_queue[i]
          /\ ~ (i < k) => i + 1 \in 1..Len(producer_queue)
                          /\ producer_queue'[i] = producer_queue[i + 1]
    <3>1. \E k \in Int : \A i \in 1..Len(remove(producer_queue, c)) :
            /\ i \in Int
            /\ i < k => /\ i \in 1..Len(producer_queue)
                       /\ remove(producer_queue, c)[i] = producer_queue[i]
            /\ ~ (i < k) => /\ i + 1 \in 1..Len(producer_queue)
                           /\ remove(producer_queue, c)[i] = producer_queue[i + 1]
      BY <2>1, RemoveOrder, Zenon
    <3> QED
      BY <2>1, <3>1, Zenon
  <2>3. ASSUME NEW i \in 1..Len(producer_queue'), NEW j \in 1..Len(producer_queue'), i < j
        PROVE  item[producer_queue'[i]] < item[producer_queue'[j]]
    <3>1. PICK a \in 1..Len(producer_queue), b \in 1..Len(producer_queue) :
            a < b /\ producer_queue'[i] = producer_queue[a] /\ producer_queue'[j] = producer_queue[b]
      <4>1. CASE i < k /\ j < k
        BY <2>2, <2>3, <4>1, Zenon
      <4>2. CASE i < k /\ ~ (j < k)
        BY <2>2, <2>3, <4>2
      <4>3. CASE ~ (i < k) /\ ~ (j < k)
        BY <2>2, <2>3, <4>3
      <4> QED
        BY <2>2, <2>3, <4>1, <4>2, <4>3, SMTT(40)
    <3> QED
      BY <3>1, <1>3, Zenon DEF WaitOrder
  <2>4. ASSUME NEW j \in 1..Len(producer_queue')
        PROVE  /\ item[producer_queue'[j]] <= sent
               /\ \A i \in 1..Len(data_queue) : data_queue[i] < item[producer_queue'[j]]
    BY <2>2, <1>3, Zenon DEF WaitOrder
  <2>5. WaitOrder'
    BY <2>3, <2>4, <1>1, <1>2, Zenon DEF WaitOrder
  <2> QED
    BY <2>5, <1>4, Zenon
<1> QED
  BY <1>5, <1>6, Zenon

\* and so by every step.
LEMMA NextOrder == IInv /\ Ordered /\ [Next]_vars => Ordered'
<1> SUFFICES ASSUME IInv, Ordered, [Next]_vars PROVE Ordered'
  BY Zenon
<1> USE ChannelAssumption
<1>0. TypeOK /\ Chain
  BY Zenon DEF IInv
<1>1. ASSUME NEW c \in Co, begin(c) PROVE Ordered'
  <2>1. ~ Holds("pushPut")' /\ UNCHANGED <<data_queue, producer_queue, closed, item, sent>>
    BY <1>0, <1>1, Zenon DEF begin, resume, Holds, TypeOK, chan
  <2> QED
    BY <2>1, QuietOrder, Zenon
<1>2. ASSUME NEW c \in Co, leave(c) PROVE Ordered'
  <2>1. At(c, "run") /\ yield(c, "idle") /\ UNCHANGED <<data_queue, producer_queue, closed,
      item, sent>>
    BY <1>2, Zenon DEF leave, chan
  <2>2. \A d \in Co : pc'[d] \notin {"popTake", "pushPut"}
    BY <2>1, <1>0, YieldChain, Zenon DEF Active
  <2>3. ~ Holds("pushPut")'
    BY <2>1, <2>2, <1>0, Zenon DEF Holds, yield, TypeOK
  <2> QED
    BY <2>1, <2>3, QuietOrder, Zenon
<1>3. ASSUME NEW c \in Co, NEW timed \in BOOLEAN, pop(c, timed) PROVE Ordered'
  <2>1. At(c, "run") /\ UNCHANGED <<data_queue, producer_queue, closed, item, sent>>
    BY <1>3, Zenon DEF pop
  <2>2. CASE is_empty \/ consumer_queue # <<>>
    <3>1. yield(c, "popWait")
      BY <1>3, <2>2, Zenon DEF pop
    <3>2. \A d \in Co : pc'[d] \notin {"popTake", "pushPut"}
      BY <2>1, <3>1, <1>0, YieldChain, Zenon DEF Active
    <3>3. ~ Holds("pushPut")'
      BY <3>1, <3>2, <1>0, Zenon DEF Holds, yield, TypeOK
    <3> QED
      BY <2>1, <3>3, QuietOrder, Zenon
  <2>3. CASE ~ (is_empty \/ consumer_queue # <<>>)
    <3>1. ~ Holds("pushPut")'
      BY <1>0, <1>3, <2>1, <2>3, Zenon DEF pop, Holds, At, TypeOK
    <3> QED
      BY <2>1, <3>1, QuietOrder, Zenon
  <2> QED
    BY <2>2, <2>3, Zenon
<1>4. ASSUME NEW c \in Co, NEW timed \in BOOLEAN, push(c, timed) PROVE Ordered'
  BY <1>4, PushOrder, Zenon
<1>5. ASSUME NEW c \in Co, take(c) \/ put(c) \/ timer_callback(c) PROVE Ordered'
  BY <1>5, TakeOrder, PutsOrder, TimerOrder, Zenon
<1>6. ASSUME NEW c \in Co, close(c) PROVE Ordered'
  BY <1>6, Zenon DEF close, Ordered
<1>7. ASSUME NEW c \in Co, closing(c) PROVE Ordered'
  BY <1>0, <1>7, Zenon DEF closing, Ordered, At, Chain
<1>8. CASE UNCHANGED vars
  BY <1>8, Zenon DEF vars, Ordered, StoredOrder, PutOrder, WaitOrder, Holds
<1> QED
  BY <1>1, <1>2, <1>3, <1>4, <1>5, <1>6, <1>7, <1>8, Zenon DEF Next

\* Ordered speaks of the three places one by one, InOrder of their concatenation.
LEMMA OrderedInOrder == TypeOK /\ Ordered => InOrder
<1> SUFFICES ASSUME TypeOK, Ordered, ~ closed PROVE InOrder
  BY Zenon DEF InOrder
<1> DEFINE put_ == IF Holds("pushPut") THEN <<item[current]>> ELSE <<>>
           wait == [i \in 1..Len(producer_queue) |-> item[producer_queue[i]]]
           n == Len(data_queue)
           m == Len(put_)
           all == data_queue \o put_ \o wait
<1>1. StoredOrder /\ PutOrder /\ WaitOrder
  BY Zenon DEF Ordered
<1>2. /\ data_queue \in Seq(Nat) /\ producer_queue \in Seq(Co) /\ item \in [Co -> Nat]
      /\ Len(producer_queue) \in Nat
      /\ \A i \in 1..Len(producer_queue) : producer_queue[i] \in Co
  BY DEF TypeOK
<1>3. put_ \in Seq(Nat) /\ m \in {0, 1} /\ (m = 1 => put_[1] = item[current] /\ Holds("pushPut"))
  <2>1. CASE Holds("pushPut")
    <3>1. current \in Co
      BY <2>1, Zenon DEF Holds, TypeOK
    <3>2. <<item[current]>> \in Seq(Nat) /\ Len(<<item[current]>>) = 1
      BY <3>1, <1>2
    <3> QED
      BY <2>1, <3>2, Zenon
  <2>2. CASE ~ Holds("pushPut")
    BY <2>2
  <2> QED
    BY <2>1, <2>2, Zenon
<1>4. wait \in Seq(Nat) /\ Len(wait) = Len(producer_queue)
  <2>1. wait \in [1..Len(producer_queue) -> Nat]
    BY <1>2, Zenon
  <2> QED
    BY <2>1, <1>2
<1>5. \A i \in 1..Len(wait) : i \in Int /\ wait[i] = item[producer_queue[i]]
  BY <1>2, <1>4
<1> HIDE DEF put_, wait
<1>6. /\ n \in Nat /\ Len(all) = n + m + Len(wait) /\ Len(wait) \in Nat
      /\ \A i \in 1..n : all[i] = data_queue[i]
      /\ m = 1 => all[n + 1] = put_[1]
      /\ \A i \in 1..Len(wait) : all[n + m + i] = wait[i]
  <2> DEFINE both == data_queue \o put_
  <2>1. /\ both \in Seq(Nat) /\ Len(both) = n + m /\ n \in Nat /\ m \in Nat
        /\ \A i \in 1..n : both[i] = data_queue[i]
        /\ \A i \in 1..m : both[n + i] = put_[i]
    BY <1>2, <1>3
  <2> HIDE DEF both
  <2>2. all = both \o wait
    BY Zenon DEF both
  <2>3. /\ Len(all) = n + m + Len(wait) /\ Len(wait) \in Nat
        /\ \A i \in 1..(n + m) : all[i] = both[i]
        /\ \A i \in 1..Len(wait) : all[n + m + i] = wait[i]
    <3>1. /\ Len(both \o wait) = Len(both) + Len(wait)
          /\ \A i \in 1..(Len(both) + Len(wait)) :
                (both \o wait)[i] = IF i <= Len(both) THEN both[i] ELSE wait[i - Len(both)]
      <4>1. both \in Seq(Nat) /\ wait \in Seq(Nat)
        BY <2>1, <1>4, Zenon
      <4> HIDE DEF n, m, all
      <4> QED
        BY <4>1
    <3> HIDE DEF all
    <3>2. ASSUME NEW i \in 1..Len(wait)
          PROVE  all[n + m + i] = wait[i]
      <4>1. /\ n + m + i \in 1..(Len(both) + Len(wait)) /\ ~ (n + m + i <= Len(both))
            /\ (n + m + i) - Len(both) = i
        BY <2>1, <1>4
      <4> QED
        BY <4>1, <3>1, <2>2, Zenon
    <3>3. ASSUME NEW i \in 1..(n + m) PROVE all[i] = both[i]
      <4>1. i \in 1..(Len(both) + Len(wait)) /\ i <= Len(both)
        BY <2>1, <1>4
      <4> QED
        BY <4>1, <3>1, <2>2, Zenon
    <3> QED
      BY <3>1, <3>2, <3>3, <2>1, <2>2, <1>4
  <2>4. \A i \in 1..n : i \in 1..(n + m)
    BY <2>1
  <2>5. m = 1 => 1 \in 1..m /\ n + 1 \in 1..(n + m)
    BY <2>1
  <2> QED
    BY <2>1, <2>3, <2>4, <2>5, Zenon
<1> HIDE DEF all, m
<1>7. ASSUME NEW i \in 1..Len(all), NEW j \in 1..Len(all), i < j PROVE all[i] < all[j]
  <2>0. i \in Int /\ j \in Int /\ m \in Int
    BY <1>3
  <2>1. CASE j <= n
    <3>1. i \in 1..n /\ j \in 1..n
      BY <2>1, <2>0, <1>7, <1>6
    <3> QED
      BY <3>1, <1>1, <1>6, <1>7, Zenon DEF StoredOrder
  <2>2. CASE m = 1 /\ j = n + 1
    <3>1. i \in 1..n
      BY <2>2, <2>0, <1>7, <1>6
    <3> QED
      BY <3>1, <2>2, <1>1, <1>3, <1>6, Zenon DEF PutOrder
  <2>3. CASE j > n + m
    <3> DEFINE l == j - n - m
    <3>1. l \in 1..Len(wait) /\ all[j] = wait[l] /\ l \in 1..Len(producer_queue)
      <4>1. l \in 1..Len(wait) /\ n + m + l = j
        BY <2>0, <2>3, <1>6
      <4> QED
        BY <4>1, <1>4, <1>6, Zenon
    <3>2. CASE i <= n
      <4>1. i \in 1..n
        BY <3>2, <2>0, <1>6
      <4> QED
        BY <4>1, <3>1, <1>1, <1>5, <1>6, Zenon DEF WaitOrder
    <3>3. CASE m = 1 /\ i = n + 1
      BY <3>1, <3>3, <1>1, <1>3, <1>5, <1>6, ZenonT(40) DEF WaitOrder
    <3>4. CASE i > n + m
      <4> DEFINE k == i - n - m
      <4>1. k \in 1..Len(wait) /\ n + m + k = i /\ k < l
        BY <2>0, <3>4, <1>6, <1>7
      <4>2. item[producer_queue[k]] < item[producer_queue[l]]
        BY <4>1, <3>1, <1>1, <1>4, Zenon DEF WaitOrder
      <4>3. all[i] = item[producer_queue[k]] /\ all[j] = item[producer_queue[l]]
        BY <4>1, <3>1, <1>5, <1>6, Zenon
      <4> QED
        BY <4>2, <4>3, Zenon
    <3> QED
      BY <3>2, <3>3, <3>4, <2>0, <1>3, <1>6
  <2> QED
    BY <2>0, <2>1, <2>2, <2>3, <1>3, <1>6
<1> QED
  BY <1>7, Zenon DEF InOrder, all, put_, wait

\* The channel is a queue: items are stored in the order of the calls of push(), also those
\* that had to wait for a place, whichever of the waits timed out.
THEOREM StoredInOrder == Spec => []InOrder
<1>1. IInv /\ Ordered => InOrder
  BY OrderedInOrder, Zenon DEF IInv
<1>2. Init => IInv /\ Ordered
  <2>1. Init => Ordered
    BY DEF Init, Ordered, StoredOrder, PutOrder, WaitOrder, Holds
  <2> QED
    BY <2>1, InitIInv, Zenon
<1>3. IInv /\ Ordered /\ [Next]_vars => IInv' /\ Ordered'
  BY NextIInv, NextOrder, Zenon
<1> QED
  BY <1>1, <1>2, <1>3, PTL DEF Spec
-----------------------------------------------------------------------------
(***************************************************************************)
(* The bytes that wait for a socket to be writable.  BytesKept is not      *)
(* inductive: popping a chunk keeps it only because every chunk that waits *)
(* has a byte left to send (WaitsWhole), and the end of onWrite only       *)
(* because onWrite runs for a registered socket (Listening).               *)
(***************************************************************************)

\* What waits are whole chunks of bytes that were accepted, of which some byte is still to be
\* sent; a closed socket has none.
WaitsWhole ==
  /\ \A k \in 1 .. Len(chunks) :
       /\ chunks[k].offset < chunks[k].len
       /\ chunks[k].first + chunks[k].len <= buffer_accepted + 1
  /\ buffer_closed => chunks = <<>> /\ buffer_pc = "idle"

\* onWrite runs for a socket that listens for writability.
Listening ==
  buffer_pc = "onWrite" => "write" \in events /\ ~ option.userFd /\ ~ buffer_closed

BufferInv == BytesKept /\ WaitsWhole /\ Listening

\* Division rounded up, as swBuffer_append() uses it.
LEMMA RoundUp ==
  ASSUME NEW n \in Nat \ {0}, NEW size \in Nat \ {0}
  PROVE  LET num == (n + size - 1) \div size IN
           /\ num \in Nat \ {0}
           /\ (num - 1) * size < n /\ n <= num * size
           /\ \A k \in 1 .. num - 1 : k * size <= (num - 1) * size
<1> DEFINE num == (n + size - 1) \div size
           rest == (n + size - 1) % size
<1>1. n + size - 1 \in Nat /\ size \in Nat /\ size > 0
  OBVIOUS
<1>2. num \in Int /\ rest \in 0 .. size - 1 /\ n + size - 1 = size * num + rest
  BY <1>1
<1> HIDE DEF num, rest
<1>3. size * num = num * size /\ num * size \in Int
  BY <1>1, <1>2
<1>4. n <= num * size /\ num * size < n + size
  BY <1>1, <1>2, <1>3
<1>5. num > 0
  BY <1>1, <1>2, <1>4
<1>6. (num - 1) * size = num * size - size
  BY <1>1, <1>2
<1>7. ASSUME NEW k \in 1 .. num - 1 PROVE k * size <= (num - 1) * size
  <2>1. (num - 1 - k) * size \in Nat
    BY <1>1, <1>2, <1>5
  <2>2. (num - 1) * size = k * size + (num - 1 - k) * size
    BY <1>1, <1>2, <1>5
  <2> QED
    BY <1>1, <1>2, <2>1, <2>2
<1>8. num \in Nat \ {0} /\ (num - 1) * size < n
  BY <1>1, <1>2, <1>4, <1>5, <1>6
<1> QED
  BY <1>4, <1>7, <1>8, Zenon DEF num

\* The pieces of swBuffer_append(): they follow one another from the first byte to the last.
LEMMA CutFacts ==
  ASSUME option \in Options, NEW f \in Nat \ {0}, NEW n \in Nat \ {0}, f + n <= MaxBytes + 1
  PROVE  LET c == Cut(f, n) IN
           /\ c \in Seq(Chunk) /\ Len(c) \in Nat \ {0}
           /\ c[1].first = f /\ c[1].offset = 0
           /\ c[Len(c)].first + c[Len(c)].len = f + n
           /\ \A k \in 1 .. Len(c) :
                c[k].offset = 0 /\ c[k].len > 0 /\ c[k].first + c[k].len <= f + n
           /\ \A k \in 1 .. Len(c) - 1 : c[k].first + c[k].len = c[k + 1].first
<1> DEFINE size == IF option.chunk_size = 0 THEN n ELSE option.chunk_size
           num == (n + size - 1) \div size
           c == Cut(f, n)
<1>1. size \in Nat \ {0}
  BY OutBufferAssumption, Zenon DEF Option
<1>2. c = [k \in 1 .. num |->
             [first |-> f + (k - 1) * size,
              len |-> IF k < num THEN size ELSE n - (k - 1) * size,
              offset |-> 0]]
  BY Zenon DEF Cut
<1> HIDE DEF size, c
<1>3. /\ num \in Nat \ {0}
      /\ (num - 1) * size < n /\ n <= num * size
      /\ \A k \in 1 .. num - 1 : k * size <= (num - 1) * size
  BY <1>1, RoundUp, Zenon
<1> HIDE DEF num
<1>4. ASSUME NEW k \in 1 .. num
      PROVE  /\ (k - 1) * size \in Nat /\ k * size = (k - 1) * size + size
             /\ (k - 1) * size < n /\ (k < num => k * size < n)
  <2>1. (k - 1) * size \in Nat /\ k * size = (k - 1) * size + size
    BY <1>1, <1>3
  <2>2. k < num => k * size < n
    BY <1>1, <1>3
  <2>3. (k - 1) * size < n
    <3>1. CASE k = num
      BY <1>3, <3>1, Zenon
    <3>2. CASE k < num
      BY <1>1, <2>1, <2>2, <3>2
    <3> QED
      BY <1>3, <3>1, <3>2
  <2> QED
    BY <2>1, <2>2, <2>3, Zenon
<1>5. ASSUME NEW k \in 1 .. num
      PROVE  /\ c[k] \in Chunk /\ c[k].offset = 0 /\ c[k].len > 0
             /\ c[k].first = f + (k - 1) * size
             /\ c[k].len = (IF k < num THEN size ELSE n - (k - 1) * size)
             /\ c[k].first + c[k].len <= f + n
  <2> DEFINE a == f + (k - 1) * size
             l == IF k < num THEN size ELSE n - (k - 1) * size
  <2>1. c[k] = [first |-> a, len |-> l, offset |-> 0]
    BY <1>2, Zenon
  <2>2. a \in Nat /\ a >= 1 /\ l \in Nat /\ l >= 1 /\ a + l <= f + n
    BY <1>1, <1>3, <1>4
  <2> HIDE DEF a, l
  <2>3. a \in 1 .. MaxBytes /\ l \in 1 .. MaxBytes /\ 0 \in 0 .. MaxBytes
    BY <2>2, OutBufferAssumption
  <2>4. c[k] \in Chunk
    BY <2>1, <2>3 DEF Chunk
  <2> QED
    BY <2>1, <2>2, <2>4 DEF a, l
<1>6. c \in Seq(Chunk) /\ Len(c) = num
  <2>1. c \in [1 .. num -> Chunk]
    BY <1>2, <1>5, Zenon
  <2> QED
    BY <1>3, <2>1
<1>7. c[1].first = f /\ c[1].offset = 0
  BY <1>1, <1>3, <1>5
<1>8. c[num].first + c[num].len = f + n
  BY <1>1, <1>3, <1>4, <1>5
<1>9. ASSUME NEW k \in 1 .. num - 1 PROVE c[k].first + c[k].len = c[k + 1].first
  <2>1. k \in 1 .. num /\ k + 1 \in 1 .. num /\ k < num /\ (k + 1) - 1 = k
    BY <1>3
  <2>2. c[k].first = f + (k - 1) * size /\ c[k].len = size
    BY <1>5, <2>1, Zenon
  <2>3. c[k + 1].first = f + k * size
    BY <1>5, <2>1, Zenon
  <2>4. (k - 1) * size \in Nat /\ k * size = (k - 1) * size + size
    BY <1>4, <2>1, Zenon
  <2> QED
    BY <1>1, <2>2, <2>3, <2>4
<1> QED
  BY <1>3, <1>5, <1>6, <1>7, <1>8, <1>9, Zenon DEF c
\* What the list holds after another one was hung to it.
LEMMA ConcatFacts ==
  ASSUME NEW S, NEW s \in Seq(S), NEW t \in Seq(S)
  PROVE  /\ s \o t \in Seq(S) /\ Len(s \o t) = Len(s) + Len(t)
         /\ \A k \in 1 .. Len(s) : (s \o t)[k] = s[k]
         /\ \A k \in 1 .. Len(t) : (s \o t)[Len(s) + k] = t[k]
  OBVIOUS

\* The fields of a chunk are numbers.
LEMMA ChunkFacts ==
  ASSUME NEW x \in Chunk
  PROVE  x.first \in Nat /\ x.len \in Nat /\ x.offset \in Nat
  BY OutBufferAssumption DEF Chunk

\* Bytes f .. f + n - 1, the last that are accepted, go behind what waits.
Appends(f, n) ==
  /\ ~ buffer_closed /\ f + n = buffer_accepted' + 1
  /\ buffer_accepted' \in 0 .. MaxBytes /\ buffer_sent' \in 0 .. buffer_accepted'
  /\ buffer_accepted <= buffer_accepted'
  /\ chunks = <<>> => f = buffer_sent' + 1
  /\ chunks # <<>> => f = buffer_accepted + 1 /\ buffer_sent' = buffer_sent
  /\ swBuffer_append(f, n) /\ UNCHANGED <<option, buffer_closed>>

\* swBuffer_append() keeps the stream whole and buffer->length right.
LEMMA AppendBuffer ==
  ASSUME BufferInv, NEW f \in Nat \ {0}, NEW n \in Nat \ {0}, Appends(f, n)
  PROVE  /\ chunks' \in Seq(Chunk) /\ chunks' # <<>> /\ length' = length + n
         /\ NoGap' /\ LengthAgrees' /\ WaitsWhole'
<1> DEFINE c == Cut(f, n)
           m == Len(chunks)
<1>1. /\ option \in Options /\ chunks \in Seq(Chunk) /\ m \in Nat /\ length \in Nat
      /\ buffer_accepted \in Nat /\ buffer_sent \in Nat
  BY DEF BufferInv, BytesKept, BufferTypeOK
<1>2. /\ chunks' = chunks \o c /\ length' = length + n
      /\ f + n = buffer_accepted' + 1 /\ buffer_accepted' \in 0 .. MaxBytes
      /\ buffer_sent' \in 0 .. buffer_accepted' /\ buffer_accepted <= buffer_accepted'
      /\ ~ buffer_closed
  BY Zenon DEF swBuffer_append, Appends
<1>3. buffer_accepted' \in Nat /\ buffer_sent' \in Nat /\ MaxBytes \in Nat
  <2>1. MaxBytes \in Nat
    BY Zenon, OutBufferAssumption
  <2> QED
    BY <1>2, <2>1
<1>4. /\ length' = length + n /\ f + n = buffer_accepted' + 1
      /\ buffer_accepted' <= MaxBytes /\ buffer_accepted <= buffer_accepted'
  <2>1. buffer_accepted' \in 0 .. MaxBytes
    BY <1>2, Zenon
  <2>2. buffer_accepted' <= MaxBytes
    BY <1>3, <2>1
  <2> QED
    BY <1>2, <2>2, Zenon
<1>5. f \in Nat /\ n \in Nat /\ length \in Nat /\ buffer_accepted \in Nat
  BY <1>1, Zenon
<1>6. f + n <= MaxBytes + 1
  <2>1. PICK a \in Nat : a = buffer_accepted'
    BY <1>3, Zenon
  <2>2. f + n = a + 1 /\ a <= MaxBytes
    BY <1>4, <2>1, Zenon
  <2> QED
    BY <1>3, <2>2
<1>7. n = buffer_accepted' + 1 - f
  <2>1. PICK a \in Nat : a = buffer_accepted'
    BY <1>3, Zenon
  <2>2. f + n = a + 1
    BY <1>4, <2>1, Zenon
  <2>3. n = a + 1 - f
    BY <2>2
  <2> QED
    BY <2>1, <2>3, Zenon
<1>8. ASSUME NEW x \in Nat, length = buffer_accepted + 1 - x, f = buffer_accepted + 1
      PROVE  length + n = buffer_accepted' + 1 - x
  <2>1. PICK a \in Nat : a = buffer_accepted'
    BY <1>3, Zenon
  <2>2. PICK b \in Nat : b = buffer_accepted
    BY <1>5, Zenon
  <2>3. f + n = a + 1 /\ length = b + 1 - x /\ f = b + 1
    BY <1>4, <1>8, <2>1, <2>2, Zenon
  <2>4. length + n = a + 1 - x
    BY <2>3
  <2> QED
    BY <2>1, <2>4, Zenon
<1>9. /\ c \in Seq(Chunk) /\ Len(c) \in Nat \ {0}
      /\ c[1].first = f /\ c[1].offset = 0
      /\ c[Len(c)].first + c[Len(c)].len = f + n
      /\ \A k \in 1 .. Len(c) :
           c[k].offset = 0 /\ c[k].len > 0 /\ c[k].first + c[k].len <= f + n
      /\ \A k \in 1 .. Len(c) - 1 : c[k].first + c[k].len = c[k + 1].first
  BY <1>1, <1>6, CutFacts, Zenon
<1> HIDE DEF c
<1>10. /\ chunks' \in Seq(Chunk) /\ Len(chunks') = m + Len(c)
       /\ \A k \in 1 .. m : chunks'[k] = chunks[k]
       /\ \A k \in 1 .. Len(c) : chunks'[m + k] = c[k]
  BY <1>1, <1>2, <1>9, ConcatFacts
<1>11. /\ chunks' # <<>> /\ chunks'[Len(chunks')] = c[Len(c)] /\ chunks'[m + 1] = c[1]
       /\ m = 0 <=> chunks = <<>>
  BY <1>1, <1>9, <1>10
<1>12. m = 0 => f = buffer_sent' + 1
  BY <1>11, Zenon DEF Appends
<1>13. ASSUME m # 0
       PROVE  /\ f = buffer_accepted + 1 /\ buffer_sent' = buffer_sent
              /\ chunks'[1] = chunks[1] /\ chunks[1].first \in Nat
              /\ chunks[m].first + chunks[m].len = f
              /\ chunks[1].first + chunks[1].offset = buffer_sent + 1
  <2>1. f = buffer_accepted + 1 /\ buffer_sent' = buffer_sent
    BY <1>11, <1>13, Zenon DEF Appends
  <2>2. 1 \in 1 .. m
    BY <1>1, <1>13
  <2>3. chunks'[1] = chunks[1]
    BY <1>10, <2>2, Zenon
  <2>4. chunks[1] \in Chunk
    BY <1>1, <2>2
  <2>5. chunks[1].first \in Nat
    BY <2>4, ChunkFacts, Zenon
  <2>6. /\ chunks[m].first + chunks[m].len = buffer_accepted + 1
        /\ chunks[1].first + chunks[1].offset = buffer_sent + 1
    BY <1>2, <1>11, <1>13, Zenon DEF BufferInv, BytesKept, NoGap
  <2> QED
    BY <2>1, <2>3, <2>5, <2>6, Zenon
<1>14. NoGap'
  <2>1. chunks'[Len(chunks')].first + chunks'[Len(chunks')].len = buffer_accepted' + 1
    BY <1>2, <1>9, <1>11, Zenon
  <2>2. chunks'[1].first + chunks'[1].offset = buffer_sent' + 1
    <3>1. CASE m = 0
      <4>1. chunks'[1] = c[1]
        BY <1>11, <3>1
      <4>2. chunks'[1].first = f /\ chunks'[1].offset = 0
        BY <1>9, <4>1, Zenon
      <4> QED
        BY <1>12, <3>1, <4>2
    <3>2. CASE m # 0
      BY <1>13, <3>2, Zenon
    <3> QED
      BY <3>1, <3>2, Zenon
  <2>3. ASSUME NEW k \in 1 .. Len(chunks') - 1
        PROVE  chunks'[k].first + chunks'[k].len = chunks'[k + 1].first /\ chunks'[k + 1].offset = 0
    <3>1. CASE k < m
      <4>1. k \in 1 .. m - 1 /\ k \in 1 .. m /\ k + 1 \in 1 .. m
        BY <1>1, <3>1
      <4>2. chunks[k].first + chunks[k].len = chunks[k + 1].first /\ chunks[k + 1].offset = 0
        BY <1>2, <4>1, Zenon DEF BufferInv, BytesKept, NoGap
      <4>3. chunks'[k] = chunks[k] /\ chunks'[k + 1] = chunks[k + 1]
        BY <1>10, <4>1, Zenon
      <4> QED
        BY <4>2, <4>3, Zenon
    <3>2. CASE k = m
      <4>1. m # 0 /\ m \in 1 .. m
        BY <1>1, <3>2
      <4>2. chunks'[k] = chunks[m] /\ chunks'[k + 1] = c[1]
        BY <1>10, <1>11, <3>2, <4>1, Zenon
      <4> QED
        BY <1>9, <1>13, <4>1, <4>2, Zenon
    <3>3. CASE k > m
      <4>1. PICK j \in 1 .. Len(c) - 1 : k = m + j
        <5>1. k - m \in 1 .. Len(c) - 1 /\ k = m + (k - m)
          BY <1>1, <1>9, <1>10, <3>3
        <5> QED
          BY <5>1, Zenon
      <4>2. j \in 1 .. Len(c) /\ j + 1 \in 1 .. Len(c) /\ k + 1 = m + (j + 1)
        BY <1>1, <1>9, <4>1
      <4>3. chunks'[k] = c[j] /\ chunks'[k + 1] = c[j + 1]
        BY <1>10, <4>1, <4>2, Zenon
      <4> QED
        BY <1>9, <4>1, <4>2, <4>3, Zenon
    <3> QED
      BY <1>1, <3>1, <3>2, <3>3
  <2> QED
    BY <1>11, <2>1, <2>2, <2>3, Zenon DEF NoGap
<1>15. LengthAgrees'
  <2>1. length = IF m = 0 THEN 0 ELSE buffer_accepted + 1 - chunks[1].first
    BY <1>11, Zenon DEF BufferInv, BytesKept, LengthAgrees
  <2>2. length' = buffer_accepted' + 1 - chunks'[1].first
    <3>1. CASE m = 0
      <4>1. chunks'[1].first = f
        BY <1>9, <1>11, <3>1
      <4>2. length = 0
        BY <2>1, <3>1, Zenon
      <4>3. length + n = buffer_accepted' + 1 - f
        BY <1>5, <1>7, <4>2
      <4> QED
        BY <1>4, <4>1, <4>3, Zenon
    <3>2. CASE m # 0
      <4>1. f = buffer_accepted + 1 /\ chunks'[1].first = chunks[1].first
            /\ chunks[1].first \in Nat
        BY <1>13, <3>2, Zenon
      <4>2. length = buffer_accepted + 1 - chunks[1].first
        BY <2>1, <3>2, Zenon
      <4>3. length \in Nat /\ buffer_accepted \in Nat
        BY <1>1, Zenon
      <4>4. length + n = buffer_accepted' + 1 - chunks[1].first
        BY <1>8, <4>1, <4>2, Zenon
      <4> QED
        BY <1>4, <4>1, <4>4, Zenon
    <3> QED
      BY <3>1, <3>2, Zenon
  <2> QED
    BY <1>11, <2>2, Zenon DEF LengthAgrees
<1>16. WaitsWhole'
  <2>1. ASSUME NEW k \in 1 .. Len(chunks')
        PROVE  /\ chunks'[k].offset < chunks'[k].len
               /\ chunks'[k].first + chunks'[k].len <= buffer_accepted' + 1
    <3>1. CASE k <= m
      <4>1. k \in 1 .. m
        BY <1>1, <3>1
      <4>2. /\ chunks[k].offset < chunks[k].len
            /\ chunks[k].first + chunks[k].len <= buffer_accepted + 1
        BY <4>1, Zenon DEF BufferInv, WaitsWhole
      <4>3. chunks[k] \in Chunk
        BY <1>1, <4>1
      <4>4. chunks[k].first \in Nat /\ chunks[k].len \in Nat
        BY <4>3, ChunkFacts, Zenon
      <4>5. buffer_accepted \in Nat
        BY <1>1, Zenon
      <4>6. chunks[k].first + chunks[k].len <= buffer_accepted' + 1
        <5>1. PICK x \in Nat : x = chunks[k].first + chunks[k].len
          BY <4>4
        <5>2. PICK a \in Nat, b \in Nat : a = buffer_accepted /\ b = buffer_accepted'
          BY <1>3, <4>5, Zenon
        <5>3. x <= a + 1 /\ a <= b
          BY <1>4, <4>2, <5>1, <5>2, Zenon
        <5>4. x <= b + 1
          BY <5>3
        <5> QED
          BY <5>1, <5>2, <5>4, Zenon
      <4> QED
        BY <1>10, <4>1, <4>2, <4>6, Zenon
    <3>2. CASE k > m
      <4>1. PICK j \in 1 .. Len(c) : k = m + j
        <5>1. k - m \in 1 .. Len(c) /\ k = m + (k - m)
          BY <1>1, <1>9, <1>10, <3>2
        <5> QED
          BY <5>1, Zenon
      <4>2. chunks'[k] = c[j]
        BY <1>10, <4>1, Zenon
      <4>3. c[j].offset = 0 /\ c[j].len > 0 /\ c[j].first + c[j].len <= f + n
        BY <1>9, <4>1, Zenon
      <4> QED
        BY <1>2, <4>2, <4>3, Zenon
    <3> QED
      BY <1>1, <3>1, <3>2
  <2>2. ~ buffer_closed'
    BY <1>2, Zenon DEF Appends
  <2> QED
    BY <2>1, <2>2, Zenon DEF WaitsWhole
<1> QED
  BY <1>2, <1>10, <1>11, <1>14, <1>15, <1>16, Zenon

\* What every lemma below needs of the state.
LEMMA BufferTypes ==
  ASSUME BufferInv
  PROVE  /\ option \in Options /\ option \in Option
         /\ chunks \in Seq(Chunk) /\ length \in Nat /\ events \subseteq {"read", "write"}
         /\ buffer_closed \in BOOLEAN /\ buffer_pc \in {"idle", "onWrite"}
         /\ buffer_accepted \in 0 .. MaxBytes /\ buffer_sent \in 0 .. buffer_accepted
         /\ buffer_accepted \in Nat /\ buffer_sent \in Nat /\ MaxBytes \in Nat
         /\ buffer_size \in Nat
<1>1. /\ option \in Options /\ option \in Option
      /\ chunks \in Seq(Chunk) /\ length \in Nat /\ events \subseteq {"read", "write"}
      /\ buffer_closed \in BOOLEAN /\ buffer_pc \in {"idle", "onWrite"}
      /\ buffer_accepted \in 0 .. MaxBytes /\ buffer_sent \in 0 .. buffer_accepted
      /\ MaxBytes \in Nat /\ buffer_size \in Nat
  BY OutBufferAssumption, Zenon DEF BufferInv, BytesKept, BufferTypeOK
<1> QED
  BY <1>1

\* A new socket has nothing waiting.
LEMMA BufferInitially == BufferInit => BufferInv
<1> SUFFICES ASSUME BufferInit PROVE BufferInv
  BY Zenon
<1>1. /\ option \in Options /\ chunks = <<>> /\ length = 0 /\ events \subseteq {"read"}
      /\ option.listened => events = {"read"}
      /\ ~ buffer_closed /\ buffer_pc = "idle" /\ buffer_accepted = 0 /\ buffer_sent = 0
      /\ "write" \notin events
  BY Zenon DEF BufferInit
<1>2. buffer_closed \in BOOLEAN
  BY Zenon DEF BufferInit
<1>3. BufferTypeOK
  BY <1>1, <1>2, OutBufferAssumption DEF BufferTypeOK
<1>4. NoGap /\ LengthAgrees
  BY <1>1 DEF NoGap, LengthAgrees
<1>5. 0 <= 2 * buffer_size
  BY OutBufferAssumption
<1>6. BufferBounded
  BY <1>1, <1>5, Zenon DEF BufferBounded
<1>7. ArmedWhileWaiting /\ KeepsReading /\ Listening
  BY <1>1, Zenon DEF ArmedWhileWaiting, KeepsReading, Listening
<1>8. WaitsWhole
  BY <1>1 DEF WaitsWhole
<1> QED
  BY <1>3, <1>4, <1>6, <1>7, <1>8, Zenon DEF BufferInv, BytesKept

\* swReactor_write() with nothing waiting.
LEMMA WriteDirect ==
  ASSUME BufferInv, ~ buffer_closed, buffer_pc = "idle", NEW n \in Lengths, NEW k \in 0 .. n,
         n <= buffer_size, buffer_accepted + n <= MaxBytes, writeDirect(n, k),
         UNCHANGED <<option, buffer_closed, buffer_pc>>
  PROVE  BufferInv'
<1>1. /\ n \in Nat \ {0} /\ k \in Nat /\ k <= n /\ n \in Nat
  BY OutBufferAssumption
<1>2. /\ chunks = <<>> /\ buffer_sent' = buffer_sent + k /\ buffer_accepted' = buffer_accepted + n
      /\ buffer_sent = buffer_accepted /\ length = 0
  BY Zenon DEF writeDirect, BufferInv, BytesKept, NoGap, LengthAgrees
<1>3. /\ buffer_accepted \in Nat /\ buffer_sent \in Nat /\ MaxBytes \in Nat /\ buffer_size \in Nat
      /\ buffer_closed \in BOOLEAN
  BY BufferTypes, Zenon
<1>4. buffer_accepted' \in 0 .. MaxBytes /\ buffer_sent' \in 0 .. buffer_accepted'
  BY <1>1, <1>2, <1>3
<1>5. CASE k = n
  <2>1. UNCHANGED <<chunks, length, events>>
    BY <1>5, Zenon DEF writeDirect
  <2>2. buffer_sent' = buffer_accepted'
    BY <1>2, <1>5, Zenon
  <2>3. BufferTypeOK'
    BY <1>4, <2>1, Zenon DEF BufferInv, BytesKept, BufferTypeOK
  <2>4. NoGap' /\ LengthAgrees' /\ WaitsWhole'
    BY <1>2, <2>1, <2>2 DEF NoGap, LengthAgrees, WaitsWhole
  <2>5. /\ BufferBounded' /\ ArmedWhileWaiting' /\ KeepsReading' /\ Listening'
    BY <2>1, Zenon DEF BufferInv, BytesKept, BufferBounded, ArmedWhileWaiting, KeepsReading, Listening
  <2> QED
    BY <2>3, <2>4, <2>5, Zenon DEF BufferInv, BytesKept
<1>6. CASE k # n
  <2> DEFINE f == buffer_accepted + k + 1
             r == n - k
  <2>1. swBuffer_append(f, r) /\ events' = events \union {"write"}
    BY <1>6, Zenon DEF writeDirect, swReactor_add_write_event
  <2>2. /\ f \in Nat \ {0} /\ r \in Nat \ {0}
        /\ f + r = buffer_accepted' + 1 /\ f = buffer_sent' + 1
        /\ buffer_accepted <= buffer_accepted' /\ r <= buffer_size
    BY <1>1, <1>2, <1>3, <1>6
  <2> HIDE DEF f, r
  <2>3. Appends(f, r)
    BY <1>2, <1>4, <2>1, <2>2, Zenon DEF Appends
  <2>4. /\ chunks' \in Seq(Chunk) /\ chunks' # <<>> /\ length' = length + r
        /\ NoGap' /\ LengthAgrees' /\ WaitsWhole'
    BY <2>2, <2>3, AppendBuffer, Zenon
  <2>5. length' \in Nat /\ length' <= 2 * buffer_size
    <3>1. length' = 0 + r
      BY <1>2, <2>4, Zenon
    <3> QED
      BY <1>3, <2>2, <3>1
  <2>6. BufferTypeOK'
    BY <1>4, <2>1, <2>4, <2>5, BufferTypes, Zenon DEF BufferTypeOK
  <2>7. BufferBounded'
    BY <2>5, Zenon DEF BufferBounded
  <2>8. ArmedWhileWaiting' /\ KeepsReading' /\ Listening'
    BY <2>1, <2>4, Zenon DEF BufferInv, BytesKept, ArmedWhileWaiting, KeepsReading, Listening
  <2> QED
    BY <2>4, <2>6, <2>7, <2>8, Zenon DEF BufferInv, BytesKept
<1> QED
  BY <1>5, <1>6, Zenon

\* swReactor_write() behind what waits.
LEMMA WriteAppend ==
  ASSUME BufferInv, ~ buffer_closed, buffer_pc = "idle", NEW n \in Lengths,
         n <= buffer_size, buffer_accepted + n <= MaxBytes, writeAppend(n),
         UNCHANGED <<option, buffer_closed, buffer_pc>>
  PROVE  BufferInv'
<1> DEFINE f == buffer_accepted + 1
<1>1. n \in Nat \ {0} /\ n \in Nat
  BY OutBufferAssumption, Zenon
<1>2. /\ chunks # <<>> /\ (length <= buffer_size \/ ~ option.dontwait)
      /\ buffer_accepted' = buffer_accepted + n /\ swBuffer_append(f, n)
      /\ events' = events /\ buffer_sent' = buffer_sent
  BY Zenon DEF writeAppend
<1>3. /\ buffer_accepted \in Nat /\ buffer_sent \in Nat /\ MaxBytes \in Nat /\ buffer_size \in Nat
      /\ buffer_sent \in 0 .. buffer_accepted /\ length \in Nat
  BY BufferTypes, Zenon
<1>4. buffer_accepted' \in 0 .. MaxBytes /\ buffer_sent' \in 0 .. buffer_accepted'
  BY <1>1, <1>2, <1>3
<1>5. /\ f \in Nat \ {0} /\ f + n = buffer_accepted' + 1 /\ buffer_accepted <= buffer_accepted'
  BY <1>1, <1>2, <1>3
<1> HIDE DEF f
<1>6. f = buffer_accepted + 1
  BY Zenon DEF f
<1>7. Appends(f, n)
  BY <1>2, <1>4, <1>5, <1>6, Zenon DEF Appends
<1>8. /\ chunks' \in Seq(Chunk) /\ chunks' # <<>> /\ length' = length + n
      /\ NoGap' /\ LengthAgrees' /\ WaitsWhole'
  BY <1>1, <1>5, <1>7, AppendBuffer, Zenon
<1>9. length' \in Nat
  BY <1>1, <1>3, <1>8
<1>10. BufferTypeOK'
  BY <1>2, <1>4, <1>8, <1>9, BufferTypes, Zenon DEF BufferTypeOK
<1>11. BufferBounded'
  <2>1. length <= buffer_size => length' <= 2 * buffer_size
    <3>1. length' = length + n
      BY <1>8, Zenon
    <3> QED
      BY <1>1, <1>3, <3>1
  <2> QED
    BY <1>2, <2>1, Zenon DEF BufferBounded
<1>12. ArmedWhileWaiting' /\ KeepsReading' /\ Listening'
  BY <1>2, <1>8, Zenon DEF BufferInv, BytesKept, ArmedWhileWaiting, KeepsReading, Listening
<1> QED
  BY <1>8, <1>10, <1>11, <1>12, Zenon DEF BufferInv, BytesKept
\* The first chunk, while onWrite sends it.
LEMMA HeadFacts ==
  ASSUME BufferInv, chunks # <<>>, ~ buffer_closed
  PROVE  LET h == chunks[1] IN
           /\ h = Head(chunks) /\ h \in Chunk /\ Len(chunks) \in Nat \ {0} /\ 1 \in 1 .. Len(chunks)
           /\ h.first \in Nat /\ h.len \in Nat /\ h.offset \in Nat
           /\ h.offset < h.len /\ h.first + h.offset = buffer_sent + 1
           /\ h.first + h.len <= buffer_accepted + 1
           /\ length = buffer_accepted + 1 - h.first
           /\ Len(chunks) = 1 => h.first + h.len = buffer_accepted + 1
           /\ Len(chunks) # 1 => h.first + h.len = chunks[2].first /\ chunks[2].offset = 0
<1> DEFINE h == chunks[1]
<1>1. chunks \in Seq(Chunk)
  BY BufferTypes, Zenon
<1>2. h = Head(chunks) /\ h \in Chunk /\ Len(chunks) \in Nat \ {0} /\ 1 \in 1 .. Len(chunks)
  BY <1>1
<1>3. h.first \in Nat /\ h.len \in Nat /\ h.offset \in Nat
  BY <1>2, ChunkFacts, Zenon
<1>4. h.offset < h.len /\ h.first + h.len <= buffer_accepted + 1
  BY <1>2, Zenon DEF BufferInv, WaitsWhole
<1>5. h.first + h.offset = buffer_sent + 1 /\ length = buffer_accepted + 1 - h.first
  BY Zenon DEF BufferInv, BytesKept, NoGap, LengthAgrees
<1>6. ASSUME Len(chunks) = 1 PROVE h.first + h.len = buffer_accepted + 1
  BY <1>6, Zenon DEF BufferInv, BytesKept, NoGap
<1>7. ASSUME Len(chunks) # 1 PROVE h.first + h.len = chunks[2].first /\ chunks[2].offset = 0
  <2>1. 1 \in 1 .. Len(chunks) - 1 /\ 1 + 1 = 2
    BY <1>2, <1>7
  <2>2. h.first + h.len = chunks[1 + 1].first /\ chunks[1 + 1].offset = 0
    BY <2>1, Zenon DEF BufferInv, BytesKept, NoGap
  <2> QED
    BY <2>1, <2>2, Zenon
<1> QED
  BY <1>2, <1>3, <1>4, <1>5, <1>6, <1>7, Zenon

\* onWrite sends all that is left of the first chunk.
SendsWhole ==
  /\ buffer_pc = "onWrite" /\ chunks # <<>> /\ swBuffer_pop_chunk
  /\ buffer_sent' = buffer_sent + (chunks[1].len - chunks[1].offset)
  /\ UNCHANGED <<option, events, buffer_closed, buffer_pc, buffer_accepted>>

\* swBuffer_pop_chunk() leaves the next chunk first.
LEMMA SendWhole ==
  ASSUME BufferInv, SendsWhole
  PROVE  BufferInv'
<1> DEFINE h == chunks[1]
           m == Len(chunks)
<1>1. "write" \in events /\ ~ option.userFd /\ ~ buffer_closed
  BY Zenon DEF SendsWhole, BufferInv, Listening
<1>2. /\ chunks # <<>> /\ events' = events /\ option' = option /\ ~ buffer_closed'
      /\ buffer_pc' = buffer_pc /\ buffer_accepted' = buffer_accepted
      /\ buffer_closed' = buffer_closed
  BY <1>1, Zenon DEF SendsWhole
<1>3. /\ h = Head(chunks) /\ h \in Chunk /\ m \in Nat \ {0} /\ 1 \in 1 .. m
      /\ h.first \in Nat /\ h.len \in Nat /\ h.offset \in Nat
      /\ h.offset < h.len /\ h.first + h.offset = buffer_sent + 1
      /\ h.first + h.len <= buffer_accepted + 1
      /\ length = buffer_accepted + 1 - h.first
      /\ m = 1 => h.first + h.len = buffer_accepted + 1
      /\ m # 1 => h.first + h.len = chunks[2].first /\ chunks[2].offset = 0
  BY <1>1, <1>2, HeadFacts, Zenon
<1>4. chunks \in Seq(Chunk) /\ buffer_accepted \in Nat /\ buffer_sent \in Nat /\ length \in Nat
      /\ buffer_size \in Nat
  BY BufferTypes, Zenon
<1>5. m \in Nat \ {0}
  BY <1>3, Zenon
<1>6. /\ chunks' \in Seq(Chunk) /\ Len(chunks') = m - 1
      /\ \A k \in 1 .. m - 1 : chunks'[k] = chunks[k + 1]
  <2>1. chunks' = Tail(chunks)
    BY Zenon DEF SendsWhole, swBuffer_pop_chunk
  <2> QED
    BY <1>4, <1>2, <2>1
<1>7. PICK a \in Nat, l \in Nat, o \in Nat : a = h.first /\ l = h.len /\ o = h.offset
  BY <1>3, Zenon
<1>8. o < l /\ a + o = buffer_sent + 1 /\ a + l <= buffer_accepted + 1
      /\ length = buffer_accepted + 1 - a
  BY <1>3, <1>7, Zenon
<1>9. buffer_sent' + 1 = h.first + h.len /\ buffer_sent' \in 0 .. buffer_accepted'
  <2>1. buffer_sent' = buffer_sent + (h.len - h.offset) /\ buffer_accepted' = buffer_accepted
    BY Zenon DEF SendsWhole
  <2> HIDE DEF h
  <2>2. (buffer_sent + (l - o)) + 1 = a + l /\ buffer_sent + (l - o) \in 0 .. buffer_accepted
    BY <1>4, <1>8
  <2> QED
    BY <1>7, <2>1, <2>2, Zenon
<1>10. length' = IF m = 1 THEN 0 ELSE length - h.len
  BY <1>3, Zenon DEF SendsWhole, swBuffer_pop_chunk
<1>11. m = 1 <=> chunks' = <<>>
  <2> HIDE DEF m
  <2> QED
    BY <1>6, <1>5
<1>12. NoGap'
  <2>1. CASE m = 1
    <3>1. buffer_sent' = buffer_accepted'
      <4> HIDE DEF h
      <4>1. h.first + h.len = buffer_accepted + 1 /\ buffer_sent' \in Nat
        BY <1>3, <1>4, <1>9, <1>2, <2>1
      <4> QED
        BY <1>4, <1>9, <1>2, <4>1
    <3>2. chunks' = <<>> /\ Len(chunks') = 0
      BY <1>11, <2>1, Zenon
    <3> QED
      BY <1>2, <3>1, <3>2 DEF NoGap
  <2>2. CASE m # 1
    <3>1. 1 \in 1 .. m - 1 /\ m - 1 \in 1 .. m - 1 /\ (m - 1) + 1 = m /\ 1 + 1 = 2
      <4> HIDE DEF m
      <4> QED
        BY <1>5, <2>2
    <3>2. chunks'[1] = chunks[2] /\ chunks'[Len(chunks')] = chunks[m]
      BY <1>6, <3>1, Zenon
    <3>3. chunks'[1].first = h.first + h.len /\ chunks'[1].offset = 0
      BY <1>3, <2>2, <3>2, Zenon
    <3>4. chunks'[1].first + chunks'[1].offset = buffer_sent' + 1
      <4>1. PICK x \in Nat : x = h.first + h.len
        BY <1>3
      <4>2. chunks'[1].first = x /\ chunks'[1].offset = 0 /\ buffer_sent' + 1 = x
        BY <1>9, <3>3, <4>1, Zenon
      <4> QED
        BY <4>2
    <3>5. chunks'[Len(chunks')].first + chunks'[Len(chunks')].len = buffer_accepted' + 1
      BY <1>1, <1>2, <3>2, Zenon DEF BufferInv, BytesKept, NoGap
    <3>6. ASSUME NEW k \in 1 .. Len(chunks') - 1
          PROVE  /\ chunks'[k].first + chunks'[k].len = chunks'[k + 1].first
                 /\ chunks'[k + 1].offset = 0
      <4>1. k \in 1 .. m - 1 /\ k + 1 \in 1 .. m - 1
        BY <1>3, <1>6
      <4>2. chunks'[k] = chunks[k + 1] /\ chunks'[k + 1] = chunks[(k + 1) + 1]
        BY <1>6, <4>1, Zenon
      <4>3. /\ chunks[k + 1].first + chunks[k + 1].len = chunks[(k + 1) + 1].first
            /\ chunks[(k + 1) + 1].offset = 0
        BY <1>1, <4>1, Zenon DEF BufferInv, BytesKept, NoGap
      <4> QED
        BY <4>2, <4>3, Zenon
    <3> QED
      BY <1>11, <2>2, <3>4, <3>5, <3>6, Zenon DEF NoGap
  <2> QED
    BY <2>1, <2>2, Zenon
<1>13. LengthAgrees' /\ length' \in Nat /\ length' <= length
  <2>1. CASE m = 1
    <3>1. length' = 0 /\ chunks' = <<>>
      BY <1>10, <1>11, <2>1, Zenon
    <3> QED
      BY <1>4, <3>1 DEF LengthAgrees
  <2>2. CASE m # 1
    <3>1. 1 \in 1 .. m - 1 /\ 1 + 1 = 2
      <4> HIDE DEF m
      <4> QED
        BY <1>5, <2>2
    <3>2. chunks'[1].first = h.first + h.len
      BY <1>3, <1>6, <2>2, <3>1, Zenon
    <3>3. length' = length - h.len
      BY <1>10, <2>2, Zenon
    <3>4. length' = buffer_accepted + 1 - (h.first + h.len) /\ length' \in Nat /\ length' <= length
      <4> HIDE DEF h
      <4>1. /\ length - l = buffer_accepted + 1 - (a + l)
            /\ length - l \in Nat /\ length - l <= length
        BY <1>4, <1>8
      <4> QED
        BY <1>7, <3>3, <4>1, Zenon
    <3> QED
      BY <1>11, <1>2, <2>2, <3>2, <3>4, Zenon DEF LengthAgrees
  <2> QED
    BY <2>1, <2>2, Zenon
<1>14. WaitsWhole'
  <2>1. ASSUME NEW k \in 1 .. Len(chunks')
        PROVE  /\ chunks'[k].offset < chunks'[k].len
               /\ chunks'[k].first + chunks'[k].len <= buffer_accepted' + 1
    <3>1. k \in 1 .. m - 1 /\ k + 1 \in 1 .. m
      BY <1>3, <1>6
    <3>2. chunks'[k] = chunks[k + 1]
      BY <1>6, <3>1, Zenon
    <3> QED
      BY <1>2, <3>1, <3>2, Zenon DEF BufferInv, WaitsWhole
  <2> QED
    BY <1>2, <2>1, Zenon DEF WaitsWhole
<1>15. BufferTypeOK'
  BY <1>6, <1>9, <1>13, <1>2, BufferTypes, Zenon DEF BufferTypeOK
<1>16. BufferBounded'
  <2>1. length <= 2 * buffer_size => length' <= 2 * buffer_size
    BY <1>4, <1>13
  <2> QED
    BY <1>2, <2>1, Zenon DEF BufferInv, BytesKept, BufferBounded
<1>17. ArmedWhileWaiting' /\ KeepsReading' /\ Listening'
  BY <1>1, <1>2, Zenon DEF SendsWhole, BufferInv, BytesKept, ArmedWhileWaiting, KeepsReading, Listening
<1> QED
  BY <1>12, <1>13, <1>14, <1>15, <1>16, <1>17, Zenon DEF BufferInv, BytesKept
\* onWrite sends a part of the first chunk, or nothing.
SendsPart(k) ==
  /\ buffer_pc = "onWrite" /\ chunks # <<>>
  /\ k < chunks[1].len - chunks[1].offset /\ buffer_sent' = buffer_sent + k
  /\ chunks' = [chunks EXCEPT ![1] = [chunks[1] EXCEPT !.offset = chunks[1].offset + k]]
  /\ buffer_pc' = "idle"
  /\ UNCHANGED <<option, length, events, buffer_closed, buffer_accepted>>

\* The offset of the first chunk moves on by what was sent.
LEMMA SendPart ==
  ASSUME BufferInv, NEW k \in Nat, SendsPart(k)
  PROVE  BufferInv'
<1> DEFINE h == chunks[1]
           g == [h EXCEPT !.offset = h.offset + k]
           m == Len(chunks)
<1>1. "write" \in events /\ ~ option.userFd /\ ~ buffer_closed
  BY Zenon DEF SendsPart, BufferInv, Listening
<1>2. /\ chunks # <<>> /\ events' = events /\ option' = option /\ ~ buffer_closed'
      /\ buffer_pc' = "idle" /\ buffer_accepted' = buffer_accepted /\ length' = length
      /\ buffer_closed' = buffer_closed /\ buffer_sent' = buffer_sent + k
      /\ chunks' = [chunks EXCEPT ![1] = g] /\ k < h.len - h.offset
  BY <1>1, Zenon DEF SendsPart
<1>3. /\ h \in Chunk /\ m \in Nat \ {0} /\ 1 \in 1 .. m
      /\ h.first \in Nat /\ h.len \in Nat /\ h.offset \in Nat
      /\ h.first + h.offset = buffer_sent + 1
      /\ h.first + h.len <= buffer_accepted + 1
  BY <1>1, <1>2, HeadFacts, Zenon
<1>4. chunks \in Seq(Chunk) /\ buffer_accepted \in Nat /\ buffer_sent \in Nat /\ MaxBytes \in Nat
  BY BufferTypes, Zenon
<1>5. PICK a \in Nat, l \in Nat, o \in Nat : a = h.first /\ l = h.len /\ o = h.offset
  BY <1>3, Zenon
<1>6. k < l - o /\ a + o = buffer_sent + 1 /\ a + l <= buffer_accepted + 1 /\ l \in 1 .. MaxBytes
      /\ a \in 1 .. MaxBytes
  <2>1. k < l - o /\ a + o = buffer_sent + 1 /\ a + l <= buffer_accepted + 1
    BY <1>2, <1>3, <1>5, Zenon
  <2>2. h.len \in 1 .. MaxBytes /\ h.first \in 1 .. MaxBytes
    BY <1>3, Zenon DEF Chunk
  <2> QED
    BY <1>5, <2>1, <2>2, Zenon
<1>7. o + k \in 0 .. MaxBytes /\ o + k < l /\ buffer_sent + k \in 0 .. buffer_accepted
      /\ a + (o + k) = (buffer_sent + k) + 1
  BY <1>4, <1>6
<1>8. g.first = h.first /\ g.len = h.len /\ g.offset = o + k /\ g \in Chunk
  BY <1>3, <1>5, <1>7, Zenon DEF Chunk
<1>9. /\ g.offset < g.len /\ g.first + g.offset = buffer_sent' + 1
      /\ g.first + g.len <= buffer_accepted' + 1
  BY <1>2, <1>5, <1>6, <1>7, <1>8, Zenon
<1> HIDE DEF g
<1>10. /\ chunks' \in Seq(Chunk) /\ Len(chunks') = m /\ chunks'[1] = g
       /\ \A j \in 1 .. m : j # 1 => chunks'[j] = chunks[j]
       /\ chunks' # <<>>
  <2>1. chunks' = [chunks EXCEPT ![1] = g] /\ 1 \in 1 .. m
    BY <1>2, <1>3, Zenon
  <2> QED
    BY <1>4, <1>8, <2>1
<1>11. \A j \in 1 .. m : chunks'[j].first = chunks[j].first /\ chunks'[j].len = chunks[j].len
  BY <1>8, <1>10, Zenon
<1>12. NoGap'
  <2>1. m \in 1 .. m
    <3>1. m \in Nat \ {0}
      BY <1>3, Zenon
    <3> HIDE DEF m
    <3> QED
      BY <3>1
  <2>2. chunks'[m].first + chunks'[m].len = buffer_accepted' + 1
    BY <1>1, <1>2, <1>11, <2>1, Zenon DEF BufferInv, BytesKept, NoGap
  <2>3. ASSUME NEW j \in 1 .. m - 1
        PROVE  /\ chunks'[j].first + chunks'[j].len = chunks'[j + 1].first
               /\ chunks'[j + 1].offset = 0
    <3>1. j \in 1 .. m /\ j + 1 \in 1 .. m /\ j + 1 # 1
      <4>1. m \in Nat \ {0}
        BY <1>3, Zenon
      <4> HIDE DEF m
      <4> QED
        BY <4>1
    <3>2. chunks[j].first + chunks[j].len = chunks[j + 1].first /\ chunks[j + 1].offset = 0
      BY <1>1, Zenon DEF BufferInv, BytesKept, NoGap
    <3>3. chunks'[j + 1] = chunks[j + 1]
      BY <1>10, <3>1, Zenon
    <3> QED
      BY <1>11, <3>1, <3>2, <3>3, Zenon
  <2> QED
    BY <1>9, <1>10, <2>2, <2>3, Zenon DEF NoGap
<1>13. LengthAgrees'
  <2>1. chunks'[1].first = chunks[1].first
    BY <1>8, <1>10, Zenon
  <2> QED
    BY <1>2, <1>10, <2>1, Zenon DEF BufferInv, BytesKept, LengthAgrees
<1>14. WaitsWhole'
  <2>1. ASSUME NEW j \in 1 .. m
        PROVE  /\ chunks'[j].offset < chunks'[j].len
               /\ chunks'[j].first + chunks'[j].len <= buffer_accepted' + 1
    <3>1. CASE j = 1
      BY <1>9, <1>10, <3>1, Zenon
    <3>2. CASE j # 1
      BY <1>2, <1>10, <3>2, Zenon DEF BufferInv, WaitsWhole
    <3> QED
      BY <3>1, <3>2, Zenon
  <2> QED
    BY <1>2, <1>10, <2>1, Zenon DEF WaitsWhole
<1>15. BufferTypeOK'
  <2>1. buffer_sent' \in 0 .. buffer_accepted'
    BY <1>2, <1>7, Zenon
  <2> QED
    BY <1>2, <1>10, <2>1, BufferTypes, Zenon DEF BufferTypeOK
<1>16. BufferBounded' /\ KeepsReading'
  BY <1>2, Zenon DEF BufferInv, BytesKept, BufferBounded, KeepsReading
<1>17. ArmedWhileWaiting' /\ Listening'
  BY <1>1, <1>2, <1>10, Zenon DEF ArmedWhileWaiting, Listening
<1> QED
  BY <1>12, <1>13, <1>14, <1>15, <1>16, <1>17, Zenon DEF BufferInv, BytesKept

\* swSocket_buffer_send() does one or the other.
LEMMA OnWriteSend ==
  ASSUME BufferInv, onWriteSend
  PROVE  BufferInv'
<1>1. buffer_pc = "onWrite" /\ chunks # <<>> /\ ~ buffer_closed
      /\ UNCHANGED <<option, events, buffer_closed, buffer_accepted>>
  BY Zenon DEF onWriteSend, BufferInv, Listening
<1>2. /\ chunks[1] = Head(chunks) /\ chunks[1].len \in Nat /\ chunks[1].offset \in Nat
      /\ chunks[1].offset < chunks[1].len
  BY <1>1, HeadFacts, Zenon
<1>3. PICK k \in 0 .. chunks[1].len : swSocket_buffer_send(k)
  BY <1>2, Zenon DEF onWriteSend
<1>4. k \in Nat
  BY <1>2, <1>3
<1>5. CASE k = chunks[1].len - chunks[1].offset
  <2>1. SendsWhole
    BY <1>1, <1>2, <1>3, <1>5, Zenon DEF swSocket_buffer_send, SendsWhole
  <2> QED
    BY <2>1, SendWhole, Zenon
<1>6. CASE k # chunks[1].len - chunks[1].offset
  <2>1. /\ k <= chunks[1].len - chunks[1].offset /\ buffer_sent' = buffer_sent + k
        /\ chunks' = [chunks EXCEPT ![1].offset = @ + k]
        /\ buffer_pc' = "idle" /\ length' = length
    BY <1>2, <1>3, <1>6, Zenon DEF swSocket_buffer_send
  <2>2. k < chunks[1].len - chunks[1].offset
    BY <1>2, <1>4, <1>6, <2>1
  <2>3. SendsPart(k)
    BY <1>1, <2>1, <2>2, Zenon DEF SendsPart
  <2> QED
    BY <1>4, <2>3, SendPart, Zenon
<1> QED
  BY <1>5, <1>6, Zenon

\* The steps that send nothing, and those that end with an empty list.
LEMMA OnWriteOthers ==
  ASSUME BufferInv,
         onWriteBegin \/ onWriteDone \/ onWriteClose \/ php_swoole_event_onWrite
         \/ swReactor_wait_write_buffer
  PROVE  BufferInv'
<1>1. CASE onWriteBegin \/ php_swoole_event_onWrite
  <2>1. /\ UNCHANGED <<option, chunks, length, buffer_closed, buffer_accepted, buffer_sent>>
        /\ buffer_pc' \in {"idle", "onWrite"} /\ events' \subseteq events
    BY <1>1, Zenon DEF onWriteBegin, php_swoole_event_onWrite
  <2>2. BufferTypeOK' /\ NoGap' /\ LengthAgrees' /\ BufferBounded'
    BY <2>1, BufferTypes, Zenon
       DEF BufferInv, BytesKept, BufferTypeOK, NoGap, LengthAgrees, BufferBounded
  <2>3. ArmedWhileWaiting' /\ KeepsReading' /\ Listening'
    BY <1>1
       DEF BufferInv, BytesKept, ArmedWhileWaiting, KeepsReading, Listening, onWriteBegin,
           php_swoole_event_onWrite
  <2>4. WaitsWhole'
    BY <1>1, <2>1, Zenon DEF BufferInv, WaitsWhole, onWriteBegin, php_swoole_event_onWrite
  <2> QED
    BY <2>2, <2>3, <2>4, Zenon DEF BufferInv, BytesKept
<1>2. CASE onWriteDone \/ onWriteClose \/ swReactor_wait_write_buffer
  <2>1. /\ chunks' = <<>> /\ length' = 0 /\ option' = option /\ buffer_accepted' = buffer_accepted
        /\ buffer_pc' = "idle" /\ buffer_closed' \in BOOLEAN /\ events' \subseteq events
        /\ "write" \notin events' /\ ~ option.userFd
        /\ ~ buffer_closed' => /\ buffer_sent' = buffer_accepted /\ ~ buffer_closed
                               /\ events' = events \ {"write"}
        /\ buffer_sent' \in 0 .. buffer_accepted
    <3>1. /\ buffer_closed \in BOOLEAN /\ buffer_accepted \in Nat /\ buffer_sent \in Nat
          /\ buffer_sent \in 0 .. buffer_accepted
      BY BufferTypes, Zenon
    <3>2. buffer_pc = "onWrite" => ~ buffer_closed /\ ~ option.userFd
      BY Zenon DEF BufferInv, Listening
    <3>3. chunks = <<>> /\ ~ buffer_closed => buffer_sent = buffer_accepted /\ length = 0
      BY Zenon DEF BufferInv, BytesKept, NoGap, LengthAgrees
    <3>4. CASE onWriteDone
      BY <3>1, <3>2, <3>3, <3>4, Zenon DEF onWriteDone, swReactor_remove_write_event
    <3>5. CASE onWriteClose
      BY <3>1, <3>2, <3>5, Zenon DEF onWriteClose
    <3>6. CASE swReactor_wait_write_buffer
      <4>1. /\ chunks' = <<>> /\ length' = 0 /\ option' = option
            /\ ~ option.userFd /\ ~ buffer_closed
            /\ buffer_accepted' = buffer_accepted /\ buffer_pc' = "idle"
        BY <3>6, Zenon DEF swReactor_wait_write_buffer
      <4>2. CASE events' = events \ {"write"} /\ buffer_sent' = buffer_accepted
                 /\ buffer_closed' = buffer_closed
        BY <3>1, <4>1, <4>2
      <4>3. CASE events' = {} /\ buffer_closed' = TRUE
                 /\ \E n \in buffer_sent .. buffer_accepted - 1 : buffer_sent' = n
        <5>1. buffer_sent' \in 0 .. buffer_accepted
          BY <3>1, <4>3
        <5> QED
          BY <4>1, <4>3, <5>1, Zenon
      <4> QED
        BY <3>6, <4>2, <4>3, Zenon DEF swReactor_wait_write_buffer, swReactor_remove_write_event
    <3> QED
      BY <1>2, <3>4, <3>5, <3>6, Zenon
  <2>2. BufferTypeOK'
    <3>1. chunks' \in Seq(Chunk) /\ length' \in Nat
      BY <2>1
    <3>2. events' \subseteq {"read", "write"}
      BY <2>1, BufferTypes, Zenon
    <3> QED
      BY <2>1, <3>1, <3>2, BufferTypes, Zenon DEF BufferTypeOK
  <2>3. NoGap' /\ LengthAgrees' /\ WaitsWhole'
    BY <2>1 DEF NoGap, LengthAgrees, WaitsWhole
  <2>4. BufferBounded'
    <3>1. 0 <= 2 * buffer_size
      BY OutBufferAssumption
    <3> QED
      BY <2>1, <3>1, Zenon DEF BufferBounded
  <2>5. ArmedWhileWaiting' /\ KeepsReading' /\ Listening'
    BY <2>1, Zenon DEF BufferInv, BytesKept, ArmedWhileWaiting, KeepsReading, Listening
  <2> QED
    BY <2>2, <2>3, <2>4, <2>5, Zenon DEF BufferInv, BytesKept
<1> QED
  BY <1>1, <1>2, Zenon

\* Every step of the event loop keeps the invariant.
LEMMA BufferStep == BufferInv /\ [BufferNext]_bufferVars => BufferInv'
<1> SUFFICES ASSUME BufferInv, [BufferNext]_bufferVars PROVE BufferInv'
  BY Zenon
<1>1. CASE swReactor_write
  <2>1. PICK n \in Lengths : /\ n <= buffer_size /\ buffer_accepted + n <= MaxBytes
                             /\ \/ \E k \in 0 .. n : writeDirect(n, k)
                                \/ writeAppend(n)
    BY <1>1, Zenon DEF swReactor_write
  <2>2. ~ buffer_closed /\ buffer_pc = "idle" /\ UNCHANGED <<option, buffer_closed, buffer_pc>>
    BY <1>1, Zenon DEF swReactor_write
  <2>3. CASE \E k \in 0 .. n : writeDirect(n, k)
    BY <2>1, <2>2, <2>3, WriteDirect, Zenon
  <2>4. CASE writeAppend(n)
    BY <2>1, <2>2, <2>4, WriteAppend, Zenon
  <2> QED
    BY <2>1, <2>3, <2>4, Zenon
<1>2. CASE onWrite \/ swReactor_wait_write_buffer
  BY <1>2, OnWriteSend, OnWriteOthers, Zenon DEF onWrite
<1>3. CASE UNCHANGED bufferVars
  BY <1>3, Zenon
     DEF bufferVars, BufferInv, BytesKept, BufferTypeOK, NoGap, LengthAgrees, BufferBounded,
         ArmedWhileWaiting, KeepsReading, WaitsWhole, Listening
<1> QED
  BY <1>1, <1>2, <1>3, Zenon DEF BufferNext

\* What the event loop has accepted for a socket leaves it in order, without a gap and without a
\* repetition: over writes that the kernel takes in part or not at all, over chunks of any size and
\* buffers of any size, buffer->length stays right and bounded, and a socket of Swoole's own waits
\* for writability exactly while bytes wait (swReactor_write(), swReactor_onWrite(),
\* reactor/base.cc).
THEOREM BytesAreKept == BufferSpec => []BytesKept
<1>1. BufferInv => BytesKept
  BY Zenon DEF BufferInv
<1> QED
  BY <1>1, BufferInitially, BufferStep, PTL DEF BufferSpec
=============================================================================
