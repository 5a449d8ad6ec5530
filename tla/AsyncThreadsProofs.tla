------------------------ MODULE AsyncThreadsProofs -------------------------
(***************************************************************************)
(* Proofs about the threads behind blocking calls, for any number of       *)
(* threads and events.                                                     *)
(***************************************************************************)
EXTENDS AsyncThreads, FiniteSetTheorems, TLAPS

Labels == {"none", "top", "pop", "empty", "handle", "wait", "notified", "send", "closing", "gone"}
Counted(L) == {u \in Thread : aio_pc[u] \in L}
Sleepers == Counted({"wait", "notified"})
Leavers == Counted({"send", "closing"})
Distinct(s) == \A i, j \in 1 .. Len(s) : s[i] = s[j] => i = j

\* The types of AioTypeOK, without its counts.
AioTypes ==
  /\ aio_running \in BOOLEAN /\ aio_measured \in BOOLEAN /\ aio_stolen \in BOOLEAN
  /\ aio_threads \subseteq Thread /\ Core \subseteq aio_threads
  /\ aio_pc \in [Thread -> Labels]
  /\ aio_event \in [Thread -> AioEvent \cup {AioLoop}]
  /\ aio_queue \in Seq(AioEvent) /\ aio_pipe \in Seq(AioEvent \cup Thread)
  /\ aio_main \in AioEvent \cup {AioLoop, "read"}

\* An entry of threads has a thread, and only such a thread has begun.
Living == \A t \in Thread : aio_pc[t] # "none" <=> t \in aio_threads

\* Core workers do not leave, and end only with the pool.
CoreStays ==
  /\ \A t \in Thread : aio_pc[t] \in {"send", "closing"} => t \in Extra
  /\ aio_running => \A t \in Core : aio_pc[t] # "gone"

\* What schedule() has found about threads.size() still holds when it creates a thread.
RoomForOne == aio_measured => Cardinality(aio_threads) < worker_num

\* A thread in the pipe is on its way out, and is no core worker.
Asking ==
  \A t \in Thread : t \in Listed(aio_pipe) => t \in Extra /\ aio_pc[t] \in {"closing", "gone"}

\* An event that was dispatched is in one place: the queue, the hands of a thread, or the pipe.
OnePlace ==
  /\ Distinct(aio_queue) /\ Distinct(aio_pipe)
  /\ \A e \in AioEvent : ~ (e \in Listed(aio_queue) /\ e \in Listed(aio_pipe))
  /\ \A t \in ThreadsAt("handle") :
       /\ aio_event[t] \in AioEvent
       /\ aio_event[t] \notin Listed(aio_queue) /\ aio_event[t] \notin Listed(aio_pipe)
       /\ \A u \in ThreadsAt("handle") : aio_event[t] = aio_event[u] => t = u

\* The event whose dispatch has begun is new.
NewEvent == aio_main \in AioEvent => aio_main \notin aio_dispatched

\* The threads, and then the events.
ThreadInv ==
  /\ AioTypes /\ Living /\ CoreStays /\ RoomForOne /\ Asking /\ ThreadsBounded /\ OneLeaves
  /\ NoLostEvent /\ n_waiting = Cardinality(Sleepers) /\ n_closing = Cardinality(Leavers)

EventInv == OnePlace /\ NewEvent /\ TaskNumExact /\ IsFiniteSet(Outstanding)

AioInv == ThreadInv /\ EventInv

-----------------------------------------------------------------------------
\* What the constants are, as the steps below use it.
LEMMA AioConstants ==
  /\ IsFiniteSet(Core) /\ IsFiniteSet(Thread) /\ Core \subseteq Thread /\ Extra \subseteq Thread
  /\ Core # {} /\ Core \cap Extra = {} /\ worker_num \in Nat /\ Cardinality(Core) <= worker_num
  /\ \A e \in AioEvent : e \notin Thread
  /\ AioLoop \notin AioEvent /\ "read" \notin AioEvent
<1>1. IsFiniteSet(Thread)
  BY AioAssumption, FS_Union, Zenon DEF Thread
<1> QED
  BY <1>1, AioAssumption, Zenon DEF Thread

\* What Append() and Tail() do to the elements of a list without repetitions.
LEMMA ListAppend ==
  ASSUME NEW S, NEW s \in Seq(S), NEW x \in S
  PROVE  /\ Append(s, x) \in Seq(S) /\ Append(s, x) # <<>>
         /\ Listed(Append(s, x)) = Listed(s) \cup {x}
         /\ Distinct(s) /\ x \notin Listed(s) => Distinct(Append(s, x))
<1> DEFINE a == Append(s, x)
<1>1. /\ a \in Seq(S) /\ a # <<>> /\ Len(a) = Len(s) + 1 /\ Len(s) \in Nat
      /\ \A i \in 1 .. Len(s) : a[i] = s[i]
      /\ a[Len(s) + 1] = x
  OBVIOUS
<1> HIDE DEF a
<1>2. \A i \in 1 .. Len(a) : i \in 1 .. Len(s) \/ i = Len(s) + 1
  BY <1>1
<1>3. \A i \in 1 .. Len(s) : i \in 1 .. Len(a)
  BY <1>1
<1>4. Len(s) + 1 \in 1 .. Len(a)
  BY <1>1
<1>5. Listed(a) = Listed(s) \cup {x}
  <2>1. ASSUME NEW y \in Listed(a) PROVE y \in Listed(s) \cup {x}
    BY <1>1, <1>2, <2>1, Zenon DEF Listed
  <2>2. ASSUME NEW y \in Listed(s) PROVE y \in Listed(a)
    BY <1>1, <1>3, <2>2, Zenon DEF Listed
  <2>3. x \in Listed(a)
    BY <1>1, <1>4, Zenon DEF Listed
  <2> QED
    BY <2>1, <2>2, <2>3, Zenon
<1>6. ASSUME Distinct(s), x \notin Listed(s) PROVE Distinct(a)
  <2>1. \A i \in 1 .. Len(s) : s[i] # x
    BY <1>6, Zenon DEF Listed
  <2> QED
    BY <1>1, <1>2, <1>6, <2>1, Zenon DEF Distinct
<1> QED
  BY <1>1, <1>5, <1>6, Zenon DEF a

\* What taking the first element leaves of such a list.
LEMMA ListTail ==
  ASSUME NEW S, NEW s \in Seq(S), s # <<>>
  PROVE  /\ Tail(s) \in Seq(S) /\ Head(s) \in S
         /\ Listed(s) = Listed(Tail(s)) \cup {Head(s)}
         /\ Distinct(s) => Distinct(Tail(s)) /\ Head(s) \notin Listed(Tail(s))
<1> DEFINE a == Tail(s)
           n == Len(s)
<1>1. /\ a \in Seq(S) /\ Head(s) = s[1] /\ Head(s) \in S /\ Len(a) = n - 1 /\ n \in Nat \ {0}
      /\ \A i \in 1 .. n - 1 : a[i] = s[i + 1]
  OBVIOUS
<1> HIDE DEF a, n
<1>2. /\ \A i \in 1 .. Len(a) : i + 1 \in 1 .. n /\ i + 1 # 1 /\ a[i] = s[i + 1]
      /\ 1 \in 1 .. n
  BY <1>1
<1>3. ASSUME NEW i \in 1 .. n, i # 1 PROVE \E j \in 1 .. Len(a) : a[j] = s[i]
  <2>1. i - 1 \in 1 .. Len(a) /\ (i - 1) + 1 = i
    BY <1>1, <1>3
  <2>2. a[i - 1] = s[(i - 1) + 1]
    BY <1>2, <2>1, Zenon
  <2> QED
    BY <2>1, <2>2, Zenon
<1>4. Listed(s) = Listed(a) \cup {Head(s)}
  <2>1. ASSUME NEW y \in Listed(s) PROVE y \in Listed(a) \cup {Head(s)}
    <3>1. PICK i \in 1 .. n : y = s[i]
      BY <2>1, Zenon DEF Listed, n
    <3>2. CASE i = 1
      BY <1>1, <3>1, <3>2, Zenon
    <3>3. CASE i # 1
      BY <1>3, <3>1, <3>3, Zenon DEF Listed
    <3> QED
      BY <3>2, <3>3, Zenon
  <2>2. ASSUME NEW y \in Listed(a) PROVE y \in Listed(s)
    BY <1>2, <2>2, Zenon DEF Listed, n
  <2>3. Head(s) \in Listed(s)
    BY <1>1, <1>2, Zenon DEF Listed, n
  <2> QED
    BY <2>1, <2>2, <2>3, Zenon
<1>5. ASSUME Distinct(s) PROVE Distinct(a) /\ Head(s) \notin Listed(a)
  <2>1. ASSUME NEW i \in 1 .. Len(a), NEW j \in 1 .. Len(a), a[i] = a[j] PROVE i = j
    <3>1. i + 1 = j + 1
      BY <1>2, <1>5, <2>1, Zenon DEF Distinct, n
    <3> QED
      BY <3>1
  <2>2. ASSUME NEW i \in 1 .. Len(a) PROVE a[i] # Head(s)
    <3>1. /\ i + 1 \in 1 .. Len(s) /\ 1 \in 1 .. Len(s) /\ i + 1 # 1
          /\ a[i] = s[i + 1] /\ Head(s) = s[1]
      BY <1>1, <1>2, Zenon DEF n
    <3>2. s[i + 1] # s[1]
      BY <1>5, <3>1, Zenon DEF Distinct
    <3> QED
      BY <3>1, <3>2, Zenon
  <2> QED
    BY <2>1, <2>2, Zenon DEF Distinct, Listed
<1> QED
  BY <1>1, <1>4, <1>5, Zenon DEF a

\* One thread goes on to label l.
LEMMA Turned ==
  ASSUME aio_pc \in [Thread -> Labels], NEW t \in Thread, NEW l \in Labels,
         aio_pc' = [aio_pc EXCEPT ![t] = l]
  PROVE  /\ aio_pc' \in [Thread -> Labels] /\ aio_pc'[t] = l
         /\ \A u \in Thread : u # t => aio_pc'[u] = aio_pc[u]
  BY Zenon

\* How counts of threads change with it.
LEMMA Counting ==
  ASSUME aio_pc \in [Thread -> Labels], NEW t \in Thread, NEW l \in Labels,
         aio_pc' = [aio_pc EXCEPT ![t] = l], NEW L
  PROVE  /\ IsFiniteSet(Counted(L)) /\ Cardinality(Counted(L)) \in Nat
         /\ (aio_pc[t] \in L <=> l \in L) => Counted(L)' = Counted(L)
         /\ aio_pc[t] \notin L /\ l \in L =>
              Cardinality(Counted(L)') = Cardinality(Counted(L)) + 1
         /\ aio_pc[t] \in L /\ l \notin L =>
              Cardinality(Counted(L)') = Cardinality(Counted(L)) - 1
<1>1. aio_pc'[t] = l /\ \A u \in Thread : u # t => aio_pc'[u] = aio_pc[u]
  BY Turned, Zenon
<1>2. IsFiniteSet(Counted(L))
  <2>1. Counted(L) \subseteq Thread
    BY Zenon DEF Counted
  <2> QED
    BY <2>1, AioConstants, FS_Subset, Zenon
<1>3. Cardinality(Counted(L)) \in Nat
  BY <1>2, FS_CardinalityType, Zenon
<1>4. (aio_pc[t] \in L <=> l \in L) => Counted(L)' = Counted(L)
  BY <1>1, Zenon DEF Counted
<1>5. ASSUME aio_pc[t] \notin L, l \in L
      PROVE  Cardinality(Counted(L)') = Cardinality(Counted(L)) + 1
  <2>1. Counted(L)' = Counted(L) \cup {t} /\ t \notin Counted(L)
    BY <1>1, <1>5, Zenon DEF Counted
  <2> QED
    BY <1>2, <2>1, FS_AddElement, Zenon
<1>6. ASSUME aio_pc[t] \in L, l \notin L
      PROVE  Cardinality(Counted(L)') = Cardinality(Counted(L)) - 1
  <2>1. Counted(L)' = Counted(L) \ {t} /\ t \in Counted(L)
    BY <1>1, <1>6, Zenon DEF Counted
  <2> QED
    BY <1>2, <2>1, FS_RemoveElement, Zenon
<1> QED
  BY <1>2, <1>3, <1>4, <1>5, <1>6, Zenon
\* A thread goes on without an event changing its place.
Quiet(t, l) ==
  /\ aio_pc' = [aio_pc EXCEPT ![t] = l]
  /\ aio_pc[t] \notin {"none", "handle"} /\ l \notin {"none", "handle"}
  /\ l = "send" => t \in Extra
  /\ l = "closing" => aio_pc[t] = "send"
  /\ l = "gone" => aio_pc[t] = "closing" \/ ~ aio_running
  /\ aio_pc[t] \in {"closing", "gone"} => l = "gone"
  /\ UNCHANGED <<aio_running, aio_queue, aio_threads, aio_event, aioLoop>>
  /\ aio_stolen' \in BOOLEAN
  /\ n_waiting' = Cardinality(Sleepers') /\ n_closing' = Cardinality(Leavers')
  /\ OneLeaves' /\ NoLostEvent'

\* A step of one thread that changes its label only, for the threads ...
LEMMA QuietThreads ==
  ASSUME ThreadInv, NEW t \in Thread, NEW l \in Labels, Quiet(t, l), aio_pipe' = aio_pipe
  PROVE  ThreadInv'
<1>1. /\ aio_pc' = [aio_pc EXCEPT ![t] = l]
      /\ aio_pc[t] \notin {"none", "handle"} /\ l \notin {"none", "handle"}
      /\ aio_running' = aio_running /\ aio_queue' = aio_queue /\ aio_threads' = aio_threads
      /\ aio_event' = aio_event /\ aio_main' = aio_main /\ aio_measured' = aio_measured
      /\ aio_stolen' \in BOOLEAN
  BY Zenon DEF Quiet, aioLoop
<1>2. /\ aio_pc' \in [Thread -> Labels] /\ aio_pc'[t] = l
      /\ \A u \in Thread : u # t => aio_pc'[u] = aio_pc[u]
  BY <1>1, Turned, Zenon DEF ThreadInv, AioTypes
<1>3. AioTypes'
  BY <1>1, <1>2, Zenon DEF ThreadInv, AioTypes
<1>4. Living'
  BY <1>1, <1>2, Zenon DEF ThreadInv, Living
<1>5. CoreStays'
  <2>1. ASSUME NEW u \in Thread, aio_pc'[u] \in {"send", "closing"} PROVE u \in Extra
    BY <1>2, <2>1, Zenon DEF ThreadInv, CoreStays, Quiet
  <2>2. ASSUME aio_running', NEW u \in Core PROVE aio_pc'[u] # "gone"
    <3>1. u \in Thread /\ u \notin Extra
      BY AioConstants, Zenon
    <3> QED
      BY <1>1, <1>2, <2>2, <3>1, Zenon DEF ThreadInv, CoreStays, Quiet
  <2> QED
    BY <2>1, <2>2, Zenon DEF CoreStays
<1>6. RoomForOne' /\ ThreadsBounded'
  BY <1>1, Zenon DEF ThreadInv, RoomForOne, ThreadsBounded
<1>7. Asking'
  BY <1>2, Zenon DEF ThreadInv, Asking, Quiet
<1> QED
  BY <1>3, <1>4, <1>5, <1>6, <1>7, Zenon DEF ThreadInv, Quiet

\* Nothing changes for the events.
Still ==
  /\ ThreadsAt("handle")' = ThreadsAt("handle") /\ aio_event' = aio_event
  /\ aio_queue' = aio_queue /\ aio_task_num' = aio_task_num /\ aio_dispatched' = aio_dispatched
  /\ aio_dispatched = aio_called' \cup aio_canceled' \cup Outstanding

\* ... and for the events.
LEMMA StillEvents ==
  ASSUME EventInv, Still, aio_pipe' = aio_pipe, NewEvent'
  PROVE  EventInv'
<1>1. /\ ThreadsAt("handle")' = ThreadsAt("handle") /\ aio_event' = aio_event
      /\ aio_queue' = aio_queue /\ aio_task_num' = aio_task_num /\ aio_dispatched' = aio_dispatched
      /\ aio_dispatched = aio_called' \cup aio_canceled' \cup Outstanding
  BY Zenon DEF Still
<1>2. Outstanding' = Outstanding
  BY <1>1, Zenon DEF Outstanding
<1>3. OnePlace'
  BY <1>1, Zenon DEF EventInv, OnePlace
<1>4. TaskNumExact' /\ IsFiniteSet(Outstanding)'
  BY <1>1, <1>2, Zenon DEF EventInv, TaskNumExact
<1> QED
  BY <1>3, <1>4, Zenon DEF EventInv

\* Both: the invariant survives a step that only moves one thread.
LEMMA QuietStep ==
  ASSUME AioInv, NEW t \in Thread, NEW l \in Labels, Quiet(t, l), aio_pipe' = aio_pipe
  PROVE  AioInv'
<1>1. ThreadInv'
  BY QuietThreads, Zenon DEF AioInv
<1>2. aio_pc'[t] = l /\ \A u \in Thread : u # t => aio_pc'[u] = aio_pc[u]
  BY Turned, Zenon DEF AioInv, ThreadInv, AioTypes, Quiet
<1>3. ThreadsAt("handle")' = ThreadsAt("handle")
  BY <1>2, Zenon DEF ThreadsAt, Quiet
<1>4. Still /\ NewEvent'
  BY <1>3, Zenon DEF Still, Quiet, aioLoop, AioInv, EventInv, NewEvent, TaskNumExact
<1> QED
  BY <1>1, <1>4, StillEvents, Zenon DEF AioInv
\* The counts of a step of thread t to label l.
LEMMA Counts ==
  ASSUME ThreadInv, NEW t \in Thread, NEW l \in Labels, aio_pc' = [aio_pc EXCEPT ![t] = l]
  PROVE  /\ n_waiting \in Nat /\ n_closing \in Nat
         /\ Cardinality(Sleepers') =
              IF l \in {"wait", "notified"}
                THEN IF aio_pc[t] \in {"wait", "notified"} THEN n_waiting ELSE n_waiting + 1
                ELSE IF aio_pc[t] \in {"wait", "notified"} THEN n_waiting - 1 ELSE n_waiting
         /\ Cardinality(Leavers') =
              IF l \in {"send", "closing"}
                THEN IF aio_pc[t] \in {"send", "closing"} THEN n_closing ELSE n_closing + 1
                ELSE IF aio_pc[t] \in {"send", "closing"} THEN n_closing - 1 ELSE n_closing
<1>1. aio_pc \in [Thread -> Labels] /\ n_waiting = Cardinality(Sleepers)
      /\ n_closing = Cardinality(Leavers)
  BY Zenon DEF ThreadInv, AioTypes
<1>2. \A L : /\ Cardinality(Counted(L)) \in Nat
             /\ (aio_pc[t] \in L <=> l \in L) => Counted(L)' = Counted(L)
             /\ aio_pc[t] \notin L /\ l \in L =>
                  Cardinality(Counted(L)') = Cardinality(Counted(L)) + 1
             /\ aio_pc[t] \in L /\ l \notin L =>
                  Cardinality(Counted(L)') = Cardinality(Counted(L)) - 1
  BY <1>1, Counting, Zenon
<1>3. n_waiting \in Nat /\ n_closing \in Nat
  BY <1>1, <1>2, Zenon DEF Sleepers, Leavers
<1>4. Cardinality(Sleepers') =
        IF l \in {"wait", "notified"}
          THEN IF aio_pc[t] \in {"wait", "notified"} THEN n_waiting ELSE n_waiting + 1
          ELSE IF aio_pc[t] \in {"wait", "notified"} THEN n_waiting - 1 ELSE n_waiting
  <2> DEFINE W == {"wait", "notified"}
  <2>1. Sleepers = Counted(W) /\ Sleepers' = Counted(W)'
    BY Zenon DEF Sleepers
  <2> HIDE DEF W
  <2>2. Cardinality(Sleepers') =
          IF l \in W THEN IF aio_pc[t] \in W THEN n_waiting ELSE n_waiting + 1
                     ELSE IF aio_pc[t] \in W THEN n_waiting - 1 ELSE n_waiting
    BY <1>1, <1>2, <2>1, Zenon
  <2> QED
    BY <2>2, Zenon DEF W
<1>5. Cardinality(Leavers') =
        IF l \in {"send", "closing"}
          THEN IF aio_pc[t] \in {"send", "closing"} THEN n_closing ELSE n_closing + 1
          ELSE IF aio_pc[t] \in {"send", "closing"} THEN n_closing - 1 ELSE n_closing
  <2> DEFINE W == {"send", "closing"}
  <2>1. Leavers = Counted(W) /\ Leavers' = Counted(W)'
    BY Zenon DEF Leavers
  <2> HIDE DEF W
  <2>2. Cardinality(Leavers') =
          IF l \in W THEN IF aio_pc[t] \in W THEN n_closing ELSE n_closing + 1
                     ELSE IF aio_pc[t] \in W THEN n_closing - 1 ELSE n_closing
    BY <1>1, <1>2, <2>1, Zenon
  <2> QED
    BY <2>2, Zenon DEF W
<1> QED
  BY <1>3, <1>4, <1>5, Zenon

\* Somebody is sure to look at the queue.
Awake == {"top", "pop", "empty", "handle", "notified"}

\* One that stays awake, or that was not, leaves the rest to look at the queue.
LEMMA StaysAwake ==
  ASSUME ThreadInv, NEW t \in Thread, NEW l \in Labels, aio_pc' = [aio_pc EXCEPT ![t] = l],
         UNCHANGED <<aio_running, aio_queue>>, aio_stolen => aio_stolen',
         l \in Awake \/ aio_pc[t] \notin Awake \/ ~ aio_running \/ aio_queue = <<>> \/ aio_stolen'
  PROVE  NoLostEvent'
<1>1. aio_pc'[t] = l /\ \A u \in Thread : u # t => aio_pc'[u] = aio_pc[u]
  BY Turned, Zenon DEF ThreadInv, AioTypes
<1>2. SUFFICES ASSUME aio_running, aio_queue # <<>>, ~ aio_stolen'
               PROVE  \E u \in Thread : aio_pc'[u] \in Awake
  BY Zenon DEF NoLostEvent, Awake
<1>3. PICK u \in Thread : aio_pc[u] \in Awake
  BY <1>2, Zenon DEF ThreadInv, NoLostEvent, Awake
<1>4. CASE u = t
  BY <1>1, <1>2, <1>3, <1>4, Zenon
<1>5. CASE u # t
  BY <1>1, <1>3, <1>5, Zenon
<1> QED
  BY <1>4, <1>5, Zenon

\* A thread begins a round.
LEMMA TopStep ==
  ASSUME AioInv, NEW t \in Thread, aio_top(t) PROVE AioInv'
<1> DEFINE l == IF aio_running THEN "pop" ELSE "gone"
<1>1. /\ aio_pc[t] = "top" /\ aio_pc' = [aio_pc EXCEPT ![t] = l] /\ l \in {"pop", "gone"}
      /\ UNCHANGED <<aio_running, aio_queue, n_waiting, n_closing, aio_threads, aio_event,
                     aio_pipe, aioLoop, aio_stolen>>
  BY Zenon DEF aio_top, Turns
<1>2. l \in Labels /\ ThreadInv /\ aio_stolen \in BOOLEAN
  BY <1>1, Zenon DEF Labels, AioInv, ThreadInv, AioTypes
<1>3. Cardinality(Sleepers') = n_waiting /\ Cardinality(Leavers') = n_closing
  BY <1>1, <1>2, Counts, Zenon
<1>4. NoLostEvent'
  <2>1. l \in Awake \/ ~ aio_running
    BY Zenon DEF Awake
  <2> QED
    BY <1>1, <1>2, <2>1, StaysAwake, Zenon
<1>5. OneLeaves'
  BY <1>1, <1>2, Zenon DEF ThreadInv, OneLeaves
<1>6. l = "gone" => ~ aio_running
  BY Zenon
<1> HIDE DEF l
<1>7. Quiet(t, l)
  BY <1>1, <1>2, <1>3, <1>4, <1>5, <1>6, Zenon DEF Quiet
<1> QED
  BY <1>1, <1>2, <1>7, QuietStep, Zenon

\* A thread finds the queue empty.
LEMMA EmptyStep ==
  ASSUME AioInv, NEW t \in Thread, aio_pop(t), aio_queue = <<>> PROVE AioInv'
<1>1. /\ aio_pc[t] = "pop" /\ aio_pc' = [aio_pc EXCEPT ![t] = "empty"]
      /\ UNCHANGED <<aio_running, aio_queue, n_waiting, n_closing, aio_threads, aio_event,
                     aio_pipe, aioLoop, aio_stolen>>
  BY Zenon DEF aio_pop, Turns
<1>2. "empty" \in Labels /\ ThreadInv /\ aio_stolen \in BOOLEAN
  BY Zenon DEF Labels, AioInv, ThreadInv, AioTypes
<1>3. Cardinality(Sleepers') = n_waiting /\ Cardinality(Leavers') = n_closing
  BY <1>1, <1>2, Counts, Zenon
<1>4. NoLostEvent'
  BY <1>1, Zenon DEF NoLostEvent
<1>5. OneLeaves'
  BY <1>1, <1>2, Zenon DEF ThreadInv, OneLeaves
<1>6. Quiet(t, "empty")
  BY <1>1, <1>2, <1>3, <1>4, <1>5, Zenon DEF Quiet
<1> QED
  BY <1>1, <1>2, <1>6, QuietStep, Zenon

\* A thread begins to wait.
LEMMA WaitStep ==
  ASSUME AioInv, NEW t \in Thread, aio_wait(t) PROVE AioInv'
<1> DEFINE l == IF aio_queue # <<>> THEN "top" ELSE IF ~ aio_running THEN "gone" ELSE "wait"
<1>1. /\ aio_pc[t] = "empty" /\ aio_pc' = [aio_pc EXCEPT ![t] = l] /\ l \in {"top", "gone", "wait"}
      /\ n_waiting' = IF aio_pc'[t] = "wait" THEN n_waiting + 1 ELSE n_waiting
      /\ UNCHANGED <<aio_running, aio_queue, n_closing, aio_threads, aio_event,
                     aio_pipe, aioLoop, aio_stolen>>
  BY Zenon DEF aio_wait, Turns
<1>2. l \in Labels /\ ThreadInv /\ aio_stolen \in BOOLEAN
  BY <1>1, Zenon DEF Labels, AioInv, ThreadInv, AioTypes
<1>3. aio_pc'[t] = l
  BY <1>1, <1>2, Turned, Zenon DEF ThreadInv, AioTypes
<1>4. l = "gone" => ~ aio_running
  BY Zenon
<1>5. l = "top" \/ aio_queue = <<>>
  BY Zenon
<1> HIDE DEF l
<1>6. Cardinality(Sleepers') = n_waiting' /\ Cardinality(Leavers') = n_closing
  BY <1>1, <1>2, <1>3, Counts, Zenon
<1>7. NoLostEvent'
  <2>1. l \in Awake \/ aio_queue = <<>>
    BY <1>5, Zenon DEF Awake
  <2> QED
    BY <1>1, <1>2, <2>1, StaysAwake, Zenon
<1>8. OneLeaves'
  BY <1>1, <1>2, Zenon DEF ThreadInv, OneLeaves
<1>9. Quiet(t, l)
  BY <1>1, <1>2, <1>4, <1>6, <1>7, <1>8, Zenon DEF Quiet
<1> QED
  BY <1>1, <1>2, <1>9, QuietStep, Zenon

\* A thread wakes up and begins a new round.
LEMMA WakeStep ==
  ASSUME AioInv, NEW t \in Thread, wakeUp(t) PROVE AioInv'
<1>1. /\ aio_pc[t] \in {"wait", "notified"} /\ aio_pc' = [aio_pc EXCEPT ![t] = "top"]
      /\ n_waiting' = n_waiting - 1
      /\ UNCHANGED <<aio_running, aio_queue, n_closing, aio_threads, aio_event,
                     aio_pipe, aioLoop, aio_stolen>>
  BY Zenon DEF wakeUp, Turns
<1>2. "top" \in Labels /\ "top" \in Awake /\ ThreadInv /\ aio_stolen \in BOOLEAN
  BY Zenon DEF Labels, Awake, AioInv, ThreadInv, AioTypes
<1>3. Cardinality(Sleepers') = n_waiting' /\ Cardinality(Leavers') = n_closing
  BY <1>1, <1>2, Counts, Zenon
<1>4. NoLostEvent'
  BY <1>1, <1>2, StaysAwake, Zenon
<1>5. OneLeaves'
  BY <1>1, <1>2, Zenon DEF ThreadInv, OneLeaves
<1>6. Quiet(t, "top")
  BY <1>1, <1>2, <1>3, <1>4, <1>5, Zenon DEF Quiet
<1> QED
  BY <1>1, <1>2, <1>6, QuietStep, Zenon

\* A thread has waited long enough and may leave.
LEMMA TimeoutStep ==
  ASSUME AioInv, NEW t \in Thread, aio_timeout(t) PROVE AioInv'
<1> DEFINE l == IF nextRound THEN "wait" ELSE "send"
<1>1. /\ t \in Extra /\ aio_pc[t] \in {"wait", "notified"} /\ aio_pc' = [aio_pc EXCEPT ![t] = l]
      /\ l \in {"wait", "send"}
      /\ n_waiting' = IF l = "wait" THEN n_waiting ELSE n_waiting - 1
      /\ n_closing' = IF l = "wait" THEN n_closing ELSE n_closing + 1
      /\ UNCHANGED <<aio_running, aio_queue, aio_threads, aio_event, aio_pipe, aioLoop>>
  BY Zenon DEF aio_timeout
<1>2. l \in Labels /\ ThreadInv
  BY <1>1, Zenon DEF Labels, AioInv
<1>3. aio_stolen' \in BOOLEAN /\ (aio_stolen => aio_stolen')
      /\ (aio_pc[t] = "notified" /\ aio_queue # <<>> => aio_stolen')
  BY Zenon DEF aio_timeout
<1>4. Cardinality(Sleepers') = n_waiting' /\ Cardinality(Leavers') = n_closing' /\ n_closing \in Nat
  BY <1>1, <1>2, Counts, Zenon
<1>5. NoLostEvent'
  <2>1. aio_pc[t] \notin Awake \/ aio_queue = <<>> \/ aio_stolen'
    BY <1>1, <1>3, Zenon DEF Awake
  <2> QED
    BY <1>1, <1>2, <1>3, <2>1, StaysAwake, Zenon
<1>6. OneLeaves'
  <2>1. CASE nextRound
    BY <1>1, <1>2, <2>1, Zenon DEF ThreadInv, OneLeaves
  <2>2. CASE ~ nextRound
    <3>1. ~ aio_running \/ n_closing = 0
      BY <2>2, Zenon DEF nextRound
    <3> QED
      BY <1>1, <2>2, <3>1 DEF OneLeaves
  <2> QED
    BY <2>1, <2>2, Zenon
<1> HIDE DEF l
<1>7. Quiet(t, l)
  BY <1>1, <1>2, <1>3, <1>4, <1>5, <1>6, Zenon DEF Quiet
<1> QED
  BY <1>1, <1>2, <1>7, QuietStep, Zenon

\* A thread that has asked for its release ends.
LEMMA ClosingStep ==
  ASSUME AioInv, NEW t \in Thread, aio_closing(t) PROVE AioInv'
<1>1. /\ aio_pc[t] = "closing" /\ aio_pc' = [aio_pc EXCEPT ![t] = "gone"]
      /\ n_closing' = n_closing - 1
      /\ UNCHANGED <<aio_running, aio_queue, n_waiting, aio_threads, aio_event,
                     aio_pipe, aioLoop, aio_stolen>>
  BY Zenon DEF aio_closing, Turns
<1>2. "gone" \in Labels /\ ThreadInv /\ aio_stolen \in BOOLEAN
  BY Zenon DEF Labels, AioInv, ThreadInv, AioTypes
<1>3. Cardinality(Sleepers') = n_waiting /\ Cardinality(Leavers') = n_closing' /\ n_closing \in Nat
  BY <1>1, <1>2, Counts, Zenon
<1>4. NoLostEvent'
  <2>1. aio_pc[t] \notin Awake
    BY <1>1, Zenon DEF Awake
  <2> QED
    BY <1>1, <1>2, <2>1, StaysAwake, Zenon
<1>5. OneLeaves'
  BY <1>1, <1>2, <1>3 DEF ThreadInv, OneLeaves
<1>6. Quiet(t, "gone")
  BY <1>1, <1>2, <1>3, <1>4, <1>5, Zenon DEF Quiet
<1> QED
  BY <1>1, <1>2, <1>6, QuietStep, Zenon
\* What the steps below need of the state.
LEMMA AioFacts ==
  ASSUME AioInv
  PROVE  /\ aio_running \in BOOLEAN /\ aio_measured \in BOOLEAN /\ aio_stolen \in BOOLEAN
         /\ aio_threads \subseteq Thread /\ Core \subseteq aio_threads
         /\ aio_pc \in [Thread -> Labels] /\ aio_event \in [Thread -> AioEvent \cup {AioLoop}]
         /\ aio_queue \in Seq(AioEvent) /\ aio_pipe \in Seq(AioEvent \cup Thread)
         /\ aio_main \in AioEvent \cup {AioLoop, "read"}
         /\ n_waiting = Cardinality(Sleepers) /\ n_closing = Cardinality(Leavers)
         /\ ThreadInv /\ EventInv /\ IsFiniteSet(aio_threads) /\ Cardinality(aio_threads) \in Nat
<1>1. /\ aio_running \in BOOLEAN /\ aio_measured \in BOOLEAN /\ aio_stolen \in BOOLEAN
      /\ aio_threads \subseteq Thread /\ Core \subseteq aio_threads
      /\ aio_pc \in [Thread -> Labels] /\ aio_event \in [Thread -> AioEvent \cup {AioLoop}]
      /\ aio_queue \in Seq(AioEvent) /\ aio_pipe \in Seq(AioEvent \cup Thread)
      /\ aio_main \in AioEvent \cup {AioLoop, "read"}
      /\ n_waiting = Cardinality(Sleepers) /\ n_closing = Cardinality(Leavers)
      /\ ThreadInv /\ EventInv
  BY Zenon DEF AioInv, ThreadInv, AioTypes
<1>2. IsFiniteSet(aio_threads)
  BY <1>1, AioConstants, FS_Subset, Zenon
<1> QED
  BY <1>1, <1>2, FS_CardinalityType, Zenon

\* A thread asks for its release.
LEMMA SendStep ==
  ASSUME AioInv, NEW t \in Thread, aio_send(t) PROVE AioInv'
<1>1. /\ aio_pc[t] = "send" /\ aio_pc' = [aio_pc EXCEPT ![t] = "closing"]
      /\ aio_pipe' = Append(aio_pipe, t)
      /\ aio_running' = aio_running /\ aio_queue' = aio_queue /\ aio_threads' = aio_threads
      /\ aio_event' = aio_event /\ aio_main' = aio_main /\ aio_measured' = aio_measured
      /\ aio_stolen' = aio_stolen /\ n_waiting' = n_waiting /\ n_closing' = n_closing
      /\ aio_task_num' = aio_task_num /\ aio_dispatched' = aio_dispatched
      /\ aio_called' = aio_called /\ aio_canceled' = aio_canceled
  BY Zenon DEF aio_send, Turns, aioLoop
<1>2. "closing" \in Labels /\ ThreadInv /\ EventInv
  BY Zenon DEF Labels, AioInv
<1>3. /\ aio_pc' \in [Thread -> Labels] /\ aio_pc'[t] = "closing"
      /\ \A u \in Thread : u # t => aio_pc'[u] = aio_pc[u]
  BY <1>1, <1>2, AioFacts, Turned, Zenon
<1>4. Cardinality(Sleepers') = n_waiting /\ Cardinality(Leavers') = n_closing
  BY <1>1, <1>2, Counts, Zenon
<1>5. t \in Extra /\ t \notin Listed(aio_pipe)
  BY <1>1, <1>2, Zenon DEF ThreadInv, CoreStays, Asking
<1>6. /\ aio_pipe' \in Seq(AioEvent \cup Thread) /\ Listed(aio_pipe') = Listed(aio_pipe) \cup {t}
      /\ Distinct(aio_pipe) => Distinct(aio_pipe')
  <2>1. t \in AioEvent \cup Thread /\ aio_pipe \in Seq(AioEvent \cup Thread)
    BY AioFacts, Zenon
  <2>2. /\ Append(aio_pipe, t) \in Seq(AioEvent \cup Thread)
        /\ Listed(Append(aio_pipe, t)) = Listed(aio_pipe) \cup {t}
        /\ Distinct(aio_pipe) => Distinct(Append(aio_pipe, t))
    BY <1>5, <2>1, ListAppend
  <2> QED
    BY <1>1, <2>2, Zenon
<1>7. NoLostEvent'
  <2>1. aio_pc[t] \notin Awake
    BY <1>1, Zenon DEF Awake
  <2> QED
    BY <1>1, <1>2, <2>1, StaysAwake, Zenon
<1>8. ThreadInv'
  <2>1. AioTypes'
    BY <1>1, <1>3, <1>6, AioFacts, Zenon DEF AioTypes
  <2>2. Living' /\ Asking'
    BY <1>1, <1>3, <1>5, <1>6, Zenon DEF AioInv, ThreadInv, Living, Asking
  <2>3. CoreStays'
    BY <1>1, <1>3, <1>5 DEF AioInv, ThreadInv, CoreStays
  <2>4. RoomForOne' /\ ThreadsBounded' /\ OneLeaves'
    BY <1>1, <1>2, Zenon DEF ThreadInv, RoomForOne, ThreadsBounded, OneLeaves
  <2> QED
    BY <1>1, <1>4, <1>7, <2>1, <2>2, <2>3, <2>4, Zenon DEF ThreadInv
<1>9. ThreadsAt("handle")' = ThreadsAt("handle")
  BY <1>1, <1>3, Zenon DEF ThreadsAt
<1>10. Outstanding' = Outstanding
  <2>1. Listed(aio_pipe') \ Thread = Listed(aio_pipe) \ Thread
    BY <1>6, Zenon
  <2> QED
    BY <1>1, <1>9, <2>1, Zenon DEF Outstanding
<1>11. OnePlace'
  <2>1. \A e \in AioEvent : e \in Listed(aio_pipe') => e \in Listed(aio_pipe)
    BY <1>6, AioConstants, Zenon
  <2> QED
    BY <1>1, <1>2, <1>6, <1>9, <2>1 DEF EventInv, OnePlace
<1>12. NewEvent' /\ TaskNumExact' /\ IsFiniteSet(Outstanding)'
  BY <1>1, <1>2, <1>10, Zenon DEF EventInv, NewEvent, TaskNumExact
<1> QED
  BY <1>8, <1>11, <1>12, Zenon DEF AioInv, EventInv

\* The event loop does something that concerns no thread and no event's place.
LEMMA LoopStep ==
  ASSUME AioInv, UNCHANGED <<aioPool, aio_pipe, aio_task_num, aio_dispatched, aio_stolen>>,
         aio_main' \in AioEvent \cup {AioLoop, "read"}, aio_measured' \in BOOLEAN,
         aio_dispatched = aio_called' \cup aio_canceled' \cup Outstanding, RoomForOne', NewEvent'
  PROVE  AioInv'
<1>1. /\ aio_running' = aio_running /\ aio_queue' = aio_queue /\ n_waiting' = n_waiting
      /\ n_closing' = n_closing /\ aio_threads' = aio_threads /\ aio_pc' = aio_pc
      /\ aio_event' = aio_event /\ aio_pipe' = aio_pipe /\ aio_task_num' = aio_task_num
      /\ aio_dispatched' = aio_dispatched /\ aio_stolen' = aio_stolen
  BY Zenon DEF aioPool
<1>2. AioTypes'
  BY <1>1, AioFacts, Zenon DEF AioTypes
<1>3. /\ Living' /\ CoreStays' /\ Asking' /\ ThreadsBounded' /\ OneLeaves' /\ NoLostEvent'
      /\ Sleepers' = Sleepers /\ Leavers' = Leavers
  <2>1. Living' /\ CoreStays' /\ Asking' /\ ThreadsBounded'
    BY <1>1, AioFacts, Zenon DEF ThreadInv, Living, CoreStays, Asking, ThreadsBounded
  <2>2. OneLeaves' /\ NoLostEvent' /\ Sleepers' = Sleepers /\ Leavers' = Leavers
    BY <1>1, AioFacts DEF ThreadInv, OneLeaves, NoLostEvent, Sleepers, Leavers, Counted
  <2> QED
    BY <2>1, <2>2, Zenon
<1>4. ThreadInv'
  BY <1>1, <1>2, <1>3, AioFacts, Zenon DEF ThreadInv
<1>5. ThreadsAt("handle")' = ThreadsAt("handle")
  BY <1>1, Zenon DEF ThreadsAt
<1>6. EventInv'
  BY <1>1, <1>5, AioFacts, StillEvents, Zenon DEF Still
<1> QED
  BY <1>4, <1>6, Zenon DEF AioInv

\* schedule() looks whether one more thread may be created.
LEMMA ScheduleStep ==
  ASSUME AioInv, NEW op, aio_schedule(op),
         op = "read" \/ op \in AioEvent \ (aio_dispatched \cup {aio_main})
  PROVE  AioInv'
<1>1. /\ aio_main' = op /\ aio_measured' = mayCreate /\ aio_threads' = aio_threads
      /\ UNCHANGED <<aioPool, aio_pipe, aio_task_num, aio_dispatched, aio_stolen>>
      /\ aio_called' = aio_called /\ aio_canceled' = aio_canceled
      /\ aio_dispatched' = aio_dispatched
  BY Zenon DEF aio_schedule, aioPool
<1>2. aio_measured' \in BOOLEAN /\ RoomForOne'
  BY <1>1, Zenon DEF mayCreate, RoomForOne
<1>3. aio_main' \in AioEvent \cup {AioLoop, "read"} /\ NewEvent'
  BY <1>1, AioConstants, Zenon DEF NewEvent
<1>4. aio_dispatched = aio_called' \cup aio_canceled' \cup Outstanding
  BY <1>1, AioFacts, Zenon DEF EventInv, TaskNumExact
<1> QED
  BY <1>1, <1>2, <1>3, <1>4, LoopStep, Zenon

\* An event is canceled.
LEMMA CancelStep ==
  ASSUME AioInv, NEW e, aio_cancel(e) PROVE AioInv'
<1>1. /\ e \in aio_dispatched /\ aio_canceled' = aio_canceled \cup {e}
      /\ UNCHANGED <<aioPool, aio_pipe, aio_task_num, aio_dispatched, aio_stolen>>
      /\ aio_main' = aio_main /\ aio_measured' = aio_measured /\ aio_called' = aio_called
      /\ aio_threads' = aio_threads /\ aio_dispatched' = aio_dispatched
  BY Zenon DEF aio_cancel, aioPool
<1>2. aio_dispatched = aio_called \cup aio_canceled \cup Outstanding /\ NewEvent
      /\ RoomForOne /\ aio_measured \in BOOLEAN /\ aio_main \in AioEvent \cup {AioLoop, "read"}
  BY AioFacts, Zenon DEF EventInv, TaskNumExact, ThreadInv
<1>3. aio_dispatched = aio_called' \cup aio_canceled' \cup Outstanding
  BY <1>1, <1>2, Zenon
<1>4. NewEvent' /\ RoomForOne'
  BY <1>1, <1>2, Zenon DEF NewEvent, RoomForOne
<1> QED
  BY <1>1, <1>2, <1>3, <1>4, LoopStep, Zenon
\* schedule() creates a thread.
LEMMA CreateStep ==
  ASSUME AioInv, NEW t \in Extra, create_thread(t) PROVE AioInv'
<1>1. /\ aio_measured /\ t \notin aio_threads /\ aio_threads' = aio_threads \cup {t}
      /\ aio_pc' = [aio_pc EXCEPT ![t] = "top"] /\ aio_measured' = FALSE
      /\ aio_running' = aio_running /\ aio_queue' = aio_queue /\ n_waiting' = n_waiting
      /\ n_closing' = n_closing /\ aio_event' = aio_event /\ aio_pipe' = aio_pipe
      /\ aio_task_num' = aio_task_num /\ aio_main' = aio_main
      /\ aio_dispatched' = aio_dispatched /\ aio_called' = aio_called
      /\ aio_canceled' = aio_canceled /\ aio_stolen' = aio_stolen
  BY Zenon DEF create_thread
<1>2. "top" \in Labels /\ "top" \in Awake /\ t \in Thread
  BY AioConstants, Zenon DEF Labels, Awake
<1>3. aio_pc[t] = "none"
  BY <1>1, <1>2, AioFacts, Zenon DEF ThreadInv, Living
<1>4. /\ aio_pc' \in [Thread -> Labels] /\ aio_pc'[t] = "top"
      /\ \A u \in Thread : u # t => aio_pc'[u] = aio_pc[u]
  BY <1>1, <1>2, AioFacts, Turned, Zenon
<1>5. Cardinality(Sleepers') = n_waiting /\ Cardinality(Leavers') = n_closing
  BY <1>1, <1>2, <1>3, AioFacts, Counts, Zenon
<1>6. NoLostEvent'
  BY <1>1, <1>2, AioFacts, StaysAwake, Zenon
<1>7. Cardinality(aio_threads') = Cardinality(aio_threads) + 1
  BY <1>1, AioFacts, FS_AddElement, Zenon
<1>8. ThreadsBounded'
  <2>1. Cardinality(aio_threads) < worker_num /\ worker_num \in Nat
        /\ Cardinality(aio_threads) \in Nat
    BY <1>1, AioFacts, AioConstants, Zenon DEF ThreadInv, RoomForOne
  <2> QED
    BY <1>7, <2>1 DEF ThreadsBounded
<1>9. AioTypes'
  <2>1. aio_threads' \subseteq Thread /\ Core \subseteq aio_threads'
    BY <1>1, <1>2, AioFacts, Zenon
  <2> QED
    BY <1>1, <1>4, <2>1, AioFacts, Zenon DEF AioTypes
<1>10. Living'
  BY <1>1, <1>2, <1>4, AioFacts, Zenon DEF ThreadInv, Living
<1>11. CoreStays' /\ Asking'
  BY <1>1, <1>2, <1>3, <1>4, AioFacts, Zenon DEF ThreadInv, CoreStays, Asking
<1>12. RoomForOne' /\ OneLeaves'
  BY <1>1, AioFacts, Zenon DEF ThreadInv, RoomForOne, OneLeaves
<1>13. ThreadInv'
  BY <1>1, <1>5, <1>6, <1>8, <1>9, <1>10, <1>11, <1>12, Zenon DEF ThreadInv
<1>14. ThreadsAt("handle")' = ThreadsAt("handle")
  BY <1>3, <1>4, Zenon DEF ThreadsAt
<1>15. EventInv'
  <2>1. Still /\ NewEvent'
    BY <1>1, <1>14, AioFacts, Zenon DEF Still, EventInv, TaskNumExact, NewEvent
  <2> QED
    BY <1>1, <2>1, AioFacts, StillEvents, Zenon
<1> QED
  BY <1>13, <1>15, Zenon DEF AioInv

\* The pool is shut down: every waiting thread is notified.
LEMMA ShutdownStep ==
  ASSUME AioInv, aio_shutdown PROVE AioInv'
<1>1. /\ ~ aio_running' /\ aio_running' \in BOOLEAN
      /\ aio_pc' = [t \in Thread |-> IF aio_pc[t] = "wait" THEN "notified" ELSE aio_pc[t]]
      /\ aio_queue' = aio_queue /\ n_waiting' = n_waiting /\ n_closing' = n_closing
      /\ aio_threads' = aio_threads /\ aio_event' = aio_event /\ aio_pipe' = aio_pipe
      /\ aio_task_num' = aio_task_num /\ aio_main' = aio_main /\ aio_measured' = aio_measured
      /\ aio_dispatched' = aio_dispatched /\ aio_called' = aio_called
      /\ aio_canceled' = aio_canceled /\ aio_stolen' = aio_stolen
  BY Zenon DEF aio_shutdown, aioLoop
<1>2. /\ \A t \in Thread : aio_pc'[t] = IF aio_pc[t] = "wait" THEN "notified" ELSE aio_pc[t]
      /\ aio_pc' \in [Thread -> Labels]
  <2>1. "notified" \in Labels /\ aio_pc \in [Thread -> Labels]
    BY AioFacts, Zenon DEF Labels
  <2> QED
    BY <1>1, <2>1, Zenon
<1>3. Sleepers' = Sleepers /\ Leavers' = Leavers /\ ThreadsAt("handle")' = ThreadsAt("handle")
  BY <1>2, Zenon DEF Sleepers, Leavers, Counted, ThreadsAt
<1>4. AioTypes'
  BY <1>1, <1>2, AioFacts, Zenon DEF AioTypes
<1>5. Living' /\ Asking'
  BY <1>1, <1>2, AioFacts, Zenon DEF ThreadInv, Living, Asking
<1>6. CoreStays' /\ OneLeaves' /\ NoLostEvent'
  BY <1>1, <1>2, AioFacts, Zenon DEF ThreadInv, CoreStays, OneLeaves, NoLostEvent
<1>7. RoomForOne' /\ ThreadsBounded'
  BY <1>1, AioFacts, Zenon DEF ThreadInv, RoomForOne, ThreadsBounded
<1>8. ThreadInv'
  BY <1>1, <1>3, <1>4, <1>5, <1>6, <1>7, AioFacts, Zenon DEF ThreadInv
<1>9. Still /\ NewEvent'
  BY <1>1, <1>3, AioFacts, Zenon DEF Still, EventInv, TaskNumExact, NewEvent
<1> QED
  BY <1>1, <1>8, <1>9, AioFacts, StillEvents, Zenon DEF AioInv

\* Where events are, as far as one thread's hands are concerned.
LEMMA HandledSet ==
  ASSUME AioInv, NEW t \in Thread, NEW l \in Labels, aio_pc' = [aio_pc EXCEPT ![t] = l]
  PROVE  /\ l = "handle" => ThreadsAt("handle")' = ThreadsAt("handle") \cup {t}
         /\ l # "handle" => ThreadsAt("handle")' = ThreadsAt("handle") \ {t}
<1>1. aio_pc'[t] = l /\ \A u \in Thread : u # t => aio_pc'[u] = aio_pc[u]
  BY AioFacts, Turned, Zenon
<1> QED
  BY <1>1, Zenon DEF ThreadsAt

\* The threads' part of a step in which thread t takes or hands over an event.
LEMMA WorkThreads ==
  ASSUME AioInv, NEW t \in Thread, NEW l \in {"handle", "top"}, aio_pc' = [aio_pc EXCEPT ![t] = l],
         aio_pc[t] \in {"pop", "handle"},
         UNCHANGED <<aio_running, n_waiting, n_closing, aio_threads, aioLoop, aio_stolen>>,
         aio_event' \in [Thread -> AioEvent \cup {AioLoop}], aio_queue' \in Seq(AioEvent),
         aio_pipe' \in Seq(AioEvent \cup Thread),
         \A u \in Thread : u \in Listed(aio_pipe') => u \in Listed(aio_pipe)
  PROVE  ThreadInv'
<1>1. /\ aio_running' = aio_running /\ n_waiting' = n_waiting /\ n_closing' = n_closing
      /\ aio_threads' = aio_threads /\ aio_stolen' = aio_stolen
      /\ aio_main' = aio_main /\ aio_measured' = aio_measured
  BY Zenon DEF aioLoop
<1>2. l \in Labels /\ l \in Awake
  BY Zenon DEF Labels, Awake
<1>3. /\ aio_pc' \in [Thread -> Labels] /\ aio_pc'[t] = l
      /\ \A u \in Thread : u # t => aio_pc'[u] = aio_pc[u]
  BY <1>2, AioFacts, Turned, Zenon
<1>4. Cardinality(Sleepers') = n_waiting /\ Cardinality(Leavers') = n_closing
  BY <1>2, AioFacts, Counts, Zenon
<1>5. NoLostEvent'
  BY <1>2, <1>3, Zenon DEF NoLostEvent, Awake
<1>6. AioTypes'
  BY <1>1, <1>3, AioFacts, Zenon DEF AioTypes
<1>7. Living'
  BY <1>1, <1>3, AioFacts, Zenon DEF ThreadInv, Living
<1>8. CoreStays'
  BY <1>1, <1>3, AioFacts DEF ThreadInv, CoreStays
<1>9. Asking'
  BY <1>3, AioFacts, Zenon DEF ThreadInv, Asking
<1>10. RoomForOne' /\ ThreadsBounded' /\ OneLeaves'
  BY <1>1, AioFacts DEF ThreadInv, RoomForOne, ThreadsBounded, OneLeaves
<1> QED
  BY <1>1, <1>4, <1>5, <1>6, <1>7, <1>8, <1>9, <1>10, Zenon DEF ThreadInv
\* A thread takes the first event of the queue.
LEMMA TakeStep ==
  ASSUME AioInv, NEW t \in Thread, aio_pop(t), aio_queue # <<>> PROVE AioInv'
<1> DEFINE e == Head(aio_queue)
<1>1. /\ aio_pc[t] = "pop" /\ aio_pc' = [aio_pc EXCEPT ![t] = "handle"]
      /\ aio_queue' = Tail(aio_queue) /\ aio_event' = [aio_event EXCEPT ![t] = e]
      /\ UNCHANGED <<aio_running, n_waiting, n_closing, aio_threads, aioLoop, aio_stolen>>
      /\ aio_pipe' = aio_pipe /\ aio_main' = aio_main /\ aio_dispatched' = aio_dispatched
      /\ aio_task_num' = aio_task_num /\ aio_called' = aio_called /\ aio_canceled' = aio_canceled
  BY Zenon DEF aio_pop, Turns, aioLoop
<1>2. aio_queue \in Seq(AioEvent) /\ Distinct(aio_queue) /\ OnePlace
  BY AioFacts, Zenon DEF EventInv, OnePlace
<1>3. /\ aio_queue' \in Seq(AioEvent) /\ e \in AioEvent /\ Distinct(aio_queue')
      /\ Listed(aio_queue) = Listed(aio_queue') \cup {e} /\ e \notin Listed(aio_queue')
  <2>1. /\ Tail(aio_queue) \in Seq(AioEvent) /\ e \in AioEvent
        /\ Listed(aio_queue) = Listed(Tail(aio_queue)) \cup {e}
        /\ Distinct(Tail(aio_queue)) /\ e \notin Listed(Tail(aio_queue))
    BY <1>2, ListTail, Zenon
  <2> QED
    BY <1>1, <2>1, Zenon
<1> HIDE DEF e
<1>4. aio_event' \in [Thread -> AioEvent \cup {AioLoop}] /\ aio_event'[t] = e
      /\ \A u \in Thread : u # t => aio_event'[u] = aio_event[u]
  <2>1. aio_event \in [Thread -> AioEvent \cup {AioLoop}] /\ e \in AioEvent \cup {AioLoop}
    BY <1>3, AioFacts, Zenon
  <2> QED
    BY <1>1, <2>1, Zenon
<1>5. ThreadInv'
  <2>1. aio_pc[t] \in {"pop", "handle"} /\ "handle" \in {"handle", "top"}
        /\ aio_pipe' \in Seq(AioEvent \cup Thread)
        /\ \A u \in Thread : u \in Listed(aio_pipe') => u \in Listed(aio_pipe)
    BY <1>1, AioFacts, Zenon
  <2> QED
    BY <1>1, <1>3, <1>4, <2>1, WorkThreads, Zenon
<1>6. "handle" \in Labels /\ t \notin ThreadsAt("handle")
  BY <1>1, Zenon DEF Labels, ThreadsAt
<1>7. ThreadsAt("handle")' = ThreadsAt("handle") \cup {t} /\ ThreadsAt("handle") \subseteq Thread
  <2>1. ThreadsAt("handle") \subseteq Thread
    BY Zenon DEF ThreadsAt
  <2> QED
    BY <1>1, <1>6, <2>1, HandledSet, Zenon
<1>8. OnePlace'
  <2>1. e \in Listed(aio_queue) /\ \A u \in ThreadsAt("handle") : aio_event[u] # e
    BY <1>2, <1>3, Zenon DEF OnePlace
  <2>2. e \notin Listed(aio_pipe')
    BY <1>1, <1>2, <1>3, <2>1, Zenon DEF OnePlace
  <2>3. Distinct(aio_pipe')
    BY <1>1, <1>2, Zenon DEF OnePlace
  <2>4. \A f \in AioEvent : ~ (f \in Listed(aio_queue') /\ f \in Listed(aio_pipe'))
    BY <1>1, <1>2, <1>3, Zenon DEF OnePlace
  <2>5. ASSUME NEW u \in ThreadsAt("handle")'
        PROVE  /\ aio_event'[u] \in AioEvent
               /\ aio_event'[u] \notin Listed(aio_queue') /\ aio_event'[u] \notin Listed(aio_pipe')
               /\ \A v \in ThreadsAt("handle")' : aio_event'[u] = aio_event'[v] => u = v
    <3>1. ASSUME u = t PROVE aio_event'[u] = e
      BY <1>4, <3>1, Zenon
    <3>2. ASSUME u # t PROVE u \in ThreadsAt("handle") /\ aio_event'[u] = aio_event[u]
      BY <1>4, <1>7, <2>5, <3>2, Zenon
    <3>3. \A v \in ThreadsAt("handle")' :
            v = t \/ (v \in ThreadsAt("handle") /\ aio_event'[v] = aio_event[v])
      BY <1>4, <1>7, Zenon
    <3>4. CASE u = t
      BY <1>3, <2>1, <2>2, <3>1, <3>3, <3>4, Zenon
    <3>5. CASE u # t
      <4>1. /\ aio_event[u] \in AioEvent /\ aio_event[u] \notin Listed(aio_queue)
            /\ aio_event[u] \notin Listed(aio_pipe)
            /\ \A v \in ThreadsAt("handle") : aio_event[u] = aio_event[v] => u = v
        BY <1>2, <3>2, <3>5, Zenon DEF OnePlace
      <4>2. \A v \in ThreadsAt("handle")' : aio_event'[u] = aio_event'[v] => u = v
        BY <1>4, <2>1, <3>2, <3>3, <3>5, <4>1, Zenon
      <4> QED
        BY <1>1, <1>3, <3>2, <3>5, <4>1, <4>2, Zenon
    <3> QED
      BY <3>4, <3>5, Zenon
  <2> QED
    BY <1>3, <2>3, <2>4, <2>5, Zenon DEF OnePlace
<1>9. Outstanding' = Outstanding
  <2>1. {aio_event'[u] : u \in ThreadsAt("handle")'} =
          {aio_event[u] : u \in ThreadsAt("handle")} \cup {e}
    BY <1>4, <1>6, <1>7
  <2> QED
    BY <1>1, <1>3, <2>1, Zenon DEF Outstanding
<1>10. NewEvent' /\ TaskNumExact' /\ IsFiniteSet(Outstanding)'
  BY <1>1, <1>9, AioFacts, Zenon DEF EventInv, NewEvent, TaskNumExact
<1> QED
  BY <1>5, <1>8, <1>10, Zenon DEF AioInv, EventInv

\* A thread hands its event over to the pipe.
LEMMA HandleStep ==
  ASSUME AioInv, NEW t \in Thread, aio_handle(t) PROVE AioInv'
<1> DEFINE e == aio_event[t]
<1>1. /\ aio_pc[t] = "handle" /\ aio_pc' = [aio_pc EXCEPT ![t] = "top"]
      /\ aio_pipe' = Append(aio_pipe, e) /\ aio_event' = [aio_event EXCEPT ![t] = AioLoop]
      /\ UNCHANGED <<aio_running, n_waiting, n_closing, aio_threads, aioLoop, aio_stolen>>
      /\ aio_queue' = aio_queue /\ aio_main' = aio_main /\ aio_dispatched' = aio_dispatched
      /\ aio_task_num' = aio_task_num /\ aio_called' = aio_called /\ aio_canceled' = aio_canceled
  BY Zenon DEF aio_handle, Turns, aioLoop
<1>2. aio_pipe \in Seq(AioEvent \cup Thread) /\ Distinct(aio_pipe) /\ OnePlace
  BY AioFacts, Zenon DEF EventInv, OnePlace
<1>3. t \in ThreadsAt("handle")
  BY <1>1, Zenon DEF ThreadsAt
<1>4. /\ e \in AioEvent /\ e \notin Thread /\ e \notin Listed(aio_pipe) /\ e \notin Listed(aio_queue)
      /\ \A u \in ThreadsAt("handle") : e = aio_event[u] => t = u
  BY <1>2, <1>3, AioConstants, Zenon DEF OnePlace
<1>5. /\ aio_pipe' \in Seq(AioEvent \cup Thread) /\ Distinct(aio_pipe')
      /\ Listed(aio_pipe') = Listed(aio_pipe) \cup {e}
  <2> HIDE DEF e
  <2>1. e \in AioEvent \cup Thread
    BY <1>4, Zenon
  <2>2. /\ Append(aio_pipe, e) \in Seq(AioEvent \cup Thread)
        /\ Listed(Append(aio_pipe, e)) = Listed(aio_pipe) \cup {e} /\ Distinct(Append(aio_pipe, e))
    BY <1>2, <1>4, <2>1, ListAppend
  <2> QED
    BY <1>1, <2>2, Zenon
<1>6. aio_event' \in [Thread -> AioEvent \cup {AioLoop}]
      /\ \A u \in Thread : u # t => aio_event'[u] = aio_event[u]
  <2>1. aio_event \in [Thread -> AioEvent \cup {AioLoop}]
    BY AioFacts, Zenon
  <2> QED
    BY <1>1, <2>1, Zenon
<1>7. ThreadInv'
  <2>1. aio_pc[t] \in {"pop", "handle"} /\ "top" \in {"handle", "top"}
        /\ aio_queue' \in Seq(AioEvent)
        /\ \A u \in Thread : u \in Listed(aio_pipe') => u \in Listed(aio_pipe)
    BY <1>1, <1>4, <1>5, AioFacts, Zenon
  <2> QED
    BY <1>1, <1>5, <1>6, <2>1, WorkThreads, Zenon
<1>8. ThreadsAt("handle")' = ThreadsAt("handle") \ {t} /\ ThreadsAt("handle") \subseteq Thread
  <2>1. ThreadsAt("handle") \subseteq Thread /\ "top" \in Labels /\ "top" # "handle"
    BY Zenon DEF ThreadsAt, Labels
  <2> QED
    BY <1>1, <2>1, HandledSet, Zenon
<1>9. \A u \in ThreadsAt("handle")' : u \in ThreadsAt("handle") /\ u # t /\ aio_event'[u] = aio_event[u]
  BY <1>6, <1>8, Zenon
<1>10. OnePlace'
  <2>1. Distinct(aio_queue')
    BY <1>1, <1>2, Zenon DEF OnePlace
  <2>2. \A f \in AioEvent : ~ (f \in Listed(aio_queue') /\ f \in Listed(aio_pipe'))
    BY <1>1, <1>2, <1>4, <1>5, Zenon DEF OnePlace
  <2>3. ASSUME NEW u \in ThreadsAt("handle")'
        PROVE  /\ aio_event'[u] \in AioEvent
               /\ aio_event'[u] \notin Listed(aio_queue') /\ aio_event'[u] \notin Listed(aio_pipe')
               /\ \A v \in ThreadsAt("handle")' : aio_event'[u] = aio_event'[v] => u = v
    <3>1. /\ aio_event[u] \in AioEvent /\ aio_event[u] \notin Listed(aio_queue)
          /\ aio_event[u] \notin Listed(aio_pipe) /\ aio_event[u] # e
          /\ \A v \in ThreadsAt("handle") : aio_event[u] = aio_event[v] => u = v
      BY <1>2, <1>4, <1>9, Zenon DEF OnePlace
    <3> QED
      BY <1>1, <1>5, <1>9, <3>1, Zenon
  <2> QED
    BY <1>5, <2>1, <2>2, <2>3, Zenon DEF OnePlace
<1>11. Outstanding' = Outstanding
  <2>1. {aio_event[u] : u \in ThreadsAt("handle")} =
          {aio_event'[u] : u \in ThreadsAt("handle")'} \cup {e}
    BY <1>3, <1>8, <1>9, Zenon
  <2>2. Listed(aio_pipe') \ Thread = (Listed(aio_pipe) \ Thread) \cup {e}
    BY <1>4, <1>5, Zenon
  <2> QED
    BY <1>1, <2>1, <2>2, Zenon DEF Outstanding
<1>12. NewEvent' /\ TaskNumExact' /\ IsFiniteSet(Outstanding)'
  BY <1>1, <1>11, AioFacts, Zenon DEF EventInv, NewEvent, TaskNumExact
<1> QED
  BY <1>7, <1>10, <1>12, Zenon DEF AioInv, EventInv
\* notify_one() wakes a waiting thread; if there is none, a core worker is awake.
LEMMA Notified ==
  ASSUME AioInv, notify_one
  PROVE  /\ aio_pc' \in [Thread -> Labels]
         /\ \A u \in Thread : aio_pc'[u] = aio_pc[u] \/ (aio_pc[u] = "wait" /\ aio_pc'[u] = "notified")
         /\ aio_running => \E u \in Thread : aio_pc'[u] \in Awake
<1>1. CASE \E t \in aio_threads : aio_pc[t] = "wait"
  <2>1. PICK t \in aio_threads : aio_pc[t] = "wait" /\ aio_pc' = [aio_pc EXCEPT ![t] = "notified"]
    BY <1>1, Zenon DEF notify_one
  <2>2. t \in Thread /\ "notified" \in Labels /\ "notified" \in Awake
    BY AioFacts, Zenon DEF Labels, Awake
  <2>3. /\ aio_pc' \in [Thread -> Labels] /\ aio_pc'[t] = "notified"
        /\ \A u \in Thread : u # t => aio_pc'[u] = aio_pc[u]
    BY <2>1, <2>2, AioFacts, Turned, Zenon
  <2> QED
    BY <2>1, <2>2, <2>3, Zenon
<1>2. CASE ~ \E t \in aio_threads : aio_pc[t] = "wait"
  <2>1. aio_pc' = aio_pc
    BY <1>2, Zenon DEF notify_one
  <2>2. ASSUME aio_running PROVE \E u \in Thread : aio_pc[u] \in Awake
    <3>1. PICK c \in Core : TRUE
      BY AioConstants, Zenon
    <3>2. c \in Thread /\ c \in aio_threads /\ c \notin Extra
      BY AioFacts, AioConstants, Zenon
    <3>3. aio_pc[c] # "none" /\ aio_pc[c] # "wait" /\ aio_pc[c] \notin {"send", "closing"}
          /\ aio_pc[c] # "gone"
      BY <1>2, <2>2, <3>2, AioFacts, Zenon DEF ThreadInv, Living, CoreStays
    <3>4. aio_pc[c] \in Labels
      BY <3>2, AioFacts, Zenon
    <3>5. aio_pc[c] \in Awake
      BY <3>3, <3>4, Zenon DEF Labels, Awake
    <3> QED
      BY <3>2, <3>5, Zenon
  <2> QED
    BY <2>1, <2>2, AioFacts, Zenon
<1> QED
  BY <1>1, <1>2, Zenon

\* swAio_dispatch2() puts an event in the queue.
LEMMA DispatchStep ==
  ASSUME AioInv, NEW e \in AioEvent, aio_dispatch(e) PROVE AioInv'
<1>1. /\ aio_main = e /\ aio_queue' = Append(aio_queue, e) /\ notify_one
      /\ aio_task_num' = aio_task_num + 1 /\ aio_dispatched' = aio_dispatched \cup {e}
      /\ aio_main' = AioLoop /\ aio_measured' = FALSE
      /\ aio_running' = aio_running /\ n_waiting' = n_waiting /\ n_closing' = n_closing
      /\ aio_threads' = aio_threads /\ aio_event' = aio_event /\ aio_pipe' = aio_pipe
      /\ aio_called' = aio_called /\ aio_canceled' = aio_canceled /\ aio_stolen' = aio_stolen
  BY Zenon DEF aio_dispatch
<1>2. /\ aio_pc' \in [Thread -> Labels]
      /\ \A u \in Thread : aio_pc'[u] = aio_pc[u] \/ (aio_pc[u] = "wait" /\ aio_pc'[u] = "notified")
      /\ aio_running => \E u \in Thread : aio_pc'[u] \in Awake
  BY <1>1, Notified, Zenon
<1>3. /\ aio_dispatched = aio_called \cup aio_canceled \cup Outstanding
      /\ aio_task_num = Cardinality(Outstanding) /\ IsFiniteSet(Outstanding) /\ OnePlace
      /\ e \notin aio_dispatched
  BY <1>1, AioFacts, Zenon DEF EventInv, TaskNumExact, NewEvent
<1>4. /\ e \notin Outstanding /\ e \notin Thread
  BY <1>3, AioConstants, Zenon
<1>5. /\ e \notin Listed(aio_queue) /\ e \notin Listed(aio_pipe)
      /\ \A u \in ThreadsAt("handle") : aio_event[u] # e
  BY <1>4, Zenon DEF Outstanding
<1>6. /\ aio_queue' \in Seq(AioEvent) /\ aio_queue' # <<>>
      /\ Listed(aio_queue') = Listed(aio_queue) \cup {e} /\ Distinct(aio_queue')
  <2>1. aio_queue \in Seq(AioEvent) /\ Distinct(aio_queue)
    BY <1>3, AioFacts, Zenon DEF OnePlace
  <2>2. /\ Append(aio_queue, e) \in Seq(AioEvent) /\ Append(aio_queue, e) # <<>>
        /\ Listed(Append(aio_queue, e)) = Listed(aio_queue) \cup {e} /\ Distinct(Append(aio_queue, e))
    BY <1>5, <2>1, ListAppend
  <2> QED
    BY <1>1, <2>2, Zenon
<1>7. Sleepers' = Sleepers /\ Leavers' = Leavers /\ ThreadsAt("handle")' = ThreadsAt("handle")
  BY <1>2, Zenon DEF Sleepers, Leavers, Counted, ThreadsAt
<1>8. ThreadInv'
  <2>1. aio_main' \in AioEvent \cup {AioLoop, "read"} /\ aio_measured' \in BOOLEAN
    BY <1>1, Zenon
  <2>2. AioTypes'
    BY <1>1, <1>2, <1>6, <2>1, AioFacts, Zenon DEF AioTypes
  <2>3. Living' /\ Asking'
    BY <1>1, <1>2, AioFacts, Zenon DEF ThreadInv, Living, Asking
  <2>4. CoreStays'
    BY <1>1, <1>2, AioFacts, AioConstants, Zenon DEF ThreadInv, CoreStays
  <2>5. RoomForOne' /\ ThreadsBounded' /\ OneLeaves'
    BY <1>1, AioFacts, Zenon DEF ThreadInv, RoomForOne, ThreadsBounded, OneLeaves
  <2>6. NoLostEvent'
    BY <1>1, <1>2, Zenon DEF NoLostEvent, Awake
  <2> QED
    BY <1>1, <1>7, <2>2, <2>3, <2>4, <2>5, <2>6, AioFacts, Zenon DEF ThreadInv
<1>9. OnePlace'
  <2>1. \A f \in AioEvent : ~ (f \in Listed(aio_queue') /\ f \in Listed(aio_pipe'))
    BY <1>1, <1>3, <1>5, <1>6, Zenon DEF OnePlace
  <2>2. \A u \in ThreadsAt("handle") : aio_event[u] \notin Listed(aio_queue')
    BY <1>3, <1>5, <1>6, Zenon DEF OnePlace
  <2> QED
    BY <1>1, <1>3, <1>6, <1>7, <2>1, <2>2 DEF OnePlace
<1>10. Outstanding' = Outstanding \cup {e}
  BY <1>1, <1>6, <1>7, Zenon DEF Outstanding
<1>11. /\ IsFiniteSet(Outstanding') /\ Cardinality(Outstanding') = Cardinality(Outstanding) + 1
  BY <1>3, <1>4, <1>10, FS_AddElement, Zenon
<1>12. NewEvent' /\ TaskNumExact'
  <2>1. aio_dispatched' = aio_called' \cup aio_canceled' \cup Outstanding'
    BY <1>1, <1>3, <1>10, Zenon
  <2>2. aio_task_num' = Cardinality(Outstanding')
    BY <1>1, <1>3, <1>11, Zenon
  <2>3. NewEvent'
    BY <1>1, AioConstants, Zenon DEF NewEvent
  <2> QED
    BY <2>1, <2>2, <2>3, Zenon DEF TaskNumExact
<1> QED
  BY <1>8, <1>9, <1>11, <1>12, Zenon DEF AioInv, EventInv

\* The first of the pipe.
LEMMA PipeHead ==
  ASSUME AioInv, aio_pipe # <<>>, aio_pipe' = Tail(aio_pipe)
  PROVE  /\ Head(aio_pipe) \in AioEvent \cup Thread /\ aio_pipe' \in Seq(AioEvent \cup Thread)
         /\ Listed(aio_pipe) = Listed(aio_pipe') \cup {Head(aio_pipe)}
         /\ Head(aio_pipe) \notin Listed(aio_pipe') /\ Distinct(aio_pipe')
<1>1. aio_pipe \in Seq(AioEvent \cup Thread) /\ Distinct(aio_pipe)
  BY AioFacts, Zenon DEF EventInv, OnePlace
<1>2. /\ Head(aio_pipe) \in AioEvent \cup Thread /\ Tail(aio_pipe) \in Seq(AioEvent \cup Thread)
      /\ Listed(aio_pipe) = Listed(Tail(aio_pipe)) \cup {Head(aio_pipe)}
      /\ Head(aio_pipe) \notin Listed(Tail(aio_pipe)) /\ Distinct(Tail(aio_pipe))
  BY <1>1, ListTail, Zenon
<1> QED
  BY <1>2, Zenon
\* swAio_callback() calls an event back, or finds it canceled.
LEMMA CallbackStep ==
  ASSUME AioInv, swAio_callback, Head(aio_pipe) \notin Thread PROVE AioInv'
<1> DEFINE e == Head(aio_pipe)
<1>1. /\ aio_pipe # <<>> /\ aio_pipe' = Tail(aio_pipe)
      /\ aio_called' = IF e \in aio_canceled THEN aio_called ELSE aio_called \cup {e}
      /\ aio_task_num' = aio_task_num - 1 /\ aio_threads' = aio_threads /\ aio_pc' = aio_pc
      /\ aio_main' = AioLoop /\ aio_measured' = FALSE
      /\ aio_running' = aio_running /\ aio_queue' = aio_queue /\ n_waiting' = n_waiting
      /\ n_closing' = n_closing /\ aio_event' = aio_event /\ aio_dispatched' = aio_dispatched
      /\ aio_canceled' = aio_canceled /\ aio_stolen' = aio_stolen
  BY Zenon DEF swAio_callback, aio_callback
<1>2. /\ e \in AioEvent /\ aio_pipe' \in Seq(AioEvent \cup Thread) /\ Distinct(aio_pipe')
      /\ Listed(aio_pipe) = Listed(aio_pipe') \cup {e} /\ e \notin Listed(aio_pipe')
  BY <1>1, PipeHead, Zenon
<1>3. e \notin Thread
  BY Zenon
<1> HIDE DEF e
<1>4. /\ aio_dispatched = aio_called \cup aio_canceled \cup Outstanding
      /\ aio_task_num = Cardinality(Outstanding) /\ IsFiniteSet(Outstanding) /\ OnePlace
  BY AioFacts, Zenon DEF EventInv, TaskNumExact
<1>5. /\ Sleepers' = Sleepers /\ Leavers' = Leavers /\ ThreadsAt("handle")' = ThreadsAt("handle")
  BY <1>1, Zenon DEF Sleepers, Leavers, Counted, ThreadsAt
<1>6. ThreadInv'
  <2>1. aio_main' \in AioEvent \cup {AioLoop, "read"} /\ aio_measured' \in BOOLEAN
    BY <1>1, Zenon
  <2>2. AioTypes'
    BY <1>1, <1>2, <2>1, AioFacts, Zenon DEF AioTypes
  <2>3. Living' /\ CoreStays'
    BY <1>1, AioFacts, Zenon DEF ThreadInv, Living, CoreStays
  <2>4. Asking'
    BY <1>1, <1>2, AioFacts, Zenon DEF ThreadInv, Asking
  <2>5. RoomForOne' /\ ThreadsBounded' /\ OneLeaves'
    BY <1>1, AioFacts, Zenon DEF ThreadInv, RoomForOne, ThreadsBounded, OneLeaves
  <2>6. NoLostEvent'
    BY <1>1, AioFacts, Zenon DEF ThreadInv, NoLostEvent
  <2> QED
    BY <1>1, <1>5, <2>2, <2>3, <2>4, <2>5, <2>6, AioFacts, Zenon DEF ThreadInv
<1>7. /\ e \notin Listed(aio_queue) /\ \A u \in ThreadsAt("handle") : aio_event[u] # e
  BY <1>2, <1>4, Zenon DEF OnePlace
<1>8. OnePlace'
  <2>1. \A f \in AioEvent : ~ (f \in Listed(aio_queue') /\ f \in Listed(aio_pipe'))
    BY <1>1, <1>2, <1>4, Zenon DEF OnePlace
  <2>2. \A u \in ThreadsAt("handle") : aio_event[u] \notin Listed(aio_pipe')
    BY <1>2, <1>4, Zenon DEF OnePlace
  <2> QED
    BY <1>1, <1>2, <1>4, <1>5, <2>1, <2>2 DEF OnePlace
<1>9. e \in Outstanding /\ Outstanding' = Outstanding \ {e}
  BY <1>1, <1>2, <1>3, <1>5, <1>7 DEF Outstanding
<1>10. /\ IsFiniteSet(Outstanding') /\ Cardinality(Outstanding') = Cardinality(Outstanding) - 1
  BY <1>4, <1>9, FS_RemoveElement, Zenon
<1>11. NewEvent' /\ TaskNumExact'
  <2>1. aio_dispatched' = aio_called' \cup aio_canceled' \cup Outstanding'
    BY <1>1, <1>4, <1>9, Zenon
  <2>2. aio_task_num' = Cardinality(Outstanding')
    BY <1>1, <1>4, <1>10, Zenon
  <2>3. NewEvent'
    BY <1>1, AioConstants, Zenon DEF NewEvent
  <2> QED
    BY <2>1, <2>2, <2>3, Zenon DEF TaskNumExact
<1> QED
  BY <1>6, <1>8, <1>10, <1>11, Zenon DEF AioInv, EventInv

\* swAio_callback() joins a thread that has asked for it.
LEMMA ReleaseStep ==
  ASSUME AioInv, swAio_callback, Head(aio_pipe) \in Thread PROVE AioInv'
<1> DEFINE t == Head(aio_pipe)
<1>1. /\ aio_pipe # <<>> /\ aio_pipe' = Tail(aio_pipe) /\ aio_pc[t] = "gone"
      /\ aio_threads' = aio_threads \ {t} /\ aio_pc' = [aio_pc EXCEPT ![t] = "none"]
      /\ aio_task_num' = aio_task_num /\ aio_called' = aio_called
      /\ aio_main' = AioLoop /\ aio_measured' = FALSE
      /\ aio_running' = aio_running /\ aio_queue' = aio_queue /\ n_waiting' = n_waiting
      /\ n_closing' = n_closing /\ aio_event' = aio_event /\ aio_dispatched' = aio_dispatched
      /\ aio_canceled' = aio_canceled /\ aio_stolen' = aio_stolen
  BY Zenon DEF swAio_callback, aio_thread_release
<1>2. /\ t \in Thread /\ aio_pipe' \in Seq(AioEvent \cup Thread) /\ Distinct(aio_pipe')
      /\ Listed(aio_pipe) = Listed(aio_pipe') \cup {t} /\ t \notin Listed(aio_pipe')
  BY <1>1, PipeHead, Zenon
<1> HIDE DEF t
<1>3. t \in Extra /\ t \in aio_threads /\ t \notin Core
  <2>1. t \in Listed(aio_pipe)
    BY <1>2, Zenon
  <2>2. t \in Extra
    BY <1>2, <2>1, AioFacts, Zenon DEF ThreadInv, Asking
  <2>3. t \in aio_threads
    BY <1>1, <1>2, AioFacts, Zenon DEF ThreadInv, Living
  <2> QED
    BY <2>2, <2>3, AioConstants, Zenon
<1>4. "none" \in Labels
  BY Zenon DEF Labels
<1>5. /\ aio_pc' \in [Thread -> Labels] /\ aio_pc'[t] = "none"
      /\ \A u \in Thread : u # t => aio_pc'[u] = aio_pc[u]
  BY <1>1, <1>2, <1>4, AioFacts, Turned, Zenon
<1>6. Cardinality(Sleepers') = n_waiting /\ Cardinality(Leavers') = n_closing
  BY <1>1, <1>2, <1>4, AioFacts, Counts, Zenon
<1>7. NoLostEvent'
  <2>1. aio_pc[t] \notin Awake
    BY <1>1, Zenon DEF Awake
  <2> QED
    BY <1>1, <1>2, <1>4, <2>1, AioFacts, StaysAwake, Zenon
<1>8. ThreadsBounded'
  <2>1. Cardinality(aio_threads') = Cardinality(aio_threads) - 1
    BY <1>1, <1>3, AioFacts, FS_RemoveElement, Zenon
  <2>2. Cardinality(aio_threads) \in Nat /\ Cardinality(aio_threads) <= worker_num
        /\ worker_num \in Nat
    BY AioFacts, AioConstants, Zenon DEF ThreadInv, ThreadsBounded
  <2> QED
    BY <2>1, <2>2 DEF ThreadsBounded
<1>9. ThreadInv'
  <2>1. aio_main' \in AioEvent \cup {AioLoop, "read"} /\ aio_measured' \in BOOLEAN
    BY <1>1, Zenon
  <2>2. aio_threads' \subseteq Thread /\ Core \subseteq aio_threads'
    BY <1>1, <1>3, AioFacts, Zenon
  <2>3. AioTypes'
    BY <1>1, <1>2, <1>5, <2>1, <2>2, AioFacts, Zenon DEF AioTypes
  <2>4. Living'
    BY <1>1, <1>2, <1>5, AioFacts, Zenon DEF ThreadInv, Living
  <2>5. CoreStays'
    BY <1>1, <1>3, <1>5, AioFacts, AioConstants, Zenon DEF ThreadInv, CoreStays
  <2>6. Asking'
    BY <1>2, <1>5, AioFacts, Zenon DEF ThreadInv, Asking
  <2>7. RoomForOne' /\ OneLeaves'
    BY <1>1, AioFacts, Zenon DEF ThreadInv, RoomForOne, OneLeaves
  <2> QED
    BY <1>1, <1>6, <1>7, <1>8, <2>3, <2>4, <2>5, <2>6, <2>7, Zenon DEF ThreadInv
<1>10. ThreadsAt("handle")' = ThreadsAt("handle")
  BY <1>1, <1>5, Zenon DEF ThreadsAt
<1>11. Outstanding' = Outstanding
  <2>1. Listed(aio_pipe') \ Thread = Listed(aio_pipe) \ Thread
    BY <1>2, Zenon
  <2> QED
    BY <1>1, <1>10, <2>1, Zenon DEF Outstanding
<1>12. OnePlace'
  <2>1. OnePlace
    BY AioFacts, Zenon DEF EventInv
  <2>2. \A f : f \in Listed(aio_pipe') => f \in Listed(aio_pipe)
    BY <1>2, Zenon
  <2> QED
    BY <1>1, <1>2, <1>10, <2>1, <2>2 DEF OnePlace
<1>13. NewEvent' /\ TaskNumExact' /\ IsFiniteSet(Outstanding')
  <2>1. TaskNumExact' /\ IsFiniteSet(Outstanding')
    BY <1>1, <1>11, AioFacts, Zenon DEF EventInv, TaskNumExact
  <2> QED
    BY <1>1, <2>1, AioConstants, Zenon DEF NewEvent
<1> QED
  BY <1>9, <1>12, <1>13, Zenon DEF AioInv, EventInv

\* start() creates the core workers.
LEMMA AioInitially == AioInit => AioInv
<1> SUFFICES ASSUME AioInit PROVE AioInv
  BY Zenon
<1>1. /\ aio_running = TRUE /\ aio_queue = <<>> /\ n_waiting = 0 /\ n_closing = 0
      /\ aio_threads = Core /\ aio_pipe = <<>> /\ aio_task_num = 0
      /\ aio_pc = [t \in Thread |-> IF t \in Core THEN "top" ELSE "none"]
      /\ aio_event = [t \in Thread |-> AioLoop]
      /\ aio_main = AioLoop /\ aio_measured = FALSE
      /\ aio_dispatched = {} /\ aio_called = {} /\ aio_canceled = {} /\ aio_stolen = FALSE
  BY Zenon DEF AioInit
<1>2. /\ \A t \in Thread : aio_pc[t] = IF t \in Core THEN "top" ELSE "none"
      /\ aio_pc \in [Thread -> Labels]
  <2>1. "top" \in Labels /\ "none" \in Labels
    BY Zenon DEF Labels
  <2> QED
    BY <1>1, <2>1, Zenon
<1>3. /\ Sleepers = {} /\ Leavers = {} /\ ThreadsAt("handle") = {}
  BY <1>2, Zenon DEF Sleepers, Leavers, Counted, ThreadsAt
<1>4. Listed(aio_queue) = {} /\ Listed(aio_pipe) = {}
  BY <1>1 DEF Listed
<1>5. AioTypes
  <2>1. aio_event \in [Thread -> AioEvent \cup {AioLoop}]
    BY <1>1, Zenon
  <2>2. aio_queue \in Seq(AioEvent) /\ aio_pipe \in Seq(AioEvent \cup Thread)
    BY <1>1
  <2> QED
    BY <1>1, <1>2, <2>1, <2>2, AioConstants, Zenon DEF AioTypes
<1>6. Living /\ CoreStays /\ Asking
  BY <1>1, <1>2, <1>4, AioConstants, Zenon DEF Living, CoreStays, Asking
<1>7. RoomForOne /\ ThreadsBounded /\ NoLostEvent /\ OneLeaves
  <2>1. n_closing <= 1
    BY <1>1
  <2> QED
    BY <1>1, <2>1, AioConstants, Zenon DEF RoomForOne, ThreadsBounded, NoLostEvent, OneLeaves
<1>8. ThreadInv
  BY <1>1, <1>3, <1>5, <1>6, <1>7, FS_EmptySet, Zenon DEF ThreadInv
<1>9. Outstanding = {}
  BY <1>3, <1>4, Zenon DEF Outstanding
<1>10. OnePlace
  BY <1>1, <1>3, <1>4 DEF OnePlace, Distinct
<1>11. NewEvent /\ TaskNumExact /\ IsFiniteSet(Outstanding)
  BY <1>1, <1>9, FS_EmptySet, Zenon DEF NewEvent, TaskNumExact
<1> QED
  BY <1>8, <1>10, <1>11, Zenon DEF AioInv, EventInv

\* Every step of the event loop and of a thread keeps the invariant.
LEMMA AioStep == AioInv /\ [AioNext]_aioVars => AioInv'
<1> SUFFICES ASSUME AioInv, [AioNext]_aioVars PROVE AioInv'
  BY Zenon
<1>1. CASE \E e \in AioEvent \ (aio_dispatched \cup {aio_main}) : aio_schedule(e)
  BY <1>1, ScheduleStep, Zenon
<1>2. CASE aio_schedule("read")
  BY <1>2, ScheduleStep, Zenon
<1>3. CASE \E t \in Extra : create_thread(t)
  BY <1>3, CreateStep, Zenon
<1>4. CASE \E e \in AioEvent : aio_dispatch(e) \/ aio_cancel(e)
  BY <1>4, DispatchStep, CancelStep, Zenon
<1>5. CASE swAio_callback \/ aio_shutdown
  BY <1>5, CallbackStep, ReleaseStep, ShutdownStep, Zenon
<1>6. ASSUME NEW t \in Thread, ThreadWorks(t) \/ wakeUp(t) \/ aio_timeout(t) PROVE AioInv'
  <2>1. CASE aio_top(t) \/ aio_handle(t) \/ aio_wait(t) \/ aio_send(t) \/ aio_closing(t)
    BY <2>1, TopStep, HandleStep, WaitStep, SendStep, ClosingStep, Zenon
  <2>2. CASE aio_pop(t)
    BY <2>2, EmptyStep, TakeStep, Zenon
  <2>3. CASE wakeUp(t) \/ aio_timeout(t)
    BY <2>3, WakeStep, TimeoutStep, Zenon
  <2> QED
    BY <1>6, <2>1, <2>2, <2>3, Zenon DEF ThreadWorks
<1>7. CASE UNCHANGED aioVars
  <2>1. /\ UNCHANGED <<aioPool, aio_pipe, aio_task_num, aio_dispatched, aio_stolen>>
        /\ aio_main' = aio_main /\ aio_measured' = aio_measured /\ aio_called' = aio_called
        /\ aio_canceled' = aio_canceled /\ aio_threads' = aio_threads
        /\ aio_dispatched' = aio_dispatched
    BY <1>7, Zenon DEF aioVars, aioPool, aioLoop
  <2>2. aio_dispatched = aio_called' \cup aio_canceled' \cup Outstanding /\ RoomForOne' /\ NewEvent'
    BY <2>1, AioFacts, Zenon DEF EventInv, TaskNumExact, ThreadInv, RoomForOne, NewEvent
  <2> QED
    BY <2>1, <2>2, AioFacts, LoopStep, Zenon
<1> QED
  BY <1>1, <1>2, <1>3, <1>4, <1>5, <1>6, <1>7, Zenon DEF AioNext

\* What the pool promises follows from the invariant.
LEMMA AioPromises == AioInv => ThreadsKept
<1> SUFFICES ASSUME AioInv PROVE ThreadsKept
  BY Zenon
<1>1. /\ ThreadsAt("wait") \cup ThreadsAt("notified") = Sleepers
      /\ ThreadsAt("send") \cup ThreadsAt("closing") = Leavers
  BY Zenon DEF Sleepers, Leavers, Counted, ThreadsAt
<1>2. AioTypeOK
  BY <1>1, AioFacts, Zenon DEF AioTypeOK, Labels
<1>3. ReleaseFinds
  <2>1. ASSUME NEW i \in 1 .. Len(aio_pipe), NEW j \in 1 .. Len(aio_pipe), aio_pipe[i] \in Thread
        PROVE  /\ aio_pipe[i] \in aio_threads /\ aio_pc[aio_pipe[i]] \in {"closing", "gone"}
               /\ aio_pipe[i] = aio_pipe[j] => i = j
    <3>1. aio_pipe[i] \in Listed(aio_pipe)
      BY Zenon DEF Listed
    <3>2. aio_pc[aio_pipe[i]] \in {"closing", "gone"}
      BY <2>1, <3>1, AioFacts, Zenon DEF ThreadInv, Asking
    <3>3. aio_pipe[i] \in aio_threads
      <4>1. aio_pc[aio_pipe[i]] # "none"
        BY <3>2, Zenon
      <4> QED
        BY <2>1, <4>1, AioFacts, Zenon DEF ThreadInv, Living
    <3>4. aio_pipe[i] = aio_pipe[j] => i = j
      BY AioFacts, Zenon DEF EventInv, OnePlace, Distinct
    <3> QED
      BY <3>2, <3>3, <3>4, Zenon
  <2> QED
    BY <2>1, Zenon DEF ReleaseFinds
<1> QED
  BY <1>2, <1>3, AioFacts, Zenon DEF ThreadsKept, ThreadInv, EventInv

\* For any number of threads and events: the pool behind blocking calls has at most worker_num
\* threads, of which one at a time leaves and is found when it is joined; aio_task_num counts what
\* is not yet called back, so the loop does not end before; and while an event is in the queue a
\* thread is sure to look there, unless one took a notification for a timeout
\* (os/async_thread.cc).
THEOREM ThreadsAreKept == AioSpec => []ThreadsKept
  BY AioInitially, AioStep, AioPromises, PTL DEF AioSpec
=============================================================================
