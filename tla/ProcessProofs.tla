--------------------------- MODULE ProcessProofs ----------------------------
(***************************************************************************)
(* Proofs about how the daemon's processes work together: FileLock for any *)
(* number of processes, files and handles, Dispatch for any number of      *)
(* updates and workers, and Relay for every body length, read size and     *)
(* header width.                                                           *)
(***************************************************************************)
EXTENDS FileLock, Dispatch, Relay, TLAPS

USE HandleAssumption

IInv == TypeOK /\ LockAgrees

\* The indexes and elements of a manager's queue.
LEMMA NoIndex == \A n : n \notin 1..Len(<<>>)
  OBVIOUS

\* The elements of a sequence are of its set.
LEMMA Element == \A S : \A q \in Seq(S) : \A n \in 1..Len(q) : q[n] \in S
  OBVIOUS

\* What popping the oldest coroutine leaves in a manager's queue.
LEMMA TailFacts ==
  ASSUME NEW S, NEW q \in Seq(S), q # <<>>
  PROVE  /\ Head(q) \in S
         /\ Head(q) = q[1]
         /\ 1 \in 1..Len(q)
         /\ Tail(q) \in Seq(S)
         /\ Len(Tail(q)) = Len(q) - 1
         /\ \A n \in 1..Len(Tail(q)) : Tail(q)[n] = q[n + 1] /\ n + 1 \in 1..Len(q)
         /\ \A n \in 1..Len(q) : n # 1 => n - 1 \in 1..Len(Tail(q)) /\ Tail(q)[n - 1] = q[n]
  OBVIOUS

\* What parking one more coroutine leaves in a manager's queue.
LEMMA AppendFacts ==
  ASSUME NEW S, NEW q \in Seq(S), NEW e \in S
  PROVE  /\ Append(q, e) \in Seq(S)
         /\ Append(q, e) # <<>>
         /\ Len(Append(q, e)) = Len(q) + 1
         /\ Append(q, e)[Len(q) + 1] = e
         /\ \A n \in 1..Len(q) : Append(q, e)[n] = q[n]
         /\ \A n \in 1..Len(Append(q, e)) : n \in 1..Len(q) \/ n = Len(q) + 1
  OBVIOUS

\* A handle's key in lock_pool is a process and a file, the handle's own.
LEMMA KeyType == \A h \in Handle : key(h) \in Key /\ key(h)[1] = procOf[h] /\ key(h)[2] = fileOf[h]
  BY Zenon DEF key, Key

\* A manager of the process and file of a handle is the handle's manager.
LEMMA KeyEq ==
  \A k \in Key, h \in Handle : k[1] = procOf[h] /\ k[2] = fileOf[h] => k = key(h)
  BY DEF key, Key

\* The invariant holds when the workers have just been forked and nothing is locked.
LEMMA InitInv == Init => IInv
  BY KeyType DEF Init, IInv, TypeOK, LockAgrees, OwnerAgrees, ThreadAgrees, PoolAgrees, QueueAgrees,
     DeadAgrees, State

\* lock() keeps the invariant, whether it parks the caller or enters flock(2).
LEMMA LockInv == ASSUME IInv, NEW h \in Handle, lock(h) PROVE IInv'
<1> USE DEF IInv, LockAgrees
<1>k. key(h) \in Key /\ procOf[h] \in Proc /\ fileOf[h] \in File
  BY KeyType, Zenon
<1>h. state[h] = "open" /\ procOf[h] \in alive /\ thread[procOf[h]] = NoHandle
  BY Zenon DEF lock, CanLock, Running
<1>1. CASE LockParks(h)
  <2>1. /\ queue' = [queue EXCEPT ![key(h)] = Append(@, h)]
        /\ state' = [state EXCEPT ![h] = "queued"]
        /\ UNCHANGED <<alive, lock_pool, owner, thread>>
    BY <1>1, Zenon DEF lock
  <2>2. queue[key(h)] \in Seq(Handle)
    BY <1>k, Zenon DEF TypeOK
  <2>3. TypeOK'
    <3>1. queue' \in [Key -> Seq(Handle)]
      BY <1>k, <2>1, <2>2, AppendFacts, Zenon DEF TypeOK
    <3>2. \A k \in Key : \A n \in 1..Len(queue'[k]) :
            procOf[queue'[k][n]] = k[1] /\ fileOf[queue'[k][n]] = k[2]
      BY <1>k, <2>1, <2>2, AppendFacts, KeyType DEF TypeOK
    <3>3. QED BY <2>1, <3>1, <3>2, Zenon DEF TypeOK, State
  <2>4. OwnerAgrees' /\ ThreadAgrees' /\ PoolAgrees' /\ DeadAgrees'
    <3>1. OwnerAgrees' /\ DeadAgrees'
      BY <1>h, <2>1, Zenon DEF TypeOK, OwnerAgrees, DeadAgrees
    <3>2. ThreadAgrees'
      BY <1>h, <2>1, Zenon DEF TypeOK, ThreadAgrees
    <3>3. PoolAgrees'
      BY <1>h, <2>1, Zenon DEF TypeOK, PoolAgrees
    <3>4. QED BY <3>1, <3>2, <3>3, Zenon
  <2>5. QueueAgrees'
    <3>1. \A k \in Key : \A n \in 1..Len(queue[k]) : queue[k][n] # h
      BY <1>h DEF QueueAgrees
    <3>2. \A g \in Handle : state'[g] = "queued" =>
            \E n \in 1..Len(queue'[key(g)]) : queue'[key(g)][n] = g
      <4> SUFFICES ASSUME NEW g \in Handle, state'[g] = "queued"
                   PROVE  \E n \in 1..Len(queue'[key(g)]) : queue'[key(g)][n] = g
        BY Zenon
      <4>1. CASE g = h
        <5>1. queue'[key(h)] = Append(queue[key(h)], h)
          BY <1>k, <2>1, Zenon DEF TypeOK
        <5>2. Len(queue[key(h)]) + 1 \in 1..Len(queue'[key(h)])
          BY <2>2, <5>1, AppendFacts
        <5>3. QED BY <2>2, <4>1, <5>1, <5>2, AppendFacts
      <4>2. CASE g # h
        <5>1. PICK n \in 1..Len(queue[key(g)]) : queue[key(g)][n] = g
          BY <2>1, <4>2 DEF TypeOK, QueueAgrees
        <5>2. CASE key(g) = key(h)
          <6>1. queue'[key(g)] = Append(queue[key(g)], h)
            BY <1>k, <2>1, <5>2, Zenon DEF TypeOK
          <6>2. n \in 1..Len(Append(queue[key(h)], h)) /\ Append(queue[key(h)], h)[n] = g
            BY <2>2, <5>1, <5>2, AppendFacts
          <6>3. QED BY <5>2, <6>1, <6>2, Zenon
        <5>3. CASE key(g) # key(h)
          BY <2>1, <5>1, <5>3, KeyType, Zenon DEF TypeOK
        <5>4. QED BY <5>2, <5>3, Zenon
      <4>3. QED BY <4>1, <4>2, Zenon
    <3>3. \A k \in Key : \A n \in 1..Len(queue'[k]) : state'[queue'[k][n]] = "queued"
      BY <1>k, <2>1, <2>2, AppendFacts DEF TypeOK, QueueAgrees
    <3>4. \A k \in Key : \A n, j \in 1..Len(queue'[k]) :
            queue'[k][n] = queue'[k][j] => n = j
      BY <1>k, <2>1, <2>2, <3>1, AppendFacts DEF TypeOK, QueueAgrees
    <3>5. \A k \in Key : queue'[k] # <<>> => k \in lock_pool'
      BY <1>1, <2>1 DEF TypeOK, QueueAgrees, LockParks
    <3>6. QED BY <3>2, <3>3, <3>4, <3>5, Zenon DEF QueueAgrees
  <2>6. QED BY <2>3, <2>4, <2>5, Zenon
<1>2. CASE ~ LockParks(h)
  <2>1. /\ lock_pool' = lock_pool \cup {key(h)}
        /\ state' = [state EXCEPT ![h] = "flock"]
        /\ thread' = [thread EXCEPT ![procOf[h]] = h]
        /\ UNCHANGED <<alive, queue, owner>>
    BY <1>2, Zenon DEF lock
  <2>2. TypeOK'
    BY <1>k, <2>1, Zenon DEF TypeOK, State
  <2>3. OwnerAgrees' /\ DeadAgrees'
    BY <1>h, <2>1 DEF TypeOK, OwnerAgrees, DeadAgrees
  <2>4. ThreadAgrees'
    BY <1>h, <1>k, <2>1 DEF TypeOK, ThreadAgrees
  <2>5. PoolAgrees'
    BY <1>2, <1>h, <2>1, KeyType DEF TypeOK, PoolAgrees, LockParks
  <2>6. QueueAgrees'
    BY <1>h, <2>1, KeyType DEF TypeOK, QueueAgrees
  <2>7. QED BY <2>2, <2>3, <2>4, <2>5, <2>6, Zenon
<1>3. QED BY <1>1, <1>2, Zenon

\* The kernel's grant keeps the invariant.
LEMMA FlockReturnsInv == ASSUME IInv, NEW h \in Handle, flockReturns(h) PROVE IInv'
<1> USE DEF IInv, LockAgrees, flockReturns, KernelFree
<1>k. procOf[h] \in Proc /\ fileOf[h] \in File
  BY Zenon
<1>1. TypeOK'
  BY <1>k, Zenon DEF TypeOK, State
<1>2. OwnerAgrees'
  BY <1>k DEF TypeOK, OwnerAgrees
<1>3. ThreadAgrees'
  BY <1>k DEF TypeOK, ThreadAgrees
<1>4. PoolAgrees' /\ DeadAgrees'
  BY DEF TypeOK, PoolAgrees, DeadAgrees
<1>5. QueueAgrees'
  BY KeyType DEF TypeOK, QueueAgrees
<1>6. QED BY <1>1, <1>2, <1>3, <1>4, <1>5, Zenon

\* Giving the lock back keeps the invariant, with and without a coroutine to resume.
LEMMA ReleaseInv ==
  ASSUME IInv, NEW h \in Handle, NEW after \in {"unlocked", "closed"},
         CanRelease(h), lock_release(h, after)
  PROVE  IInv'
<1> USE DEF IInv, LockAgrees
<1>k. key(h) \in Key /\ procOf[h] \in Proc /\ fileOf[h] \in File
  BY KeyType, Zenon
<1>h. state[h] = "held" /\ procOf[h] \in alive /\ thread[procOf[h]] = NoHandle
  BY Zenon DEF CanRelease, Running
<1>o. owner' = [owner EXCEPT ![fileOf[h]] = NoHandle] /\ alive' = alive
  BY Zenon DEF lock_release
<1>1. CASE queue[key(h)] = <<>>
  <2>1. /\ lock_pool' = lock_pool \ {key(h)}
        /\ state' = [state EXCEPT ![h] = after]
        /\ UNCHANGED <<queue, thread>>
    BY <1>1, Zenon DEF lock_release, PoolAfterRelease
  <2>2. TypeOK'
    BY <1>k, <1>o, <2>1, Zenon DEF TypeOK, State
  <2>3. OwnerAgrees'
    BY <1>h, <1>k, <1>o, <2>1 DEF TypeOK, OwnerAgrees
  <2>4. ThreadAgrees' /\ DeadAgrees'
    BY <1>h, <1>o, <2>1, Zenon DEF TypeOK, ThreadAgrees, DeadAgrees
  <2>5. PoolAgrees'
    BY <1>h, <2>1, KeyType, Zenon DEF TypeOK, PoolAgrees
  <2>6. QueueAgrees'
    BY <1>1, <1>h, <2>1, KeyType DEF TypeOK, QueueAgrees
  <2>7. QED BY <2>2, <2>3, <2>4, <2>5, <2>6, Zenon
<1>2. CASE queue[key(h)] # <<>>
  <2> DEFINE q == queue[key(h)]
             co == Head(q)
  <2>1. /\ queue' = [queue EXCEPT ![key(h)] = Tail(q)]
        /\ state' = [state EXCEPT ![h] = after, ![co] = "flock"]
        /\ thread' = [thread EXCEPT ![procOf[h]] = co]
        /\ lock_pool' = lock_pool
    BY <1>2, Zenon DEF lock_release, PoolAfterRelease
  <2>2. q \in Seq(Handle) /\ q # <<>>
    BY <1>2, <1>k, Zenon DEF TypeOK
  <2>3. co \in Handle /\ co = q[1] /\ 1 \in 1..Len(q)
    BY <2>2, TailFacts, Zenon
  <2>4. procOf[co] = procOf[h] /\ fileOf[co] = fileOf[h] /\ key(co) = key(h)
    BY <1>k, <2>3, KeyType DEF TypeOK, key
  <2>5. state[co] = "queued" /\ co # h
    BY <1>h, <1>k, <2>3 DEF QueueAgrees
  <2>s. \A g \in Handle : state'[g] = IF g = co THEN "flock"
                                      ELSE IF g = h THEN after ELSE state[g]
    BY <2>1, <2>3, <2>5, Zenon DEF TypeOK
  <2>q. \A k \in Key : queue'[k] = IF k = key(h) THEN Tail(q) ELSE queue[k]
    BY <1>k, <2>1, Zenon DEF TypeOK
  <2>t. \A n \in 1..Len(Tail(q)) : Tail(q)[n] = q[n + 1] /\ n + 1 \in 1..Len(q) /\ n + 1 # 1
    BY <2>2, TailFacts
  <2>6. TypeOK'
    <3>1. queue' \in [Key -> Seq(Handle)]
      BY <1>k, <2>1, <2>2, TailFacts, Zenon DEF TypeOK
    <3>2. \A k \in Key : \A n \in 1..Len(queue'[k]) :
            procOf[queue'[k][n]] = k[1] /\ fileOf[queue'[k][n]] = k[2]
      <4> SUFFICES ASSUME NEW k \in Key, NEW n \in 1..Len(queue'[k])
                   PROVE  procOf[queue'[k][n]] = k[1] /\ fileOf[queue'[k][n]] = k[2]
        BY Zenon
      <4>1. CASE k = key(h)
        <5>1. queue'[k][n] = q[n + 1] /\ n + 1 \in 1..Len(q)
          BY <2>q, <2>t, <4>1, Zenon
        <5>2. QED BY <4>1, <5>1 DEF TypeOK
      <4>2. CASE k # key(h)
        BY <2>q, <4>2 DEF TypeOK
      <4>3. QED BY <4>1, <4>2, Zenon
    <3>3. state' \in [Handle -> State]
      BY <2>1, <2>3, Zenon DEF TypeOK, State
    <3>4. QED BY <1>k, <1>o, <2>1, <2>3, <3>1, <3>2, <3>3, Zenon DEF TypeOK
  <2>7. OwnerAgrees'
    <3>1. \A x \in File : owner'[x] = IF x = fileOf[h] THEN NoHandle ELSE owner[x]
      BY <1>o, Zenon DEF TypeOK
    <3>2. owner[fileOf[h]] = h
      BY <1>h, Zenon DEF OwnerAgrees
    <3>3. \A g \in Handle : state'[g] = "held" <=> state[g] = "held" /\ g # h
      BY <2>5, <2>s, Zenon
    <3>4. \A g \in Handle : state'[g] = "held" <=> owner'[fileOf[g]] = g
      BY <3>1, <3>2, <3>3 DEF OwnerAgrees
    <3>5. \A x \in File : owner'[x] # NoHandle => fileOf[owner'[x]] = x
      BY <3>1, Zenon DEF OwnerAgrees
    <3>6. QED BY <3>4, <3>5, Zenon DEF OwnerAgrees
  <2>8. ThreadAgrees'
    BY <1>h, <1>k, <2>1, <2>3, <2>4, <2>5, <2>s DEF TypeOK, ThreadAgrees
  <2>9. PoolAgrees'
    <3>1. \A g \in Handle : state'[g] \in {"flock", "held"} =>
            g = co \/ (state[g] \in {"flock", "held"} /\ key(g) # key(h))
      BY <1>h, <2>s, Zenon DEF PoolAgrees
    <3>2. \A g \in Handle : state[g] \in {"flock", "held"} /\ key(g) # key(h) =>
            state'[g] \in {"flock", "held"}
      BY <2>4, <2>s, Zenon
    <3>3. state'[co] = "flock" /\ key(h) \in lock_pool
      BY <1>h, <2>3, <2>s, Zenon DEF PoolAgrees
    <3>4. \A g \in Handle : state'[g] \in {"flock", "held"} => key(g) \in lock_pool'
      BY <2>1, <2>4, <3>1, <3>3, Zenon DEF PoolAgrees
    <3>5. \A k \in lock_pool' : \E g \in Handle :
            key(g) = k /\ state'[g] \in {"flock", "held"}
      <4> SUFFICES ASSUME NEW k \in lock_pool
                   PROVE  \E g \in Handle : key(g) = k /\ state'[g] \in {"flock", "held"}
        BY <2>1, Zenon
      <4>1. CASE k = key(h)
        BY <2>3, <2>4, <3>3, <4>1, Zenon
      <4>2. CASE k # key(h)
        BY <3>2, <4>2, Zenon DEF PoolAgrees
      <4>3. QED BY <4>1, <4>2, Zenon
    <3>6. \A x, y \in Handle :
            /\ state'[x] \in {"flock", "held"}
            /\ state'[y] \in {"flock", "held"}
            /\ key(x) = key(y)
            => x = y
      BY <2>4, <3>1, Zenon DEF PoolAgrees
    <3>7. QED BY <3>4, <3>5, <3>6, Zenon DEF PoolAgrees
  <2>10. DeadAgrees'
    BY <1>h, <1>o, <2>4, <2>s, Zenon DEF DeadAgrees
  <2>11. QueueAgrees'
    <3>1. \A g \in Handle : state'[g] = "queued" =>
            \E n \in 1..Len(queue'[key(g)]) : queue'[key(g)][n] = g
      <4> SUFFICES ASSUME NEW g \in Handle, state'[g] = "queued"
                   PROVE  \E n \in 1..Len(queue'[key(g)]) : queue'[key(g)][n] = g
        BY Zenon
      <4>1. g # co /\ g # h /\ state[g] = "queued"
        BY <2>s, Zenon
      <4>2. PICK n \in 1..Len(queue[key(g)]) : queue[key(g)][n] = g
        BY <4>1, Zenon DEF QueueAgrees
      <4>3. CASE key(g) = key(h)
        <5>1. n # 1
          BY <2>3, <4>1, <4>2, <4>3, Zenon
        <5>2. n - 1 \in 1..Len(Tail(q)) /\ Tail(q)[n - 1] = g
          BY <2>2, <4>2, <4>3, <5>1, TailFacts
        <5>3. queue'[key(g)] = Tail(q)
          BY <1>k, <2>q, <4>3, Zenon
        <5>4. QED BY <5>2, <5>3, Zenon
      <4>4. CASE key(g) # key(h)
        BY <2>q, <4>2, <4>4, KeyType, Zenon
      <4>5. QED BY <4>3, <4>4, Zenon
    <3>2. \A k \in Key : \A n \in 1..Len(queue'[k]) : state'[queue'[k][n]] = "queued"
      <4> SUFFICES ASSUME NEW k \in Key, NEW n \in 1..Len(queue'[k])
                   PROVE  state'[queue'[k][n]] = "queued"
        BY Zenon
      <4>1. CASE k = key(h)
        <5>1. queue'[k][n] = q[n + 1] /\ n + 1 \in 1..Len(q) /\ n + 1 # 1
          BY <2>q, <2>t, <4>1, Zenon
        <5>2. q[n + 1] \in Handle /\ state[q[n + 1]] = "queued"
          BY <1>k, <2>2, <5>1 DEF QueueAgrees
        <5>3. q[n + 1] # co
          BY <1>k, <2>3, <5>1 DEF QueueAgrees
        <5>4. QED BY <1>h, <2>s, <5>1, <5>2, <5>3, Zenon
      <4>2. CASE k # key(h)
        <5>1. queue'[k][n] = queue[k][n] /\ n \in 1..Len(queue[k])
          BY <2>q, <4>2, Zenon
        <5>2. queue[k][n] \in Handle /\ state[queue[k][n]] = "queued"
          BY <5>1 DEF QueueAgrees, TypeOK
        <5>3. queue[k][n] # co
          <6>1. procOf[queue[k][n]] = k[1] /\ fileOf[queue[k][n]] = k[2]
            BY <5>1, Zenon DEF TypeOK
          <6>2. queue[k][n] = co => k = key(h)
            BY <2>4, <6>1, KeyEq
          <6>3. QED BY <4>2, <6>2, Zenon
        <5>4. QED BY <1>h, <2>s, <5>1, <5>2, <5>3, Zenon
      <4>3. QED BY <4>1, <4>2, Zenon
    <3>3. \A k \in Key : \A n, j \in 1..Len(queue'[k]) :
            queue'[k][n] = queue'[k][j] => n = j
      <4> SUFFICES ASSUME NEW k \in Key, NEW n \in 1..Len(queue'[k]),
                          NEW j \in 1..Len(queue'[k]), queue'[k][n] = queue'[k][j]
                   PROVE  n = j
        BY Zenon
      <4>1. CASE k = key(h)
        <5>1. /\ q[n + 1] = q[j + 1]
              /\ n + 1 \in 1..Len(q)
              /\ j + 1 \in 1..Len(q)
          BY <2>q, <2>t, <4>1, Zenon
        <5>2. n + 1 = j + 1
          BY <1>k, <5>1, Zenon DEF QueueAgrees
        <5>3. QED BY <5>2
      <4>2. CASE k # key(h)
        BY <2>q, <4>2 DEF QueueAgrees
      <4>3. QED BY <4>1, <4>2, Zenon
    <3>4. \A k \in Key : queue'[k] # <<>> => k \in lock_pool'
      BY <1>2, <1>k, <2>1, <2>q, Zenon DEF QueueAgrees
    <3>5. QED BY <3>1, <3>2, <3>3, <3>4, Zenon DEF QueueAgrees
  <2>12. QED BY <2>6, <2>7, <2>8, <2>9, <2>10, <2>11, Zenon
<1>3. QED BY <1>1, <1>2, Zenon

\* Closing a handle that was unlocked before keeps the invariant.
LEMMA CloseUnlockedInv == ASSUME IInv, NEW h \in Handle, closeUnlocked(h) PROVE IInv'
<1> USE DEF IInv, LockAgrees, closeUnlocked, Running
<1>1. TypeOK'
  BY Zenon DEF TypeOK, State
<1>2. OwnerAgrees' /\ DeadAgrees'
  BY DEF TypeOK, OwnerAgrees, DeadAgrees
<1>3. ThreadAgrees'
  BY Zenon DEF TypeOK, ThreadAgrees
<1>4. PoolAgrees'
  BY Zenon DEF TypeOK, PoolAgrees
<1>5. QueueAgrees'
  BY KeyType DEF TypeOK, QueueAgrees
<1>6. QED BY <1>1, <1>2, <1>3, <1>4, <1>5, Zenon

\* The death of a process keeps the invariant: nothing of it is left behind.
LEMMA DieInv == ASSUME IInv, NEW p \in Proc, die(p) PROVE IInv'
<1> USE DEF IInv, LockAgrees
<1>s. \A h \in Handle : state'[h] = IF procOf[h] = p THEN "dead" ELSE state[h]
  BY Zenon DEF die
<1>q. \A k \in Key : queue'[k] = IF k[1] = p THEN <<>> ELSE queue[k]
  BY Zenon DEF die
<1>o. \A x \in File : owner'[x] = IF owner[x] \in Handle /\ procOf[owner[x]] = p
                                  THEN NoHandle ELSE owner[x]
  BY Zenon DEF die, OwnerAfterExit, HandlesOf
<1>1. TypeOK'
  <2>1. queue' \in [Key -> Seq(Handle)]
    BY DEF die, TypeOK
  <2>2. \A k \in Key : \A n \in 1..Len(queue'[k]) :
          procOf[queue'[k][n]] = k[1] /\ fileOf[queue'[k][n]] = k[2]
    <3> SUFFICES ASSUME NEW k \in Key, NEW n \in 1..Len(queue'[k])
                 PROVE  procOf[queue'[k][n]] = k[1] /\ fileOf[queue'[k][n]] = k[2]
      BY Zenon
    <3>1. queue'[k] = queue[k]
      <4>1. queue'[k] # <<>>
        BY NoIndex, Zenon
      <4>2. QED BY <1>q, <4>1, Zenon
    <3>2. n \in 1..Len(queue[k])
      BY <3>1, Zenon
    <3>3. procOf[queue[k][n]] = k[1] /\ fileOf[queue[k][n]] = k[2]
      BY <3>2, Zenon DEF TypeOK
    <3>4. QED BY <3>1, <3>3, Zenon
  <2>3. owner' \in [File -> Handle \cup {NoHandle}]
    BY Zenon DEF die, OwnerAfterExit, TypeOK
  <2>4. state' \in [Handle -> State]
    BY Zenon DEF die, TypeOK, State
  <2>5. QED BY <2>1, <2>2, <2>3, <2>4, Zenon DEF die, TypeOK
<1>2. OwnerAgrees'
  BY <1>o, <1>s DEF TypeOK, OwnerAgrees
<1>3. ThreadAgrees'
  BY <1>s DEF die, TypeOK, ThreadAgrees
<1>4. PoolAgrees'
  <2>1. lock_pool' = {k \in lock_pool : k[1] # p}
    BY Zenon DEF die
  <2>2. \A h \in Handle : state'[h] \in {"flock", "held"} =>
          state[h] \in {"flock", "held"} /\ key(h)[1] # p
    BY <1>s, KeyType
  <2>3. \A h \in Handle : key(h)[1] # p => state'[h] = state[h]
    BY <1>s, KeyType, Zenon
  <2>4. QED BY <2>1, <2>2, <2>3 DEF PoolAgrees
<1>5. QueueAgrees'
  <2>1. \A h \in Handle : state'[h] = "queued" =>
          \E n \in 1..Len(queue'[key(h)]) : queue'[key(h)][n] = h
    BY <1>q, <1>s, KeyType DEF QueueAgrees
  <2>2. \A k \in Key : \A n \in 1..Len(queue'[k]) : state'[queue'[k][n]] = "queued"
    <3> SUFFICES ASSUME NEW k \in Key, NEW n \in 1..Len(queue'[k])
                 PROVE  state'[queue'[k][n]] = "queued"
      BY Zenon
    <3>1. CASE k[1] = p
      BY <1>q, <3>1
    <3>2. CASE k[1] # p
      <4>1. queue'[k] = queue[k]
        BY <1>q, <3>2, Zenon
      <4>2. queue[k][n] \in Handle /\ procOf[queue[k][n]] # p
        <5>1. n \in 1..Len(queue[k])
          BY <4>1, Zenon
        <5>2. queue[k] \in Seq(Handle) /\ procOf[queue[k][n]] = k[1]
          BY <5>1, Zenon DEF TypeOK
        <5>3. queue[k][n] \in Handle
          BY <5>1, <5>2, Element, Zenon
        <5>4. QED BY <3>2, <5>2, <5>3, Zenon
      <4>3. state[queue[k][n]] = "queued"
        BY <4>1, Zenon DEF QueueAgrees
      <4>4. state'[queue[k][n]] = "queued"
        BY <1>s, <4>2, <4>3, Zenon
      <4>5. QED BY <4>1, <4>4, Zenon
    <3>3. QED BY <3>1, <3>2, Zenon
  <2>3. \A k \in Key : \A n, j \in 1..Len(queue'[k]) :
          queue'[k][n] = queue'[k][j] => n = j
    BY <1>q DEF QueueAgrees
  <2>4. \A k \in Key : queue'[k] # <<>> => k \in lock_pool'
    BY <1>q, Zenon DEF die, QueueAgrees
  <2>5. QED BY <2>1, <2>2, <2>3, <2>4, Zenon DEF QueueAgrees
<1>6. DeadAgrees'
  BY <1>s, Zenon DEF die, DeadAgrees
<1>7. QED BY <1>1, <1>2, <1>3, <1>4, <1>5, <1>6, Zenon

\* Every step of the workers and of the kernel keeps the invariant.
LEMMA StepInv == IInv /\ [Next]_vars => IInv'
<1> SUFFICES ASSUME IInv, [Next]_vars PROVE IInv'
  BY Zenon
<1>1. ASSUME NEW h \in Handle, lock(h) PROVE IInv'
  BY <1>1, LockInv, Zenon
<1>2. ASSUME NEW h \in Handle, flockReturns(h) PROVE IInv'
  BY <1>2, FlockReturnsInv, Zenon
<1>3. ASSUME NEW h \in Handle, unlock(h) PROVE IInv'
  BY <1>3, ReleaseInv, Zenon DEF unlock
<1>4. ASSUME NEW h \in Handle, closeLocked(h) PROVE IInv'
  BY <1>4, ReleaseInv, Zenon DEF closeLocked
<1>5. ASSUME NEW h \in Handle, closeUnlocked(h) PROVE IInv'
  BY <1>5, CloseUnlockedInv, Zenon
<1>6. ASSUME NEW p \in Proc, die(p) PROVE IInv'
  BY <1>6, DieInv, Zenon
<1>7. CASE UNCHANGED vars
  <2>1. TypeOK'
    BY <1>7, Zenon DEF vars, IInv, TypeOK
  <2>2. LockAgrees'
    BY <1>7, SMTT(40) DEF vars, IInv, LockAgrees, OwnerAgrees, ThreadAgrees, PoolAgrees, QueueAgrees, DeadAgrees
  <2>3. QED BY <2>1, <2>2, Zenon DEF IInv
<1>8. QED BY <1>1, <1>2, <1>3, <1>4, <1>5, <1>6, <1>7, Zenon DEF Next, Step

\* The inductive invariant holds in every reachable state of every instance.
THEOREM Invariance == Spec => []IInv
  BY InitInv, StepInv, PTL DEF Spec

\* Variables keep their types, managers queue only their own process's handles of
\* their own path, and kernel, threads, managers and handles agree.
THEOREM LockConsistent == Spec => [](TypeOK /\ LockAgrees)
  BY Invariance, PTL DEF IInv

\* Two Mutex objects of one lock file are never both locked (Mutex::lock).
THEOREM Exclusion == Spec => []MutualExclusion
<1>1. IInv => MutualExclusion
  BY Zenon DEF IInv, LockAgrees, OwnerAgrees, MutualExclusion
<1>2. QED BY <1>1, Invariance, PTL

\* A thread in flock(2) never waits for a coroutine of its own process (lock_ex).
THEOREM SelfDeadlockFree == Spec => []NoSelfDeadlock
<1>1. IInv => NoSelfDeadlock
  <2> SUFFICES ASSUME IInv, NEW p \in Proc, thread[p] # NoHandle,
                      owner[fileOf[thread[p]]] \in HandlesOf(p)
               PROVE  FALSE
    BY Zenon DEF NoSelfDeadlock
  <2> DEFINE g == thread[p]
             h == owner[fileOf[g]]
  <2>1. g \in Handle /\ h \in Handle /\ procOf[h] = p
    BY Zenon DEF IInv, TypeOK, HandlesOf
  <2>2. procOf[g] = p /\ state[g] = "flock"
    BY <2>1, Zenon DEF IInv, LockAgrees, ThreadAgrees
  <2>3. fileOf[h] = fileOf[g]
    BY <2>1, Zenon DEF IInv, LockAgrees, OwnerAgrees
  <2>4. state[h] = "held"
    BY <2>1, <2>3, Zenon DEF IInv, LockAgrees, OwnerAgrees
  <2>5. key(g) = key(h)
    BY <2>1, <2>2, <2>3, Zenon DEF key
  <2>6. QED BY <2>1, <2>2, <2>4, <2>5, Zenon DEF IInv, LockAgrees, PoolAgrees
<1>2. QED BY <1>1, Invariance, PTL

\* A parked coroutine has a handle of its process that will resume it, and a manager
\* never outlives its users (lock_release).
THEOREM WaitersAreServed == Spec => [](NoOrphanWaiter /\ NoLeakedManager)
<1>1. IInv => NoLeakedManager
  BY Zenon DEF IInv, LockAgrees, PoolAgrees, NoLeakedManager, Acquiring
<1>2. IInv => NoOrphanWaiter
  <2> SUFFICES ASSUME IInv, NEW h \in Handle, state[h] = "queued"
               PROVE  Acquiring(key(h)) # {}
    BY Zenon DEF NoOrphanWaiter
  <2>1. queue[key(h)] # <<>>
    BY DEF IInv, LockAgrees, QueueAgrees
  <2>2. key(h) \in lock_pool
    BY <2>1, KeyType, Zenon DEF IInv, LockAgrees, QueueAgrees
  <2>3. QED BY <1>1, <2>2, Zenon DEF NoLeakedManager
<1>3. QED BY <1>1, <1>2, Invariance, PTL

\* lock() never overtakes a coroutine that was parked before it.
THEOREM BargingFree == Spec => NoBarging
<1> DEFINE A == \A h \in Handle : state[h] = "open" /\ state'[h] = "flock" =>
                  ~ \E g \in Handle : key(g) = key(h) /\ state[g] = "queued"
<1>1. IInv /\ [Next]_vars => [A]_vars
  <2> SUFFICES ASSUME IInv, Next, NEW h \in Handle, state[h] = "open", state'[h] = "flock",
                      NEW g \in Handle, key(g) = key(h), state[g] = "queued"
               PROVE  FALSE
    BY Zenon
  <2>0. queue[key(g)] # <<>>
    BY DEF IInv, LockAgrees, QueueAgrees
  <2>1. key(h) \in lock_pool
    BY <2>0, KeyType, Zenon DEF IInv, LockAgrees, QueueAgrees
  <2>2. ASSUME NEW x \in Handle, lock(x) PROVE FALSE
    BY <2>1, <2>2, Zenon DEF lock, LockParks, IInv, TypeOK
  <2>3. ASSUME NEW x \in Handle, flockReturns(x) PROVE FALSE
    BY <2>3, Zenon DEF flockReturns, IInv, TypeOK
  <2>4. ASSUME NEW x \in Handle, NEW after \in {"unlocked", "closed"},
               lock_release(x, after)
        PROVE  FALSE
    <3>1. CASE queue[key(x)] = <<>>
      BY <2>4, <3>1, Zenon DEF lock_release, IInv, TypeOK
    <3>2. CASE queue[key(x)] # <<>>
      <4>1. state[Head(queue[key(x)])] = "queued" /\ Head(queue[key(x)]) \in Handle
        <5>1. queue[key(x)] \in Seq(Handle)
          BY KeyType, Zenon DEF IInv, TypeOK
        <5>2. QED BY <3>2, <5>1, TailFacts, KeyType DEF IInv, LockAgrees, QueueAgrees
      <4>2. QED BY <2>4, <3>2, <4>1, Zenon DEF lock_release, IInv, TypeOK
    <3>3. QED BY <3>1, <3>2, Zenon
  <2>5. ASSUME NEW x \in Handle, closeUnlocked(x) PROVE FALSE
    BY <2>5, Zenon DEF closeUnlocked, IInv, TypeOK
  <2>6. ASSUME NEW p \in Proc, die(p) PROVE FALSE
    BY <2>6, Zenon DEF die
  <2>7. QED BY <2>2, <2>3, <2>4, <2>5, <2>6, Zenon DEF Next, Step, unlock, closeLocked
<1>2. QED BY <1>1, Invariance, PTL DEF Spec, NoBarging

\* Hooked flock() across worker processes implements the lock Mutex promises: every
\* step is a request, a grant, a release, a loss or invisible to the callers.
THEOREM Implementation == Spec => ImplementsMutex
<1> DEFINE ph == [h \in Handle |-> phaseOf(state[h])]
<1>p. /\ phaseOf("open") = "idle"
      /\ phaseOf("queued") = "waiting"
      /\ phaseOf("flock") = "waiting"
      /\ phaseOf("held") = "holding"
      /\ phaseOf("unlocked") = "released"
      /\ phaseOf("closed") = "released"
      /\ phaseOf("dead") = "lost"
  BY Zenon DEF phaseOf
<1>1. Init => Abstract!Init
  BY <1>p, Zenon DEF Init, Abstract!Init
<1>2. IInv /\ [Next]_vars => [Abstract!Next]_(Abstract!mutexVars)
  <2> SUFFICES ASSUME IInv, [Next]_vars
               PROVE  Abstract!Next \/ UNCHANGED <<owner, ph>>
    BY Zenon DEF Abstract!mutexVars
  <2>1. ASSUME NEW h \in Handle, lock(h) PROVE Abstract!Request(h)
    <3>1. state[h] = "open" /\ owner' = owner
      BY <2>1, Zenon DEF lock, CanLock
    <3>2. \E s \in {"queued", "flock"} : state' = [state EXCEPT ![h] = s]
      BY <2>1, Zenon DEF lock
    <3>3. ph' = [ph EXCEPT ![h] = "waiting"]
      BY <1>p, <3>2, Zenon DEF IInv, TypeOK
    <3>4. QED BY <1>p, <3>1, <3>3, Zenon DEF Abstract!Request
  <2>2. ASSUME NEW h \in Handle, flockReturns(h) PROVE Abstract!Acquire(h)
    <3>1. ph' = [ph EXCEPT ![h] = "holding"]
      BY <1>p, <2>2, Zenon DEF flockReturns, IInv, TypeOK
    <3>2. QED BY <1>p, <2>2, <3>1, Zenon DEF flockReturns, KernelFree, Abstract!Acquire
  <2>3. ASSUME NEW h \in Handle, NEW after \in {"unlocked", "closed"},
               CanRelease(h), lock_release(h, after)
        PROVE  Abstract!Release(h)
    <3>1. state[h] = "held" /\ owner' = [owner EXCEPT ![fileOf[h]] = NoHandle]
      BY <2>3, Zenon DEF CanRelease, lock_release
    <3>2. ph' = [ph EXCEPT ![h] = "released"]
      <4>1. CASE queue[key(h)] = <<>>
        BY <1>p, <2>3, <4>1, Zenon DEF lock_release, IInv, TypeOK
      <4>2. CASE queue[key(h)] # <<>>
        <5> DEFINE co == Head(queue[key(h)])
        <5>1. queue[key(h)] \in Seq(Handle)
          BY KeyType, Zenon DEF IInv, TypeOK
        <5>2. co \in Handle /\ state[co] = "queued"
          BY <4>2, <5>1, TailFacts, KeyType DEF IInv, LockAgrees, QueueAgrees
        <5>3. state' = [state EXCEPT ![h] = after, ![co] = "flock"]
          BY <2>3, <4>2, Zenon DEF lock_release
        <5>4. \A g \in Handle : state'[g] = IF g = co THEN "flock"
                                            ELSE IF g = h THEN after ELSE state[g]
          BY <5>2, <5>3, Zenon DEF IInv, TypeOK
        <5>5. \A g \in Handle : phaseOf(state'[g]) =
                IF g = h THEN "released" ELSE phaseOf(state[g])
          BY <1>p, <2>3, <3>1, <5>2, <5>4, Zenon
        <5>6. QED BY <5>5, Zenon
      <4>3. QED BY <4>1, <4>2, Zenon
    <3>3. owner[fileOf[h]] = h
      BY <3>1, Zenon DEF IInv, LockAgrees, OwnerAgrees
    <3>4. QED BY <1>p, <3>1, <3>2, <3>3, Zenon DEF Abstract!Release
  <2>4. ASSUME NEW h \in Handle, closeUnlocked(h) PROVE UNCHANGED <<owner, ph>>
    BY <1>p, <2>4, Zenon DEF closeUnlocked, IInv, TypeOK
  <2>5. ASSUME NEW p \in Proc, die(p) PROVE Abstract!Lose(HandlesOf(p))
    BY <1>p, <2>5, Zenon DEF die, OwnerAfterExit, HandlesOf, Abstract!Lose
  <2>6. CASE UNCHANGED vars
    BY <2>6, Zenon DEF vars
  <2>7. \A p \in Proc : HandlesOf(p) \in SUBSET Handle
    BY Zenon DEF HandlesOf
  <2>8. QED
    BY <2>1, <2>2, <2>3, <2>4, <2>5, <2>6, <2>7, Zenon
    DEF Next, Step, unlock, closeLocked, Abstract!Next
<1>3. QED BY <1>1, <1>2, Invariance, PTL DEF Spec, ImplementsMutex, Abstract!Spec

\* Without nested Mutexes, handles that cannot move wait for worker processes that
\* block each other's threads in flock(2); there is no other deadlock.
THEOREM StuckByCycle ==
  (\A h \in Handle : outer[h] = NoHandle) => (Spec => []StuckOnlyByCycle)
<1> SUFFICES ASSUME \A h \in Handle : outer[h] = NoHandle
             PROVE  Spec => []StuckOnlyByCycle
  BY Zenon
<1>1. IInv => StuckOnlyByCycle
  <2> SUFFICES ASSUME IInv, NEW h0 \in Handle, Unfinished(h0),
                      \A h \in Handle : ~ CanStep(h)
               PROVE  \E S \in SUBSET Proc :
                        /\ S # {}
                        /\ \A p \in S : /\ thread[p] # NoHandle
                                        /\ owner[fileOf[thread[p]]] # NoHandle
                                        /\ BlockedBy(p) \in S \ {p}
    BY Zenon DEF StuckOnlyByCycle
  <2> DEFINE S == {p \in Proc : thread[p] # NoHandle}
  <2>0. \A h \in Handle : state[h] # "dead" => procOf[h] \in alive
    BY Zenon DEF IInv, LockAgrees, DeadAgrees
  <2>1. \A h \in Handle : state[h] \in {"open", "held", "unlocked"} => thread[procOf[h]] # NoHandle
    <3>1. \A h \in Handle : OuterHeld(h) /\ Inner(h) = {}
      BY Zenon DEF OuterHeld, Inner
    <3>2. QED BY <2>0, <3>1, Zenon DEF CanStep, CanLock, CanRelease, Running
  <2>2. \A h \in Handle : state[h] = "flock" => thread[procOf[h]] # NoHandle
    BY DEF IInv, LockAgrees, ThreadAgrees
  <2>3. \A h \in Handle : state[h] = "queued" => thread[procOf[h]] # NoHandle
    <3> SUFFICES ASSUME NEW h \in Handle, state[h] = "queued"
                 PROVE  thread[procOf[h]] # NoHandle
      BY Zenon
    <3>1. queue[key(h)] # <<>>
      BY DEF IInv, LockAgrees, QueueAgrees
    <3>2. key(h) \in lock_pool
      BY <3>1, KeyType, Zenon DEF IInv, LockAgrees, QueueAgrees
    <3>3. PICK g \in Handle : key(g) = key(h) /\ state[g] \in {"flock", "held"}
      BY <3>2, Zenon DEF IInv, LockAgrees, PoolAgrees
    <3>4. QED BY <2>1, <2>2, <3>3, KeyType
  <2>4. procOf[h0] \in S
    BY <2>1, <2>2, <2>3, Zenon DEF Unfinished
  <2>5. ASSUME NEW p \in S
        PROVE  owner[fileOf[thread[p]]] # NoHandle /\ BlockedBy(p) \in S \ {p}
    <3> DEFINE g == thread[p]
               o == owner[fileOf[g]]
    <3>1. g \in Handle /\ procOf[g] = p /\ state[g] = "flock"
      BY DEF IInv, TypeOK, LockAgrees, ThreadAgrees
    <3>2. o # NoHandle
      BY <3>1, Zenon DEF CanStep, KernelFree
    <3>3. o \in Handle /\ fileOf[o] = fileOf[g] /\ state[o] = "held"
      BY <3>1, <3>2 DEF IInv, TypeOK, LockAgrees, OwnerAgrees
    <3>4. procOf[o] # p
      BY <3>1, <3>3 DEF IInv, LockAgrees, PoolAgrees, key
    <3>5. procOf[o] \in S
      BY <2>1, <3>3, Zenon
    <3>6. QED BY <3>2, <3>4, <3>5, Zenon DEF BlockedBy
  <2>6. S \in SUBSET Proc /\ S # {}
    BY <2>4, Zenon
  <2>7. QED BY <2>5, <2>6, Zenon
<1>2. QED BY <1>1, Invariance, PTL

\* The lock as a whole (lock_ex(), lock_release() and the kernel), for any processes, files
\* and handles.
THEOREM LockIsSafe == Spec => []LockSafe
  BY LockConsistent, Exclusion, SelfDeadlockFree, WaitersAreServed, PTL DEF LockSafe

-----------------------------------------------------------------------------
HIDE HandleAssumption

USE DispatchAssumption

\* A worker has died only of an update whose Exception was not caught.
DeathHasCause ==
  \A w \in Worker : worker[w] = "dead" =>
    \E v \in Fatal : update[v] = "lost" /\ target[v] = w

\* An update that is lost was given to a worker that is dead.
LostIsDead == \A u \in Update : update[u] = "lost" => worker[target[u]] = "dead"

DispatchInv == DispatchTypeOK /\ DeliveredOnce /\ DeadHoldsNothing /\ DeathHasCause /\ LostIsDead

\* The index that send_data picks is the index of a configured worker.
LEMMA PickFacts ==
  ASSUME DispatchTypeOK
  PROVE  pick \in Worker /\ advance \in 0..nlogger
  BY DEF DispatchTypeOK, pick, advance, Worker

\* Appending to a backlog adds the update at its end.
LEMMA BacklogAppend ==
  ASSUME NEW S, NEW s \in Seq(S), NEW x \in S
  PROVE  /\ Append(s, x) \in Seq(S)
         /\ Len(Append(s, x)) = Len(s) + 1
         /\ \A k \in 1..Len(s) : Append(s, x)[k] = s[k]
         /\ Append(s, x)[Len(s) + 1] = x
  OBVIOUS

\* Taking the oldest connection moves the others up by one.
LEMMA BacklogTail ==
  ASSUME NEW S, NEW s \in Seq(S), s # <<>>
  PROVE  /\ Tail(s) \in Seq(S) /\ Head(s) \in S /\ Head(s) = s[1]
         /\ Len(s) \in Nat \ {0}
         /\ Len(Tail(s)) = Len(s) - 1
         /\ \A k \in 1..Len(Tail(s)) : Tail(s)[k] = s[k + 1]
  OBVIOUS

\* The history of picks keeps its type.
LEMMA LastPicksType ==
  ASSUME NEW s \in Seq(Worker), s # <<>>
  PROVE  LastPicks(s) \in Seq(Worker)
<1> DEFINE m == IF Len(s) < nlogger THEN 1 ELSE 2
<1>1. m \in 1..(Len(s) + 1)
  OBVIOUS
<1>2. SubSeq(s, m, Len(s)) \in Seq(Worker)
  BY <1>1
<1>3. QED BY <1>2, Zenon DEF LastPicks

\* The inductive invariant holds when the workers have just been forked.
LEMMA DispatchInitially == DispatchInit => DispatchInv
<1> SUFFICES ASSUME DispatchInit PROVE DispatchInv
  BY Zenon
<1>1. DispatchTypeOK
  BY DEF DispatchInit, DispatchTypeOK, Progress
<1>2. DeliveredOnce
  BY DEF DispatchInit, DeliveredOnce
<1>3. QED
  BY <1>1, <1>2, Zenon DEF DispatchInit, DispatchInv, DeadHoldsNothing, DeathHasCause, LostIsDead

\* Picking a worker for an update keeps the invariant: the update is in no backlog.
LEMMA SendInv ==
  ASSUME DispatchInv, NEW u \in Update, update[u] \in {"new", "connecting"},
         send_data(u), UNCHANGED <<backlog, worker>>
  PROVE  DispatchInv'
<1> USE DEF DispatchInv
<1>1. pick \in Worker /\ advance \in 0..nlogger
  BY PickFacts, Zenon
<1>2. /\ update' = [update EXCEPT ![u] = "connecting"]
      /\ target' = [target EXCEPT ![u] = pick]
      /\ i' = advance
      /\ recent' = LastPicks(Append(recent, pick))
      /\ backlog' = backlog /\ worker' = worker
  BY Zenon DEF send_data
<1>3. \A v \in Update : v # u => update'[v] = update[v] /\ target'[v] = target[v]
  BY <1>2, Zenon DEF DispatchTypeOK
<1>4. update'[u] = "connecting" /\ target'[u] = pick
  BY <1>2, Zenon DEF DispatchTypeOK
<1>5. DispatchTypeOK'
  <2>1. recent' \in Seq(Worker)
    <3>1. /\ Append(recent, pick) \in Seq(Worker)
          /\ Len(Append(recent, pick)) = Len(recent) + 1 /\ Len(recent) \in Nat
      BY <1>1, BacklogAppend DEF DispatchTypeOK
    <3>2. Append(recent, pick) # <<>>
      BY <3>1
    <3>3. QED BY <1>2, <3>1, <3>2, LastPicksType, Zenon
  <2>2. update' \in [Update -> Progress] /\ target' \in [Update -> Worker \cup {NoWorker}]
    BY <1>1, <1>2, Zenon DEF DispatchTypeOK, Progress
  <2>3. \A v \in Update : update'[v] # "new" => target'[v] \in Worker
    BY <1>1, <1>3, <1>4, Zenon DEF DispatchTypeOK
  <2>4. QED BY <1>1, <1>2, <2>1, <2>2, <2>3, Zenon DEF DispatchTypeOK
<1>6. DeliveredOnce'
  <2> SUFFICES ASSUME NEW w \in Worker, NEW k \in 1..Len(backlog[w])
               PROVE  /\ update'[backlog[w][k]] = "queued" /\ target'[backlog[w][k]] = w
                      /\ \A j \in 1..Len(backlog[w]) : backlog[w][j] = backlog[w][k] => j = k
    BY <1>2 DEF DeliveredOnce
  <2>1. backlog[w] \in Seq(Update) /\ backlog[w][k] \in Update
    BY DEF DispatchTypeOK
  <2>2. update[backlog[w][k]] = "queued" /\ target[backlog[w][k]] = w
    BY Zenon DEF DeliveredOnce
  <2>3. backlog[w][k] # u
    BY <2>2, Zenon
  <2>4. QED BY <1>3, <2>1, <2>2, <2>3, Zenon DEF DeliveredOnce
<1>7. DeadHoldsNothing'
  BY <1>2, <1>3, <1>4, Zenon DEF DeadHoldsNothing
<1>8. DeathHasCause'
  <2> SUFFICES ASSUME NEW w \in Worker, worker[w] = "dead"
               PROVE  \E v \in Fatal : update'[v] = "lost" /\ target'[v] = w
    BY <1>2, Zenon DEF DeathHasCause
  <2>1. PICK v \in Fatal : update[v] = "lost" /\ target[v] = w
    BY Zenon DEF DeathHasCause
  <2>2. v \in Update /\ v # u
    BY <2>1, Zenon
  <2>3. QED BY <1>3, <2>1, <2>2, Zenon
<1>9. LostIsDead'
  BY <1>2, <1>3, <1>4 DEF LostIsDead
<1>10. QED BY <1>5, <1>6, <1>7, <1>8, <1>9, Zenon

\* A completed connection keeps the invariant: the update joins one backlog.
LEMMA ConnectedInv ==
  ASSUME DispatchInv, NEW u \in Update, connected(u)
  PROVE  DispatchInv'
<1> USE DEF DispatchInv
<1> DEFINE w0 == target[u]
<1>1. /\ update[u] = "connecting" /\ w0 \in Worker
      /\ worker[w0] # "dead"
      /\ update' = [update EXCEPT ![u] = "queued"]
      /\ backlog' = [backlog EXCEPT ![w0] = Append(@, u)]
      /\ UNCHANGED <<i, target, worker, recent>>
  BY Zenon DEF connected, Reachable, DispatchTypeOK
<1>2. \A v \in Update : v # u => update'[v] = update[v]
  BY <1>1, Zenon DEF DispatchTypeOK
<1>3. update'[u] = "queued"
  BY <1>1, Zenon DEF DispatchTypeOK
<1>4. \A w \in Worker : backlog[w] \in Seq(Update)
  BY Zenon DEF DispatchTypeOK
<1>5. \A w \in Worker : backlog'[w] = IF w = w0 THEN Append(backlog[w0], u) ELSE backlog[w]
  BY <1>1, Zenon DEF DispatchTypeOK
<1>6. /\ Append(backlog[w0], u) \in Seq(Update)
      /\ Len(Append(backlog[w0], u)) = Len(backlog[w0]) + 1
      /\ \A k \in 1..Len(backlog[w0]) : Append(backlog[w0], u)[k] = backlog[w0][k]
      /\ Append(backlog[w0], u)[Len(backlog[w0]) + 1] = u
  BY <1>1, <1>4, BacklogAppend
<1>7. \A w \in Worker : \A k \in 1..Len(backlog[w]) :
        backlog[w][k] \in Update /\ backlog[w][k] # u
  BY <1>1, <1>4 DEF DeliveredOnce
<1>8. DispatchTypeOK'
  <2>1. backlog' \in [Worker -> Seq(Update)]
    BY <1>1, <1>6, Zenon DEF DispatchTypeOK
  <2>2. update' \in [Update -> Progress]
    BY <1>1, Zenon DEF DispatchTypeOK, Progress
  <2>3. \A v \in Update : update'[v] # "new" => target'[v] \in Worker
    BY <1>1, <1>2, Zenon DEF DispatchTypeOK
  <2>4. QED BY <1>1, <2>1, <2>2, <2>3, Zenon DEF DispatchTypeOK
<1>9. DeliveredOnce'
  <2> SUFFICES ASSUME NEW w \in Worker, NEW k \in 1..Len(backlog'[w])
               PROVE  /\ update'[backlog'[w][k]] = "queued" /\ target'[backlog'[w][k]] = w
                      /\ \A j \in 1..Len(backlog'[w]) : backlog'[w][j] = backlog'[w][k] => j = k
    BY Zenon DEF DeliveredOnce
  <2>1. CASE w # w0
    <3>1. backlog'[w] = backlog[w]
      BY <1>5, <2>1, Zenon
    <3>2. update[backlog[w][k]] = "queued" /\ target[backlog[w][k]] = w
          /\ \A j \in 1..Len(backlog[w]) : backlog[w][j] = backlog[w][k] => j = k
      BY <3>1, Zenon DEF DeliveredOnce
    <3>3. update'[backlog[w][k]] = "queued"
      BY <1>2, <1>7, <3>1, <3>2, Zenon
    <3>4. QED BY <1>1, <3>1, <3>2, <3>3, Zenon
  <2>2. CASE w = w0
    <3>1. backlog'[w] = Append(backlog[w0], u) /\ Len(backlog'[w]) = Len(backlog[w0]) + 1
      BY <1>5, <1>6, <2>2, Zenon
    <3>2. Len(backlog[w0]) \in Nat
      BY <1>1, <1>4
    <3>3. CASE k = Len(backlog[w0]) + 1
      <4>1. backlog'[w][k] = u
        BY <1>6, <3>1, <3>3, Zenon
      <4>2. ASSUME NEW j \in 1..Len(backlog'[w]), j # k PROVE backlog'[w][j] # u
        <5>1. j \in 1..Len(backlog[w0])
          BY <3>1, <3>2, <3>3, <4>2
        <5>2. QED BY <1>1, <1>6, <1>7, <3>1, <5>1, Zenon
      <4>3. QED BY <1>1, <1>3, <2>2, <4>1, <4>2, Zenon
    <3>4. CASE k \in 1..Len(backlog[w0])
      <4>1. backlog'[w][k] = backlog[w0][k] /\ backlog[w0][k] \in Update /\ backlog[w0][k] # u
        BY <1>1, <1>6, <1>7, <3>1, <3>4, Zenon
      <4>2. update[backlog[w0][k]] = "queued" /\ target[backlog[w0][k]] = w0
            /\ \A j \in 1..Len(backlog[w0]) : backlog[w0][j] = backlog[w0][k] => j = k
        BY <1>1, <3>4 DEF DeliveredOnce
      <4>3. ASSUME NEW j \in 1..Len(backlog'[w]), backlog'[w][j] = backlog'[w][k] PROVE j = k
        <5>1. j \in 1..Len(backlog[w0]) \/ j = Len(backlog[w0]) + 1
          BY <3>1, <3>2
        <5>2. j # Len(backlog[w0]) + 1
          BY <1>6, <3>1, <4>1, <4>3, Zenon
        <5>3. QED BY <1>6, <3>1, <4>1, <4>2, <4>3, <5>1, <5>2, Zenon
      <4>4. QED BY <1>1, <1>2, <2>2, <4>1, <4>2, <4>3, Zenon
    <3>5. QED BY <3>1, <3>2, <3>3, <3>4
  <2>3. QED BY <2>1, <2>2, Zenon
<1>10. DeadHoldsNothing' /\ LostIsDead'
  BY <1>1, <1>2, <1>3, Zenon DEF DeadHoldsNothing, LostIsDead
<1>11. DeathHasCause'
  <2> SUFFICES ASSUME NEW w \in Worker, worker[w] = "dead"
               PROVE  \E v \in Fatal : update'[v] = "lost" /\ target[v] = w
    BY <1>1, Zenon DEF DeathHasCause
  <2>1. PICK v \in Fatal : update[v] = "lost" /\ target[v] = w
    BY Zenon DEF DeathHasCause
  <2>2. v \in Update /\ v # u
    BY <1>1, <2>1, Zenon
  <2>3. QED BY <1>2, <2>1, <2>2, Zenon
<1>12. QED BY <1>8, <1>9, <1>10, <1>11, Zenon

\* accept() keeps the invariant: the oldest connection leaves its backlog.
LEMMA AcceptInv ==
  ASSUME DispatchInv, NEW w0 \in Worker, accept(w0)
  PROVE  DispatchInv'
<1> USE DEF DispatchInv
<1> DEFINE u == Head(backlog[w0])
           q == Tail(backlog[w0])
<1>1. /\ worker[w0] = "up" /\ backlog[w0] # <<>>
      /\ backlog' = [backlog EXCEPT ![w0] = q]
      /\ update' = [update EXCEPT ![u] = "handled"]
      /\ UNCHANGED <<i, target, worker, recent>>
  BY Zenon DEF accept
<1>2. \A w \in Worker : backlog[w] \in Seq(Update)
  BY Zenon DEF DispatchTypeOK
<1>3. /\ q \in Seq(Update) /\ u \in Update /\ u = backlog[w0][1]
      /\ Len(backlog[w0]) \in Nat \ {0} /\ Len(q) = Len(backlog[w0]) - 1
      /\ \A k \in 1..Len(q) : q[k] = backlog[w0][k + 1]
  BY <1>1, <1>2, BacklogTail
<1>4. 1 \in 1..Len(backlog[w0])
  BY <1>3
<1>5. /\ update[u] = "queued" /\ target[u] = w0
      /\ \A j \in 1..Len(backlog[w0]) : backlog[w0][j] = u => j = 1
  BY <1>3, <1>4 DEF DeliveredOnce
<1> HIDE DEF u, q
<1>6. \A v \in Update : v # u => update'[v] = update[v]
  BY <1>1, Zenon DEF DispatchTypeOK
<1>7. update'[u] = "handled"
  BY <1>1, <1>3, Zenon DEF DispatchTypeOK
<1>8. \A w \in Worker : backlog'[w] = IF w = w0 THEN q ELSE backlog[w]
  BY <1>1, Zenon DEF DispatchTypeOK
<1>9. DispatchTypeOK'
  <2>1. backlog' \in [Worker -> Seq(Update)]
    BY <1>1, <1>3, Zenon DEF DispatchTypeOK
  <2>2. update' \in [Update -> Progress]
    BY <1>1, Zenon DEF DispatchTypeOK, Progress
  <2>3. \A v \in Update : update'[v] # "new" => target'[v] \in Worker
    BY <1>1, <1>5, <1>6, Zenon DEF DispatchTypeOK
  <2>4. QED BY <1>1, <2>1, <2>2, <2>3, Zenon DEF DispatchTypeOK
<1>10. DeliveredOnce'
  <2> SUFFICES ASSUME NEW w \in Worker, NEW k \in 1..Len(backlog'[w])
               PROVE  /\ update'[backlog'[w][k]] = "queued" /\ target'[backlog'[w][k]] = w
                      /\ \A j \in 1..Len(backlog'[w]) : backlog'[w][j] = backlog'[w][k] => j = k
    BY Zenon DEF DeliveredOnce
  <2>1. CASE w # w0
    <3>1. backlog'[w] = backlog[w] /\ backlog[w][k] \in Update
      BY <1>2, <1>8, <2>1
    <3>2. update[backlog[w][k]] = "queued" /\ target[backlog[w][k]] = w
          /\ \A j \in 1..Len(backlog[w]) : backlog[w][j] = backlog[w][k] => j = k
      BY <3>1, Zenon DEF DeliveredOnce
    <3>3. backlog[w][k] # u
      BY <1>5, <2>1, <3>2, Zenon
    <3>4. QED BY <1>1, <1>6, <3>1, <3>2, <3>3, Zenon
  <2>2. CASE w = w0
    <3>1. backlog'[w] = q /\ k \in 1..Len(q)
      BY <1>8, <2>2, Zenon
    <3>2. k + 1 \in 1..Len(backlog[w0]) /\ k + 1 # 1 /\ q[k] = backlog[w0][k + 1]
      BY <1>3, <3>1
    <3>3. backlog[w0][k + 1] \in Update /\ backlog[w0][k + 1] # u
      BY <1>2, <1>5, <3>2
    <3>4. update[q[k]] = "queued" /\ target[q[k]] = w0
      BY <3>2 DEF DeliveredOnce
    <3>5. ASSUME NEW j \in 1..Len(q), q[j] = q[k] PROVE j = k
      <4>1. j + 1 \in 1..Len(backlog[w0]) /\ q[j] = backlog[w0][j + 1]
        BY <1>3
      <4>2. \A a, b \in 1..Len(backlog[w0]) : backlog[w0][a] = backlog[w0][b] => a = b
        BY Zenon DEF DeliveredOnce
      <4>3. j + 1 = k + 1
        BY <3>2, <3>5, <4>1, <4>2, Zenon
      <4>4. QED BY <3>1, <4>3
    <3>6. QED BY <1>1, <1>6, <2>2, <3>1, <3>2, <3>3, <3>4, <3>5, Zenon
  <2>3. QED BY <2>1, <2>2, Zenon
<1>11. DeadHoldsNothing' /\ LostIsDead'
  BY <1>1, <1>5, <1>6, <1>7, Zenon DEF DeadHoldsNothing, LostIsDead
<1>12. DeathHasCause'
  <2> SUFFICES ASSUME NEW w \in Worker, worker[w] = "dead"
               PROVE  \E v \in Fatal : update'[v] = "lost" /\ target[v] = w
    BY <1>1, Zenon DEF DeathHasCause
  <2>1. PICK v \in Fatal : update[v] = "lost" /\ target[v] = w
    BY Zenon DEF DeathHasCause
  <2>2. v \in Update /\ v # u
    BY <1>5, <2>1, Zenon
  <2>3. QED BY <1>6, <2>1, <2>2, Zenon
<1>13. QED BY <1>9, <1>10, <1>11, <1>12, Zenon

\* An update that is handled without harm keeps the invariant.
LEMMA HandlerInv ==
  ASSUME DispatchInv, NEW u \in Update, logger_handler(u)
  PROVE  DispatchInv'
<1> USE DEF DispatchInv
<1>1. /\ update[u] = "handled"
      /\ update' = [update EXCEPT ![u] = "done"]
      /\ UNCHANGED <<i, target, backlog, worker, recent>>
  BY Zenon DEF logger_handler, Handling
<1>2. \A v \in Update : v # u => update'[v] = update[v]
  BY <1>1, Zenon DEF DispatchTypeOK
<1>3. update'[u] = "done"
  BY <1>1, Zenon DEF DispatchTypeOK
<1>4. DispatchTypeOK'
  <2>1. update' \in [Update -> Progress]
    BY <1>1, Zenon DEF DispatchTypeOK, Progress
  <2>2. \A v \in Update : update'[v] # "new" => target'[v] \in Worker
    BY <1>1, <1>2, Zenon DEF DispatchTypeOK
  <2>3. QED BY <1>1, <2>1, <2>2, Zenon DEF DispatchTypeOK
<1>5. DeliveredOnce'
  <2> SUFFICES ASSUME NEW w \in Worker, NEW k \in 1..Len(backlog[w])
               PROVE  /\ update'[backlog[w][k]] = "queued" /\ target[backlog[w][k]] = w
                      /\ \A j \in 1..Len(backlog[w]) : backlog[w][j] = backlog[w][k] => j = k
    BY <1>1 DEF DeliveredOnce
  <2>1. backlog[w] \in Seq(Update) /\ backlog[w][k] \in Update
    BY DEF DispatchTypeOK
  <2>2. update[backlog[w][k]] = "queued"
    BY Zenon DEF DeliveredOnce
  <2>3. update'[backlog[w][k]] = "queued"
    BY <1>1, <1>2, <2>1, <2>2, Zenon
  <2>4. QED BY <2>3, Zenon DEF DeliveredOnce
<1>6. DeadHoldsNothing' /\ LostIsDead'
  BY <1>1, <1>2, <1>3, Zenon DEF DeadHoldsNothing, LostIsDead
<1>7. DeathHasCause'
  <2> SUFFICES ASSUME NEW w \in Worker, worker[w] = "dead"
               PROVE  \E v \in Fatal : update'[v] = "lost" /\ target[v] = w
    BY <1>1, Zenon DEF DeathHasCause
  <2>1. PICK v \in Fatal : update[v] = "lost" /\ target[v] = w
    BY Zenon DEF DeathHasCause
  <2>2. v \in Update /\ v # u
    BY <1>1, <2>1, Zenon
  <2>3. QED BY <1>2, <2>1, <2>2, Zenon
<1>8. QED BY <1>4, <1>5, <1>6, <1>7, Zenon

\* A worker that starts to spin was up, and keeps what it was given.
LEMMA SpinInv ==
  ASSUME DispatchInv, NEW u \in Update, spins(u)
  PROVE  DispatchInv'
<1> USE DEF DispatchInv
<1>1. /\ worker[target[u]] = "up" /\ target[u] \in Worker
      /\ worker' = [worker EXCEPT ![target[u]] = "spinning"]
      /\ UNCHANGED <<i, update, target, backlog, recent>>
  BY Zenon DEF spins, Handling, DispatchTypeOK
<1>2. \A w \in Worker : worker'[w] = "dead" <=> worker[w] = "dead"
  BY <1>1, Zenon DEF DispatchTypeOK
<1>3. DispatchTypeOK'
  BY <1>1, Zenon DEF DispatchTypeOK
<1>4. DeliveredOnce'
  BY <1>1 DEF DeliveredOnce
<1>5. \A v \in Update : update[v] # "new" => target[v] \in Worker
  BY Zenon DEF DispatchTypeOK
<1>6. DeadHoldsNothing' /\ LostIsDead'
  BY <1>1, <1>2, <1>5, Zenon DEF DeadHoldsNothing, LostIsDead
<1>7. DeathHasCause'
  BY <1>1, <1>2, Zenon DEF DeathHasCause
<1>8. QED BY <1>3, <1>4, <1>6, <1>7, Zenon

\* A worker that dies takes with it what it was given, and nothing else.
LEMMA DeathInv ==
  ASSUME DispatchInv, NEW u \in Update, dies(u)
  PROVE  DispatchInv'
<1> USE DEF DispatchInv
<1> DEFINE w0 == target[u]
<1>1. /\ update[u] = "handled" /\ u \in Fatal /\ w0 \in Worker
      /\ worker' = [worker EXCEPT ![w0] = "dead"]
      /\ backlog' = [backlog EXCEPT ![w0] = <<>>]
      /\ update' = [v \in Update |-> IF v \in LostWith(w0) THEN "lost" ELSE update[v]]
      /\ UNCHANGED <<i, target, recent>>
  BY Zenon DEF dies, Handling, DispatchTypeOK
<1>2. \A w \in Worker : worker'[w] = IF w = w0 THEN "dead" ELSE worker[w]
  BY <1>1, Zenon DEF DispatchTypeOK
<1>3. \A w \in Worker : backlog'[w] = IF w = w0 THEN <<>> ELSE backlog[w]
  BY <1>1, Zenon DEF DispatchTypeOK
<1>4. \A v \in Update :
        update'[v] = IF target[v] = w0 /\ update[v] \in {"queued", "handled"}
                     THEN "lost" ELSE update[v]
  BY <1>1, Zenon DEF LostWith
<1>5. update'[u] = "lost"
  BY <1>1, <1>4, Zenon
<1>6. \A v \in Update : update[v] # "new" => target[v] \in Worker
  BY Zenon DEF DispatchTypeOK
<1>7. DispatchTypeOK'
  <2>1. backlog' \in [Worker -> Seq(Update)]
    BY <1>1 DEF DispatchTypeOK
  <2>2. update' \in [Update -> Progress]
    BY <1>1, Zenon DEF DispatchTypeOK, Progress
  <2>3. \A v \in Update : update'[v] # "new" => target'[v] \in Worker
    BY <1>1, <1>4, <1>6, Zenon
  <2>4. QED BY <1>1, <2>1, <2>2, <2>3, Zenon DEF DispatchTypeOK
<1>8. DeliveredOnce'
  <2> SUFFICES ASSUME NEW w \in Worker, NEW k \in 1..Len(backlog'[w])
               PROVE  /\ update'[backlog'[w][k]] = "queued" /\ target'[backlog'[w][k]] = w
                      /\ \A j \in 1..Len(backlog'[w]) : backlog'[w][j] = backlog'[w][k] => j = k
    BY Zenon DEF DeliveredOnce
  <2>1. w # w0 /\ backlog'[w] = backlog[w] /\ k \in 1..Len(backlog[w])
    BY <1>3
  <2>2. backlog[w] \in Seq(Update) /\ backlog[w][k] \in Update
    BY <2>1 DEF DispatchTypeOK
  <2>3. update[backlog[w][k]] = "queued" /\ target[backlog[w][k]] = w
        /\ \A j \in 1..Len(backlog[w]) : backlog[w][j] = backlog[w][k] => j = k
    BY <2>1, Zenon DEF DeliveredOnce
  <2>4. update'[backlog[w][k]] = "queued"
    BY <1>4, <2>1, <2>2, <2>3, Zenon
  <2>5. QED BY <1>1, <2>1, <2>3, <2>4, Zenon
<1>9. DeadHoldsNothing'
  <2> SUFFICES ASSUME NEW v \in Update, update'[v] \in {"queued", "handled"}
               PROVE  worker'[target[v]] # "dead"
    BY <1>1, Zenon DEF DeadHoldsNothing
  <2>1. update[v] = update'[v] /\ target[v] # w0
    BY <1>4, Zenon
  <2>2. target[v] \in Worker /\ worker[target[v]] # "dead"
    BY <1>6, <2>1, Zenon DEF DeadHoldsNothing
  <2>3. QED BY <1>2, <2>1, <2>2, Zenon
<1>10. DeathHasCause'
  <2> SUFFICES ASSUME NEW w \in Worker, worker'[w] = "dead"
               PROVE  \E v \in Fatal : update'[v] = "lost" /\ target[v] = w
    BY <1>1, Zenon DEF DeathHasCause
  <2>1. CASE w = w0
    BY <1>1, <1>5, <2>1, Zenon
  <2>2. CASE w # w0
    <3>1. PICK v \in Fatal : update[v] = "lost" /\ target[v] = w
      BY <1>2, <2>2, Zenon DEF DeathHasCause
    <3>2. QED BY <1>4, <3>1, Zenon
  <2>3. QED BY <2>1, <2>2, Zenon
<1>11. LostIsDead'
  <2> SUFFICES ASSUME NEW v \in Update, update'[v] = "lost"
               PROVE  worker'[target[v]] = "dead"
    BY <1>1, Zenon DEF LostIsDead
  <2>1. CASE target[v] = w0
    BY <1>1, <1>2, <2>1, Zenon
  <2>2. CASE target[v] # w0
    <3>1. update[v] = "lost"
      BY <1>4, <2>2, Zenon
    <3>2. target[v] \in Worker /\ worker[target[v]] = "dead"
      BY <1>6, <3>1, Zenon DEF LostIsDead
    <3>3. QED BY <1>2, <3>2, Zenon
  <2>3. QED BY <2>1, <2>2, Zenon
<1>12. QED BY <1>7, <1>8, <1>9, <1>10, <1>11, Zenon

\* Every step of master and workers keeps the inductive invariant.
LEMMA DispatchStep == DispatchInv /\ [DispatchNext]_dispatchVars => DispatchInv'
<1> SUFFICES ASSUME DispatchInv, [DispatchNext]_dispatchVars PROVE DispatchInv'
  BY Zenon
<1>1. ASSUME NEW u \in Update, Master(u) PROVE DispatchInv'
  <2>1. CASE conn_handler(u)
    BY <2>1, SendInv, Zenon DEF conn_handler
  <2>2. CASE connected(u)
    BY <2>2, ConnectedInv, Zenon
  <2>3. CASE connectFailed(u)
    BY <2>3, SendInv, Zenon DEF connectFailed
  <2>4. QED BY <1>1, <2>1, <2>2, <2>3, Zenon DEF Master
<1>2. ASSUME NEW u \in Update, Logger(u) PROVE DispatchInv'
  BY <1>2, HandlerInv, SpinInv, DeathInv, Zenon DEF Logger
<1>3. ASSUME NEW w \in Worker, accept(w) PROVE DispatchInv'
  BY <1>3, AcceptInv, Zenon
<1>4. CASE UNCHANGED dispatchVars
  BY <1>4 DEF dispatchVars, DispatchInv, DispatchTypeOK, DeliveredOnce, DeadHoldsNothing, DeathHasCause, LostIsDead
<1>5. QED BY <1>1, <1>2, <1>3, <1>4, Zenon DEF DispatchNext

\* The inductive invariant of the dispatch.
THEOREM DispatchInvariance == DispatchSpec => []DispatchInv
  BY DispatchInitially, DispatchStep, PTL DEF DispatchSpec

\* Types of the dispatch: the index never leaves the configured workers.
THEOREM TypeCorrect == DispatchSpec => []DispatchTypeOK
<1>1. DispatchInv => DispatchTypeOK
  BY Zenon DEF DispatchInv
<1>2. QED BY <1>1, DispatchInvariance, PTL

\* send_to_logger() delivers no update twice, however often it retries.
THEOREM OneDelivery == DispatchSpec => []DeliveredOnce
<1>1. DispatchInv => DeliveredOnce
  BY Zenon DEF DispatchInv
<1>2. QED BY <1>1, DispatchInvariance, PTL

\* The death of a worker loses what was given to that worker, nothing else.
THEOREM BoundedLoss == DispatchSpec => [](LossHasCause /\ DeadHoldsNothing)
<1>1. DispatchInv => LossHasCause /\ DeadHoldsNothing
  BY Zenon DEF DispatchInv, LossHasCause, DeathHasCause, LostIsDead, DeadHoldsNothing, DispatchTypeOK
<1>2. QED BY <1>1, DispatchInvariance, PTL
-----------------------------------------------------------------------------
\* The pick made d picks before p, counted back round the ring of workers.
Back(p, d) == IF p >= d THEN p - d ELSE p - d + nlogger

RoundInv ==
  /\ Len(recent) < nlogger
  /\ \A k \in 1..Len(recent) : recent[k] = Back(pick, Len(recent) + 1 - k)

\* send_data moves the ring on by one, whichever coroutine calls it.
LEMMA SendRound ==
  ASSUME DispatchTypeOK, RoundInv, NEW u, send_data(u)
  PROVE  RoundInv'
<1> DEFINE s == Append(recent, pick)
           n == Len(recent)
<1>1. recent \in Seq(Worker) /\ n \in Nat /\ n < nlogger /\ nlogger \in Nat \ {0}
  BY DEF DispatchTypeOK, RoundInv
<1>2. pick \in 0..(nlogger - 1)
  BY PickFacts, Zenon DEF Worker
<1>3. /\ s \in Seq(Worker) /\ Len(s) = n + 1
      /\ \A k \in 1..n : s[k] = recent[k]
      /\ s[n + 1] = pick
  <2>1. pick \in Worker
    BY PickFacts, Zenon
  <2>2. QED BY <1>1, <2>1, BacklogAppend
<1>4. pick' = IF pick + 1 >= nlogger THEN 0 ELSE pick + 1
  BY <1>2, Zenon DEF send_data, advance, pick
<1>5. n >= 1 \/ nlogger > 1 => Back(pick', 1) = pick
  BY <1>1, <1>2, <1>4 DEF Back
<1>6. \A d \in 2..(nlogger - 1) : Back(pick', d) = Back(pick, d - 1)
  BY <1>1, <1>2, <1>4 DEF Back
<1> HIDE DEF s
<1>7. recent' = SubSeq(s, IF Len(s) < nlogger THEN 1 ELSE 2, Len(s))
  BY Zenon DEF send_data, LastPicks, s
<1>8. CASE n + 1 < nlogger
  <2>1. recent' = SubSeq(s, 1, n + 1)
    BY <1>3, <1>7, <1>8, Zenon
  <2>2. Len(recent') = n + 1 /\ \A k \in 1..(n + 1) : recent'[k] = s[k]
    BY <1>1, <1>3, <2>1
  <2>3. ASSUME NEW k \in 1..(n + 1) PROVE recent'[k] = Back(pick', n + 2 - k)
    <3>1. CASE k = n + 1
      BY <1>1, <1>3, <1>5, <1>8, <2>2, <3>1
    <3>2. CASE k \in 1..n
      <4>1. recent'[k] = Back(pick, n + 1 - k)
        BY <1>3, <2>2, <3>2, Zenon DEF RoundInv
      <4>2. n + 2 - k \in 2..(nlogger - 1) /\ n + 2 - k - 1 = n + 1 - k
        BY <1>1, <1>8, <3>2
      <4>3. QED BY <1>6, <4>1, <4>2
    <3>3. QED BY <1>1, <3>1, <3>2
  <2>4. QED BY <1>1, <1>8, <2>2, <2>3 DEF RoundInv
<1>9. CASE ~ (n + 1 < nlogger)
  <2>1. n = nlogger - 1 /\ recent' = SubSeq(s, 2, n + 1)
    BY <1>1, <1>3, <1>7, <1>9
  <2>2. Len(recent') = n /\ \A k \in 1..n : recent'[k] = s[k + 1]
    BY <1>1, <1>3, <2>1
  <2>3. ASSUME NEW k \in 1..n PROVE recent'[k] = Back(pick', n + 1 - k)
    <3>1. CASE k = n
      BY <1>1, <1>3, <1>5, <2>2, <3>1
    <3>2. CASE k \in 1..(n - 1)
      <4>1. k + 1 \in 1..n /\ recent'[k] = recent[k + 1]
        BY <1>1, <1>3, <2>2, <3>2
      <4>2. recent[k + 1] = Back(pick, n + 1 - (k + 1))
        BY <4>1, Zenon DEF RoundInv
      <4>3. n + 1 - k \in 2..(nlogger - 1) /\ n + 1 - k - 1 = n + 1 - (k + 1)
        BY <1>1, <2>1, <3>2
      <4>4. QED BY <1>6, <4>1, <4>2, <4>3
    <3>3. QED BY <1>1, <3>1, <3>2
  <2>4. QED BY <1>1, <2>2, <2>3, Zenon DEF RoundInv
<1>10. QED BY <1>8, <1>9, Zenon

\* Whatever the coroutines of the master do in between, every worker has its turn
\* in each round of picks.
THEOREM TakesTurns == DispatchSpec => []RoundRobin
<1>1. DispatchInit => RoundInv
  BY DEF DispatchInit, RoundInv
<1>2. DispatchTypeOK /\ RoundInv /\ [DispatchNext]_dispatchVars => RoundInv'
  <2> SUFFICES ASSUME DispatchTypeOK, RoundInv, [DispatchNext]_dispatchVars PROVE RoundInv'
    BY Zenon
  <2>1. ASSUME NEW u, send_data(u) PROVE RoundInv'
    BY <2>1, SendRound, Zenon
  <2>2. CASE UNCHANGED <<i, recent>>
    BY <2>2, Zenon DEF RoundInv, Back, pick
  <2>3. QED
    BY <2>1, <2>2, Zenon DEF DispatchNext, Master, Logger, conn_handler, connected, connectFailed,
                      accept, logger_handler, spins, dies, dispatchVars
<1>3. DispatchTypeOK /\ RoundInv => RoundRobin
  <2> SUFFICES ASSUME DispatchTypeOK, RoundInv, NEW k \in 1..Len(recent) PROVE recent[k] # pick
    BY Zenon DEF RoundRobin
  <2>1. Len(recent) \in Nat /\ Len(recent) < nlogger
    BY DEF DispatchTypeOK, RoundInv
  <2>2. pick \in 0..(nlogger - 1)
    BY PickFacts, Zenon DEF Worker
  <2>3. recent[k] = Back(pick, Len(recent) + 1 - k)
    BY Zenon DEF RoundInv
  <2>4. QED BY <2>1, <2>2, <2>3 DEF Back
<1>4. QED BY <1>1, <1>2, <1>3, TypeCorrect, PTL DEF DispatchSpec

\* send_to_logger() takes turns, delivers once and loses only with cause, for any number of
\* updates and workers.
THEOREM DispatchIsSound == DispatchSpec => []DispatchSound
  BY TypeCorrect, TakesTurns, OneDelivery, BoundedLoss, PTL DEF DispatchSound

-----------------------------------------------------------------------------
\* One request on its way through the relay.

HIDE DispatchAssumption
USE RelayAssumption DEF Header

\* The length in the header: never more than the body's, and equal to it if it fits.
LEMMA ModFacts ==
  ASSUME NEW n \in Nat
  PROVE  /\ n % HeaderMod \in Nat
         /\ n % HeaderMod <= n
         /\ n < HeaderMod => n % HeaderMod = n
<1> DEFINE m == HeaderMod
<1>0. m \in Nat /\ m > 0
  BY Zenon
<1>1. n % m \in 0..(m - 1) /\ n = m * (n \div m) + (n % m) /\ n \div m \in Int
  BY <1>0
<1> HIDE DEF m
<1>2. QED
  BY <1>0, <1>1

\* Where each handler stands in its loop: the master leaves it once it has as many
\* bytes as the header names, the logger once it has as many after the header.
MasterAgrees ==
  /\ master = "first" => got = 0 /\ first = 0
  /\ master \in {"send", "done"} => ~ Unpacked(first, got)

LoggerAgrees ==
  /\ logger # "idle" => master = "done"
  /\ logger \in {"idle", "first"} => lgot = 0 /\ lfirst = 0
  /\ logger = "loop" => Unpacked(lfirst, lgot - Header)
  /\ logger = "reject" => ~ Unpacked(lfirst, lgot - Header) /\ ~ Decodes(lgot)

RelayInv == RelayTypeOK /\ MasterAgrees /\ LoggerAgrees

\* The inductive invariant holds before the webhook has sent anything.
LEMMA InitRelay == RelayInit => RelayInv
  BY DEF RelayInit, RelayInv, RelayTypeOK, MasterAgrees, LoggerAgrees

\* fread() returns at most what is waiting.
LEMMA ReadsFacts == \A m \in Nat : \A n \in Reads(m) : n \in 0..m
  BY DEF Reads

\* Every step of webhook, master and logger keeps the inductive invariant.
LEMMA StepRelay == RelayInv /\ [RelayNext]_relayVars => RelayInv'
<1> SUFFICES ASSUME RelayInv, [RelayNext]_relayVars PROVE RelayInv'
  BY Zenon
<1> USE DEF RelayInv
<1>t. /\ len \in Nat /\ sent \in Nat /\ got \in Nat /\ first \in Nat
      /\ lgot \in Nat /\ lfirst \in Nat
      /\ sent <= len + Header /\ got <= sent /\ first <= got /\ lgot <= got /\ lfirst <= lgot
  BY DEF RelayTypeOK
<1>1. CASE hookSends
  <2>1. PICK n \in Reads(len + Header - sent) : sent' = sent + n
    BY <1>1, Zenon DEF hookSends
  <2>2. n \in 0..(len + Header - sent)
    BY <1>t, <2>1, ReadsFacts
  <2>3. sent' \in sent..(len + Header)
    BY <1>t, <2>1, <2>2
  <2>4. QED
    BY <1>1, <1>t, <2>3
    DEF hookSends, masterVars, loggerVars, RelayTypeOK, MasterAgrees, LoggerAgrees, Unpacked, Decodes
<1>2. CASE hookDies
  BY <1>2, Zenon
    DEF hookDies, masterVars, loggerVars, RelayTypeOK, MasterAgrees, LoggerAgrees, Unpacked,
      Decodes
<1>3. CASE masterFirst
  <2>1. got' \in 0..sent /\ first' = got'
    <3>1. PICK n \in Reads(sent - got) : got' = n /\ first' = n
      BY <1>3, Zenon DEF masterFirst
    <3>2. n \in 0..(sent - got)
      BY <1>t, <3>1, ReadsFacts
    <3>3. QED BY <1>t, <3>1, <3>2
  <2>2. master' = IF Unpacked(first', got') THEN "loop" ELSE "send"
    BY <1>3, Zenon DEF masterFirst, Incomplete
  <2>3. UNCHANGED <<len, json, sent, hook, lgot, lfirst, logger>> /\ master = "first"
    BY <1>3, Zenon DEF masterFirst, hookVars, loggerVars
  <2>4. logger = "idle" /\ lgot = 0 /\ lfirst = 0
    BY <2>3, Zenon DEF RelayTypeOK, LoggerAgrees
  <2>5. RelayTypeOK'
    BY <1>t, <2>1, <2>2, <2>3, <2>4 DEF RelayTypeOK
  <2>6. MasterAgrees' /\ LoggerAgrees'
    BY <2>2, <2>3, <2>4, Zenon DEF MasterAgrees, LoggerAgrees, Unpacked
  <2>7. QED BY <2>5, <2>6, Zenon
<1>4. CASE masterLoop
  <2>1. got' \in got..sent /\ first' = first
    <3>1. PICK n \in Reads(sent - got) : got' = got + n
      BY <1>4, Zenon DEF masterLoop
    <3>2. n \in 0..(sent - got)
      BY <1>t, <3>1, ReadsFacts
    <3>3. QED BY <1>4, <1>t, <3>1, <3>2 DEF masterLoop
  <2>2. master' = IF Unpacked(first', got') THEN "loop" ELSE "send"
    BY <1>4, Zenon DEF masterLoop, Incomplete
  <2>3. UNCHANGED <<len, json, sent, hook, lgot, lfirst, logger>> /\ master = "loop"
    BY <1>4, Zenon DEF masterLoop, hookVars, loggerVars
  <2>4. logger = "idle" /\ lgot = 0 /\ lfirst = 0
    BY <2>3, Zenon DEF RelayTypeOK, LoggerAgrees
  <2>5. RelayTypeOK'
    BY <1>t, <2>1, <2>2, <2>3, <2>4 DEF RelayTypeOK
  <2>6. MasterAgrees' /\ LoggerAgrees'
    BY <2>2, <2>3, <2>4, Zenon DEF MasterAgrees, LoggerAgrees, Unpacked
  <2>7. QED BY <2>5, <2>6, Zenon
<1>5. CASE masterSends
  <2>1. logger = "idle" /\ lgot = 0 /\ lfirst = 0
    BY <1>5, Zenon DEF masterSends, RelayTypeOK, LoggerAgrees
  <2>2. hook' \in {"gone", "200", "500"}
    BY <1>5, Zenon DEF masterSends, Answers
  <2>3. RelayTypeOK'
    BY <1>5, <2>2, Zenon DEF masterSends, RelayTypeOK
  <2>4. MasterAgrees' /\ LoggerAgrees'
    BY <1>5, <2>1, Zenon DEF masterSends, MasterAgrees, LoggerAgrees, Unpacked
  <2>5. QED BY <2>3, <2>4, Zenon
<1>6. CASE loggerFirst
  <2>1. lgot' \in 0..got /\ lfirst' = lgot'
    <3>1. PICK n \in Reads(got) : lgot' = n /\ lfirst' = n
      BY <1>6, Zenon DEF loggerFirst
    <3>2. QED BY <1>t, <3>1, ReadsFacts, Zenon
  <2>2. logger' = IF Unpacked(lfirst', lgot' - Header) THEN "loop"
                  ELSE IF Decodes(lgot') THEN "run" ELSE "reject"
    BY <1>6, Zenon DEF loggerFirst, LoggerIncomplete
  <2>3. UNCHANGED <<len, json, sent, hook, got, first, master>> /\ logger = "first"
    BY <1>6, Zenon DEF loggerFirst, hookVars, masterVars
  <2>4. RelayTypeOK'
    BY <1>t, <2>1, <2>2, <2>3 DEF RelayTypeOK
  <2>5. MasterAgrees' /\ LoggerAgrees'
    BY <2>2, <2>3, Zenon DEF MasterAgrees, LoggerAgrees, Unpacked, Decodes
  <2>6. QED BY <2>4, <2>5, Zenon
<1>7. CASE loggerLoop
  <2>1. lgot' \in lgot..got /\ lfirst' = lfirst
    <3>1. PICK n \in Reads(got - lgot) : lgot' = lgot + n
      BY <1>7, Zenon DEF loggerLoop
    <3>2. n \in 0..(got - lgot)
      BY <1>t, <3>1, ReadsFacts
    <3>3. QED BY <1>7, <1>t, <3>1, <3>2 DEF loggerLoop
  <2>2. logger' = IF Unpacked(lfirst', lgot' - Header) THEN "loop"
                  ELSE IF Decodes(lgot') THEN "run" ELSE "reject"
    BY <1>7, Zenon DEF loggerLoop, LoggerIncomplete
  <2>3. UNCHANGED <<len, json, sent, hook, got, first, master>> /\ logger = "loop"
    BY <1>7, Zenon DEF loggerLoop, hookVars, masterVars
  <2>4. RelayTypeOK'
    BY <1>t, <2>1, <2>2, <2>3 DEF RelayTypeOK
  <2>5. MasterAgrees' /\ LoggerAgrees'
    BY <2>2, <2>3, Zenon DEF MasterAgrees, LoggerAgrees, Unpacked, Decodes
  <2>6. QED BY <2>4, <2>5, Zenon
<1>8. CASE UNCHANGED relayVars
  BY <1>8, Zenon DEF relayVars, RelayTypeOK, MasterAgrees, LoggerAgrees, Unpacked, Decodes
<1>9. QED BY <1>1, <1>2, <1>3, <1>4, <1>5, <1>6, <1>7, <1>8, Zenon DEF RelayNext

\* The inductive invariant of the relay, and with it its types: no handler reads what
\* was not sent to it.
THEOREM RelayInvariance == RelaySpec => []RelayInv
  BY InitRelay, StepRelay, PTL DEF RelaySpec

\* Types of the relay's state.
THEOREM RelayTypeCorrect == RelaySpec => []RelayTypeOK
<1>1. RelayInv => RelayTypeOK
  BY Zenon DEF RelayInv
<1>2. QED BY <1>1, RelayInvariance, PTL

\* For every body that fits the header, conn_handler() stops at most the header's two
\* bytes early.
THEOREM HeaderShort == RelaySpec => []AtMostHeaderShort
<1>1. RelayInv => AtMostHeaderShort
  <2> SUFFICES ASSUME RelayInv, master \in {"send", "done"}, Framed PROVE got >= len
    BY Zenon DEF AtMostHeaderShort
  <2>1. len \in Nat /\ got \in Nat
    BY DEF RelayInv, RelayTypeOK
  <2>2. len % HeaderMod = len
    BY <2>1, ModFacts, Zenon DEF Framed
  <2>3. ~ (len > got)
    BY <2>2, Zenon DEF RelayInv, MasterAgrees, Unpacked, Framed
  <2>4. QED BY <2>1, <2>3
<1>2. QED BY <1>1, RelayInvariance, PTL

\* logger_handler() can wait for ever only if the master forwarded too little.
THEOREM SpinsIfShort == RelaySpec => []SpinOnlyIfShort
<1>1. RelayInv => SpinOnlyIfShort
  <2> SUFFICES ASSUME RelayInv, logger = "loop", lgot = got PROVE got < len + Header
    BY Zenon DEF SpinOnlyIfShort
  <2>1. len \in Nat /\ got \in Nat
    BY DEF RelayInv, RelayTypeOK
  <2>2. len % HeaderMod \in Nat /\ len % HeaderMod <= len
    BY <2>1, ModFacts, Zenon
  <2>3. len % HeaderMod > got - Header
    BY Zenon DEF RelayInv, LoggerAgrees, Unpacked
  <2>4. QED BY <2>1, <2>2, <2>3
<1>2. QED BY <1>1, RelayInvariance, PTL

\* logger_handler() rejects no JSON update that was forwarded whole, if the first read
\* holds the header and the length fits it.
THEOREM AcceptsWhole == RelaySpec => []WholeIsAccepted
<1>1. RelayInv => WholeIsAccepted
  <2> SUFFICES ASSUME RelayInv, logger = "reject", json, got = len + Header,
                      lfirst >= Header, len < HeaderMod
               PROVE  FALSE
    BY DEF WholeIsAccepted, RelayInv, RelayTypeOK
  <2>1. len \in Nat /\ got \in Nat /\ lgot \in Nat /\ lgot <= got
    BY DEF RelayInv, RelayTypeOK
  <2>2. len % HeaderMod = len
    BY <2>1, ModFacts, Zenon
  <2>3. ~ (len > lgot - Header) /\ ~ (lgot - Header = len)
    BY <2>2, Zenon DEF RelayInv, LoggerAgrees, Unpacked, Decodes
  <2>4. QED BY <2>1, <2>3
<1>2. QED BY <1>1, RelayInvariance, PTL

\* What the relay may do to one request, for any length, read size and header width.
THEOREM RelayIsSound == RelaySpec => []RelaySound
  BY RelayTypeCorrect, HeaderShort, SpinsIfShort, AcceptsWhole, PTL DEF RelaySound
=============================================================================
