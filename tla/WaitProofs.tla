----------------------------- MODULE WaitProofs -----------------------------
(***************************************************************************)
(* What the event loop promises to coroutines that wait: proofs of         *)
(* WaitsArePrivate and of ChildrenReported, for any number of coroutines,  *)
(* children and calls.                                                     *)
(***************************************************************************)
EXTENDS CoWait, WaitPid, Integers, TLAPS

\* What push_back() adds to a list.
LEMMA AppendQueue ==
  ASSUME NEW S, NEW q \in Seq(S), NEW c \in S
  PROVE  /\ Append(q, c) \in Seq(S)
         /\ Append(q, c) # <<>>
         /\ Member(Append(q, c)) = Member(q) \cup {c}
         /\ NoRepeat(q) /\ c \notin Member(q) => NoRepeat(Append(q, c))
<1> DEFINE r == Append(q, c)
<1>1. /\ r \in Seq(S) /\ Len(r) = Len(q) + 1 /\ r[Len(q) + 1] = c
      /\ \A i \in 1..Len(q) : r[i] = q[i]
      /\ Len(q) \in Nat
  OBVIOUS
<1>2. r # <<>>
  BY <1>1
<1> HIDE DEF r
<1>3. Member(r) = Member(q) \cup {c}
  BY <1>1 DEF Member
<1>4. ASSUME NoRepeat(q), c \notin Member(q) PROVE NoRepeat(r)
  BY <1>1, <1>4 DEF NoRepeat, Member
<1> QED
  BY <1>1, <1>2, <1>3, <1>4, Zenon DEF r

\* What pop_front() takes from a list.
LEMMA TailQueue ==
  ASSUME NEW S, NEW q \in Seq(S), q # <<>>, NoRepeat(q)
  PROVE  /\ Tail(q) \in Seq(S)
         /\ Head(q) \in Member(q)
         /\ Member(Tail(q)) = Member(q) \ {Head(q)}
         /\ NoRepeat(Tail(q))
<1> DEFINE r == Tail(q)
<1>1. /\ r \in Seq(S) /\ Len(q) \in Nat \ {0} /\ Len(r) = Len(q) - 1 /\ Head(q) = q[1]
      /\ \A i \in 1..Len(r) : r[i] = q[i + 1]
  OBVIOUS
<1> HIDE DEF r
<1>2. Head(q) \in Member(q)
  BY <1>1 DEF Member
<1>3. NoRepeat(r)
  <2> SUFFICES ASSUME NEW i \in 1..Len(r), NEW j \in 1..Len(r), r[i] = r[j] PROVE i = j
    BY Zenon DEF NoRepeat
  <2>1. i + 1 \in 1..Len(q) /\ j + 1 \in 1..Len(q) /\ q[i + 1] = q[j + 1]
    BY <1>1
  <2> QED
    BY <2>1, <1>1 DEF NoRepeat
<1>4. ASSUME NEW x \in Member(r) PROVE x \in Member(q) /\ x # Head(q)
  <2>1. PICK i \in 1..Len(r) : x = r[i]
    BY <1>4, Zenon DEF Member
  <2>2. i + 1 \in 1..Len(q) /\ 1 \in 1..Len(q) /\ x = q[i + 1] /\ i + 1 # 1
    BY <2>1, <1>1
  <2> QED
    BY <2>2, <1>1, Zenon DEF NoRepeat, Member
<1>5. ASSUME NEW x \in Member(q), x # Head(q) PROVE x \in Member(r)
  <2>1. PICK i \in 1..Len(q) : x = q[i]
    BY <1>5, Zenon DEF Member
  <2>2. i - 1 \in 1..Len(r) /\ r[i - 1] = q[i]
    BY <2>1, <1>1, <1>5
  <2> QED
    BY <2>1, <2>2, Zenon DEF Member
<1> QED
  BY <1>1, <1>2, <1>3, <1>4, <1>5, Zenon DEF r

-----------------------------------------------------------------------------
\* sleep(), socket_poll(), wait_event() and the calls that a thread does.

Live(w) == op[w[1]] # "idle" /\ w = Wait(w[1])

\* A deferred task is there once, for a wait that has begun.  That of socket_poll() is for a
\* wait that still lasts and that its timer does not end; that of wait_event() may be too late.
TasksKept ==
  /\ NoRepeat(tasks) /\ Member(tasks) \subseteq fired
  /\ \A w \in Member(tasks) :
       /\ w[2] <= wait_n[w[1]]
       /\ w[3] \in {"poll", "event"}
       /\ stale = NoWakeup /\ w[3] = "poll" => Live(w) /\ w \notin timers

\* Threads have the calls of async(), and the reactor the sockets of the other two.
AsyncOnly ==
  /\ \A w \in threads : w[3] = "async"
  /\ \A w \in watched : w[3] \in {"poll", "event"}

WaitInv == WaitTypeOK /\ OnlyOwnWakeups /\ NothingLeft /\ TasksKept /\ AsyncOnly

\* At the start nobody waits.
LEMMA InitWait == WaitInit => WaitInv
<1> SUFFICES ASSUME WaitInit PROVE WaitInv
  BY Zenon
<1> USE CoWaitAssumption DEF CoWaitAssumption
<1>1. WaitTypeOK
  <2>1. 0 \in 0..MaxWaits /\ <<>> \in Seq(Wakeup)
    OBVIOUS
  <2> QED
    BY <2>1, Zenon DEF WaitInit, WaitTypeOK, Ops
<1>2. OnlyOwnWakeups /\ NothingLeft /\ TasksKept /\ AsyncOnly
  BY DEF WaitInit, OnlyOwnWakeups, NothingLeft, TasksKept, AsyncOnly, Member, NoRepeat
<1> QED
  BY <1>1, <1>2, Zenon DEF WaitInv

\* What a coroutine that ends a wait, or is in none, registers next is for a new wait,
\* and the waits of the others go on.
LEMMA GoesOn ==
  ASSUME WaitTypeOK, NEW c \in Waiters, NEW ts \in SUBSET Wakeup, NEW ws \in SUBSET Wakeup,
         NEW ths \in SUBSET Wakeup, Goes(c, ts, ws, ths),
         \A w \in ths : w[3] = "async", \A w \in ws : w[3] \in {"poll", "event"}
  PROVE  /\ op' \in [Waiters -> Ops \cup {"idle"}] /\ wait_n' \in [Waiters -> 0..MaxWaits]
         /\ wait_timed' \in [Waiters -> BOOLEAN]
         /\ timers' \subseteq Wakeup /\ watched' \subseteq Wakeup /\ threads' \subseteq Wakeup
         /\ ths \subseteq threads'
         /\ \A w \in threads' : w[3] = "async"
         /\ \A w \in watched' : w[3] \in {"poll", "event"}
         /\ \A w \in timers' : w \in ts \/ (Live(w)' /\ w[1] = c /\ w[2] = wait_n[c] + 1)
         /\ \A w \in watched' : w \in ws \/ Live(w)'
         /\ \A w \in threads' : w \in ths \/ Live(w)'
         /\ \A w \in Wakeup : Live(w) /\ w[1] # c => Live(w)'
         /\ \A d \in Waiters : wait_n[d] <= wait_n'[d]
<1> USE CoWaitAssumption DEF CoWaitAssumption
<1>0. /\ op \in [Waiters -> Ops \cup {"idle"}] /\ wait_n \in [Waiters -> 0..MaxWaits]
      /\ wait_timed \in [Waiters -> BOOLEAN]
      /\ wait_n[c] \in 0..MaxWaits /\ \A d \in Waiters : wait_n[d] \in Nat
  BY DEF WaitTypeOK
<1>1. ASSUME \A d \in Waiters : d # c => op'[d] = op[d] /\ wait_n'[d] = wait_n[d]
      PROVE  \A w \in Wakeup : Live(w) /\ w[1] # c => Live(w)'
  <2>1. \A w \in Wakeup : w[1] \in Waiters
    BY Zenon DEF Wakeup
  <2> QED
    BY <1>1, <2>1, Zenon DEF Live, Wait
<1>2. CASE /\ op' = [op EXCEPT ![c] = "idle"] /\ UNCHANGED <<wait_n, wait_timed>>
           /\ timers' = ts /\ watched' = ws /\ threads' = ths
  <2>1. \A d \in Waiters : d # c => op'[d] = op[d] /\ wait_n'[d] = wait_n[d]
    BY <1>0, <1>2, Zenon
  <2>2. \A d \in Waiters : wait_n[d] <= wait_n'[d]
    BY <1>0, <1>2
  <2>3. op' \in [Waiters -> Ops \cup {"idle"}] /\ wait_n' \in [Waiters -> 0..MaxWaits] /\ wait_timed' \in [Waiters -> BOOLEAN]
    BY <1>0, <1>2, Zenon
  <2> QED
    BY <1>1, <1>2, <2>1, <2>2, <2>3, Zenon
<1>3. ASSUME NEW o \in Ops, NEW t \in BOOLEAN, NEW k, k = wait_n[c] + 1,
             wait_n[c] < MaxWaits,
             op' = [op EXCEPT ![c] = o],
             wait_n' = [wait_n EXCEPT ![c] = @ + 1],
             wait_timed' = [wait_timed EXCEPT ![c] = t],
             timers' = IF t THEN ts \cup {<<c, k, o>>} ELSE ts,
             watched' = IF o \in {"poll", "event"} THEN ws \cup {<<c, k, o>>} ELSE ws,
             threads' = IF o = "async" THEN ths \cup {<<c, k, o>>} ELSE ths
      PROVE  /\ op' \in [Waiters -> Ops \cup {"idle"}] /\ wait_n' \in [Waiters -> 0..MaxWaits]
             /\ wait_timed' \in [Waiters -> BOOLEAN]
             /\ timers' \subseteq Wakeup /\ watched' \subseteq Wakeup
             /\ threads' \subseteq Wakeup
             /\ ths \subseteq threads'
             /\ \A w \in threads' : w[3] = "async"
             /\ \A w \in watched' : w[3] \in {"poll", "event"}
             /\ \A w \in timers' : w \in ts \/ (Live(w)' /\ w[1] = c /\ w[2] = wait_n[c] + 1)
             /\ \A w \in watched' : w \in ws \/ Live(w)'
             /\ \A w \in threads' : w \in ths \/ Live(w)'
             /\ \A w \in Wakeup : Live(w) /\ w[1] # c => Live(w)'
             /\ \A d \in Waiters : wait_n[d] <= wait_n'[d]
  <2> DEFINE x == <<c, k, o>>
  <2>2. k \in 1..MaxWaits /\ k \in 0..MaxWaits /\ wait_n[c] <= k
    BY <1>0, <1>3
  <2>3. x \in Wakeup /\ x[1] = c /\ x[2] = k /\ x[3] = o
    BY <2>2, Zenon DEF Wakeup
  <2>4. /\ op'[c] = o /\ wait_n'[c] = k
        /\ \A d \in Waiters : d # c => op'[d] = op[d] /\ wait_n'[d] = wait_n[d]
        /\ op' \in [Waiters -> Ops \cup {"idle"}] /\ wait_n' \in [Waiters -> 0..MaxWaits]
        /\ wait_timed' \in [Waiters -> BOOLEAN]
    BY <1>0, <1>3, <2>2, Zenon
  <2>5. o # "idle"
    BY Zenon DEF Ops
  <2>7. Live(x)'
    BY <2>3, <2>4, <2>5, Zenon DEF Live, Wait
  <2> HIDE DEF x
  <2>8. /\ timers' \in {ts, ts \cup {x}} /\ watched' \in {ws, ws \cup {x}}
        /\ threads' \in {ths, ths \cup {x}}
        /\ o # "async" => threads' = ths
        /\ o \notin {"poll", "event"} => watched' = ws
    BY <1>3, Zenon DEF x
  <2>9. \A d \in Waiters : wait_n[d] <= wait_n'[d]
    BY <1>0, <2>2, <2>4
  <2>10. timers' \subseteq Wakeup /\ watched' \subseteq Wakeup /\ threads' \subseteq Wakeup
    BY <2>3, <2>8, Zenon
  <2>11. /\ \A w \in threads' : w[3] = "async"
         /\ \A w \in watched' : w[3] \in {"poll", "event"}
         /\ ths \subseteq threads'
    BY <2>3, <2>8, Zenon
  <2>12. /\ \A w \in timers' : w = x \/ w \in ts
         /\ \A w \in watched' : w = x \/ w \in ws
         /\ \A w \in threads' : w = x \/ w \in ths
    BY <2>8, Zenon
  <2>13. /\ \A w \in timers' : w \in ts \/ (Live(w)' /\ w[1] = c /\ w[2] = wait_n[c] + 1)
         /\ \A w \in watched' : w \in ws \/ Live(w)'
         /\ \A w \in threads' : w \in ths \/ Live(w)'
    BY <1>3, <2>3, <2>7, <2>12, Zenon
  <2>14. \A w \in Wakeup : Live(w) /\ w[1] # c => Live(w)'
    BY <1>1, <2>4, Zenon
  <2> QED
    BY <2>4, <2>9, <2>10, <2>11, <2>13, <2>14, Zenon
<1>4. CASE \E o \in Ops, t \in BOOLEAN :
       LET w == <<c, wait_n[c] + 1, o>>
           With(set, b) == IF b THEN set \cup {w} ELSE set
       IN  /\ wait_n[c] < MaxWaits /\ (o = "sleep" => t)
           /\ op' = [op EXCEPT ![c] = o]
           /\ wait_n' = [wait_n EXCEPT ![c] = @ + 1]
           /\ wait_timed' = [wait_timed EXCEPT ![c] = t]
           /\ timers' = With(ts, t)
           /\ watched' = With(ws, o \in {"poll", "event"})
           /\ threads' = With(ths, o = "async")
  BY <1>3, <1>4, Zenon
<1> QED
  BY <1>2, <1>4, Zenon DEF Goes

\* A wait that lasts is ended, and its coroutine goes on.
LEMMA ResumeLive ==
  ASSUME WaitInv, stale = NoWakeup, NEW w \in Wakeup, Live(w), NEW ths, wait_resume(w, ths),
         ths \subseteq threads, canceled \subseteq canceled', canceled' \subseteq ths,
         w \in ths => w \in canceled',
         tasks' \in Seq(Wakeup), NoRepeat(tasks'), Member(tasks') \subseteq Member(tasks),
         Member(tasks') \subseteq fired', fired' \subseteq Wakeup,
         w[3] = "poll" => w \notin Member(tasks'),
         phase' = phase
  PROVE  WaitInv'
<1> USE CoWaitAssumption DEF CoWaitAssumption
<1> DEFINE c == w[1]
<1>0. WaitTypeOK /\ OnlyOwnWakeups /\ NothingLeft /\ TasksKept /\ AsyncOnly
  BY Zenon DEF WaitInv
<1>1. c \in Waiters /\ op[c] # "idle" /\ w = Wait(c)
  BY Zenon DEF Wakeup, Live
<1>2. Goes(c, timers \ {w}, watched \ {w}, ths) /\ stale' = stale
  BY <1>1, Zenon DEF wait_resume
<1>3. ASSUME NEW v \in Wakeup, Live(v), v # w PROVE v[1] # c
  BY <1>1, <1>3, Zenon DEF Live
<1>4. \A v \in (timers \ {w}) \cup (watched \ {w}) \cup (ths \ canceled') : Live(v) /\ v[1] # c
  <2> SUFFICES ASSUME NEW v \in (timers \ {w}) \cup (watched \ {w}) \cup (ths \ canceled')
               PROVE  Live(v) /\ v[1] # c
    BY Zenon
  <2>1. v \in Wakeup /\ v # w /\ v \in timers \cup watched \cup (threads \ canceled)
    BY <1>0, Zenon DEF WaitTypeOK
  <2>2. Live(v)
    BY <2>1, <1>0, Zenon DEF NothingLeft, Live
  <2> QED
    BY <2>1, <2>2, <1>3, Zenon
<1>5. /\ timers \ {w} \in SUBSET Wakeup /\ watched \ {w} \in SUBSET Wakeup
      /\ ths \in SUBSET Wakeup
      /\ \A v \in ths : v[3] = "async"
      /\ \A v \in watched \ {w} : v[3] \in {"poll", "event"}
  BY <1>0, Zenon DEF WaitTypeOK, AsyncOnly
<1> HIDE DEF c
<1>6. /\ op' \in [Waiters -> Ops \cup {"idle"}] /\ wait_n' \in [Waiters -> 0..MaxWaits]
      /\ wait_timed' \in [Waiters -> BOOLEAN]
      /\ timers' \subseteq Wakeup /\ watched' \subseteq Wakeup /\ threads' \subseteq Wakeup
      /\ ths \subseteq threads'
      /\ \A v \in threads' : v[3] = "async"
      /\ \A v \in watched' : v[3] \in {"poll", "event"}
      /\ \A v \in timers' : v \in timers \ {w} \/ (Live(v)' /\ v[1] = c /\ v[2] = wait_n[c] + 1)
      /\ \A v \in watched' : v \in watched \ {w} \/ Live(v)'
      /\ \A v \in threads' : v \in ths \/ Live(v)'
      /\ \A v \in Wakeup : Live(v) /\ v[1] # c => Live(v)'
      /\ \A d \in Waiters : wait_n[d] <= wait_n'[d]
  <2>1. PICK ts \in SUBSET Wakeup, ws \in SUBSET Wakeup : ts = timers \ {w} /\ ws = watched \ {w}
    BY <1>5, Zenon
  <2>2. Goes(c, ts, ws, ths) /\ \A v \in ws : v[3] \in {"poll", "event"}
    BY <1>2, <1>5, <2>1, Zenon
  <2> QED
    BY <1>0, <1>1, <1>5, <2>1, <2>2, GoesOn, Zenon
<1>7. WaitTypeOK'
  BY <1>0, <1>6, Zenon DEF WaitTypeOK
<1>8. OnlyOwnWakeups' /\ AsyncOnly'
  BY <1>2, <1>6, Zenon DEF OnlyOwnWakeups, AsyncOnly
<1>9. NothingLeft'
  <2>1. \A v \in timers' \cup watched' \cup (threads' \ canceled') : v \in Wakeup /\ Live(v)'
    BY <1>4, <1>5, <1>6, Zenon
  <2> QED
    BY <2>1, Zenon DEF NothingLeft, Live
<1>10. TasksKept'
  <2> SUFFICES ASSUME NEW v \in Member(tasks')
               PROVE  /\ v[2] <= wait_n'[v[1]] /\ v[3] \in {"poll", "event"}
                      /\ v[3] = "poll" => Live(v)' /\ v \notin timers'
    BY Zenon DEF TasksKept
  <2>1. v \in Wakeup /\ v[1] \in Waiters /\ v[2] \in Nat
    <3>1. v \in Wakeup
      BY Zenon DEF Member
    <3> QED
      BY <3>1 DEF Wakeup
  <2>2. /\ v[2] <= wait_n[v[1]] /\ v[3] \in {"poll", "event"}
        /\ v[3] = "poll" => Live(v) /\ v \notin timers
    BY <1>0, Zenon DEF TasksKept
  <2>3. wait_n[v[1]] \in Nat /\ wait_n'[v[1]] \in Nat /\ wait_n[v[1]] <= wait_n'[v[1]]
    BY <1>0, <1>6, <2>1 DEF WaitTypeOK
  <2>4. v[2] <= wait_n'[v[1]]
    BY <2>1, <2>2, <2>3
  <2>5. ASSUME v[3] = "poll" PROVE Live(v)' /\ v \notin timers'
    <3>1. Live(v) /\ v \notin timers /\ v # w
      BY <2>2, <2>5, Zenon
    <3>2. v[1] # c
      BY <2>1, <3>1, <1>3, Zenon
    <3> QED
      BY <2>1, <3>1, <3>2, <1>6, Zenon
  <2> QED
    BY <2>2, <2>4, <2>5, Zenon
<1> QED
  BY <1>7, <1>8, <1>9, <1>10, Zenon DEF WaitInv

\* A call that begins to wait keeps the invariant;
LEMMA BeginWait == ASSUME WaitInv, NEW c \in Waiters, begin(c) PROVE WaitInv'
<1> USE CoWaitAssumption DEF CoWaitAssumption
<1>0. WaitTypeOK /\ OnlyOwnWakeups /\ NothingLeft /\ TasksKept /\ AsyncOnly
  BY Zenon DEF WaitInv
<1>1. /\ stale = NoWakeup /\ op[c] = "idle" /\ Goes(c, timers, watched, threads)
      /\ UNCHANGED <<phase, fired, tasks, canceled, stale>>
  BY Zenon DEF begin
<1>2. \A v \in timers \cup watched \cup (threads \ canceled) : Live(v) /\ v[1] # c
  BY <1>0, <1>1, Zenon DEF NothingLeft, Live
<1>3. /\ timers \subseteq Wakeup /\ watched \subseteq Wakeup /\ threads \subseteq Wakeup
      /\ \A v \in threads : v[3] = "async"
      /\ \A v \in watched : v[3] \in {"poll", "event"}
  BY <1>0, Zenon DEF WaitTypeOK, AsyncOnly
<1>6. /\ op' \in [Waiters -> Ops \cup {"idle"}] /\ wait_n' \in [Waiters -> 0..MaxWaits]
      /\ wait_timed' \in [Waiters -> BOOLEAN]
      /\ timers' \subseteq Wakeup /\ watched' \subseteq Wakeup /\ threads' \subseteq Wakeup
      /\ threads \subseteq threads'
      /\ \A v \in threads' : v[3] = "async"
      /\ \A v \in watched' : v[3] \in {"poll", "event"}
      /\ \A v \in timers' : v \in timers \/ (Live(v)' /\ v[1] = c /\ v[2] = wait_n[c] + 1)
      /\ \A v \in watched' : v \in watched \/ Live(v)'
      /\ \A v \in threads' : v \in threads \/ Live(v)'
      /\ \A v \in Wakeup : Live(v) /\ v[1] # c => Live(v)'
      /\ \A d \in Waiters : wait_n[d] <= wait_n'[d]
  BY <1>0, <1>1, <1>3, GoesOn, Zenon
<1>7. WaitTypeOK'
  BY <1>0, <1>1, <1>6, Zenon DEF WaitTypeOK
<1>8. OnlyOwnWakeups' /\ AsyncOnly'
  BY <1>1, <1>6, Zenon DEF OnlyOwnWakeups, AsyncOnly
<1>9. NothingLeft'
  <2>1. \A v \in timers' \cup watched' \cup (threads' \ canceled') : v \in Wakeup /\ Live(v)'
    BY <1>1, <1>2, <1>3, <1>6, Zenon
  <2> QED
    BY <2>1, Zenon DEF NothingLeft, Live
<1>10. TasksKept'
  <2> SUFFICES ASSUME NEW v \in Member(tasks)
               PROVE  /\ v[2] <= wait_n'[v[1]] /\ v[3] \in {"poll", "event"}
                      /\ v[3] = "poll" => Live(v)' /\ v \notin timers'
    BY <1>0, <1>1, Zenon DEF TasksKept
  <2>1. v \in Wakeup /\ v[1] \in Waiters /\ v[2] \in Nat
    <3>1. v \in Wakeup
      BY <1>0 DEF Member, WaitTypeOK
    <3> QED
      BY <3>1 DEF Wakeup
  <2>2. /\ v[2] <= wait_n[v[1]] /\ v[3] \in {"poll", "event"}
        /\ v[3] = "poll" => Live(v) /\ v \notin timers
    BY <1>0, <1>1, Zenon DEF TasksKept
  <2>3. wait_n[v[1]] \in Nat /\ wait_n'[v[1]] \in Nat /\ wait_n[v[1]] <= wait_n'[v[1]]
    BY <1>0, <1>6, <2>1 DEF WaitTypeOK
  <2>4. v[2] <= wait_n'[v[1]]
    BY <2>1, <2>2, <2>3
  <2>5. ASSUME v[3] = "poll" PROVE Live(v)' /\ v \notin timers'
    <3>1. Live(v) /\ v \notin timers
      BY <2>2, <2>5, Zenon
    <3>2. v[1] # c
      BY <3>1, <1>1, Zenon DEF Live
    <3> QED
      BY <2>1, <3>1, <3>2, <1>6, Zenon
  <2> QED
    BY <2>2, <2>4, <2>5, Zenon
<1> QED
  BY <1>7, <1>8, <1>9, <1>10, Zenon DEF WaitInv

\* so does an event that ends a wait,
LEMMA EventWait == ASSUME WaitInv, NEW c \in Waiters, on_event(c) PROVE WaitInv'
<1> USE CoWaitAssumption DEF CoWaitAssumption
<1> DEFINE w == Wait(c)
<1>0. WaitTypeOK /\ OnlyOwnWakeups /\ NothingLeft /\ TasksKept /\ AsyncOnly
  BY Zenon DEF WaitInv
<1>1. /\ stale = NoWakeup /\ w \in watched \ fired /\ tasks' = Append(tasks, w)
      /\ fired' = fired \cup {w}
      /\ timers' = IF op[c] = "poll" THEN timers \ {w} ELSE timers
      /\ UNCHANGED <<phase, op, wait_n, wait_timed, watched, threads, canceled, stale>>
  BY Zenon DEF on_event, socket_poll_trigger_event, event_waiter_callback, Defers
<1>2. w \in Wakeup /\ w[1] = c /\ w[2] = wait_n[c] /\ w[3] = op[c] /\ tasks \in Seq(Wakeup)
  BY <1>0, <1>1, Zenon DEF WaitTypeOK, Wait
<1>3. w \notin Member(tasks)
  BY <1>0, <1>1, Zenon DEF TasksKept
<1>4. /\ tasks' \in Seq(Wakeup) /\ Member(tasks') = Member(tasks) \cup {w} /\ NoRepeat(tasks')
  BY <1>0, <1>1, <1>2, <1>3, AppendQueue DEF TasksKept
<1>5. op[c] # "idle" /\ Live(w)
  BY <1>0, <1>1, <1>2, Zenon DEF NothingLeft, Live
<1>6. op[c] \in {"poll", "event"}
  <2>1. w[3] \in {"poll", "event"}
    BY <1>0, <1>1, Zenon DEF AsyncOnly
  <2> QED
    BY <1>2, <2>1, Zenon
<1>7. WaitTypeOK'
  BY <1>0, <1>1, <1>2, <1>4, Zenon DEF WaitTypeOK
<1>8. OnlyOwnWakeups' /\ AsyncOnly' /\ NothingLeft'
  BY <1>0, <1>1, Zenon DEF OnlyOwnWakeups, AsyncOnly, NothingLeft, Wait
<1>9. TasksKept'
  <2>1. wait_n[c] \in Nat /\ wait_n[c] <= wait_n[c]
    BY <1>0 DEF WaitTypeOK
  <2>2. ASSUME NEW v \in Member(tasks')
        PROVE  /\ v[2] <= wait_n'[v[1]] /\ v[3] \in {"poll", "event"}
               /\ v[3] = "poll" => Live(v)' /\ v \notin timers'
    <3>1. CASE v = w
      BY <3>1, <2>1, <1>1, <1>2, <1>5, <1>6, Zenon DEF Live, Wait
    <3>2. CASE v \in Member(tasks)
      BY <3>2, <1>0, <1>1, Zenon DEF TasksKept, Live, Wait
    <3> QED
      BY <3>1, <3>2, <1>4, Zenon
  <2> QED
    BY <2>2, <1>0, <1>1, <1>4, Zenon DEF TasksKept
<1> QED
  BY <1>7, <1>8, <1>9, Zenon DEF WaitInv

\* a thread that has done its work,
LEMMA CompletedWait == ASSUME WaitInv, NEW w \in Wakeup, on_completed(w) PROVE WaitInv'
<1>0. WaitTypeOK /\ OnlyOwnWakeups /\ NothingLeft /\ TasksKept /\ AsyncOnly
  BY Zenon DEF WaitInv
<1>1. stale = NoWakeup /\ w \in threads /\ async_task_completed(w) /\ UNCHANGED <<phase, fired,
    tasks>>
  BY Zenon DEF on_completed
<1>2. CASE w \in canceled
  <2>1. /\ threads' = threads \ {w} /\ canceled' = canceled \ {w}
        /\ UNCHANGED <<op, wait_n, wait_timed, timers, watched, stale>>
    BY <1>1, <1>2, Zenon DEF async_task_completed
  <2>2. WaitTypeOK'
    BY <1>0, <1>1, <2>1, Zenon DEF WaitTypeOK
  <2>3. OnlyOwnWakeups' /\ AsyncOnly' /\ NothingLeft'
    BY <1>0, <1>1, <2>1, Zenon DEF OnlyOwnWakeups, AsyncOnly, NothingLeft, Wait
  <2>4. TasksKept'
    BY <1>0, <1>1, <2>1, Zenon DEF TasksKept, Live, Wait
  <2> QED
    BY <2>2, <2>3, <2>4, Zenon DEF WaitInv
<1>3. CASE w \notin canceled
  <2>1. wait_resume(w, threads \ {w}) /\ canceled' = canceled
    BY <1>1, <1>3, Zenon DEF async_task_completed
  <2>2. Live(w)
    BY <1>0, <1>1, <1>3, Zenon DEF NothingLeft, Live
  <2>3. w[3] # "poll" /\ canceled \subseteq threads \ {w}
    BY <1>0, <1>1, <1>3, Zenon DEF AsyncOnly, WaitTypeOK
  <2>4. tasks \in Seq(Wakeup) /\ NoRepeat(tasks) /\ Member(tasks) \subseteq fired /\ fired \subseteq Wakeup
    BY <1>0, Zenon DEF WaitTypeOK, TasksKept
  <2> QED
    BY <1>1, <2>1, <2>2, <2>3, <2>4, ResumeLive, Zenon
<1> QED
  BY <1>2, <1>3, Zenon

\* a timer,
LEMMA TimerWait == ASSUME WaitInv, NEW w \in Wakeup, on_timer(w) PROVE WaitInv'
<1>0. WaitTypeOK /\ OnlyOwnWakeups /\ NothingLeft /\ TasksKept /\ AsyncOnly
  BY Zenon DEF WaitInv
<1>1. /\ stale = NoWakeup /\ w \in timers /\ wait_resume(w, threads)
      /\ UNCHANGED <<phase, fired, tasks>>
      /\ canceled' = IF w \in threads THEN canceled \cup {w} ELSE canceled
  BY Zenon DEF on_timer
<1>2. Live(w)
  BY <1>0, <1>1, Zenon DEF NothingLeft, Live
<1>3. w[3] = "poll" => w \notin Member(tasks)
  BY <1>0, <1>1, Zenon DEF TasksKept
<1>4. /\ tasks \in Seq(Wakeup) /\ NoRepeat(tasks) /\ Member(tasks) \subseteq fired
      /\ fired \subseteq Wakeup
      /\ canceled \subseteq threads
  BY <1>0, Zenon DEF WaitTypeOK, TasksKept
<1> QED
  BY <1>1, <1>2, <1>3, <1>4, ResumeLive, Zenon

\* and a task that a callback had deferred.
LEMMA TaskWait == ASSUME WaitInv, on_task PROVE WaitInv'
<1> DEFINE w == Head(tasks)
<1>0. WaitTypeOK /\ OnlyOwnWakeups /\ NothingLeft /\ TasksKept /\ AsyncOnly
  BY Zenon DEF WaitInv
<1>1. /\ stale = NoWakeup /\ phase = "tasks" /\ tasks # <<>> /\ tasks' = Tail(tasks)
      /\ fired' = fired \ {w} /\ wait_resume(w, threads) /\ UNCHANGED <<phase, canceled>>
  BY Zenon DEF on_task
<1>2. /\ tasks' \in Seq(Wakeup) /\ w \in Member(tasks) /\ NoRepeat(tasks')
      /\ Member(tasks') = Member(tasks) \ {w}
  BY <1>0, <1>1, TailQueue, Zenon DEF WaitTypeOK, TasksKept
<1>3. w \in Wakeup /\ w[3] \in {"poll", "event"} /\ (w[3] = "poll" => Live(w))
  BY <1>0, <1>1, <1>2, Zenon DEF TasksKept, WaitTypeOK, Member
<1>4. w \notin threads
  BY <1>0, <1>3, Zenon DEF AsyncOnly
<1>5. /\ Member(tasks) \subseteq fired /\ fired \subseteq Wakeup /\ canceled \subseteq threads
  BY <1>0, Zenon DEF WaitTypeOK, TasksKept
<1>6. CASE Live(w)
  BY <1>1, <1>2, <1>3, <1>4, <1>5, <1>6, ResumeLive, Zenon
<1>7. CASE ~ Live(w)
  <2>1. w[3] = "event"
    BY <1>3, <1>7, Zenon
  <2>2. /\ stale' = <<op[w[1]], w>> /\ UNCHANGED <<op, wait_n, wait_timed, timers, watched>>
        /\ threads' = threads
    BY <1>1, <1>7, Zenon DEF wait_resume, Live
  <2> HIDE DEF w
  <2>3. stale'[2] = w /\ phase' = "tasks"
    BY <1>1, <2>2, Zenon
  <2>4. OnlyOwnWakeups'
    BY <2>1, <2>3, Zenon DEF OnlyOwnWakeups
  <2>5. stale' # NoWakeup
    <3>1. op[w[1]] \in Ops \cup {"idle"}
      BY <1>0, <1>3, Zenon DEF WaitTypeOK, Wakeup
    <3>2. op[w[1]] # "none"
      BY <3>1, Zenon DEF Ops
    <3>3. stale'[1] # NoWakeup[1]
      BY <2>2, <3>2, Zenon DEF NoWakeup
    <3> QED
      BY <3>3, Zenon
  <2>6. WaitTypeOK'
    BY <1>0, <1>1, <1>2, <1>5, <2>2, Zenon DEF WaitTypeOK
  <2>7. NothingLeft' /\ AsyncOnly'
    BY <1>0, <2>2, <2>5, Zenon DEF NothingLeft, AsyncOnly
  <2>8. TasksKept'
    BY <1>0, <1>1, <1>2, <1>5, <2>2, <2>5, Zenon DEF TasksKept
  <2> QED
    BY <2>4, <2>6, <2>7, <2>8, Zenon DEF WaitInv
<1> QED
  BY <1>6, <1>7, Zenon

\* Every step keeps the invariant of the waits.
LEMMA NextWait == WaitInv /\ [WaitNext]_waitVars => WaitInv'
<1> SUFFICES ASSUME WaitInv, [WaitNext]_waitVars PROVE WaitInv'
  BY Zenon
<1>0. WaitTypeOK /\ OnlyOwnWakeups /\ NothingLeft /\ TasksKept /\ AsyncOnly
  BY Zenon DEF WaitInv
<1>1. ASSUME NEW c \in Waiters, begin(c) \/ on_event(c) PROVE WaitInv'
  BY <1>1, BeginWait, EventWait, Zenon
<1>2. ASSUME NEW w \in Wakeup, on_completed(w) \/ on_timer(w) PROVE WaitInv'
  BY <1>2, CompletedWait, TimerWait, Zenon
<1>3. CASE on_task
  BY <1>3, TaskWait, Zenon
<1>4. CASE turn
  <2>1. /\ stale = NoWakeup /\ phase' \in {"handlers", "timers", "tasks"}
        /\ UNCHANGED <<op, wait_n, wait_timed, timers, watched, fired, tasks, threads,
                       canceled, stale>>
    BY <1>4, Zenon DEF turn
  <2>2. WaitTypeOK'
    BY <1>0, <2>1, Zenon DEF WaitTypeOK
  <2>3. OnlyOwnWakeups' /\ AsyncOnly' /\ NothingLeft'
    BY <1>0, <2>1, Zenon DEF OnlyOwnWakeups, AsyncOnly, NothingLeft, Wait
  <2>4. TasksKept'
    BY <1>0, <2>1, Zenon DEF TasksKept, Live, Wait
  <2> QED
    BY <2>2, <2>3, <2>4, Zenon DEF WaitInv
<1>5. CASE UNCHANGED waitVars
  BY <1>0, <1>5, Zenon
    DEF waitVars, WaitInv, WaitTypeOK, OnlyOwnWakeups, AsyncOnly, NothingLeft, Wait, TasksKept,
      Live
<1> QED
  BY <1>1, <1>2, <1>3, <1>4, <1>5, Zenon DEF WaitNext, WaitLoop

\* No coroutine is resumed by what an earlier wait of its own left behind, whatever order
\* timers, events, deferred tasks and threads come in (coroutine/system.cc).
THEOREM WaitsStayPrivate == WaitSpec => []WaitsArePrivate
<1>1. WaitInv => WaitsArePrivate
  BY Zenon DEF WaitInv, WaitsArePrivate
<1> QED
  BY InitWait, NextWait, <1>1, PTL DEF WaitSpec

-----------------------------------------------------------------------------
\* wait() and waitpid().

\* What remove() leaves of a list.
LEMMA RemoveQueue ==
  ASSUME NEW S, NEW q \in Seq(S), NEW c, NoRepeat(q)
  PROVE  /\ remove(q, c) \in Seq(S)
         /\ q = <<>> => remove(q, c) = <<>>
         /\ Member(remove(q, c)) = Member(q) \ {c}
         /\ NoRepeat(remove(q, c))
<1>1. CASE ~ \E i \in 1..Len(q) : q[i] = c
  BY <1>1, Zenon DEF remove, Member
<1>2. CASE \E i \in 1..Len(q) : q[i] = c
  <2> DEFINE k == CHOOSE i \in 1..Len(q) : q[i] = c
             r == [j \in 1..(Len(q) - 1) |-> IF j < k THEN q[j] ELSE q[j + 1]]
  <2>1. k \in 1..Len(q) /\ q[k] = c
    BY <1>2, Zenon
  <2>2. remove(q, c) = r
    BY <1>2, Zenon DEF remove
  <2> HIDE DEF k
  <2>3. Len(q) \in Nat /\ (\A i \in 1..Len(q) : q[i] \in S) /\ Len(q) - 1 \in Nat /\ k \in Int
    BY <2>1
  <2>4. \A j \in 1..(Len(q) - 1) :
          /\ r[j] = IF j < k THEN q[j] ELSE q[j + 1]
          /\ j \in 1..Len(q) /\ j + 1 \in 1..Len(q)
    BY <2>3
  <2>5. r \in Seq(S) /\ Len(r) = Len(q) - 1
    <3>1. \A j \in 1..(Len(q) - 1) : (IF j < k THEN q[j] ELSE q[j + 1]) \in S
      BY <2>3, <2>4, Zenon
    <3>2. r \in [1..(Len(q) - 1) -> S]
      BY <3>1, Zenon
    <3> QED
      BY <3>2, <2>3
  <2> HIDE DEF r
  <2>6. q # <<>>
    BY <2>1
  <2>7. \A j \in 1..Len(r) : r[j] # c
    <3> SUFFICES ASSUME NEW j \in 1..Len(r) PROVE r[j] # c
      BY Zenon
    <3>1. CASE j < k
      BY <3>1, <2>1, <2>3, <2>4, <2>5 DEF NoRepeat
    <3>2. CASE ~ (j < k)
      <4>1. r[j] = q[j + 1] /\ j + 1 \in 1..Len(q) /\ j + 1 # k
        BY <3>2, <2>1, <2>3, <2>4, <2>5
      <4> QED
        BY <4>1, <2>1, Zenon DEF NoRepeat
    <3> QED
      BY <3>1, <3>2, Zenon
  <2>8. Member(r) \subseteq Member(q)
    BY <2>4, <2>5, Zenon DEF Member
  <2>9. ASSUME NEW x \in Member(q), x # c PROVE x \in Member(r)
    <3>1. PICK i \in 1..Len(q) : x = q[i]
      BY <2>9, Zenon DEF Member
    <3>2. i # k
      BY <3>1, <2>9, <2>1, Zenon
    <3>3. CASE i < k
      <4>1. i \in 1..Len(r) /\ r[i] = x
        BY <3>1, <3>3, <2>1, <2>3, <2>4, <2>5
      <4> QED
        BY <4>1, Zenon DEF Member
    <3>4. CASE i > k
      <4>1. i - 1 \in 1..Len(r)
        BY <3>1, <3>4, <2>1, <2>3, <2>5
      <4>2. ~ (i - 1 < k) /\ (i - 1) + 1 = i
        BY <3>1, <3>4, <2>1
      <4>3. r[i - 1] = x
        BY <4>1, <4>2, <3>1, <2>4, <2>5, Zenon
      <4> QED
        BY <4>1, <4>3, Zenon DEF Member
    <3> QED
      BY <3>1, <3>2, <3>3, <3>4, <2>1
  <2>10. NoRepeat(r)
    <3> SUFFICES ASSUME NEW i \in 1..Len(r), NEW j \in 1..Len(r), r[i] = r[j] PROVE i = j
      BY Zenon DEF NoRepeat
    <3>1. \A a, b \in 1..Len(q) : q[a] = q[b] => a = b
      BY Zenon DEF NoRepeat
    <3>2. i \in 1..(Len(q) - 1) /\ j \in 1..(Len(q) - 1)
      BY <2>5, Zenon
    <3>3. CASE i < k /\ j < k
      BY <3>1, <3>2, <3>3, <2>4, Zenon
    <3>4. CASE ~ (i < k) /\ ~ (j < k)
      <4>1. i + 1 = j + 1
        BY <3>1, <3>2, <3>4, <2>4, Zenon
      <4> QED
        BY <4>1
    <3>5. CASE i < k /\ ~ (j < k)
      <4>1. i = j + 1
        BY <3>1, <3>2, <3>5, <2>4, Zenon
      <4> QED
        BY <4>1, <3>5, <2>3
    <3>6. CASE ~ (i < k) /\ j < k
      <4>1. i + 1 = j
        BY <3>1, <3>2, <3>6, <2>4, Zenon
      <4> QED
        BY <4>1, <3>6, <2>3
    <3> QED
      BY <3>3, <3>4, <3>5, <3>6, Zenon
  <2>11. c \notin Member(r)
    BY <2>7, Zenon DEF Member
  <2>12. Member(r) = Member(q) \ {c}
    BY <2>8, <2>9, <2>11, Zenon
  <2> QED
    BY <2>2, <2>5, <2>6, <2>10, <2>12, Zenon
<1> QED
  BY <1>1, <1>2, Zenon

\* A call between its look and its entry on the books is the one that runs: nothing that
\* it asks for is kept, and the child is not reaped yet.
Tried ==
  \A c \in Parents : child_pc[c] = "tried" =>
    /\ running = c
    /\ \A q \in child_processes : ~ Matches(pid[c], q)
    /\ pid[c] \in Child => child[pid[c]] # "reaped"

PidInv == ChildTypeOK /\ StatusOnce /\ NoDangling /\ NotForgotten /\ NotKeptBack /\ Tried

\* At the start nobody waits for a child.
LEMMA InitPid == ChildInit => PidInv
<1> SUFFICES ASSUME ChildInit PROVE PidInv
  BY Zenon
<1> USE WaitPidAssumption DEF WaitPidAssumption
<1>1. ChildTypeOK
  <2>1. 0 \in 0..MaxChildWaits
    OBVIOUS
  <2>2. wait_list \in Seq(Parents)
    BY DEF ChildInit
  <2> QED
    BY <2>1, <2>2, Zenon DEF ChildInit, ChildTypeOK
<1>2. StatusOnce
  BY DEF ChildInit, StatusOnce
<1>3. NoDangling /\ NotForgotten /\ NotKeptBack /\ Tried
  BY DEF ChildInit, NoDangling, NotForgotten, NotKeptBack, Tried, Member, NoRepeat
<1> QED
  BY <1>1, <1>2, <1>3, Zenon DEF PidInv

\* The end of a child keeps the invariant;
LEMMA ExitStep == ASSUME PidInv, NEW p \in Child, exit(p) PROVE PidInv'
<1> USE WaitPidAssumption DEF WaitPidAssumption
<1>0. ChildTypeOK /\ StatusOnce /\ NoDangling /\ NotForgotten /\ NotKeptBack /\ Tried
  BY Zenon DEF PidInv
<1>1. /\ child[p] = "alive" /\ child' = [child EXCEPT ![p] = "zombie"]
      /\ child_pending' = (child_pending \/ signal_ready)
      /\ UNCHANGED <<running, child_pc, pid, child_timed, child_n, signal_ready, handling,
                     wait_list, waitpid_map,
                     child_processes, returned, doubled, stolen>>
  BY Zenon DEF exit, child_tasks, books
<1>2. \A q \in Child : child'[q] = "reaped" <=> child[q] = "reaped"
  BY <1>0, <1>1, Zenon DEF ChildTypeOK
<1>3. ChildTypeOK'
  BY <1>0, <1>1, Zenon DEF ChildTypeOK
<1>4. StatusOnce' /\ NotKeptBack'
  BY <1>0, <1>1, <1>2, Zenon DEF StatusOnce, NotKeptBack
<1>5. NoDangling'
  BY <1>0, <1>1, Zenon DEF NoDangling, WaitsFor
<1>6. NotForgotten'
  BY <1>0, <1>1, <1>2 DEF NotForgotten, ChildTypeOK
<1>7. Tried'
  BY <1>0, <1>1, <1>2, Zenon DEF Tried
<1> QED
  BY <1>3, <1>4, <1>5, <1>6, <1>7, Zenon DEF PidInv

\* A step that only gives control to a coroutine that is not in a call, or takes it away.
LEMMA RunStep ==
  ASSUME PidInv, running' \in Parents \cup {NoParent}, \A c \in Parents : child_pc[c] # "tried",
         child_pending' \in BOOLEAN, handling' \in BOOLEAN,
         UNCHANGED <<child_pc, pid, child_timed, child_n, child, signal_ready, books,
                     childGhosts>>
  PROVE  PidInv'
<1>0. ChildTypeOK /\ StatusOnce /\ NoDangling /\ NotForgotten /\ NotKeptBack /\ Tried
  BY Zenon DEF PidInv
<1>1. UNCHANGED <<wait_list, waitpid_map, child_processes, returned, doubled, stolen, missed>>
  BY Zenon DEF books, childGhosts
<1>2. ChildTypeOK'
  BY <1>0, <1>1, Zenon DEF ChildTypeOK
<1>3. StatusOnce' /\ NotKeptBack' /\ NotForgotten'
  BY <1>0, <1>1, Zenon DEF StatusOnce, NotKeptBack, NotForgotten
<1>4. NoDangling'
  BY <1>0, <1>1, Zenon DEF NoDangling, WaitsFor
<1>5. Tried'
  BY Zenon DEF Tried
<1> QED
  BY <1>2, <1>3, <1>4, <1>5, Zenon DEF PidInv

\* so do the first look of wait() and waitpid(),
LEMMA CallStep ==
  ASSUME PidInv, NEW c \in Parents, NEW p \in Child \cup {AnyPid}, NEW t \in BOOLEAN,
         waitpid(c, p, t)
  PROVE  PidInv'
<1> USE WaitPidAssumption DEF WaitPidAssumption
<1>0. ChildTypeOK /\ StatusOnce /\ NoDangling /\ NotForgotten /\ NotKeptBack /\ Tried
  BY Zenon DEF PidInv
<1>1. /\ running = c /\ child_pc[c] = "idle" /\ child_n[c] < MaxChildWaits
      /\ (p \in Child => returned[p] = 0)
      /\ child_n' = [child_n EXCEPT ![c] = @ + 1]
      /\ pid' = [pid EXCEPT ![c] = p] /\ child_timed' = [child_timed EXCEPT ![c] = t]
      /\ (Kept(p) /\ UNCHANGED <<child, stolen>>) \/ Looks(c, p)
      /\ UNCHANGED <<running, signal_ready, child_pending, handling, wait_list, waitpid_map,
                     doubled, missed>>
  BY Zenon DEF waitpid
<1>2. \A d \in Parents : child_pc[d] # "tried"
  BY <1>0, <1>1, Zenon DEF Tried
<1>3. child_n' \in [Parents -> 0..MaxChildWaits] /\ pid' \in [Parents -> Child \cup {AnyPid}] /\ child_timed' \in [Parents -> BOOLEAN]
  BY <1>0, <1>1 DEF ChildTypeOK
<1>4. \A d \in Parents : d # c => pid'[d] = pid[d]
  BY <1>0, <1>1, Zenon DEF ChildTypeOK
<1>5. CASE Kept(p) /\ UNCHANGED <<child, stolen>>
  <2>1. PICK q \in child_processes :
          /\ child_processes' = child_processes \ {q}
          /\ returned' = [returned EXCEPT ![q] = @ + 1] /\ child_pc' = child_pc
    BY <1>5, Zenon DEF Kept
  <2>2. q \in Child /\ returned'[q] = returned[q] + 1 /\ returned[q] \in Nat
        /\ \A x \in Child : x # q => returned'[x] = returned[x]
    BY <1>0, <2>1, Zenon DEF ChildTypeOK
  <2>3. ChildTypeOK'
    BY <1>0, <1>1, <1>3, <1>5, <2>1, <2>2 DEF ChildTypeOK
  <2>4. StatusOnce'
    <3> SUFFICES ASSUME NEW x \in Child
                 PROVE  returned'[x] + (IF x \in child_processes' THEN 1 ELSE 0)
                          = (IF child[x] = "reaped" THEN 1 ELSE 0)
      BY <1>5, Zenon DEF StatusOnce
    <3>1. returned[x] + (IF x \in child_processes THEN 1 ELSE 0)
            = (IF child[x] = "reaped" THEN 1 ELSE 0)
      BY <1>0, Zenon DEF StatusOnce
    <3>2. q \in child_processes /\ child_processes' = child_processes \ {q}
      BY <2>1, Zenon
    <3>3. CASE x = q
      <4>1. returned'[x] = returned[x] + 1 /\ returned[x] \in Nat
        BY <2>2, <3>3, Zenon
      <4>2. x \in child_processes /\ x \notin child_processes'
        BY <3>2, <3>3, Zenon
      <4> QED
        BY <3>1, <4>1, <4>2
    <3>4. CASE x # q
      BY <2>2, <3>1, <3>2, <3>4, Zenon
    <3> QED
      BY <3>3, <3>4, Zenon
  <2>5. NoDangling'
    BY <1>0, <1>1, <1>4, <2>1 DEF NoDangling, WaitsFor, ChildTypeOK
  <2>6. NotForgotten' /\ NotKeptBack' /\ Tried'
    BY <1>0, <1>1, <1>2, <1>4, <1>5, <2>1, Zenon DEF NotForgotten, NotKeptBack, Tried, ChildTypeOK
  <2> QED
    BY <2>3, <2>4, <2>5, <2>6, Zenon DEF PidInv
<1>6. CASE Looks(c, p) /\ \E q \in Zombies : Matches(p, q)
  <2>1. PICK q \in Zombies :
          /\ child' = [child EXCEPT ![q] = "reaped"]
          /\ returned' = [returned EXCEPT ![q] = @ + 1]
          /\ stolen' = IF \E d \in Parents : WaitsFor(d, q) THEN stolen \cup {q} ELSE stolen
          /\ child_pc' = child_pc /\ child_processes' = child_processes
    BY <1>6, Zenon DEF Looks
  <2>2. q \in Child /\ child[q] = "zombie" /\ returned'[q] = returned[q] + 1 /\ returned[q] \in Nat
        /\ child'[q] = "reaped"
        /\ \A x \in Child : x # q => returned'[x] = returned[x] /\ child'[x] = child[x]
    BY <1>0, <2>1, Zenon DEF ChildTypeOK, Zombies
  <2>3. ChildTypeOK'
    BY <1>0, <1>1, <1>3, <2>1, <2>2 DEF ChildTypeOK
  <2>4. StatusOnce'
    <3>1. "zombie" # "reaped"
      BY Zenon
    <3> QED
      BY <1>0, <2>1, <2>2, <3>1 DEF StatusOnce
  <2>5. NoDangling'
    BY <1>0, <1>1, <1>4, <2>1 DEF NoDangling, WaitsFor, ChildTypeOK
  <2>6. NotKeptBack' /\ Tried'
    BY <1>0, <1>1, <1>2, <1>4, <2>1, Zenon DEF NotKeptBack, Tried, ChildTypeOK
  <2>7. NotForgotten'
    <3> SUFFICES ASSUME NEW d \in Parents, child_pc'[d] = "waiting"
        PROVE IF pid'[d] = AnyPid
                THEN d \in Member(wait_list')
                ELSE pid'[d] \notin doubled' =>
                       waitpid_map'[pid'[d]] = d
                       /\ (child'[pid'[d]] = "reaped" => pid'[d] \in stolen')
      BY Zenon DEF NotForgotten
    <3>1. child_pc[d] = "waiting" /\ pid'[d] = pid[d] /\ pid[d] \in Child \cup {AnyPid}
      BY <1>0, <1>1, <1>4, <2>1, Zenon DEF ChildTypeOK
    <3>2. pid[d] = q => q \in stolen'
      BY <2>1, <3>1, Zenon DEF WaitsFor
    <3>3. stolen \subseteq stolen'
      BY <2>1, Zenon
    <3>4. IF pid[d] = AnyPid
            THEN d \in Member(wait_list)
            ELSE pid[d] \notin doubled =>
                   waitpid_map[pid[d]] = d /\ (child[pid[d]] = "reaped" => pid[d] \in stolen)
      BY <1>0, <3>1, Zenon DEF NotForgotten
    <3>5. pid[d] # AnyPid => pid[d] = q \/ child'[pid[d]] = child[pid[d]]
      BY <2>2, <3>1, Zenon
    <3>6. wait_list' = wait_list /\ waitpid_map' = waitpid_map /\ doubled' = doubled
      BY <1>1, Zenon
    <3> QED
      BY <3>1, <3>2, <3>3, <3>4, <3>5, <3>6, Zenon
  <2> QED
    BY <2>3, <2>4, <2>5, <2>6, <2>7, Zenon DEF PidInv
<1>7. CASE Looks(c, p) /\ ~ \E q \in Zombies : Matches(p, q)
  <2>1. /\ child_pc' = [child_pc EXCEPT ![c] = "tried"]
        /\ \A q \in child_processes : ~ Matches(p, q)
        /\ UNCHANGED <<child, returned, stolen, child_processes>>
    BY <1>7, Zenon DEF Looks
  <2>2. p \in Child => child[p] # "reaped"
    BY <1>0, <1>1, <2>1, SMTT(40) DEF StatusOnce, Matches
  <2>3. child_pc'[c] = "tried" /\ pid'[c] = p /\ \A d \in Parents : d # c => child_pc'[d] = child_pc[d]
    BY <1>0, <1>1, <2>1, Zenon DEF ChildTypeOK
  <2>4. ChildTypeOK'
    BY <1>0, <1>1, <1>3, <2>1, Zenon DEF ChildTypeOK
  <2>5. StatusOnce'
    BY <1>0, <2>1, Zenon DEF StatusOnce
  <2>6. NoDangling'
    BY <1>0, <1>1, <1>4, <2>1, <2>3 DEF NoDangling, WaitsFor, ChildTypeOK
  <2>7. NotForgotten' /\ NotKeptBack'
    <3>1. \A d \in Parents : child_pc'[d] = "waiting" => child_pc[d] = "waiting" /\ pid'[d] = pid[d]
      BY <1>4, <2>3, Zenon
    <3>2. UNCHANGED <<child, stolen, child_processes, wait_list, waitpid_map, doubled>>
      BY <1>1, <2>1, Zenon
    <3> QED
      BY <1>0, <3>1, <3>2, Zenon DEF NotForgotten, NotKeptBack
  <2>8. Tried'
    <3>1. \A d \in Parents : child_pc'[d] = "tried" => d = c
      BY <1>2, <2>3, Zenon
    <3>2. pid'[c] = p /\ running' = c
      BY <1>1, <2>3, Zenon
    <3>3. child' = child /\ child_processes' = child_processes
      BY <2>1, Zenon
    <3> QED
      BY <2>1, <2>2, <3>1, <3>2, <3>3, Zenon DEF Tried
  <2> QED
    BY <2>4, <2>5, <2>6, <2>7, <2>8, Zenon DEF PidInv
<1> QED
  BY <1>1, <1>5, <1>6, <1>7, Zenon

\* the registration of a caller that has to wait,
LEMMA EnqueueStep == ASSUME PidInv, NEW c \in Parents, enqueue(c) PROVE PidInv'
<1> USE WaitPidAssumption DEF WaitPidAssumption
<1>0. ChildTypeOK /\ StatusOnce /\ NoDangling /\ NotForgotten /\ NotKeptBack /\ Tried
  BY Zenon DEF PidInv
<1>1. /\ running = c /\ child_pc[c] = "tried" /\ running' = NoParent /\ signal_ready' = TRUE
      /\ child_pc' = [child_pc EXCEPT ![c] = "waiting"]
      /\ UNCHANGED <<pid, child_timed, child_n, child, child_pending, handling,
                     child_processes, returned, stolen, missed>>
  BY Zenon DEF enqueue
<1>2. /\ child_pc'[c] = "waiting" /\ \A d \in Parents : d # c => child_pc'[d] = child_pc[d] /\ child_pc[d] # "tried"
  BY <1>0, <1>1, Zenon DEF ChildTypeOK, Tried
<1>3. /\ c \notin Member(wait_list) /\ (\A p \in Child : waitpid_map[p] # c)
      /\ wait_list \in Seq(Parents) /\ pid[c] \in Child \cup {AnyPid} /\ NoRepeat(wait_list)
  <2>1. wait_list \in Seq(Parents) /\ pid[c] \in Child \cup {AnyPid}
    BY <1>0, Zenon DEF ChildTypeOK
  <2>2. child_pc[c] # "waiting" /\ c # NoParent
    BY <1>1, Zenon
  <2>3. /\ NoRepeat(wait_list)
        /\ \A x \in Member(wait_list) : child_pc[x] = "waiting"
        /\ \A p \in Child : waitpid_map[p] # NoParent => child_pc[waitpid_map[p]] = "waiting"
    BY <1>0, Zenon DEF NoDangling, WaitsFor
  <2> QED
    BY <2>1, <2>2, <2>3, Zenon
<1>4. Tried'
  BY <1>1, <1>2, Zenon DEF Tried
<1>5. StatusOnce'
  BY <1>0, <1>1, Zenon DEF StatusOnce
<1>6. child_pc' \in [Parents -> {"idle", "tried", "waiting"}]
  BY <1>0, <1>1, Zenon DEF ChildTypeOK
<1>7. CASE pid[c] = AnyPid
  <2>1. wait_list' = Append(wait_list, c) /\ UNCHANGED <<waitpid_map, doubled>>
    BY <1>7, Zenon DEF enqueue
  <2>2. wait_list' \in Seq(Parents) /\ Member(wait_list') = Member(wait_list) \cup {c} /\ NoRepeat(wait_list')
    BY <1>3, <2>1, AppendQueue
  <2>3. ChildTypeOK'
    BY <1>0, <1>1, <1>6, <2>1, <2>2, Zenon DEF ChildTypeOK
  <2>4. NoDangling'
    <3>1. ASSUME NEW x \in Member(wait_list') PROVE WaitsFor(x, AnyPid)'
      <4>1. CASE x = c
        BY <1>1, <1>2, <1>7, <4>1, Zenon DEF WaitsFor
      <4>2. CASE x # c
        <5>1. x \in Member(wait_list)
          BY <2>2, <3>1, <4>2, Zenon
        <5>2. x \in Parents
          BY <1>3, <5>1 DEF Member
        <5>3. WaitsFor(x, AnyPid)
          BY <1>0, <5>1, Zenon DEF NoDangling
        <5> QED
          BY <1>1, <1>2, <4>2, <5>2, <5>3, Zenon DEF WaitsFor
      <4> QED
        BY <4>1, <4>2, Zenon
    <3>2. ASSUME NEW p \in Child, waitpid_map'[p] # NoParent PROVE WaitsFor(waitpid_map[p], p)'
      <4>1. waitpid_map'[p] = waitpid_map[p] /\ waitpid_map[p] \in Parents
        BY <1>0, <2>1, <3>2, Zenon DEF ChildTypeOK
      <4>2. WaitsFor(waitpid_map[p], p)
        BY <1>0, <3>2, <4>1, Zenon DEF NoDangling
      <4> QED
        BY <1>1, <1>2, <4>1, <4>2, Zenon DEF WaitsFor
    <3> QED
      BY <2>2, <3>1, <3>2, Zenon DEF NoDangling
  <2>5. NotForgotten'
    BY <1>0, <1>1, <1>2, <1>7, <2>1, <2>2, Zenon DEF NotForgotten
  <2>6. NotKeptBack'
    BY <1>0, <1>1, <1>2, <2>1, Zenon DEF NotKeptBack, Tried
  <2> QED
    BY <1>4, <1>5, <2>3, <2>4, <2>5, <2>6, Zenon DEF PidInv
<1>8. CASE pid[c] # AnyPid
  <2>1. /\ waitpid_map' = [waitpid_map EXCEPT ![pid[c]] = c] /\ wait_list' = wait_list
        /\ doubled' = IF \E d \in Parents : WaitsFor(d, pid[c]) THEN doubled \cup {pid[c]} ELSE doubled
    BY <1>8, Zenon DEF enqueue
  <2>2. /\ pid[c] \in Child /\ waitpid_map'[pid[c]] = c /\ child[pid[c]] # "reaped"
        /\ \A p \in Child : p # pid[c] => waitpid_map'[p] = waitpid_map[p]
    BY <1>0, <1>1, <1>3, <1>8, <2>1, Zenon DEF ChildTypeOK, Tried
  <2>3. ChildTypeOK'
    BY <1>0, <1>1, <1>6, <2>1, <2>2, Zenon DEF ChildTypeOK
  <2>4. NoDangling'
    BY <1>0, <1>1, <1>2, <1>3, <2>1, <2>2 DEF NoDangling, WaitsFor, ChildTypeOK
  <2>5. NotForgotten'
    <3> SUFFICES ASSUME NEW d \in Parents, child_pc'[d] = "waiting"
        PROVE IF pid[d] = AnyPid
                THEN d \in Member(wait_list)
                ELSE pid[d] \notin doubled' =>
                       waitpid_map'[pid[d]] = d /\ (child[pid[d]] = "reaped" => pid[d] \in stolen)
      BY <1>1, <2>1, Zenon DEF NotForgotten
    <3>1. CASE d = c
      BY <3>1, <1>8, <2>2, Zenon
    <3>2. CASE d # c
      <4>1. child_pc[d] = "waiting" /\ pid[d] \in Child \cup {AnyPid}
        BY <3>2, <1>0, <1>2, Zenon DEF ChildTypeOK
      <4>2. pid[d] = pid[c] => pid[d] \in doubled'
        BY <4>1, <2>1, Zenon DEF WaitsFor
      <4>3. doubled \subseteq doubled'
        BY <2>1, Zenon
      <4> QED
        BY <4>1, <4>2, <4>3, <1>0, <2>2, Zenon DEF NotForgotten
    <3> QED
      BY <3>1, <3>2, Zenon
  <2>6. NotKeptBack'
    BY <1>0, <1>1, <1>2, <2>1, Zenon DEF NotKeptBack, Tried
  <2> QED
    BY <1>4, <1>5, <2>3, <2>4, <2>5, <2>6, Zenon DEF PidInv
<1> QED
  BY <1>7, <1>8, Zenon

\* dequeue() of a coroutine that waits: it leaves the books, and only it.
LEMMA Dequeue ==
  ASSUME PidInv, NEW c \in Parents, NEW done \in BOOLEAN, child_pc[c] = "waiting",
         dequeue(c, done),
         done /\ pid[c] = AnyPid => wait_list # <<>> /\ c = Head(wait_list),
         UNCHANGED <<pid, doubled>>
  PROVE  /\ running' = c /\ child_pc'[c] = "idle"
         /\ child_pc' \in [Parents -> {"idle", "tried", "waiting"}]
         /\ \A d \in Parents : d # c => child_pc'[d] = child_pc[d]
         /\ wait_list' \in Seq(Parents) /\ waitpid_map' \in [Child -> Parents \cup {NoParent}]
         /\ NoDangling'
         /\ \A d \in Parents : child_pc'[d] = "waiting" =>
              IF pid[d] = AnyPid
                THEN d \in Member(wait_list')
                ELSE pid[d] \notin doubled => waitpid_map'[pid[d]] = d
<1> USE WaitPidAssumption DEF WaitPidAssumption
<1>0. ChildTypeOK /\ NoDangling /\ NotForgotten
  BY Zenon DEF PidInv
<1>1. running' = c /\ child_pc' = [child_pc EXCEPT ![c] = "idle"] /\ pid' = pid /\ doubled' = doubled
  BY Zenon DEF dequeue
<1>2. /\ child_pc'[c] = "idle" /\ \A d \in Parents : d # c => child_pc'[d] = child_pc[d]
      /\ child_pc' \in [Parents -> {"idle", "tried", "waiting"}]
  BY <1>0, <1>1, Zenon DEF ChildTypeOK
<1>3. wait_list \in Seq(Parents) /\ NoRepeat(wait_list) /\ pid[c] \in Child \cup {AnyPid}
  BY <1>0, Zenon DEF ChildTypeOK, NoDangling
<1>4. CASE pid[c] = AnyPid
  <2>1. wait_list' = (IF done THEN Tail(wait_list) ELSE remove(wait_list, c))
        /\ waitpid_map' = waitpid_map
    BY <1>4, Zenon DEF dequeue
  <2>2. wait_list' \in Seq(Parents) /\ Member(wait_list') = Member(wait_list) \ {c} /\ NoRepeat(wait_list')
    <3>1. CASE done
      BY <1>3, <1>4, <2>1, <3>1, TailQueue, Zenon
    <3>2. CASE ~ done
      BY <1>3, <2>1, <3>2, RemoveQueue, Zenon
    <3> QED
      BY <3>1, <3>2, Zenon
  <2>3. NoDangling'
    BY <1>0, <1>1, <1>2, <1>4, <2>1, <2>2 DEF NoDangling, WaitsFor, ChildTypeOK
  <2>4. \A d \in Parents : child_pc'[d] = "waiting" =>
              IF pid[d] = AnyPid
                THEN d \in Member(wait_list')
                ELSE pid[d] \notin doubled => waitpid_map'[pid[d]] = d
    BY <1>0, <1>2, <2>1, <2>2, Zenon DEF NotForgotten
  <2> QED
    BY <1>0, <1>1, <1>2, <2>1, <2>2, <2>3, <2>4, Zenon DEF ChildTypeOK
<1>5. CASE pid[c] # AnyPid
  <2>1. waitpid_map' = [waitpid_map EXCEPT ![pid[c]] = NoParent] /\ wait_list' = wait_list
    BY <1>5, Zenon DEF dequeue
  <2>2. pid[c] \in Child /\ waitpid_map'[pid[c]] = NoParent
        /\ \A p \in Child : p # pid[c] => waitpid_map'[p] = waitpid_map[p]
    BY <1>0, <1>3, <1>5, <2>1, Zenon DEF ChildTypeOK
  <2>3. NoDangling'
    BY <1>0, <1>1, <1>2, <1>5, <2>1, <2>2 DEF NoDangling, WaitsFor, ChildTypeOK
  <2>4. ASSUME NEW d \in Parents, child_pc'[d] = "waiting"
        PROVE IF pid[d] = AnyPid
                THEN d \in Member(wait_list')
                ELSE pid[d] \notin doubled => waitpid_map'[pid[d]] = d
    <3>1. d # c /\ child_pc[d] = "waiting" /\ pid[d] \in Child \cup {AnyPid}
      BY <2>4, <1>0, <1>2, Zenon DEF ChildTypeOK
    <3>2. pid[d] # AnyPid /\ pid[d] \notin doubled => waitpid_map[pid[d]] = d
      BY <3>1, <1>0, Zenon DEF NotForgotten
    <3>3. pid[d] = pid[c] /\ pid[d] \notin doubled => waitpid_map[pid[d]] = c
      BY <1>0, <1>5, Zenon DEF NotForgotten
    <3> QED
      BY <3>1, <3>2, <3>3, <1>0, <2>1, <2>2, Zenon DEF NotForgotten
  <2> QED
    BY <1>0, <1>1, <1>2, <2>1, <2>2, <2>3, <2>4, Zenon DEF ChildTypeOK
<1> QED
  BY <1>4, <1>5, Zenon

\* its timeout,
LEMMA TimeoutStep == ASSUME PidInv, NEW c \in Parents, child_timeout(c) PROVE PidInv'
<1> USE WaitPidAssumption DEF WaitPidAssumption
<1>0. ChildTypeOK /\ StatusOnce /\ NoDangling /\ NotForgotten /\ NotKeptBack /\ Tried
  BY Zenon DEF PidInv
<1>1. /\ running = NoParent /\ child_pc[c] = "waiting" /\ dequeue(c, FALSE)
      /\ UNCHANGED <<pid, child_timed, child_n, child, signal_ready, child_pending, handling,
                     child_processes,
                     returned, doubled, stolen, missed>>
  BY Zenon DEF child_timeout, kernel, childGhosts
<1>2. /\ running' = c /\ child_pc'[c] = "idle"
      /\ child_pc' \in [Parents -> {"idle", "tried", "waiting"}]
      /\ \A d \in Parents : d # c => child_pc'[d] = child_pc[d]
      /\ wait_list' \in Seq(Parents) /\ waitpid_map' \in [Child -> Parents \cup {NoParent}]
      /\ NoDangling'
      /\ \A d \in Parents : child_pc'[d] = "waiting" =>
           IF pid[d] = AnyPid
             THEN d \in Member(wait_list')
             ELSE pid[d] \notin doubled => waitpid_map'[pid[d]] = d
  BY <1>1, Dequeue, Zenon
<1>3. ChildTypeOK'
  BY <1>0, <1>1, <1>2, Zenon DEF ChildTypeOK
<1>4. StatusOnce'
  BY <1>0, <1>1, Zenon DEF StatusOnce
<1>5. \A d \in Parents : child_pc'[d] = "waiting" => child_pc[d] = "waiting"
  BY <1>2, Zenon
<1>6. NotForgotten' /\ NotKeptBack'
  BY <1>0, <1>1, <1>2, <1>5, Zenon DEF NotForgotten, NotKeptBack
<1>7. Tried'
  BY <1>0, <1>1, <1>2, Zenon DEF Tried
<1> QED
  BY <1>2, <1>3, <1>4, <1>6, <1>7, Zenon DEF PidInv

\* and the handler of SIGCHLD.
LEMMA HandlerStep == ASSUME PidInv, signal_handler PROVE PidInv'
<1> USE WaitPidAssumption DEF WaitPidAssumption
<1>0. ChildTypeOK /\ StatusOnce /\ NoDangling /\ NotForgotten /\ NotKeptBack /\ Tried
  BY Zenon DEF PidInv
<1>1. running = NoParent /\ UNCHANGED <<signal_ready, child_pending, doubled, stolen, missed>>
  BY Zenon DEF signal_handler
<1>2. \A d \in Parents : child_pc[d] # "tried"
  BY <1>0, <1>1, Zenon DEF Tried
<1>3. CASE Zombies = {}
  <2>1. handling' = FALSE /\ UNCHANGED <<child_tasks, child, books, returned>>
    BY <1>3, Zenon DEF signal_handler
  <2>2. /\ running' \in Parents \cup {NoParent} /\ child_pending' \in BOOLEAN
        /\ handling' \in BOOLEAN
        /\ UNCHANGED <<child_pc, pid, child_timed, child_n, child, signal_ready, books,
                       childGhosts>>
    BY <2>1, <1>0, <1>1, Zenon DEF child_tasks, childGhosts, ChildTypeOK
  <2> QED
    BY <2>2, <1>2, RunStep, Zenon
<1>4. CASE Zombies # {}
  <2>1. PICK p \in Zombies :
          /\ child' = [child EXCEPT ![p] = "reaped"]
          /\ UNCHANGED <<pid, child_timed, child_n, handling>>
          /\ IF Receiver(p) = NoParent
               THEN /\ child_processes' = child_processes \cup {p}
                    /\ UNCHANGED <<running, child_pc, wait_list, waitpid_map, returned>>
               ELSE /\ dequeue(Receiver(p), TRUE)
                    /\ returned' = [returned EXCEPT ![p] = @ + 1]
                    /\ UNCHANGED child_processes
    BY <1>4, Zenon DEF signal_handler
  <2>2. /\ p \in Child /\ child[p] = "zombie" /\ child'[p] = "reaped" /\ returned[p] \in Nat
        /\ \A x \in Child : x # p => child'[x] = child[x]
        /\ child' \in [Child -> {"alive", "zombie", "reaped"}]
    BY <1>0, <2>1, Zenon DEF Zombies, ChildTypeOK
  <2>3. p \notin child_processes /\ returned[p] = 0
    <3>1. returned[p] + (IF p \in child_processes THEN 1 ELSE 0) = 0
      BY <1>0, <2>2, Zenon DEF StatusOnce
    <3> QED
      BY <3>1, <2>2
  <2>4. CASE Receiver(p) = NoParent
    <3>1. /\ child_processes' = child_processes \cup {p}
          /\ UNCHANGED <<running, child_pc, pid, child_timed, child_n, handling, wait_list,
                         waitpid_map, returned>>
      BY <2>1, <2>4, Zenon
    <3>2. waitpid_map[p] = NoParent /\ Member(wait_list) = {}
      <4>1. waitpid_map[p] = NoParent
        BY <2>4, Zenon DEF Receiver
      <4>2. wait_list # <<>> => Head(wait_list) \in Parents
        BY <1>0, TailQueue DEF ChildTypeOK, NoDangling, Member
      <4>3. wait_list = <<>>
        BY <4>1, <4>2, <2>4, Zenon DEF Receiver
      <4> QED
        BY <4>1, <4>3 DEF Member
    <3>3. ChildTypeOK'
      BY <1>0, <1>1, <2>2, <3>1, Zenon DEF ChildTypeOK
    <3>4. StatusOnce'
      <4> SUFFICES ASSUME NEW x \in Child
                   PROVE  returned[x] + (IF x \in child_processes' THEN 1 ELSE 0)
                            = (IF child'[x] = "reaped" THEN 1 ELSE 0)
        BY <3>1, Zenon DEF StatusOnce
      <4>1. returned[x] + (IF x \in child_processes THEN 1 ELSE 0)
              = (IF child[x] = "reaped" THEN 1 ELSE 0)
        BY <1>0, Zenon DEF StatusOnce
      <4>2. child_processes' = child_processes \cup {p}
        BY <3>1, Zenon
      <4> QED
        BY <2>2, <2>3, <4>1, <4>2
    <3>5. NoDangling'
      BY <1>0, <3>1, Zenon DEF NoDangling, WaitsFor
    <3>6. \A c \in Parents : child_pc[c] = "waiting" => pid[c] # AnyPid /\ pid[c] \in Child
                                             /\ (pid[c] = p => p \in doubled)
      BY <1>0, <3>2, Zenon DEF NotForgotten, ChildTypeOK
    <3>7. NotForgotten'
      BY <1>0, <1>1, <2>2, <3>1, <3>6, Zenon DEF NotForgotten
    <3>8. NotKeptBack'
      BY <1>0, <1>1, <3>1, <3>6, Zenon DEF NotKeptBack, Matches
    <3>9. Tried'
      BY <1>2, <3>1, Zenon DEF Tried
    <3> QED
      BY <3>3, <3>4, <3>5, <3>7, <3>8, <3>9, Zenon DEF PidInv
  <2>5. CASE Receiver(p) # NoParent
    <3> DEFINE c == Receiver(p)
    <3>1. /\ dequeue(c, TRUE) /\ returned' = [returned EXCEPT ![p] = @ + 1]
          /\ UNCHANGED <<pid, child_timed, child_n, handling, child_processes>>
      BY <2>1, <2>5, Zenon
    <3>2. /\ c \in Parents /\ child_pc[c] = "waiting"
          /\ pid[c] = AnyPid => wait_list # <<>> /\ c = Head(wait_list)
          /\ waitpid_map[p] # NoParent => c = waitpid_map[p]
      <4>1. CASE waitpid_map[p] # NoParent
        <5>1. c = waitpid_map[p]
          BY <4>1, Zenon DEF Receiver
        <5>2. c \in Parents
          BY <5>1, <4>1, <1>0, <2>2, Zenon DEF ChildTypeOK
        <5>3. child_pc[c] = "waiting" /\ pid[c] = p
          <6>1. WaitsFor(waitpid_map[p], p)
            BY <4>1, <1>0, <2>2, Zenon DEF NoDangling
          <6> QED
            BY <5>1, <6>1, Zenon DEF WaitsFor
        <5>4. p # AnyPid
          BY <2>2, Zenon
        <5> QED
          BY <5>1, <5>2, <5>3, <5>4, Zenon
      <4>2. CASE waitpid_map[p] = NoParent
        <5>1. wait_list # <<>> /\ c = Head(wait_list)
          BY <4>2, <2>5, Zenon DEF Receiver
        <5>2. c \in Member(wait_list)
          BY <5>1, <1>0, TailQueue DEF ChildTypeOK, NoDangling
        <5>3. c \in Parents
          BY <5>2, <1>0 DEF Member, ChildTypeOK
        <5> QED
          BY <5>1, <5>2, <5>3, <4>2, <1>0, Zenon DEF NoDangling, WaitsFor
      <4> QED
        BY <4>1, <4>2, Zenon
    <3> HIDE DEF c
    <3>3. /\ running' = c /\ child_pc'[c] = "idle"
          /\ child_pc' \in [Parents -> {"idle", "tried", "waiting"}]
          /\ \A d \in Parents : d # c => child_pc'[d] = child_pc[d]
          /\ wait_list' \in Seq(Parents) /\ waitpid_map' \in [Child -> Parents \cup {NoParent}]
          /\ NoDangling'
          /\ \A d \in Parents : child_pc'[d] = "waiting" =>
               IF pid[d] = AnyPid
                 THEN d \in Member(wait_list')
                 ELSE pid[d] \notin doubled => waitpid_map'[pid[d]] = d
      BY <3>1, <3>2, <1>1, Dequeue, Zenon
    <3>4. /\ returned'[p] = 1 /\ returned' \in [Child -> Nat]
          /\ \A x \in Child : x # p => returned'[x] = returned[x]
      BY <1>0, <2>2, <2>3, <3>1 DEF ChildTypeOK
    <3>5. ChildTypeOK'
      BY <1>0, <1>1, <2>2, <3>1, <3>2, <3>3, <3>4, Zenon DEF ChildTypeOK
    <3>6. StatusOnce'
      BY <1>0, <2>2, <2>3, <3>1, <3>4 DEF StatusOnce
    <3>7. \A d \in Parents : child_pc'[d] = "waiting" => d # c /\ child_pc[d] = "waiting"
      BY <3>3, Zenon
    <3>8. NotKeptBack' /\ Tried'
      BY <1>0, <1>1, <1>2, <3>1, <3>3, <3>7, Zenon DEF NotKeptBack, Tried
    <3>9. NotForgotten'
      <4> SUFFICES ASSUME NEW d \in Parents, child_pc'[d] = "waiting", pid[d] # AnyPid,
                          pid[d] \notin doubled,
                          child'[pid[d]] = "reaped"
                   PROVE  pid[d] \in stolen
        BY <1>1, <3>1, <3>3, Zenon DEF NotForgotten
      <4>1. d # c /\ child_pc[d] = "waiting" /\ pid[d] \in Child
        BY <3>7, <1>0 DEF ChildTypeOK
      <4>2. waitpid_map[pid[d]] = d /\ (child[pid[d]] = "reaped" => pid[d] \in stolen)
        BY <4>1, <1>0, Zenon DEF NotForgotten
      <4>3. pid[d] # p
        BY <4>1, <4>2, <3>2, Zenon
      <4> QED
        BY <4>1, <4>2, <4>3, <2>2, Zenon
    <3> QED
      BY <3>3, <3>5, <3>6, <3>8, <3>9, Zenon DEF PidInv
  <2> QED
    BY <2>4, <2>5, Zenon
<1> QED
  BY <1>3, <1>4, Zenon

\* Every step keeps the invariant of the children.
LEMMA NextPid == PidInv /\ [ChildNext]_childVars => PidInv'
<1> SUFFICES ASSUME PidInv, [ChildNext]_childVars PROVE PidInv'
  BY Zenon
<1> USE WaitPidAssumption DEF WaitPidAssumption
<1>0. ChildTypeOK /\ Tried
  BY Zenon DEF PidInv
<1>1. ASSUME NEW p \in Child, exit(p) PROVE PidInv'
  BY <1>1, ExitStep, Zenon
<1>2. ASSUME NEW c \in Parents, child_start(c) \/ child_leave(c) PROVE PidInv'
  <2>1. /\ running' \in Parents \cup {NoParent} /\ \A d \in Parents : child_pc[d] # "tried"
        /\ child_pending' \in BOOLEAN /\ handling' \in BOOLEAN
        /\ UNCHANGED <<child_pc, pid, child_timed, child_n, child, signal_ready, books,
                       childGhosts>>
    BY <1>0, <1>2, Zenon DEF child_start, child_leave, kernel, ChildTypeOK, Tried
  <2> QED
    BY <2>1, RunStep, Zenon
<1>3. ASSUME NEW c \in Parents, NEW p \in Child \cup {AnyPid}, NEW t \in BOOLEAN, waitpid(c, p, t) PROVE PidInv'
  BY <1>3, CallStep, Zenon
<1>4. ASSUME NEW c \in Parents, enqueue(c) PROVE PidInv'
  BY <1>4, EnqueueStep, Zenon
<1>5. ASSUME NEW c \in Parents, child_timeout(c) PROVE PidInv'
  BY <1>5, TimeoutStep, Zenon
<1>6. CASE on_signal
  <2>1. /\ running' \in Parents \cup {NoParent} /\ \A d \in Parents : child_pc[d] # "tried"
        /\ child_pending' \in BOOLEAN /\ handling' \in BOOLEAN
        /\ UNCHANGED <<child_pc, pid, child_timed, child_n, child, signal_ready, books,
                       childGhosts>>
    BY <1>0, <1>6, Zenon DEF on_signal, child_tasks, ChildTypeOK, Tried
  <2> QED
    BY <2>1, RunStep, Zenon
<1>7. CASE signal_handler
  BY <1>7, HandlerStep, Zenon
<1>8. CASE UNCHANGED childVars
  <2>1. UNCHANGED <<running, child_pc, pid, child_timed, child_n, child, signal_ready,
                    child_pending, handling, wait_list,
                    waitpid_map, child_processes, returned, doubled, stolen, missed>>
    BY <1>8, Zenon DEF childVars, child_tasks, kernel, books, childGhosts
  <2> QED
    BY <2>1, Zenon
      DEF PidInv, ChildTypeOK, StatusOnce, NoDangling, NotForgotten, NotKeptBack, Tried,
        WaitsFor
<1> QED
  BY <1>1, <1>2, <1>3, <1>4, <1>5, <1>6, <1>7, <1>8, Zenon DEF ChildNext, ChildRuns, ChildLoop

\* No status of a child is lost or reported twice, and the lists that signal_handler() looks
\* coroutines up in hold exactly those that wait (os/wait.cc).
THEOREM ChildrenAreReported == ChildSpec => []ChildrenReported
<1>1. PidInv => ChildrenReported
  BY Zenon DEF PidInv, ChildrenReported
<1> QED
  BY InitPid, NextPid, <1>1, PTL DEF ChildSpec
=============================================================================
