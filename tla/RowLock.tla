------------------------------ MODULE RowLock ------------------------------
(***************************************************************************)
(* The locks of the rows of one hash of a swTable (swTableRow_lock() and   *)
(* swTableRow_unlock() of include/table.h, what swTableRow_get(), _set()   *)
(* and _del() of src/memory/table.cc do under them, and current() and      *)
(* key() of swoole_table.cc): spinlocks in shared memory, which a waiter   *)
(* takes over from a process that died or that it has waited for too long. *)
(* Row 1 is the root, row 2 the one in the chain after it.                 *)
(***************************************************************************)
EXTENDS Naturals, FiniteSets

CONSTANTS Procs,      \* process ids
          Ops,        \* of "get", "set", "del" and "current"
          MaxCalls, MaxDeath

VARIABLES lock, lock_pid,   \* of each row
          chain,            \* how many rows are active
          pc, op, at,       \* of each process: at is the set of rows it uses
          alive, calls, deaths,
          lapsed     \* rows whose lock was lost while a live process had it
vars == <<lock, lock_pid, chain, pc, op, at, alive, calls, deaths, lapsed>>

Rows == {1, 2}
NoPid == 0   \* the pid of a cleared row: kill(0, 0) finds the process group

Init ==
    /\ lock = [r \in Rows |-> 0]
    /\ lock_pid = [r \in Rows |-> NoPid]
    /\ chain \in 0 .. 2
    /\ pc = [p \in Procs |-> "idle"]
    /\ op = [p \in Procs |-> "get"]
    /\ at = [p \in Procs |-> {}]
    /\ alive = Procs
    /\ calls = 0 /\ deaths = 0
    /\ lapsed = {}

(* The row that a process locks: get(), set() and del() the root, whatever *)
(* row the key is in; current() and key() the iterator's row itself.       *)
Lock(p) == IF op[p] = "current" /\ at[p] = {2} THEN 2 ELSE 1
Inside == {p \in alive : pc[p] \in {"taken", "in", "done"}}
Holders(r) == {p \in Inside : Lock(p) = r}
Go(p, s) == pc' = [pc EXCEPT ![p] = s]

(* A call of get(), set() or del(); del() looks at the row before it locks.*)
(* current() and key() come with a row that the iterator found in use.     *)
call(p, o) ==
    /\ p \in alive /\ pc[p] = "idle" /\ calls < MaxCalls
    /\ o = "del" => chain > 0
    /\ IF o = "current" THEN \E r \in 1 .. chain : at' = [at EXCEPT ![p] = {r}]
                        ELSE UNCHANGED at
    /\ calls' = calls + 1
    /\ op' = [op EXCEPT ![p] = o]
    /\ Go(p, "spin")
    /\ UNCHANGED <<lock, lock_pid, chain, alive, deaths, lapsed>>

Spins(p) == p \in alive /\ pc[p] \in {"spin", "again"}
Takes(p) ==
    /\ lock' = [lock EXCEPT ![Lock(p)] = 1]
    /\ Go(p, "taken")
    /\ UNCHANGED <<lock_pid, chain, op, at, alive, calls, deaths>>

(* Faulty variant: the lock is stored without a comparison.                *)
cmp_set_Blind(p) == Spins(p) /\ Takes(p) /\ UNCHANGED lapsed

(* sw_atomic_cmp_set(lock, 0, 1)                                           *)
cmp_set(p) == Spins(p) /\ lock[Lock(p)] = 0 /\ Takes(p) /\ UNCHANGED lapsed

(* The lock is seen taken; what follows is done on that sight.             *)
see(p) ==
    /\ Spins(p) /\ lock[Lock(p)] = 1
    /\ Go(p, IF pc[p] = "spin" THEN "busy" ELSE "late")
    /\ UNCHANGED <<lock, lock_pid, chain, op, at, alive, calls, deaths, lapsed>>

Force(p) ==
    /\ Takes(p)
    /\ lapsed' = IF Holders(Lock(p)) = {} THEN lapsed ELSE lapsed \cup {Lock(p)}

(* kill(row->lock_pid, 0) < 0 && errno == ESRCH                            *)
Gone(p) == lock_pid[Lock(p)] \notin alive \cup {NoPid}
takeDead(p) == p \in alive /\ pc[p] \in {"busy", "late"} /\ Gone(p) /\ Force(p)

(* The first time round the process marks the time.                        *)
retry(p) ==
    /\ p \in alive /\ pc[p] \in {"busy", "late"} /\ ~Gone(p)
    /\ Go(p, "again")
    /\ UNCHANGED <<lock, lock_pid, chain, op, at, alive, calls, deaths, lapsed>>

(* SW_TABLE_FORCE_UNLOCK_TIME has passed since the mark, whoever has had   *)
(* the lock in that time.                                                  *)
takeLate(p) == p \in alive /\ pc[p] = "late" /\ ~Gone(p) /\ Force(p)

(* row->lock_pid = SwooleG.pid                                             *)
sign(p) ==
    /\ p \in alive /\ pc[p] = "taken"
    /\ lock_pid' = [lock_pid EXCEPT ![Lock(p)] = p]
    /\ Go(p, "in")
    /\ UNCHANGED <<lock, chain, op, at, alive, calls, deaths, lapsed>>

(* Under its lock p leaves a chain of n rows, has used the given rows, and *)
(* has cleared the header of some, the lock included.                      *)
Uses(p, n, rows, cleared) ==
    /\ chain' = n
    /\ at' = [at EXCEPT ![p] = rows]
    /\ lock' = [r \in Rows |-> IF r \in cleared THEN 0 ELSE lock[r]]
    /\ lock_pid' = [r \in Rows |-> IF r \in cleared THEN NoPid ELSE lock_pid[r]]
    /\ lapsed' = lapsed \cup {r \in cleared : Holders(r) # {}}
    /\ Go(p, "done")
    /\ UNCHANGED <<op, alive, calls, deaths>>

Works(p, o) == p \in alive /\ pc[p] = "in" /\ op[p] = o

(* The row of the key, or none.                                            *)
swTableRow_get(p) ==
    /\ Works(p, "get")
    /\ \E rows \in {{}} \cup {{r} : r \in 1 .. chain} : Uses(p, chain, rows, {})

(* The row of the key, or a new one, which is cleared; without a free row  *)
(* the key is refused.                                                     *)
swTableRow_set(p) ==
    /\ Works(p, "set")
    /\ \/ \E r \in 1 .. chain : Uses(p, chain, {r}, {})
       \/ IF chain = 2 THEN Uses(p, chain, {}, {})
                       ELSE Uses(p, chain + 1, 1 .. chain + 1, {chain + 1})

(* A lone root is cleared; of two rows it is the second, whose data moves  *)
(* to the root when the root's key goes.                                   *)
swTableRow_del(p) ==
    /\ Works(p, "del")
    /\ \/ Uses(p, chain, {}, {})
       \/ chain > 0 /\ Uses(p, chain - 1, 1 .. chain, {chain})

(* The iterator's row is read, also one that was deleted meanwhile.        *)
current(p) == Works(p, "current") /\ Uses(p, chain, at[p], {})

(* p leaves the row: nobody else has a lock that had lapsed.               *)
Leaves(p) ==
    /\ lapsed' = lapsed \ {r \in Rows : Holders(r) \subseteq {p}}
    /\ Go(p, "idle")
    /\ op' = [op EXCEPT ![p] = "get"]
    /\ at' = [at EXCEPT ![p] = {}]

(* The caller has read or written the columns.                             *)
swTableRow_unlock(p) ==
    /\ p \in alive /\ pc[p] = "done"
    /\ lock' = [lock EXCEPT ![Lock(p)] = 0]
    /\ Leaves(p)
    /\ UNCHANGED <<lock_pid, chain, alive, calls, deaths>>

(* A process is killed, or ends between two calls.                         *)
die(p) ==
    /\ p \in alive /\ deaths < MaxDeath /\ Cardinality(alive) > 1
    /\ alive' = alive \ {p}
    /\ deaths' = deaths + 1
    /\ Leaves(p)
    /\ UNCHANGED <<lock, lock_pid, chain, calls>>

(* Another process gets the pid.                                           *)
reuse(p) ==
    /\ p \notin alive
    /\ alive' = alive \cup {p}
    /\ UNCHANGED <<lock, lock_pid, chain, pc, op, at, calls, deaths, lapsed>>

work(p) == swTableRow_get(p) \/ swTableRow_set(p) \/ swTableRow_del(p) \/ current(p)
step(p) == sign(p) \/ work(p) \/ swTableRow_unlock(p)
spin(p) == see(p) \/ retry(p)
take(p) == cmp_set(p) \/ takeDead(p) \/ takeLate(p)

Next == \E p \in Procs : \/ \E o \in Ops : call(p, o)
                         \/ step(p) \/ spin(p) \/ take(p) \/ die(p) \/ reuse(p)

Spec == Init /\ [][Next]_vars

(* A process in swTableRow_lock() or under the lock goes on.  It meets a   *)
(* free lock, or its time is over, in the end.                             *)
Fairness ==
    \A p \in Procs : WF_vars(step(p)) /\ WF_vars(spin(p)) /\ SF_vars(take(p))
FairSpec == Spec /\ Fairness
-----------------------------------------------------------------------------
TypeOK ==
    /\ lock \in [Rows -> {0, 1}] /\ chain \in 0 .. 2
    /\ lock_pid \in [Rows -> Procs \cup {NoPid}]
    /\ pc \in [Procs -> {"idle", "spin", "again", "busy", "late", "taken", "in", "done"}]
    /\ op \in [Procs -> {"get", "set", "del", "current"}]
    /\ at \in [Procs -> SUBSET Rows]
    /\ alive \subseteq Procs
    /\ calls \in 0 .. MaxCalls /\ deaths \in 0 .. MaxDeath /\ lapsed \subseteq Rows

(* Two processes use one row only after a call cleared the header of the   *)
(* row it had locked, or after a waiter took the row over while a live     *)
(* process had it; or one of them is current() or key(), which locks a row *)
(* of a chain itself, while get(), set() and del() of its key lock the     *)
(* root.                                                                   *)
SharedNeedsLapse ==
    \A p, q \in Inside :
        p # q /\ at[p] \cap at[q] # {} => Lock(p) \in lapsed \/ Lock(p) # Lock(q)

Waits(p) == p \in alive /\ pc[p] \in {"spin", "again", "busy", "late"}

(* Every process that waits for a row gets it, also one whose owner died   *)
(* with it, unsigned, signed, or with its pid in use again.                *)
Gets == \A p \in Procs : Waits(p) ~> ~Waits(p)

(* swTableRow_lock() takes a row by force only when the process that had   *)
(* it "no longer exists".                                                  *)
(* Refuted: the code does otherwise (README.md, Disagreements).            *)
TakenFromDead ==
    [][\A p \in Procs : takeDead(p) \/ takeLate(p) => Holders(Lock(p)) = {}]_vars
=============================================================================
