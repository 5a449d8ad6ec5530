-------------------------------- MODULE Table --------------------------------
(***************************************************************************)
(* swTable (src/memory/table.cc, swoole_table.cc): rows in shared memory,  *)
(* found by the hash of their key, with the rows of equal hashes chained   *)
(* to conflict rows of a swFixedPool.  One caller at a time, as under the  *)
(* row lock (RowLock models the lock itself).  A row has one integer       *)
(* column; Values bounds it and incr() is taken modulo their number.       *)
(***************************************************************************)
EXTENDS Naturals, Sequences, FiniteSets, SequencesExt

CONSTANTS Keys, Buckets, Extra, Hash, Values, NULL, NoKey

TableAssumption ==
    /\ Hash \in [Keys -> 1 .. Buckets]
    /\ Values = 0 .. Cardinality(Values) - 1
    /\ NoKey \notin Keys

Roots == 1 .. Buckets
Pool == Buckets + 1 .. Buckets + Extra
Rows == Roots \cup Pool

VARIABLES active, key, next, data,   \* the rows
          idle,                      \* the conflict rows the pool holds
          row_num,
          ok,                        \* what the last call returned
          absolute_index, collision_index, row,   \* table->iterator
          visited,                   \* keys seen since rewind(), NULL once
                                     \* the table has changed meanwhile
          stored                     \* what the callers have stored
rows == <<active, key, next, data, idle, row_num>>
iterator == <<absolute_index, collision_index, row>>
vars == <<rows, ok, iterator, visited, stored>>

(* swTable_create()                                                        *)
Init ==
    /\ active = [r \in Rows |-> 0]
    /\ key = [r \in Rows |-> NoKey]
    /\ next = [r \in Rows |-> NULL]
    /\ data = [r \in Rows |-> 0]
    /\ idle = Pool
    /\ row_num = 0
    /\ ok = TRUE
    /\ absolute_index = 0 /\ collision_index = 0 /\ row = NULL
    /\ visited = NULL
    /\ stored = [k \in Keys |-> NULL]

(* The rows of a bucket from its root on.                                  *)
Chain(root) ==
    FoldLeft(LAMBDA c, n : IF next[Last(c)] = NULL THEN c
                           ELSE Append(c, next[Last(c)]),
             <<root>>, [n \in 1 .. Extra |-> n])
InChain(root) == Range(Chain(root))
Match(k) == {r \in InChain(Hash[k]) : key[r] = k}

(* swTableRow_get()                                                        *)
swTableRow_get(k) ==
    LET m == {r \in Match(k) : active[r] = 1}
    IN IF m = {} THEN NULL ELSE CHOOSE r \in m : TRUE

Content(k) == LET r == swTableRow_get(k) IN IF r = NULL THEN NULL ELSE data[r]

(* swTableRow_init() of row r, which keeps its data, and the caller's      *)
(* write of the column.                                                    *)
Fill(r, k, v) ==
    /\ active' = [active EXCEPT ![r] = 1]
    /\ key' = [key EXCEPT ![r] = k]
    /\ data' = [data EXCEPT ![r] = v]
    /\ row_num' = row_num + 1

(* swTableRow_set() and the write by its caller: set() stores v, incr()    *)
(* gives no value and adds one.                                            *)
New(old, v) == IF v = NULL THEN (old + 1) % Cardinality(Values) ELSE v

swTableRow_set(k, v) ==
    LET root == Hash[k]
        value(old) == New(old, v)
    IN
    IF active[root] = 0
    THEN /\ Fill(root, k, value(data[root]))
         /\ next' = [next EXCEPT ![root] = NULL]
         /\ ok' = TRUE
         /\ UNCHANGED idle
    ELSE IF Match(k) # {}
    THEN /\ \E r \in Match(k) : data' = [data EXCEPT ![r] = value(data[r])]
         /\ ok' = TRUE
         /\ UNCHANGED <<active, key, next, idle, row_num>>
    ELSE IF idle = {}
    THEN ok' = FALSE /\ UNCHANGED <<active, key, next, data, idle, row_num>>
    ELSE \E r \in idle :
           /\ Fill(r, k, value(data[r]))
           /\ next' = [next EXCEPT ![r] = NULL, ![Last(Chain(root))] = r]
           /\ idle' = idle \ {r}
           /\ ok' = TRUE

set(k, v) ==
    /\ swTableRow_set(k, v)
    /\ stored' = IF ok' THEN [stored EXCEPT ![k] = v] ELSE stored
    /\ visited' = NULL
    /\ UNCHANGED iterator

(* incr() of a new key counts from what the memory of its row holds.       *)
incr(k) ==
    /\ swTableRow_set(k, NULL)
    /\ stored' = IF ~ok' THEN stored
                 ELSE [stored EXCEPT ![k] = IF @ = NULL THEN Content(k)'
                                            ELSE New(@, NULL)]
    /\ visited' = NULL
    /\ UNCHANGED iterator

(* A conflict row is cleared and given back to the pool.                   *)
GiveBack(r) ==
    /\ idle' = idle \cup {r}
    /\ active' = [active EXCEPT ![r] = 0]
    /\ row_num' = row_num - 1
    /\ ok' = TRUE

(* Faulty variant: the root goes, whichever row of the chain has the key.  *)
swTableRow_del_First(k) ==
    LET root == Hash[k] IN
    IF active[root] = 0 \/ Match(k) = {}
    THEN ok' = FALSE /\ UNCHANGED rows
    ELSE /\ active' = [active EXCEPT ![root] = 0]
         /\ key' = [key EXCEPT ![root] = NoKey]
         /\ next' = [next EXCEPT ![root] = NULL]
         /\ row_num' = row_num - 1
         /\ ok' = TRUE
         /\ UNCHANGED <<data, idle>>

(* swTableRow_del(): a lone root is cleared but for its data; a root with  *)
(* a chain takes over the row behind it, and that row is given back.       *)
swTableRow_del(k) ==
    LET root == Hash[k] IN
    IF active[root] = 0 \/ Match(k) = {}
    THEN ok' = FALSE /\ UNCHANGED rows
    ELSE IF next[root] = NULL
    THEN /\ active' = [active EXCEPT ![root] = 0]
         /\ key' = [key EXCEPT ![root] = NoKey]
         /\ row_num' = row_num - 1
         /\ ok' = TRUE
         /\ UNCHANGED <<next, data, idle>>
    ELSE IF key[root] = k
    THEN LET r == next[root] IN
         /\ GiveBack(r)
         /\ next' = [next EXCEPT ![root] = next[r], ![r] = NULL]
         /\ key' = [key EXCEPT ![root] = key[r], ![r] = NoKey]
         /\ data' = [data EXCEPT ![root] = data[r], ![r] = 0]
    ELSE LET r == CHOOSE r \in Match(k) : TRUE IN
         /\ GiveBack(r)
         /\ next' = [p \in Rows |-> IF p = r THEN NULL
                                    ELSE IF next[p] = r THEN next[r] ELSE next[p]]
         /\ key' = [key EXCEPT ![r] = NoKey]
         /\ data' = [data EXCEPT ![r] = 0]

del(k) ==
    /\ swTableRow_del(k)
    /\ stored' = [stored EXCEPT ![k] = NULL]
    /\ visited' = IF ok' THEN NULL ELSE visited
    /\ UNCHANGED iterator

(* swTable_iterator_forward() from <<absolute_index, collision_index>>:    *)
(* the indexes and the row it stops at.  rows[] counts from 0, Roots from  *)
(* 1.                                                                      *)
Forward(a, c) ==
    LET inside(i) == IF i = a \/ \A j \in a .. i - 1 : active[j + 1] = 0 \/ next[j + 1] = NULL
                     THEN c ELSE 0
        stops == {i \in a .. Buckets - 1 :
                    /\ active[i + 1] = 1
                    /\ next[i + 1] = NULL \/ inside(i) < Len(Chain(i + 1))}
    IN IF stops = {} THEN [at |-> Buckets, in |-> inside(Buckets), row |-> NULL]
       ELSE LET i == CHOOSE i \in stops : \A j \in stops : i =< j
            IN IF next[i + 1] = NULL
               THEN [at |-> i + 1, in |-> inside(i), row |-> i + 1]
               ELSE [at |-> i, in |-> inside(i) + 1, row |-> Chain(i + 1)[inside(i) + 1]]

Step(f) ==
    /\ absolute_index' = f.at
    /\ collision_index' = f.in
    /\ row' = f.row

(* rewind() goes to the first row at once.                                 *)
rewind ==
    LET f == Forward(0, 0) IN
    /\ Step(f)
    /\ visited' = IF f.row = NULL THEN <<>> ELSE <<key[f.row]>>
    /\ UNCHANGED <<rows, ok, stored>>

forward ==
    LET f == Forward(absolute_index, collision_index) IN
    /\ row # NULL
    /\ Step(f)
    /\ visited' = IF visited = NULL \/ f.row = NULL THEN visited
                  ELSE Append(visited, key[f.row])
    /\ UNCHANGED <<rows, ok, stored>>

Next ==
    \/ \E k \in Keys : del(k) \/ incr(k) \/ \E v \in Values : set(k, v)
    \/ rewind \/ forward

Spec == Init /\ [][Next]_vars
-----------------------------------------------------------------------------
TypeOK ==
    /\ active \in [Rows -> {0, 1}]
    /\ key \in [Rows -> Keys \cup {NoKey}]
    /\ next \in [Rows -> Pool \cup {NULL}]
    /\ data \in [Rows -> Values]
    /\ idle \subseteq Pool
    /\ row_num \in 0 .. Cardinality(Rows)
    /\ ok \in BOOLEAN
    /\ absolute_index \in 0 .. Buckets /\ collision_index \in 0 .. Extra + 1
    /\ row \in Rows \cup {NULL}
    /\ stored \in [Keys -> Values \cup {NULL}]
    /\ visited = NULL \/ Len(visited) =< Cardinality(Rows)

(* Every conflict row is in the pool or in the chain of the one bucket     *)
(* whose hash its key has: del() never drops the rest of a chain and none  *)
(* is handed out twice; row_num is the number of rows that are found.      *)
RowsAccounted ==
    /\ \A r \in Pool : r \in idle \/ \E root \in Roots : r \in InChain(root)
    /\ \A root \in Roots : InChain(root) \cap idle = {}
    /\ \A r1, r2 \in Roots : r1 # r2 => InChain(r1) \cap InChain(r2) = {}
    /\ \A root \in Roots : \A r \in InChain(root) :
          active[r] = 1 => Hash[key[r]] = root
    /\ row_num = Cardinality({k \in Keys : swTableRow_get(k) # NULL})

(* A foreach that meets no change of the table sees every key once, lone   *)
(* rows and chains alike.                                                  *)
VisitsAll ==
    visited # NULL =>
      /\ \A i, j \in 1 .. Len(visited) : i # j => visited[i] # visited[j]
      /\ row = NULL => Range(visited)
                         = {k \in Keys : swTableRow_get(k) # NULL}

(* The chained rows hold what the callers stored: set(), incr() and del()  *)
(* change the row of their key and no other, wherever it stands in its     *)
(* chain, and del() tells whether the key was there.                       *)
HoldsStored == \A k \in Keys : Content(k) = stored[k]

(* set() and incr() refuse only a new key, when the row of its hash is     *)
(* taken and as many rows of the table stand in conflict as the pool has.  *)
Held == {k \in Keys : stored[k] # NULL}
Conflicts == Cardinality(Held) - Cardinality({Hash[k] : k \in Held})
Full(k) == k \notin Held /\ Conflicts = Extra /\ \E j \in Held : Hash[j] = Hash[k]
Refuses(k) == ~ok' /\ (incr(k) \/ \E v \in Values : set(k, v))
RefusedWhenFull == [][\A k \in Keys : Refuses(k) => Full(k)]_vars
=============================================================================
