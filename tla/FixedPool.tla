----------------------------- MODULE FixedPool -----------------------------
(***************************************************************************)
(* swFixedPool (src/memory/fixed_pool.cc): slices of one size in a doubly  *)
(* linked list that holds the idle slices at its head and the busy ones at *)
(* its tail.  swTable takes its conflict rows from it.  Slice i is the     *)
(* i-th one in memory; the calls are made one at a time (swTable holds its *)
(* own mutex around them).                                                 *)
(***************************************************************************)
EXTENDS Naturals, FiniteSets

CONSTANTS SliceNum, NULL

(* swFixedPool_alloc() follows slice->next of a head it takes, so a pool   *)
(* has two slices at least; swTable_new() makes no pool under twelve.      *)
SliceNumAssumption == SliceNum \in Nat \ {0, 1}

VARIABLES head, tail, next, pre, lock, slice_use, ret
vars == <<head, tail, next, pre, lock, slice_use, ret>>

Slices == 1 .. SliceNum

(* swFixedPool_init(): every slice in memory order becomes the new head.   *)
Init ==
    /\ head = SliceNum
    /\ tail = 1
    /\ next = [s \in Slices |-> IF s = 1 THEN NULL ELSE s - 1]
    /\ pre = [s \in Slices |-> IF s = SliceNum THEN NULL ELSE s + 1]
    /\ lock = [s \in Slices |-> 0]
    /\ slice_use = 0
    /\ ret = NULL

(* The head leaves for the tail, unless it is busy: then all are.          *)
swFixedPool_alloc ==
    LET slice == head IN
    IF lock[slice] = 0
    THEN /\ lock' = [lock EXCEPT ![slice] = 1]
         /\ slice_use' = slice_use + 1
         /\ head' = next[slice]
         /\ pre' = [pre EXCEPT ![next[slice]] = NULL, ![slice] = tail]
         /\ next' = [next EXCEPT ![tail] = slice, ![slice] = NULL]
         /\ tail' = slice
         /\ ret' = slice
    ELSE ret' = NULL /\ UNCHANGED <<head, tail, next, pre, lock, slice_use>>

(* slice->pre->next = slice->next and, unless it is the tail,              *)
(* slice->next->pre = slice->pre; then the slice is linked before the head.*)
Unlink(slice) ==
    /\ tail' = IF next[slice] = NULL THEN pre[slice] ELSE tail
    /\ next' = [next EXCEPT ![pre[slice]] = next[slice], ![slice] = head]
    /\ pre' = [t \in Slices |->
                 IF t = slice THEN NULL
                 ELSE IF t = head THEN slice
                 ELSE IF t = next[slice] THEN pre[slice] ELSE pre[t]]
    /\ head' = slice

(* Faulty variant: the slice stays where it is in the list.                *)
swFixedPool_free_Leave(slice) ==
    /\ lock[slice] = 1
    /\ lock' = [lock EXCEPT ![slice] = 0]
    /\ slice_use' = slice_use - 1
    /\ UNCHANGED <<head, tail, next, pre, ret>>

(* A slice goes back once: its owner has it from swFixedPool_alloc().      *)
swFixedPool_free(slice) ==
    /\ lock[slice] = 1
    /\ lock' = [lock EXCEPT ![slice] = 0]
    /\ slice_use' = slice_use - 1
    /\ IF pre[slice] = NULL
       THEN UNCHANGED <<head, tail, next, pre>>
       ELSE Unlink(slice)
    /\ UNCHANGED ret

Next == swFixedPool_alloc \/ \E s \in Slices : swFixedPool_free(s)

Spec == Init /\ [][Next]_vars
-----------------------------------------------------------------------------
TypeOK ==
    /\ head \in Slices
    /\ tail \in Slices
    /\ next \in [Slices -> Slices \cup {NULL}]
    /\ pre \in [Slices -> Slices \cup {NULL}]
    /\ lock \in [Slices -> {0, 1}]
    /\ slice_use \in 0 .. SliceNum
    /\ ret \in Slices \cup {NULL}

(* The slice that is n steps behind the head.                              *)
Nth[n \in 0 .. SliceNum - 1] ==
    IF n = 0 THEN head
    ELSE IF Nth[n - 1] = NULL THEN NULL ELSE next[Nth[n - 1]]

(* The list of src/memory/fixed_pool.cc stays one list: from the head it   *)
(* passes every slice once, ends in the tail, and the links back agree.    *)
OneList ==
    /\ {Nth[n] : n \in 0 .. SliceNum - 1} = Slices
    /\ Nth[SliceNum - 1] = tail
    /\ next[tail] = NULL
    /\ pre[head] = NULL
    /\ \A n \in 1 .. SliceNum - 1 : pre[Nth[n]] = Nth[n - 1]

(* No busy slice is in front of an idle one, so a look at the head tells   *)
(* whether any is idle; slice_use counts the busy ones.                    *)
IdleFirst ==
    /\ \A n \in 1 .. SliceNum - 1 : lock[Nth[n - 1]] = 1 => lock[Nth[n]] = 1
    /\ slice_use = Cardinality({s \in Slices : lock[s] = 1})

Pool == INSTANCE SlicePool WITH taken <- {s \in Slices : lock[s] = 1}

(* The list implements the pool: swFixedPool_alloc() gives a slice to one  *)
(* owner at a time, and returns NULL only when all are taken.              *)
IsPool == Pool!Spec
=============================================================================
