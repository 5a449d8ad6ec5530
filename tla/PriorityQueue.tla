---------------------------- MODULE PriorityQueue ----------------------------
(***************************************************************************)
(* What swHeap promises: a set of nodes with priorities, of which pop()    *)
(* takes one that no other precedes.                                       *)
(***************************************************************************)
EXTENDS Naturals

CONSTANTS Node, Priority, type

VARIABLE pending    \* the priority of every node that is in the queue

Before(a, b) == IF type = "min" THEN a < b ELSE a > b

Without(n) == [m \in DOMAIN pending \ {n} |-> pending[m]]
With(n, p) == [m \in DOMAIN pending \cup {n} |-> IF m = n THEN p ELSE pending[m]]

Init == pending = [n \in {} |-> 0]

push(n, p) == n \notin DOMAIN pending /\ pending' = With(n, p)
change_priority(n, p) == n \in DOMAIN pending /\ pending' = With(n, p)
remove(n) == n \in DOMAIN pending /\ pending' = Without(n)

\* What pop() takes; of the steps below it is a remove.
First(n) == n \in DOMAIN pending /\ \A m \in DOMAIN pending : ~ Before(pending[m], pending[n])

Next ==
  \E n \in Node :
    \/ \E p \in Priority : push(n, p) \/ change_priority(n, p)
    \/ remove(n)

Spec == Init /\ [][Next]_pending
=============================================================================
