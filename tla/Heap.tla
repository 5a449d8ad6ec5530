-------------------------------- MODULE Heap --------------------------------
(***************************************************************************)
(* swHeap: a binary heap in an array, where every node knows its position, *)
(* so that a node in the middle can be removed or get a new priority.      *)
(* A heap is a record; the operations return the new one.  The growth of   *)
(* the array is left out.                                                  *)
(***************************************************************************)
EXTENDS Naturals, Sequences

CONSTANTS
  Node,      \* addresses of heap nodes
  type       \* "min" or "max"

HeapAssumption == type \in {"min", "max"}

swHeap_new == [nodes |-> <<>>, position |-> [n \in Node |-> 0], priority |-> [n \in Node |-> 0]]

compare(a, b) == IF type = "min" THEN a > b ELSE a < b

At(h, i) == h.priority[h.nodes[i]]

Put(h, i, n) == [h EXCEPT !.nodes[i] = n, !.position[n] = i]

Swap(h, i, j) == Put(Put(h, i, h.nodes[j]), j, h.nodes[i])

maxchild(h, i) ==
  LET c == 2 * i IN
  IF c > Len(h.nodes) THEN 0
  ELSE IF c + 1 <= Len(h.nodes) /\ compare(At(h, c), At(h, c + 1)) THEN c + 1 ELSE c

RECURSIVE bubble_up(_, _)
bubble_up(h, i) ==
  IF i > 1 /\ compare(At(h, i \div 2), At(h, i))
    THEN bubble_up(Swap(h, i, i \div 2), i \div 2) ELSE h

RECURSIVE percolate_down(_, _)
percolate_down(h, i) ==
  LET c == maxchild(h, i) IN
  IF c # 0 /\ compare(At(h, i), At(h, c)) THEN percolate_down(Swap(h, i, c), c) ELSE h

\* A node that is freed.
Free(h, n) == [h EXCEPT !.position[n] = 0, !.priority[n] = 0]

push(h, n, p) ==
  LET i == Len(h.nodes) + 1 IN
  bubble_up([nodes    |-> Append(h.nodes, n),
             position |-> [h.position EXCEPT ![n] = i],
             priority |-> [h.priority EXCEPT ![n] = p]], i)

change_priority(h, p, n) ==
  LET g == [h EXCEPT !.priority[n] = p] IN
  IF compare(h.priority[n], p)
    THEN bubble_up(g, h.position[n]) ELSE percolate_down(g, h.position[n])

\* The last node takes the place of n, and moves in the direction it has to.
\* nodes[--num] of the last node is the node itself.
Last(h) == h.nodes[Len(h.nodes)]
Shrink(h) == [h EXCEPT !.nodes = SubSeq(h.nodes, 1, Len(h.nodes) - 1)]

\* Faulty variant: the node that takes the place only moves down.
remove_Down(h, n) ==
  IF n = Last(h) THEN Free(Shrink(h), n)
  ELSE Free(percolate_down(Put(Shrink(h), h.position[n], Last(h)), h.position[n]), n)

remove(h, n) ==
  IF n = Last(h) THEN Free(Shrink(h), n)
  ELSE LET pos == h.position[n]
           g   == Put(Shrink(h), pos, Last(h))
       IN  Free(IF compare(h.priority[n], At(g, pos)) THEN bubble_up(g, pos)
                ELSE percolate_down(g, pos), n)

top(h) == h.nodes[1]

pop(h) ==
  LET n == top(h) IN
  IF n = Last(h) THEN Free(Shrink(h), n)
  ELSE Free(percolate_down(Put(Shrink(h), 1, Last(h)), 1), n)
=============================================================================
