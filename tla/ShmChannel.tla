----------------------------- MODULE ShmChannel -----------------------------
(***************************************************************************)
(* swChannel (src/core/channel.cc): messages of any length up to maxlen,   *)
(* end to end in a ring of shared memory with an overflow space behind it. *)
(* swServer's message_box, by which workers that stop tell the manager.    *)
(* push and pop hold the channel's mutex, so each is one step.  The length *)
(* field of an item takes one unit of memory.                              *)
(***************************************************************************)
EXTENDS Naturals, Sequences, SequencesExt

CONSTANTS Size,      \* object->size
          Maxlen,    \* object->maxlen
          MaxId      \* messages are numbered modulo MaxId

ChannelAssumption == Size >= Maxlen /\ MaxId > Size

VARIABLES head, tail, head_tag, tail_tag, num, bytes,
          mem,       \* the cells of the memory, overflow space included
          id,        \* the number of the next message
          queue,     \* what was pushed and not popped: number and length
          out,       \* what the last pop returned
          refused    \* the length of the push that was just refused, if any
vars == <<head, tail, head_tag, tail_tag, num, bytes, mem, id, queue, out, refused>>

Cells == 0 .. Size + Maxlen
Junk == [id |-> MaxId, at |-> 0]

Init ==
    /\ head = 0 /\ tail = 0 /\ head_tag = 0 /\ tail_tag = 0
    /\ num = 0 /\ bytes = 0
    /\ mem = [c \in Cells |-> Junk]
    /\ id = 0
    /\ queue = <<>>
    /\ out = <<>>
    /\ refused = {}

swChannel_empty == num = 0

swChannel_full ==
    \/ head = tail /\ tail_tag # head_tag
    \/ bytes + num = Size

(* Faulty variant: the room between tail and head is not compared with the message. *)
swChannel_in_Room(n) ==
    IF swChannel_full
    THEN /\ refused' = {n}
         /\ UNCHANGED <<head, tail, head_tag, tail_tag, num, bytes, mem, id, queue, out>>
    ELSE LET to == tail + n + 1
             wraps == tail >= head /\ to >= Size
         IN
         /\ tail' = IF wraps THEN 0 ELSE to
         /\ tail_tag' = IF wraps THEN 1 - tail_tag ELSE tail_tag
         /\ num' = num + 1
         /\ bytes' = bytes + n
         /\ mem' = [c \in Cells |-> IF c \in tail .. tail + n
                                    THEN [id |-> id, at |-> IF c = tail THEN n ELSE 0]
                                    ELSE mem[c]]
         /\ queue' = Append(queue, [id |-> id, length |-> n])
         /\ id' = (id + 1) % MaxId
         /\ refused' = {}
         /\ UNCHANGED <<head, head_tag, out>>

(* swChannel_push(): SW_ERR leaves the channel as it is.                   *)
swChannel_in(n) ==
    IF swChannel_full \/ (tail < head /\ head - tail < n + 1)
    THEN /\ refused' = {n}
         /\ UNCHANGED <<head, tail, head_tag, tail_tag, num, bytes, mem, id, queue, out>>
    ELSE LET to == tail + n + 1
             wraps == tail >= head /\ to >= Size
         IN
         /\ tail' = IF wraps THEN 0 ELSE to
         /\ tail_tag' = IF wraps THEN 1 - tail_tag ELSE tail_tag
         /\ num' = num + 1
         /\ bytes' = bytes + n
         /\ mem' = [c \in Cells |-> IF c \in tail .. tail + n
                                    THEN [id |-> id, at |-> IF c = tail THEN n ELSE 0]
                                    ELSE mem[c]]
         /\ queue' = Append(queue, [id |-> id, length |-> n])
         /\ id' = (id + 1) % MaxId
         /\ refused' = {}
         /\ UNCHANGED <<head, head_tag, out>>

(* swChannel_pop()                                                         *)
swChannel_out ==
    LET n == mem[head].at
        to == head + n + 1
    IN
    /\ ~swChannel_empty
    /\ out' = [c \in 1 .. n + 1 |-> mem[head + c - 1].id]
    /\ head' = IF to >= Size THEN 0 ELSE to
    /\ head_tag' = IF to >= Size THEN 1 - head_tag ELSE head_tag
    /\ num' = num - 1
    /\ bytes' = bytes - n
    /\ queue' = Tail(queue)
    /\ refused' = {}
    /\ UNCHANGED <<tail, tail_tag, mem, id>>

Next == swChannel_out \/ \E n \in 0 .. Maxlen : swChannel_in(n)

Spec == Init /\ [][Next]_vars
-----------------------------------------------------------------------------
TypeOK ==
    /\ head \in 0 .. Size - 1 /\ tail \in 0 .. Size - 1
    /\ head_tag \in {0, 1} /\ tail_tag \in {0, 1}
    /\ num = Len(queue)
    /\ bytes = FoldLeft(LAMBDA n, m : n + m.length, 0, queue)
    /\ id \in 0 .. MaxId - 1

(* The offset of the i-th message of the queue, walking the lengths in     *)
(* memory from the head.                                                   *)
Offset(i) ==
    FoldLeft(LAMBDA o, m : IF o + m.length + 1 >= Size THEN 0 ELSE o + m.length + 1,
             head, SubSeq(queue, 1, i - 1))

(* Every message that waits is whole in memory where the consumer will     *)
(* look for it: no push writes over one, at the end of the ring, in the    *)
(* overflow space behind it, or at the head.                               *)
Kept ==
    \A i \in 1 .. Len(queue) :
        /\ mem[Offset(i)].at = queue[i].length
        /\ \A c \in Offset(i) .. Offset(i) + queue[i].length :
              mem[c].id = queue[i].id

(* swChannel_pop() returns the oldest message, whole.                      *)
InOrder ==
    [][queue' # queue /\ Len(queue') < Len(queue) =>
         out' = [c \in 1 .. queue[1].length + 1 |-> queue[1].id]]_vars

(* A push is refused only when the ring has less room than the message     *)
(* takes: the channel never locks itself up with room to spare.            *)
RefusedWhenFull == \A n \in refused : bytes + num + n + 1 > Size
=============================================================================
