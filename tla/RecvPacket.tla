----------------------------- MODULE RecvPacket -----------------------------
(***************************************************************************)
(* swoole::coroutine::Socket::recv_packet(): packets cut out of a stream   *)
(* that arrives in pieces of any size, with a length in a header or with a *)
(* mark at the end.  What was received beyond a packet stays in            *)
(* read_buffer for the next call, and the next call may follow another     *)
(* protocol.                                                               *)
(*                                                                         *)
(* A byte is <<p, i>>, byte i of packet p: the length of a packet can be   *)
(* read when its header is there, and its mark is its last EofLen bytes.   *)
(* A program that has lost bytes is not followed further: what recv_packet *)
(* would find next is the middle of a packet.                              *)
(***************************************************************************)
EXTENDS Naturals, SequencesExt, FiniteSetsExt

CONSTANTS
  Sendable,     \* what the peer may send: sequences of [kind, len]
  HeaderLen,    \* package_length_offset + package_length_size
  EofLen,       \* package_eof_len
  BufferSize,   \* size of a new read_buffer, and the most that one recv() asks for
  MaxLength     \* package_max_length

RecvPacketAssumption ==
  /\ \A s \in Sendable : \A p \in DOMAIN s :
       /\ s[p].kind \in {"length", "eof"}
       /\ s[p].len >= IF s[p].kind = "length" THEN HeaderLen ELSE EofLen
  /\ HeaderLen \in 1 .. BufferSize /\ EofLen \in 1 .. BufferSize

VARIABLES
  Packet,       \* what it sends
  left,         \* the bytes that have not been received
  rb,           \* read_buffer
  pc,           \* where recv_packet() waits for recv()
  want,         \* how many bytes recv_packet() or recv_all() wants
  got,          \* the packets returned
  status,       \* how the last call has ended
  lost          \* the bytes that a timeout has cleared

vars == <<Packet, left, rb, pc, want, got, status, lost>>

Bytes(p) == [i \in 1 .. Packet[p].len |-> <<p, i>>]
Stream == FlattenSeq([p \in DOMAIN Packet |-> Bytes(p)])
Kind == Packet[Len(got) + 1].kind        \* what the program expects next
Unread == SubSeq(rb.str, rb.offset + 1, rb.offset + rb.length)

Init ==
  /\ Packet \in Sendable /\ left = Stream
  /\ rb = [str |-> <<>>, length |-> 0, offset |-> 0, size |-> BufferSize]
  /\ pc = "idle" /\ want = 0 /\ got = <<>> /\ status = "ok"
  /\ lost = <<>>

-----------------------------------------------------------------------------
\* swString_sub(): what is unread moves to the front.
sub(b) == [b EXCEPT !.str = SubSeq(@, b.offset + 1, b.offset + b.length), !.offset = 0]

\* swString_extend()
extend(b, n) == [b EXCEPT !.size = IF n > @ THEN n ELSE @]

\* A packet of n bytes is returned; what remains is kept.
returns(b, n) ==
  /\ got' = Append(got, SubSeq(b.str, 1, n))
  /\ rb' = IF n < b.length THEN [b EXCEPT !.length = @ - n, !.offset = @ + n]
                           ELSE [b EXCEPT !.length = 0]
  /\ pc' = "idle" /\ status' = "ok" /\ want' = 0

fails(b, why) == rb' = b /\ status' = why /\ pc' = "idle" /\ want' = 0 /\ UNCHANGED got
waits(b, where, n) == rb' = b /\ pc' = where /\ want' = n /\ UNCHANGED <<got, status>>

\* Faulty variant: the buffer is not extended.
get_length_Small(b) ==
  IF b.length < HeaderLen THEN waits(b, "header", HeaderLen - b.length)
  ELSE LET n == Packet[b.str[1][1]].len IN
       IF n > MaxLength THEN fails(b, "too big")
       ELSE IF n <= b.length THEN returns(b, n)
       ELSE waits(b, "body", n - b.length)

\* _recv_header and _get_length: swProtocol_get_package_length()
get_length(b) ==
  IF b.length < HeaderLen THEN waits(b, "header", HeaderLen - b.length)
  ELSE LET n == Packet[b.str[1][1]].len IN
       IF n > MaxLength THEN fails(b, "too big")
       ELSE IF n <= b.length THEN returns(b, n)
       ELSE waits(extend(b, n), "body", n - b.length)

\* _find_eof: swoole_strnpos(); the positions where a mark ends.
Ends(b) ==
  {i \in EofLen .. b.length :
     /\ b.str[i][2] = Packet[b.str[i][1]].len
     /\ Packet[b.str[i][1]].kind = "eof"
     /\ \A k \in 1 .. EofLen - 1 : b.str[i - k] = <<b.str[i][1], b.str[i][2] - k>>}

more(b) ==
  LET room == b.size - b.length IN
  waits(b, "eof", IF room > BufferSize THEN BufferSize ELSE room)

find_eof(b) ==
  IF Ends(b) # {} THEN returns(b, Min(Ends(b)))
  ELSE IF b.length = MaxLength THEN fails([b EXCEPT !.length = 0], "too big")
  ELSE IF b.length = b.size /\ b.size < MaxLength
    THEN more(extend(b, Min({2 * b.size, MaxLength})))
  ELSE more(b)

-----------------------------------------------------------------------------
\* recv_packet(): the call, up to its first recv().
recv_packet ==
  /\ pc = "idle" /\ status \in {"ok", "timeout"} /\ lost = <<>> /\ Len(got) < Len(Packet)
  /\ LET b == IF rb.offset > 0 THEN sub(rb) ELSE rb IN
       IF Kind = "length" THEN get_length(b)
       ELSE IF b.length > 0 THEN find_eof(b)
       ELSE more(b)
  /\ UNCHANGED <<Packet, left, lost>>

\* recv() returns n bytes, and recv_packet() goes on with the buffer b.
arrives(n) ==
  /\ pc # "idle"
  /\ n \in 1 .. Len(left) /\ n <= want
  /\ left' = SubSeq(left, n + 1, Len(left)) /\ UNCHANGED <<Packet, lost>>
  /\ LET b == [rb EXCEPT !.str = SubSeq(@, 1, rb.length) \o SubSeq(left, 1, n), !.length = @ + n] IN
       IF pc = "eof"
         THEN IF b.length < EofLen THEN more(b) ELSE find_eof(b)
       ELSE IF pc = "header" THEN get_length(b)
       ELSE IF n < want THEN waits(b, "body", want - n)      \* the loop of recv_all()
       ELSE returns(b, b.length)

\* Faulty variant: what a packet with a length already has is cleared too.
times_out_Clears ==
  /\ pc # "idle"
  /\ fails([rb EXCEPT !.length = 0], "timeout")
  /\ lost' = IF pc = "eof" THEN Unread ELSE <<>>
  /\ UNCHANGED <<Packet, left>>

\* recv() or recv_all() fails because the time is over.  What a packet with a length already
\* has is kept (recv_packet() returns 0 if recv_all() has got a part of it); the search for a
\* mark clears the buffer.
times_out ==
  /\ pc # "idle"
  /\ fails(IF pc = "eof" THEN [rb EXCEPT !.length = 0] ELSE rb, "timeout")
  /\ lost' = IF pc = "eof" THEN Unread ELSE <<>>
  /\ UNCHANGED <<Packet, left>>

\* recv() for no bytes returns 0.
empty ==
  /\ pc # "idle" /\ want = 0
  /\ fails([rb EXCEPT !.length = 0], "closed")
  /\ UNCHANGED <<Packet, left, lost>>

Next == recv_packet \/ times_out \/ empty \/ \E n \in 1 .. MaxLength : arrives(n)

Spec == Init /\ [][Next]_vars

\* The program calls again, the bytes arrive, and not every call times out first.
Fairness == WF_vars(recv_packet) /\ SF_vars(\E n \in 1 .. MaxLength : arrives(n))

FairSpec == Spec /\ Fairness

-----------------------------------------------------------------------------
\* Every variable has its type.
TypeOK ==
  /\ rb.length \in Nat /\ rb.offset \in Nat /\ rb.offset + rb.length <= Len(rb.str)
  /\ pc \in {"idle", "header", "body", "eof"} /\ want \in Nat
  /\ status \in {"ok", "timeout", "too big", "closed"}

\* What recv_packet() returns are the packets of the peer, whole and in order, however they
\* were cut on the way.
PacketsWhole == \A p \in DOMAIN got : got[p] = Bytes(p)

\* What was not returned is in the buffer or still to come: nothing is lost or seen twice,
\* except that a timeout in the search for a mark loses the beginning of that packet, and no
\* other byte.
NothingLost ==
  /\ status \in {"ok", "timeout"} => FlattenSeq(got) \o lost \o Unread \o left = Stream
  /\ lost # <<>> => Kind = "eof" /\ IsStrictPrefix(lost, Bytes(Len(got) + 1))

\* recv() is never asked for more than fits behind what is in the buffer, and never for nothing,
\* if package_max_length is not below the size of a new buffer.
AsksInBuffer == pc # "idle" => want > 0 /\ rb.length + want <= rb.size

\* A packet is refused exactly if it is longer than package_max_length, if that is not below
\* the size of a new buffer.
RefusedIsTooBig ==
  /\ status = "too big" => Packet[Len(got) + 1].len > MaxLength
  /\ \A p \in DOMAIN got : Packet[p].len <= MaxLength

Returned == Len(got) = Len(Packet) \/ status = "too big" \/ lost # <<>>

\* Every packet is returned, unless one is too big or a timeout has lost the beginning of one.
AllReturned == <>Returned
=============================================================================
