---------------------------- MODULE ProtocolRecv ----------------------------
(***************************************************************************)
(* The packet protocols of a Swoole server connection:                     *)
(* swProtocol_recv_check_length(), swProtocol_recv_check_eof() and         *)
(* string_split().  The handler of a readable connection receives what     *)
(* there is, hands every whole packet to onPackage(), and keeps the rest   *)
(* in the buffer of the connection until the connection is readable again. *)
(*                                                                         *)
(* A byte is <<p, i>>, byte i of packet p: the length of a packet can be   *)
(* read when its header is there, and its mark is its last EofLen bytes.   *)
(* SSL takes whole records from the kernel; what is left of a record does  *)
(* not make the connection readable.  The peer may close when it has sent  *)
(* everything.                                                             *)
(***************************************************************************)
EXTENDS Naturals, SequencesExt, FiniteSetsExt

CONSTANTS
  Sendable,     \* what the peer may send: sequences of lengths
  Mode,         \* the protocols: "length", "split" (open_eof_split), "check" (open_eof_check)
  HeaderLen,    \* package_length_offset + package_length_size
  EofLen,       \* package_eof_len
  BufferSize,   \* SW_BUFFER_SIZE_BIG, size of a new buffer
  RecvSize,     \* SW_BUFFER_SIZE_STD, the most that one recv() of a line asks for
  MaxLength,    \* package_max_length, which the server raises to SW_BUFFER_MIN_SIZE
  Record,       \* the longest record of SSL; 0: the connection does not use SSL
  Refusals      \* what onPackage() may do besides accept: "removed", "failed"

ProtocolRecvAssumption ==
  /\ Mode \subseteq {"length", "split", "check"} /\ Record \in Nat
  /\ Refusals \subseteq {"removed", "failed"} /\ RecvSize \in Nat \ {0}
  /\ HeaderLen \in 1 .. BufferSize /\ EofLen \in 1 .. BufferSize /\ BufferSize <= MaxLength
  /\ \A s \in Sendable : \A p \in DOMAIN s : s[p] >= HeaderLen /\ s[p] >= EofLen

VARIABLES
  Length,       \* what the peer sends
  mode,         \* the protocol of the port
  left,         \* the bytes that have not been received
  record,       \* how many of them are in the record that SSL has begun (SSL_pending())
  hup,          \* the peer has closed, and all its bytes have arrived
  str, offset, size,    \* the buffer of the connection
  recv_wait,    \* the length of the packet is known
  recv_again,   \* the handler of lines has to receive until nothing is left
  pc,           \* where the handler is; "wait": it has returned
  got,          \* what onPackage() was given
  conn,         \* "open", "removed" from the reactor, "closed", or "ended": closed after the peer
  failed        \* onPackage() has failed and the connection goes on

vars == <<Length, mode, left, record, hup, str, offset, size, recv_wait, recv_again, pc, got, conn,
          failed>>
peer == <<Length, mode, left, record, hup>>

Bytes(p) == [i \in 1 .. Length[p] |-> <<p, i>>]
Stream == FlattenSeq([p \in DOMAIN Length |-> Bytes(p)])

\* With skip_recv the buffer already has the bytes that followed a request that changed the
\* protocol.
Init ==
  /\ Length \in Sendable /\ mode \in Mode
  /\ \E skip_recv \in 0 .. IF mode = "length" THEN BufferSize ELSE 0 :
       /\ str = SubSeq(Stream, 1, skip_recv)
       /\ left = SubSeq(Stream, skip_recv + 1, Len(Stream))
       /\ pc = IF skip_recv > 0 THEN "get_length" ELSE "wait"
  /\ record = 0 /\ hup = FALSE /\ offset = 0 /\ size = BufferSize
  /\ recv_wait = FALSE /\ recv_again = FALSE
  /\ got = <<>> /\ conn = "open" /\ failed = FALSE

-----------------------------------------------------------------------------
hangs_up ==
  /\ ~hup /\ hup' = TRUE
  /\ UNCHANGED <<Length, mode, left, record, str, offset, size, recv_wait, recv_again, pc, got,
                 conn, failed>>

\* The reactor finds the connection readable.
readable ==
  /\ pc = "wait" /\ conn = "open" /\ (hup \/ Len(left) > record)
  /\ pc' = "first" /\ recv_again' = FALSE
  /\ UNCHANGED <<peer, str, offset, size, recv_wait, got, conn, failed>>

\* swSocket_recv() has nothing to give: the handler returns, or closes after the peer.
drained ==
  /\ pc \in {"first", "recv"} /\ record = 0
  /\ IF hup THEN left = <<>> ELSE pc = "recv"
  /\ pc' = "wait" /\ conn' = IF hup THEN "ended" ELSE conn
  /\ UNCHANGED <<peer, str, offset, size, recv_wait, recv_again, got, failed>>

\* swSocket_recv() for at most want bytes, which are appended to the buffer: as many as have
\* arrived.  With SSL they come from as many records as it takes, and r bytes of the last one
\* stay.
recv(want) ==
  /\ pc \in {"first", "recv"} /\ left # <<>> /\ UNCHANGED <<Length, mode, hup>>
  /\ \E n \in 1 .. Min({want, Len(left)}), r \in 0 .. Record :
       /\ hup => n = Min({want, Len(left)})
       /\ n >= Min({want, record}) /\ n + r <= Len(left)
       /\ CASE n < record -> r = record - n
            [] n = want /\ n > record -> r < Record \/ r = 0
            [] OTHER -> r = 0
       /\ str' = str \o SubSeq(left, 1, n)
       /\ left' = SubSeq(left, n + 1, Len(left))
       /\ record' = r

\* _do_recv of swProtocol_recv_check_length()

do_recv ==
  /\ mode = "length" /\ recv(IF offset > 0 THEN offset - Len(str) ELSE HeaderLen)
  /\ pc' = IF ~recv_wait THEN "get_length"
           ELSE IF Len(str') >= offset THEN "dispatch"
           ELSE IF Record > 0 THEN "recv" ELSE "wait"
  /\ UNCHANGED <<offset, size, recv_wait, recv_again, got, conn, failed>>

\* swProtocol_get_package_length(): 0 if the header is not there yet.
get_package_length == IF Len(str) < HeaderLen THEN 0 ELSE Length[str[1][1]]

\* _do_get_length
get_length ==
  /\ pc = "get_length"
  /\ LET n == get_package_length IN
       IF n = 0 \/ n > MaxLength
         THEN /\ pc' = "wait" /\ conn' = IF n = 0 THEN conn ELSE "closed"
              /\ UNCHANGED <<offset, size, recv_wait>>
         ELSE /\ size' = Max({size, n}) /\ recv_wait' = TRUE /\ offset' = n
              /\ pc' = IF Len(str) >= n THEN "dispatch" ELSE "recv"
              /\ UNCHANGED conn
  /\ UNCHANGED <<peer, recv_again, str, got, failed>>

\* Faulty variant: the handler returns though the buffer has more.
dispatch_Once ==
  /\ pc = "dispatch" /\ UNCHANGED <<peer, recv_again, size, failed>>
  /\ got' = Append(got, SubSeq(str, 1, offset))
  /\ \/ \E r \in Refusals : /\ conn' = IF r = "failed" THEN "closed" ELSE r
                            /\ pc' = "wait" /\ UNCHANGED <<str, offset, recv_wait>>
     \/ /\ recv_wait' = FALSE /\ offset' = 0
        /\ str' = SubSeq(str, offset + 1, Len(str))
        /\ pc' = IF Record > 0 THEN "recv" ELSE "wait"
        /\ UNCHANGED conn

\* _do_dispatch: onPackage(), then the next packet if it has begun.
dispatch ==
  /\ pc = "dispatch" /\ UNCHANGED <<peer, recv_again, size, failed>>
  /\ got' = Append(got, SubSeq(str, 1, offset))
  /\ \/ \E r \in Refusals : /\ conn' = IF r = "failed" THEN "closed" ELSE r
                            /\ pc' = "wait" /\ UNCHANGED <<str, offset, recv_wait>>
     \/ /\ recv_wait' = FALSE /\ offset' = 0
        /\ str' = SubSeq(str, offset + 1, Len(str))
        /\ pc' = IF Len(str) > offset THEN "get_length"
                 ELSE IF Record > 0 THEN "recv" ELSE "wait"
        /\ UNCHANGED conn

-----------------------------------------------------------------------------
\* _recv_data of swProtocol_recv_check_eof()
recv_data ==
  /\ mode # "length" /\ recv(Min({size - Len(str), RecvSize}))
  /\ pc' = IF Len(str') < EofLen THEN "wait" ELSE mode
  /\ UNCHANGED <<offset, size, recv_wait, recv_again, got, conn, failed>>

\* The positions of s where a mark ends that begins at o or later.
Ends(s, o) == {i \in EofLen .. Len(s) : i - EofLen >= o /\ s[i][2] = Length[s[i][1]]
                                        /\ s[i - EofLen + 1][1] = s[i][1]}

\* string_split() gives onPackage() what the marks E cut s into.
Cut(s, E) ==
  LET at == SetToSortSeq(E, <) IN
  [i \in DOMAIN at |-> SubSeq(s, IF i = 1 THEN 1 ELSE at[i - 1] + 1, at[i])]

\* The rest of swProtocol_recv_check_eof(), when no packet was found: the limit, a full
\* buffer, and whether to receive again.
NoEof(again) ==
  IF Len(str) = MaxLength
    THEN pc' = "wait" /\ conn' = "closed" /\ UNCHANGED <<size, recv_again>>
    ELSE /\ size' = IF Len(str) = size THEN Min({2 * size, MaxLength}) ELSE size
         /\ recv_again' = (recv_again \/ again \/ Len(str) = size)
         /\ pc' = IF recv_again' THEN "recv" ELSE "wait"
         /\ UNCHANGED conn

\* swProtocol_split_package_by_eof(): string_split() returns a size_t, so that a refusal is
\* not seen to be negative, and the buffer is cleared; SSL receives again.
split ==
  /\ pc = "split" /\ UNCHANGED <<peer, recv_wait>>
  /\ LET E == Ends(str, offset)
         rest == SubSeq(str, Max(E) + 1, Len(str))
     IN  IF E = {} THEN NoEof(TRUE) /\ offset' = Len(str) - EofLen /\ UNCHANGED <<str, got, failed>>
         ELSE \/ /\ got' = got \o Cut(str, E) /\ UNCHANGED <<conn, failed>>
                 /\ str' = rest /\ offset' = IF Len(rest) > EofLen THEN Len(rest) - EofLen ELSE 0
                 /\ recv_again' = (Record > 0) /\ UNCHANGED size
                 /\ pc' = IF recv_again' THEN "recv" ELSE "wait"
              \/ \E r \in Refusals, k \in 1 .. Cardinality(E) :
                   /\ got' = got \o SubSeq(Cut(str, E), 1, k)
                   /\ IF r = "removed"
                        THEN conn' = "closed" /\ pc' = "wait" /\ UNCHANGED <<str, offset, failed>>
                        ELSE /\ failed' = TRUE /\ str' = <<>> /\ offset' = 0 /\ UNCHANGED conn
                             /\ pc' = IF Record > 0 THEN "recv" ELSE "wait"
                   /\ recv_again' = (Record > 0) /\ UNCHANGED size

\* Without open_eof_split: what is in the buffer is one packet if it ends with a mark.
check ==
  /\ pc = "check" /\ UNCHANGED <<peer, recv_wait, failed>>
  /\ IF Len(str) \notin Ends(str, 0)
       THEN NoEof(FALSE) /\ UNCHANGED <<str, offset, got>>
       ELSE /\ got' = Append(got, str) /\ UNCHANGED <<size, recv_again>>
            /\ \/ \E r \in Refusals : /\ conn' = IF r = "failed" THEN "closed" ELSE r
                                      /\ pc' = "wait" /\ UNCHANGED <<str, offset>>
               \/ /\ str' = <<>> /\ offset' = 0 /\ UNCHANGED conn
                  /\ pc' = IF record > 0 THEN "recv" ELSE "wait"

Handler == do_recv \/ get_length \/ dispatch \/ recv_data \/ split \/ check

Next == hangs_up \/ readable \/ drained \/ Handler

Spec == Init /\ [][Next]_vars

\* The reactor calls the handler while the connection is readable, and the handler goes on.
Fairness == WF_vars(readable) /\ WF_vars(drained \/ Handler)

FairSpec == Spec /\ Fairness

-----------------------------------------------------------------------------
\* Every variable has its type.
TypeOK ==
  /\ mode \in Mode /\ record \in 0 .. Record
  /\ recv_wait \in BOOLEAN /\ recv_again \in BOOLEAN
  /\ offset \in Nat /\ size \in BufferSize .. MaxLength /\ Len(str) <= size
  /\ pc \in {"wait", "first", "recv", "get_length", "dispatch", "split", "check"}
  /\ conn \in {"open", "removed", "closed", "ended"} /\ failed \in BOOLEAN

\* onPackage() is given the packets of the peer, whole and in order; without open_eof_split
\* it may be given several at once.  With it, this ends when onPackage() fails.
PacketsWhole ==
  IF mode = "check"
    THEN /\ IsPrefix(FlattenSeq(got), Stream)
         /\ \A g \in Range(got) : Last(g)[2] = Length[Last(g)[1]]
    ELSE ~failed => \A p \in DOMAIN got : got[p] = Bytes(p)

\* What was not handed over is in the buffer or still to come, and is handed over before the
\* connection is closed after the peer, if onPackage() has not failed.
NothingLost == ~failed =>
  /\ conn = "open" => FlattenSeq(got) \o str \o left = Stream
  /\ conn = "ended" => FlattenSeq(got) = Stream

\* A connection is closed for a packet that is too big, and for no other reason.  Without
\* open_eof_split it is closed when package_max_length bytes have come without a mark at their
\* end, which may be the packets of a sender that is ahead.
RefusedIsTooBig ==
  conn = "closed" /\ Refusals = {} =>
    IF mode = "check" THEN Len(str) = MaxLength /\ Len(str) \notin Ends(str, 0)
    ELSE Length[Len(got) + 1] > MaxLength

\* When the handler returns, no whole packet is left in the buffer to wait for the next event.
\* Without open_eof_split one is, if bytes of the next have come with it.
NoneKeptBack ==
  pc = "wait" /\ conn = "open" /\ ~failed =>
    IF mode = "check" THEN Len(str) \notin Ends(str, 0)
    ELSE \A k \in DOMAIN str : str[k][2] # Length[str[k][1]]

HandedOver == FlattenSeq(got) = Stream \/ conn \notin {"open", "ended"} \/ failed

\* The handler has returned and left bytes in a record of SSL, which wait until the peer sends
\* more or closes.
Stalled == pc = "wait" /\ record > 0 /\ Len(left) = record /\ ~hup

\* It stalls without open_eof_split, and after a packet that is nothing but its header.
MayStall ==
  Stalled /\ (mode = "check" \/ (mode = "length" /\ got # <<>> /\ Len(Last(got)) = HeaderLen))

\* Everything that the peer has sent is handed over, unless the handler stalls in one of these
\* cases.
AllHandedOver == <>(HandedOver \/ MayStall)

\* The connection is closed when onPackage() fails.
\* Refuted: the code does otherwise (README.md, Disagreements).
FailureCloses == ~failed
=============================================================================
