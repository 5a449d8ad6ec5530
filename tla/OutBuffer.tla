----------------------------- MODULE OutBuffer ------------------------------
(***************************************************************************)
(* How the event loop writes to a socket that does not take everything at  *)
(* once (swReactor_write(), swReactor_onWrite(), swReactor_wait_write_     *)
(* buffer() of src/reactor/base.cc, the chunks of src/memory/buffer.cc,    *)
(* swSocket_buffer_send() of src/network/socket.cc).  What the kernel      *)
(* leaves is kept in chunks and sent when the socket is writable.          *)
(*                                                                         *)
(* Bytes are numbered in the order in which they are written.  The socket  *)
(* of Swoole\Event (UserFd) has a write handler of its own.                *)
(***************************************************************************)
EXTENDS Naturals, Sequences

CONSTANTS
    buffer_size,   \* socket->buffer_size
    Options,       \* what the sockets of the program are like
    Lengths,       \* lengths of writes
    MaxBytes       \* bytes written, at most

(* chunk_size is 0 for no limit.  A socket that is listened to is          *)
(* registered for reading; one with userFd has the fdtype SW_FD_USER, and  *)
(* its user may have set a write callback.                                 *)
Option == [chunk_size : Nat, dontwait : BOOLEAN, listened : BOOLEAN, userFd : BOOLEAN,
           writeCallback : BOOLEAN]

ASSUME OutBufferAssumption ==
    /\ buffer_size \in Nat \ {0} /\ MaxBytes \in Nat
    /\ Options \subseteq Option
    /\ Lengths \subseteq Nat \ {0}

VARIABLES
    option,           \* the kind of the socket, which stays
    chunks,           \* out_buffer: its chunks, head first
    length,           \* out_buffer->length
    events,           \* what the socket is registered for in the event loop
    buffer_closed,    \* the socket has been closed
    buffer_pc,        \* "idle", or inside the loop of onWrite
    buffer_accepted,  \* bytes for which write() has reported success
    buffer_sent       \* bytes the kernel has taken

bufferVars == <<option, chunks, length, events, buffer_closed, buffer_pc, buffer_accepted,
                buffer_sent>>

(* Bytes first .. first + len - 1, of which offset have been sent. *)
Chunk == [first : 1 .. MaxBytes, len : 1 .. MaxBytes, offset : 0 .. MaxBytes]

BufferInit ==
    /\ option \in Options
    /\ chunks = <<>> /\ length = 0
    /\ events = IF option.listened THEN {"read"} ELSE {}
    /\ buffer_closed = FALSE /\ buffer_pc = "idle"
    /\ buffer_accepted = 0 /\ buffer_sent = 0

-----------------------------------------------------------------------------
(* Cut n bytes, of which first is the first, into chunks. *)
Cut(first, n) ==
    LET size == IF option.chunk_size = 0 THEN n ELSE option.chunk_size
        num == (n + size - 1) \div size
    IN [k \in 1 .. num |->
          [first |-> first + (k - 1) * size,
           len |-> IF k < num THEN size ELSE n - (k - 1) * size,
           offset |-> 0]]

swBuffer_append(first, n) ==
    /\ chunks' = chunks \o Cut(first, n)
    /\ length' = length + n

swReactor_add_write_event == events' = events \union {"write"}

swReactor_remove_write_event == events' = events \ {"write"}

(* Faulty variant: the rest is kept, but nobody listens for writability.   *)
writeDirect_Unheard(n, k) ==
    /\ chunks = <<>>
    /\ buffer_sent' = buffer_sent + k
    /\ buffer_accepted' = buffer_accepted + n
    /\ IF k = n
         THEN UNCHANGED <<chunks, length, events>>
         ELSE swBuffer_append(buffer_accepted + k + 1, n - k) /\ UNCHANGED events

(* Nothing waits: the kernel takes k of the n bytes, the rest is kept.     *)
writeDirect(n, k) ==
    /\ chunks = <<>>
    /\ buffer_sent' = buffer_sent + k
    /\ buffer_accepted' = buffer_accepted + n
    /\ IF k = n
         THEN UNCHANGED <<chunks, length, events>>
         ELSE swBuffer_append(buffer_accepted + k + 1, n - k) /\ swReactor_add_write_event

(* Something waits: the bytes go behind it, unless too much waits and the  *)
(* caller does not want to wait; one that does waits for a while and then  *)
(* appends.                                                                *)
writeAppend(n) ==
    /\ chunks # <<>>
    /\ length <= buffer_size \/ ~option.dontwait
    /\ buffer_accepted' = buffer_accepted + n
    /\ swBuffer_append(buffer_accepted + 1, n)
    /\ UNCHANGED <<events, buffer_sent>>

(* A write is refused, and changes nothing, if it is longer than the       *)
(* buffer, if too much waits, or if the kernel reports an error.           *)
swReactor_write ==
    /\ ~buffer_closed /\ buffer_pc = "idle"
    /\ \E n \in Lengths :
         /\ n <= buffer_size /\ buffer_accepted + n <= MaxBytes
         /\ \/ \E k \in 0 .. n : writeDirect(n, k)
            \/ writeAppend(n)
    /\ UNCHANGED <<option, buffer_closed, buffer_pc>>

-----------------------------------------------------------------------------

swBuffer_pop_chunk ==
    /\ chunks' = Tail(chunks)
    /\ length' = IF Len(chunks) = 1 THEN 0 ELSE length - Head(chunks).len

(* The kernel takes k bytes of the first chunk: all that is left of it, or *)
(* fewer, and then onWrite ends.                                           *)
swSocket_buffer_send(k) ==
    LET sendn == Head(chunks).len - Head(chunks).offset
    IN /\ k <= sendn
       /\ buffer_sent' = buffer_sent + k
       /\ IF k = sendn
            THEN swBuffer_pop_chunk /\ UNCHANGED buffer_pc
            ELSE /\ chunks' = [chunks EXCEPT ![1].offset = @ + k]
                 /\ buffer_pc' = "idle"
                 /\ UNCHANGED length

(* Through SW_FD_USER a writable socket calls the user's write callback;   *)
(* without one the socket is taken out of the event loop.                  *)
php_swoole_event_onWrite ==
    /\ option.userFd /\ buffer_pc = "idle" /\ "write" \in events /\ ~buffer_closed
    /\ events' = IF option.writeCallback THEN events ELSE {}
    /\ UNCHANGED <<option, chunks, length, buffer_closed, buffer_pc, buffer_accepted,
                   buffer_sent>>

(* The socket is writable. *)
onWriteBegin ==
    /\ ~option.userFd /\ buffer_pc = "idle" /\ "write" \in events /\ ~buffer_closed
    /\ buffer_pc' = "onWrite"
    /\ UNCHANGED <<option, chunks, length, events, buffer_closed, buffer_accepted, buffer_sent>>

onWriteSend ==
    /\ buffer_pc = "onWrite" /\ chunks # <<>>
    /\ \E k \in 0 .. Head(chunks).len : swSocket_buffer_send(k)
    /\ UNCHANGED <<option, events, buffer_closed, buffer_accepted>>

(* Faulty variant: the loop goes on listening for writability.             *)
onWriteDone_Stays ==
    /\ buffer_pc = "onWrite" /\ chunks = <<>>
    /\ buffer_pc' = "idle"
    /\ UNCHANGED <<option, chunks, length, events, buffer_closed, buffer_accepted, buffer_sent>>

onWriteDone ==
    /\ buffer_pc = "onWrite" /\ chunks = <<>>
    /\ swReactor_remove_write_event
    /\ buffer_pc' = "idle"
    /\ UNCHANGED <<option, chunks, length, buffer_closed, buffer_accepted, buffer_sent>>

(* The peer is gone: the socket is closed and what waits is dropped. *)
onWriteClose ==
    /\ buffer_pc = "onWrite" /\ chunks # <<>>
    /\ chunks' = <<>> /\ length' = 0 /\ events' = {}
    /\ buffer_closed' = TRUE /\ buffer_pc' = "idle"
    /\ UNCHANGED <<option, buffer_accepted, buffer_sent>>

(* At the end of a worker: the socket is made blocking, and onWrite sends  *)
(* everything or closes.                                                   *)
swReactor_wait_write_buffer ==
    /\ ~buffer_closed /\ ~option.userFd /\ buffer_pc = "idle" /\ chunks # <<>>
    /\ chunks' = <<>> /\ length' = 0
    /\ \/ swReactor_remove_write_event /\ buffer_sent' = buffer_accepted /\ UNCHANGED buffer_closed
       \/ /\ events' = {} /\ buffer_closed' = TRUE
          /\ \E n \in buffer_sent .. buffer_accepted - 1 : buffer_sent' = n
    /\ UNCHANGED <<option, buffer_pc, buffer_accepted>>

onWrite == onWriteBegin \/ onWriteSend \/ onWriteDone \/ onWriteClose \/ php_swoole_event_onWrite

BufferNext == swReactor_write \/ onWrite \/ swReactor_wait_write_buffer

BufferSpec == BufferInit /\ [][BufferNext]_bufferVars

(* The event loop serves a writable socket, and the peer reads: the kernel *)
(* takes something again and again.                                        *)
SendProgress == onWriteSend /\ buffer_sent' > buffer_sent
FairBuffer == BufferSpec /\ WF_bufferVars(onWrite) /\ SF_bufferVars(SendProgress)

-----------------------------------------------------------------------------
(* The state stays in its types. *)
BufferTypeOK ==
    /\ option \in Options
    /\ chunks \in Seq(Chunk)
    /\ length \in Nat
    /\ events \subseteq {"read", "write"}
    /\ buffer_closed \in BOOLEAN /\ buffer_pc \in {"idle", "onWrite"}
    /\ buffer_accepted \in 0 .. MaxBytes /\ buffer_sent \in 0 .. buffer_accepted

(* The stream has no gap and no repetition: what waits begins right after  *)
(* what the kernel has taken and ends with the last byte accepted, over    *)
(* writes that were taken in part, in chunks, or not at all.               *)
NoGap ==
    ~buffer_closed =>
      /\ chunks = <<>> => buffer_sent = buffer_accepted
      /\ chunks # <<>> =>
           /\ chunks[1].first + chunks[1].offset = buffer_sent + 1
           /\ chunks[Len(chunks)].first + chunks[Len(chunks)].len = buffer_accepted + 1
      /\ \A k \in 1 .. Len(chunks) - 1 :
           chunks[k].first + chunks[k].len = chunks[k + 1].first /\ chunks[k + 1].offset = 0

(* buffer->length, which the overflow test reads, is the length of the     *)
(* chunks, through partial sends and pops: as they leave no gap, that is   *)
(* the way from the first byte of the first to the last byte accepted.     *)
LengthAgrees ==
    length = IF chunks = <<>> THEN 0 ELSE buffer_accepted + 1 - chunks[1].first

(* A caller that does not wait never makes more than twice the buffer's    *)
(* size wait: the test is on the length before the write.                  *)
BufferBounded == option.dontwait => length <= 2 * buffer_size

(* The event loop listens for writability exactly while bytes wait: not    *)
(* fewer times, or they are never sent; not more, or the loop spins.       *)
ArmedWhileWaiting ==
    buffer_pc = "idle" /\ ~buffer_closed /\ ~option.userFd =>
      ("write" \in events <=> chunks # <<>>)

(* The socket stays registered for reading while it is written to.         *)
KeepsReading == option.listened /\ ~buffer_closed /\ ~option.userFd => "read" \in events

(* What swReactor_write() has accepted leaves without a gap or a           *)
(* repetition, buffer->length is right, and no more than twice buffer_size *)
(* waits.  On a socket of Swoole's own the loop listens for writability    *)
(* exactly while bytes wait, without giving up reading (reactor/base.cc).  *)
BytesKept ==
    /\ BufferTypeOK /\ NoGap /\ LengthAgrees /\ BufferBounded
    /\ ArmedWhileWaiting /\ KeepsReading

(* What write() has accepted is sent in the end, or the socket closed.     *)
BytesSent == buffer_sent < buffer_accepted ~> (buffer_sent = buffer_accepted \/ buffer_closed)
=============================================================================
