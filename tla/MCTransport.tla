----------------------------- MODULE MCTransport -----------------------------
(***************************************************************************)
(* The parts of Swoole that carry data: channels between coroutines, the   *)
(* way of bytes out of a process and of packets into it, the connections   *)
(* of a server, and the memory that processes share.                       *)
(*                                                                         *)
(* As in MCScheduling a behaviour picks one part, which moves, while the   *)
(* others stay where they begin.                                           *)
(***************************************************************************)
EXTENDS Channel, OutBuffer, TLC

CONSTANT NULL

VARIABLES
  part, heap,
  send_conn, send_out, send_w2m, send_m2w, coros, mapped, timers, co, cur, stack, send_calls,
  waits, broken, inside, late,
  server_conn, sock, session_round, peer, unread, sofar, server_m2w, server_w2m, worker, known,
  server_accepted, arrived, onclose, server_refused,
  Length, mode, proto_left, record, hup, str, offset, size, recv_wait, recv_again, proto_pc,
  proto_got, proto_conn, failed,
  Packet, packet_left, rb, packet_pc, want, packet_got, status, lost,
  shm_head, shm_tail, head_tag, tail_tag, num, bytes, mem, id, queue, shm_out, refused,
  pool_head, pool_tail, pool_next, pre, pool_lock, slice_use, ret,
  table_active, key, table_next, data, idle, row_num, ok, absolute_index, collision_index, row,
  visited, stored,
  row_lock, lock_pid, chain, row_pc, op, at, alive, row_calls, deaths, lapsed

\* The table: three keys of one hash, one of another.
Keys == {"a", "b", "c", "d"}
Hash == [k \in Keys |-> IF k = "d" THEN 2 ELSE 1]

\* A socket with small chunks of Swoole's own, one of the user's, and one that is written to only.
BufferOption(size_, waits_, listened_, userFd_) ==
  [chunk_size |-> size_, dontwait |-> ~waits_, listened |-> listened_, userFd |-> userFd_,
   writeCallback |-> FALSE]
WriteOnly == BufferOption(0, TRUE, FALSE, FALSE)
BufferOptions ==
  {BufferOption(2, FALSE, TRUE, FALSE), BufferOption(2, FALSE, TRUE, TRUE), WriteOnly}

\* The heap, and the nodes that are in it.
Nodes == 1 .. 6
Priority == 0 .. 1
Held == {heap.nodes[i] : i \in 1 .. Len(heap.nodes)}

SendYield == INSTANCE SendYield WITH Coros <- 1 .. 2, MaxSend <- 5, BufferSize <- 1,
  OnBufferFull <- FALSE, HighWater <- 1, LowWater <- 0, Timeout <- FALSE, OnCloseSends <- TRUE,
  conn <- send_conn, out <- send_out, w2m <- send_w2m, m2w <- send_m2w, calls <- send_calls

SendTimeout == INSTANCE SendYield WITH Coros <- 1 .. 2, MaxSend <- 5, BufferSize <- 2,
  OnBufferFull <- TRUE, HighWater <- 2, LowWater <- 0, Timeout <- TRUE, OnCloseSends <- TRUE,
  conn <- send_conn, out <- send_out, w2m <- send_w2m, m2w <- send_m2w, calls <- send_calls

ServerConn == INSTANCE ServerConn WITH MaxSession <- 2, MaxSend <- 2, MaxData <- 1,
  MaxPipe <- 2, BufferSize <- 1, Ops <- {"close", "reset", "close_other"}, conn <- server_conn,
  m2w <- server_m2w, w2m <- server_w2m, accepted <- server_accepted, refused <- server_refused

WriteError == INSTANCE ServerConn WITH MaxSession <- 2, MaxSend <- 2, MaxData <- 1,
  MaxPipe <- 2, BufferSize <- 1, Ops <- {"close", "close_other", "write_error"},
  conn <- server_conn, m2w <- server_m2w, w2m <- server_w2m, accepted <- server_accepted,
  refused <- server_refused

Heartbeat == INSTANCE ServerConn WITH MaxSession <- 1, MaxSend <- 2, MaxData <- 1, MaxPipe <- 2,
  BufferSize <- 1, Ops <- {"close", "close_other", "heartbeat"}, conn <- server_conn,
  m2w <- server_m2w, w2m <- server_w2m, accepted <- server_accepted, refused <- server_refused

Paused == INSTANCE ServerConn WITH MaxSession <- 1, MaxSend <- 2, MaxData <- 1, MaxPipe <- 2,
  BufferSize <- 1, Ops <- {"close", "reset", "pause"}, conn <- server_conn, m2w <- server_m2w,
  w2m <- server_w2m, accepted <- server_accepted, refused <- server_refused

ProtocolRecv == INSTANCE ProtocolRecv WITH Sendable <- [1 .. 3 -> {2, 3, 7, 8}],
  Mode <- {"length", "split", "check"}, HeaderLen <- 2, EofLen <- 2, BufferSize <- 4,
  RecvSize <- 3, MaxLength <- 7, Record <- 0, Refusals <- {}, left <- proto_left,
  pc <- proto_pc, got <- proto_got, conn <- proto_conn

SslRecv == INSTANCE ProtocolRecv WITH Sendable <- [1 .. 3 -> {2, 7}],
  Mode <- {"length", "split", "check"}, HeaderLen <- 2, EofLen <- 2, BufferSize <- 4,
  RecvSize <- 3, MaxLength <- 7, Record <- 4, Refusals <- {"removed", "failed"},
  left <- proto_left, pc <- proto_pc, got <- proto_got, conn <- proto_conn

RecvPacket == INSTANCE RecvPacket WITH
  Sendable <- [1 .. 3 -> [kind : {"length", "eof"}, len : {2, 3, 7, 8}]], HeaderLen <- 2,
  EofLen <- 2, BufferSize <- 4, MaxLength <- 7, left <- packet_left, pc <- packet_pc,
  got <- packet_got

SmallLimit == INSTANCE RecvPacket WITH
  Sendable <- [1 .. 3 -> [kind : {"length", "eof"}, len : {2, 3, 7, 8}]], HeaderLen <- 2,
  EofLen <- 2, BufferSize <- 4, MaxLength <- 3, left <- packet_left, pc <- packet_pc,
  got <- packet_got

ShmChannel == INSTANCE ShmChannel WITH Size <- 4, Maxlen <- 1, MaxId <- 5, head <- shm_head,
  tail <- shm_tail, out <- shm_out

FixedPool == INSTANCE FixedPool WITH SliceNum <- 4, head <- pool_head, tail <- pool_tail,
  next <- pool_next, lock <- pool_lock

Table == INSTANCE Table WITH Keys <- Keys, Hash <- Hash, Values <- 0 .. 1, Buckets <- 2,
  Extra <- 1, NoKey <- "none", active <- table_active, next <- table_next

LongChains == INSTANCE Table WITH Keys <- Keys, Hash <- Hash, Values <- {0}, Buckets <- 2,
  Extra <- 2, NoKey <- "none", active <- table_active, next <- table_next

RowLock == INSTANCE RowLock WITH Procs <- 1 .. 2, Ops <- {"get", "set", "del", "current"},
  MaxCalls <- 3, MaxDeath <- 1, lock <- row_lock, pc <- row_pc, calls <- row_calls

Heap == INSTANCE Heap WITH Node <- Nodes, type <- "min"

PQ == INSTANCE PriorityQueue WITH Node <- Nodes, Priority <- Priority, type <- "min",
  pending <- [n \in Held |-> heap.priority[n]]

ASSUME PartsAssumption ==
  /\ SendYield!SendYieldAssumption /\ SendTimeout!SendYieldAssumption
  /\ ServerConn!ServerConnAssumption /\ WriteError!ServerConnAssumption
  /\ Heartbeat!ServerConnAssumption /\ Paused!ServerConnAssumption
  /\ ProtocolRecv!ProtocolRecvAssumption /\ SslRecv!ProtocolRecvAssumption
  /\ RecvPacket!RecvPacketAssumption /\ SmallLimit!RecvPacketAssumption
  /\ ShmChannel!ChannelAssumption /\ FixedPool!SliceNumAssumption
  /\ Table!TableAssumption /\ LongChains!TableAssumption
  /\ Heap!HeapAssumption

sendVars == <<send_conn, send_out, send_w2m, send_m2w, coros, mapped, timers, co, cur, stack,
  send_calls, waits, broken, inside, late>>
serverVars == <<server_conn, sock, session_round, peer, unread, sofar, server_m2w, server_w2m,
  worker, known, server_accepted, arrived, onclose, server_refused>>
protoVars == <<Length, mode, proto_left, record, hup, str, offset, size, recv_wait, recv_again,
  proto_pc, proto_got, proto_conn, failed>>
packetVars == <<Packet, packet_left, rb, packet_pc, want, packet_got, status, lost>>
shmVars == <<shm_head, shm_tail, head_tag, tail_tag, num, bytes, mem, id, queue, shm_out,
  refused>>
poolVars == <<pool_head, pool_tail, pool_next, pre, pool_lock, slice_use, ret>>
tableVars == <<table_active, key, table_next, data, idle, row_num, ok, absolute_index,
  collision_index, row, visited, stored>>
rowVars == <<row_lock, lock_pid, chain, row_pc, op, at, alive, row_calls, deaths, lapsed>>
all == <<part, heap, vars, sendVars, bufferVars, serverVars, protoVars, packetVars, shmVars,
  poolVars, tableVars, rowVars>>

Parts == {"Channel", "Pair", "SendYield", "SendTimeout", "OutBuffer", "ServerConn",
  "WriteError", "Heartbeat", "Paused", "ProtocolRecv", "SslRecv", "RecvPacket", "SmallLimit",
  "ShmChannel", "FixedPool", "Table", "LongChains", "RowLock", "Heap"}

\* What the peer sends is of no account while another part moves.
TransportInit ==
  /\ part \in Parts
  /\ Init /\ SendYield!Init /\ ShmChannel!Init /\ FixedPool!Init
  /\ RowLock!Init /\ chain \in (IF part = "RowLock" THEN {0, 2} ELSE {0})
  /\ heap = Heap!swHeap_new
  /\ BufferInit /\ (part # "OutBuffer" => option = WriteOnly)
  /\ IF part \in {"Heartbeat", "Paused"} THEN Heartbeat!Init ELSE ServerConn!Init
  /\ IF part = "LongChains" THEN LongChains!Init ELSE Table!Init
  /\ IF part = "SslRecv" THEN SslRecv!Init ELSE ProtocolRecv!Init
  /\ part \notin {"ProtocolRecv", "SslRecv"} =>
       Length = <<2, 2, 2>> /\ mode = "split"
  /\ RecvPacket!Init
  /\ part \notin {"RecvPacket", "SmallLimit"} =>
       \A i \in 1 .. 3 : Packet[i] = [kind |-> "eof", len |-> 2]

HeapNext ==
  \/ \E n \in Nodes \ Held, p \in Priority : heap' = Heap!push(heap, n, p)
  \/ \E n \in Held, p \in Priority : heap' = Heap!change_priority(heap, p, n)
  \/ \E n \in Held : heap' = Heap!remove(heap, n)
  \/ heap.nodes # <<>> /\ heap' = Heap!pop(heap)

\* Only part p moves.
Only(p) ==
  /\ part = p /\ UNCHANGED part
  /\ p \notin {"Channel", "Pair"} => UNCHANGED vars
  /\ p # "Heap" => UNCHANGED heap
  /\ p \notin {"SendYield", "SendTimeout"} => UNCHANGED sendVars
  /\ p # "OutBuffer" => UNCHANGED bufferVars
  /\ p \notin {"ServerConn", "WriteError", "Heartbeat", "Paused"} => UNCHANGED serverVars
  /\ p \notin {"ProtocolRecv", "SslRecv"} => UNCHANGED protoVars
  /\ p \notin {"RecvPacket", "SmallLimit"} => UNCHANGED packetVars
  /\ p # "ShmChannel" => UNCHANGED shmVars
  /\ p # "FixedPool" => UNCHANGED poolVars
  /\ p \notin {"Table", "LongChains"} => UNCHANGED tableVars
  /\ p # "RowLock" => UNCHANGED rowVars

TransportNext ==
  \/ Only("Channel") /\ Next
  \/ Only("Pair") /\ Next /\ pc'[3] = "idle"
  \/ Only("SendYield") /\ SendYield!Next
  \/ Only("SendTimeout") /\ SendTimeout!Next
  \/ Only("OutBuffer") /\ BufferNext
  \/ Only("ServerConn") /\ ServerConn!Next
  \/ Only("WriteError") /\ WriteError!Next
  \/ Only("Heartbeat") /\ Heartbeat!Next
  \/ Only("Paused") /\ Paused!Next
  \/ Only("ProtocolRecv") /\ ProtocolRecv!Next
  \/ Only("SslRecv") /\ SslRecv!Next
  \/ Only("RecvPacket") /\ RecvPacket!Next
  \/ Only("SmallLimit") /\ SmallLimit!Next
  \/ Only("ShmChannel") /\ ShmChannel!Next
  \/ Only("FixedPool") /\ FixedPool!Next
  \/ Only("Table") /\ Table!Next
  \/ Only("LongChains") /\ LongChains!Next
  \/ Only("RowLock") /\ RowLock!Next
  \/ Only("Heap") /\ HeapNext

TransportSpec == TransportInit /\ [][TransportNext]_all

\* With send_yield, a coroutine whose send found the buffer full waits in the list of its
\* connection and is resumed once for each wait; without a send_timeout the wakeup that it
\* needs is on its way, and those that wait are resumed in turn (swoole_server.cc).  Two cases
\* are excepted.  From a close() on, by a coroutine that onBufferEmpty has resumed, nothing is
\* claimed: onClose resumes that coroutine again and frees the list under onBufferEmpty.  And
\* nothing wakes a send that waits in the user's onClose.
SendsKept ==
  /\ [](/\ part \in {"SendYield", "SendTimeout"} =>
             SendYield!TypeOK /\ SendYield!ResumedOnce /\ SendYield!WaitingIsListed
        /\ part = "SendYield" => SendYield!WakeIsComing)
  /\ [][part = "SendYield" => SendYield!InTurn]_all


\* However the stream is cut, the packets of the length and of the eof protocol are handed
\* over whole and in order, what was not is in the buffer or still to come, and none is kept
\* back that is whole; what is refused is longer than package_max_length
\* (protocol/base.cc, coroutine/socket.cc).  The exceptions:
\*   - Without open_eof_split several packets are handed over at once, a whole one is kept while
\*     bytes follow it in the buffer, and package_max_length holds for what has been collected.
\*   - After onPackage() has failed nothing is claimed of the lines of open_eof_split, and the
\*     cause of a refusal is not claimed where onPackage() may fail (SslRecv).
\*   - A recv_packet() of the eof protocol that times out loses the beginning of that packet.
\*   - With a package_max_length below the size of a new buffer (SmallLimit) recv_packet()
\*     is not claimed to refuse what is too long, nor to ask for no more than fits.
PacketsWhole ==
  /\ part \in {"ProtocolRecv", "SslRecv"} =>
       ProtocolRecv!PacketsWhole /\ ProtocolRecv!NothingLost /\ ProtocolRecv!NoneKeptBack
  /\ part = "ProtocolRecv" => ProtocolRecv!TypeOK /\ ProtocolRecv!RefusedIsTooBig
  /\ part = "SslRecv" => SslRecv!TypeOK
  /\ part \in {"RecvPacket", "SmallLimit"} => RecvPacket!PacketsWhole /\ RecvPacket!NothingLost
  /\ part = "RecvPacket" =>
       RecvPacket!TypeOK /\ RecvPacket!AsksInBuffer /\ RecvPacket!RefusedIsTooBig

\* No push onto a channel in shared memory writes over a message that waits, messages come out
\* whole and in order, and one is refused only for want of room (core/channel.cc).  The slices
\* of a pool stay one list with the idle ones first, which implements a set of slices that have
\* one owner each (memory/fixed_pool.cc).  Two processes use one row of a table only after its
\* lock was cleared, or taken over from a live process, or when one of them is current() or
\* key(), which lock a row of a chain and not its root (include/table.h, memory/table.cc).
MemoryKept ==
  /\ [](/\ part = "ShmChannel" =>
             ShmChannel!TypeOK /\ ShmChannel!Kept /\ ShmChannel!RefusedWhenFull
        /\ part = "FixedPool" => FixedPool!TypeOK /\ FixedPool!OneList /\ FixedPool!IdleFirst
        /\ part = "RowLock" => RowLock!TypeOK /\ RowLock!SharedNeedsLapse)
  /\ ShmChannel!InOrder
  /\ FixedPool!IsPool

\* Every row of a table is in the pool or in the one chain of its hash, each key holds what was
\* stored under it wherever its row stands, and an undisturbed foreach sees every key once; a
\* key is refused only when the conflict rows are used up (memory/table.cc).
TableKept ==
  /\ [](/\ part = "Table" =>
             Table!TypeOK /\ Table!RowsAccounted /\ Table!VisitsAll /\ Table!HoldsStored
        /\ part = "LongChains" =>
             LongChains!RowsAccounted /\ LongChains!VisitsAll /\ LongChains!HoldsStored)
  /\ [][part = "Table" => \A k \in Keys : Table!Refuses(k) => Table!Full(k)]_all

\* position, which remove() and change_priority() start from, is where the node is.
PositionsRight ==
  /\ \A i \in 1 .. Len(heap.nodes) : heap.position[heap.nodes[i]] = i
  /\ \A n \in Nodes \ Held : heap.position[n] = 0

\* swHeap implements a priority queue: whatever is pushed, removed or moved in between,
\* peek and pop give a node of the first priority, and position is right (core/heap.cc).
HeapIsQueue ==
  /\ [](PositionsRight /\ (heap.nodes # <<>> => PQ!First(Heap!top(heap))))
  /\ PQ!Spec

\* The variables of the part that moves.
moving ==
  CASE part \in {"Channel", "Pair"} -> vars
    [] part = "Heap" -> heap
    [] part \in {"SendYield", "SendTimeout"} -> sendVars
    [] part = "OutBuffer" -> bufferVars
    [] part \in {"ServerConn", "WriteError", "Heartbeat", "Paused"} -> serverVars
    [] part \in {"ProtocolRecv", "SslRecv"} -> protoVars
    [] part \in {"RecvPacket", "SmallLimit"} -> packetVars
    [] part = "ShmChannel" -> shmVars
    [] part = "FixedPool" -> poolVars
    [] part \in {"Table", "LongChains"} -> tableVars
    [] OTHER -> rowVars

Moves(p) == part = p /\ UNCHANGED part

\* The fairness of every part, as its module states it: Steps weakly and Recurs strongly.
Steps(i) ==
  \/ Moves("Pair") /\ i <= 2 /\ (take(i) \/ put(i) \/ closing(i))
  \/ Moves("SendYield") /\ CASE i = 1 -> SendYield!swServer_master_send
                             [] i = 2 -> SendYield!drain
                             [] i = 3 -> SendYield!leave
                             [] OTHER -> FALSE
  \/ Moves("OutBuffer") /\ i = 1 /\ onWrite
  \/ Moves("Heartbeat")
       /\ CASE i = 1 -> Heartbeat!swReactorThread_onRead \/ Heartbeat!swReactorThread_onClose
            [] i = 2 -> Heartbeat!swServer_connection_incoming \/ Heartbeat!swServer_master_send
            [] i = 3 -> Heartbeat!workerSteps
            [] OTHER -> Heartbeat!swHeartbeatThread_loop
  \/ Moves("ProtocolRecv") /\ CASE i = 1 -> ProtocolRecv!readable
                                [] i = 2 -> ProtocolRecv!drained \/ ProtocolRecv!Handler
                                [] OTHER -> FALSE
  \/ Moves("SslRecv") /\ CASE i = 1 -> SslRecv!readable
                           [] i = 2 -> SslRecv!drained \/ SslRecv!Handler
                           [] OTHER -> FALSE
  \/ Moves("RecvPacket") /\ i = 1 /\ RecvPacket!recv_packet
  \/ Moves("RowLock") /\ CASE i <= 2 -> RowLock!step(i)
                           [] OTHER -> RowLock!spin(i - 2)

Recurs(i) ==
  \/ Moves("Pair") /\ IF i <= 2 THEN leave(i) ELSE timer_callback(i - 2)
  \/ Moves("SendYield") /\ i = 1 /\ SendYield!handlers
  \/ Moves("OutBuffer") /\ i = 1 /\ SendProgress
  \/ Moves("Heartbeat") /\ i = 1
       /\ \/ Heartbeat!onWriteNotify \/ Heartbeat!onWriteClose
          \/ Heartbeat!onWriteSend(Len(sock.out))
  \/ Moves("RecvPacket") /\ i = 1 /\ \E n \in 1 .. 7 : RecvPacket!arrives(n)
  \/ Moves("RowLock") /\ i <= 2 /\ RowLock!take(i)

FairTransport ==
  /\ TransportSpec
  /\ \A i \in 1 .. 4 : WF_moving(Steps(i)) /\ SF_moving(Recurs(i))

\* What the actor i of a part waits for, and when it has it.
Waits(i) ==
  CASE part = "Pair" -> i \in timer \/ (closed /\ pc[i] \in Waiting)
    [] part = "SendYield" -> SendYield!Pending(i)
    [] part = "OutBuffer" -> ~option.userFd /\ buffer_sent < buffer_accepted
    [] part = "Heartbeat" -> Heartbeat!Doomed(1)
    [] part = "RowLock" -> RowLock!Waits(i)
    [] OTHER -> part \in {"ProtocolRecv", "SslRecv", "RecvPacket"}

IsServed(i) ==
  CASE part = "Pair" -> pc[i] \notin Waiting
    [] part = "SendYield" -> ~SendYield!Pending(i) \/ inside
    [] part = "OutBuffer" -> buffer_sent = buffer_accepted \/ buffer_closed
    [] part = "Heartbeat" -> server_conn.session_id # 1 \/ 1 \in server_refused
    [] part = "RowLock" -> ~RowLock!Waits(i)
    [] part \in {"ProtocolRecv", "SslRecv"} -> ProtocolRecv!HandedOver \/ ProtocolRecv!MayStall
    [] part = "RecvPacket" -> RecvPacket!Returned
    [] OTHER -> FALSE

=============================================================================
