----------------------------- MODULE ServerConn -----------------------------
(***************************************************************************)
(* A TCP connection of Swoole\Server in process mode: the slot of          *)
(* connection_list that a file descriptor owns, shared by the reactor      *)
(* thread that serves the socket, the worker process that runs the user's  *)
(* callbacks, and the heartbeat thread, and two pipes between the first    *)
(* two (src/server/reactor_thread.cc, master.cc, process.cc, worker.cc).   *)
(*                                                                         *)
(* One descriptor is modelled.  It is reused: when a connection is freed,  *)
(* accept() may give the same slot to the next one, which has another      *)
(* session id.  The worker knows a connection by its session id only.      *)
(***************************************************************************)
EXTENDS Naturals, Sequences, FiniteSets, SequencesExt

CONSTANTS
    MaxSession,  \* sessions 1 .. MaxSession use the descriptor in turn
    MaxSend,     \* calls of send() the worker makes for a session, at most
    MaxData,     \* packets a client sends, at most
    MaxPipe,     \* user calls wait while a pipe holds this many messages
    BufferSize,  \* socket->buffer_size, in chunks
    Ops          \* which of the optional operations and faults happen

ServerConnAssumption ==
    /\ {MaxSession, MaxSend, MaxData, MaxPipe, BufferSize} \subseteq Nat
    /\ Ops \subseteq {"close", "reset", "close_other", "pause", "heartbeat",
                      "write_error"}

Sessions == 1 .. MaxSession

VARIABLES
    conn,     \* the swConnection
    sock,     \* its swSocket: events, removed, out_buffer
    session_round, \* the session id given last
    peer,     \* the client's end: "none", "open" or "closed"
    unread,   \* packets of the client the reactor thread has not read
    sofar,    \* packets the client of this session has sent
    m2w,      \* pipe from the reactor thread to the worker
    w2m,      \* pipe to the reactor thread
    worker,   \* what the worker is at
    known,    \* sessions whose onConnect the worker has run
    accepted, \* per session, the sends that finish() has accepted
    arrived,  \* per session, the numbers of the sends put on the wire
    onclose,  \* per session, how many times onClose was called, up to 2
    refused   \* the sessions whose CLOSE finish() has refused, for the buffer was full

vars == <<conn, sock, session_round, peer, unread, sofar, m2w, w2m, worker, known,
          accepted, arrived, onclose, refused>>

NoConn == [active |-> FALSE, session_id |-> 0, closed |-> FALSE,
           closing |-> FALSE, peer_closed |-> FALSE, close_queued |-> FALSE,
           close_reset |-> FALSE, close_force |-> FALSE,
           close_notify |-> FALSE, overflow |-> FALSE]
NoSock == [events |-> {}, removed |-> TRUE, out |-> <<>>]
Idle == [pc |-> "idle", sid |-> 0]

Messages == [type : {"connect", "data", "close", "incoming", "pause", "resume"},
             sid : 0 .. MaxSession, n : 0 .. MaxSend]
Msg(type, sid) == [type |-> type, sid |-> sid, n |-> 0]
Chunks == 0 .. MaxSend      \* a numbered send; 0 is SW_CHUNK_CLOSE
CloseChunk == 0

Init ==
    /\ conn = NoConn
    /\ sock = NoSock
    /\ session_round = 0
    /\ peer = "none"
    /\ unread = 0
    /\ sofar = 0
    /\ m2w = <<>>
    /\ w2m = <<>>
    /\ worker = Idle
    /\ known = {}
    /\ accepted = [s \in Sessions |-> 0]
    /\ arrived = [s \in Sessions |-> <<>>]
    /\ onclose = [s \in Sessions |-> 0]
    /\ refused = {}

-----------------------------------------------------------------------------
(* Helpers *)


(* A session is looked up in session_list, then in connection_list. *)
swServer_connection_verify(sid) == conn.active /\ conn.session_id = sid

swServer_connection_valid == conn.active /\ ~conn.closed


(* What an event of the connection c adds to the worker's pipe. *)
swFactoryProcess_dispatch(type, c) ==
    IF c.closed /\ ~(type = "close" /\ c.close_force)
      THEN <<>>
      ELSE <<Msg(type, c.session_id)>>

(* The descriptor is closed and its slot cleared.  What the client still   *)
(* had under way is lost.                                                  *)
swReactorThread_close ==
    /\ conn' = NoConn
    /\ sock' = NoSock
    /\ peer' = "none"
    /\ unread' = 0
    /\ sofar' = 0

(* The bound on what may wait in the pipes and in the buffer when a call   *)
(* that has no other bound is made.                                        *)
PipesHaveRoom ==
    Len(m2w) < MaxPipe /\ Len(w2m) < MaxPipe /\ Len(sock.out) <= MaxSend

(* Without the file descriptor's socket being freed. *)
Serve == UNCHANGED <<session_round, peer, unread, sofar>>

-----------------------------------------------------------------------------
(* The client *)

swServer_connection_new ==
    /\ peer = "none" /\ session_round < MaxSession
    /\ session_round' = session_round + 1
    /\ conn' = [NoConn EXCEPT !.active = TRUE, !.session_id = session_round']
    /\ sock' = NoSock
    /\ peer' = "open"
    /\ w2m' = Append(w2m, Msg("incoming", 0))
    /\ UNCHANGED <<unread, sofar, m2w, worker, known, accepted, arrived, onclose, refused>>

ClientSends ==
    /\ peer = "open" /\ sofar < MaxData
    /\ sofar' = sofar + 1
    /\ unread' = unread + 1
    /\ UNCHANGED <<conn, sock, session_round, peer, m2w, w2m, worker, known, accepted,
                   arrived, onclose, refused>>

ClientCloses ==
    /\ peer = "open"
    /\ peer' = "closed"
    /\ UNCHANGED <<conn, sock, session_round, unread, sofar, m2w, w2m, worker, known,
                   accepted, arrived, onclose, refused>>

-----------------------------------------------------------------------------
(* The reactor thread: events of the socket *)

swReactorThread_onRead ==
    /\ "R" \in sock.events /\ unread > 0
    /\ unread' = unread - 1
    /\ m2w' = m2w \o swFactoryProcess_dispatch("data", conn)
    /\ UNCHANGED <<conn, sock, session_round, peer, sofar, w2m, worker, known,
                   accepted, arrived, onclose, refused>>

(* The client has closed: nothing more is read.  With a CLOSE chunk queued *)
(* the descriptor goes at once; otherwise the worker is told, and its      *)
(* answer frees the slot.                                                  *)
swReactorThread_onClose ==
    /\ "R" \in sock.events /\ unread = 0 /\ peer = "closed"
    /\ \/ /\ conn.close_queued
          /\ swReactorThread_close
          /\ UNCHANGED <<m2w, session_round>>
       \/ /\ ~conn.close_queued
          /\ sock' = [sock EXCEPT !.events = {}, !.removed = TRUE]
          /\ conn' = [conn EXCEPT !.peer_closed = TRUE]
          /\ m2w' = m2w \o swFactoryProcess_dispatch("close", conn')
          /\ Serve
    /\ UNCHANGED <<w2m, worker, known, accepted, arrived, onclose, refused>>

(* close_notify, which the heartbeat thread sets, goes before the buffer. *)
onWriteNotify ==
    /\ "W" \in sock.events /\ conn.close_notify
    /\ m2w' = m2w \o swFactoryProcess_dispatch("close", conn)
    /\ conn' = [conn EXCEPT !.close_notify = FALSE]
    /\ Serve
    /\ UNCHANGED <<sock, w2m, worker, known, accepted, arrived, onclose, refused>>

(* k sends of the buffer reach the wire. *)
Deliver(k) ==
    arrived' = [arrived EXCEPT ![conn.session_id] = @ \o SubSeq(sock.out, 1, k)]

(* Everything before the CLOSE chunk is sent; the chunk closes. *)
onWriteClose ==
    /\ "W" \in sock.events /\ ~conn.close_notify
    /\ Contains(sock.out, CloseChunk)
    /\ Deliver(SelectInSeq(sock.out, LAMBDA x : x = CloseChunk) - 1)
    /\ swReactorThread_close
    /\ UNCHANGED <<session_round, m2w, w2m, worker, known, accepted, onclose, refused>>

(* A send fails with an error that swSocket_error() calls SW_CLOSE. *)
onWriteError ==
    /\ "write_error" \in Ops
    /\ "W" \in sock.events /\ ~conn.close_notify
    /\ peer = "closed" /\ sock.out # <<>>
    /\ swReactorThread_close
    /\ UNCHANGED <<session_round, m2w, w2m, worker, known, accepted, arrived, onclose, refused>>

(* The buffer is sent as far as the kernel takes it (k sends). *)
onWriteSend(k) ==
    /\ "W" \in sock.events /\ ~conn.close_notify
    /\ \A i \in DOMAIN sock.out : i <= k + 1 => sock.out[i] # CloseChunk
    /\ Deliver(k)
    /\ LET rest == SubSeq(sock.out, k + 1, Len(sock.out))
       IN  /\ conn' = [conn EXCEPT !.overflow = @ /\ ~(Len(rest) < BufferSize)]
           /\ sock' = [sock EXCEPT !.out = rest,
                         !.events = IF rest = <<>> /\ ~conn.peer_closed THEN {"R"} ELSE @]
    /\ Serve
    /\ UNCHANGED <<m2w, w2m, worker, known, accepted, onclose, refused>>

swReactorThread_onWrite ==
    \/ onWriteNotify
    \/ onWriteClose
    \/ onWriteError
    \/ \E k \in 0 .. Len(sock.out) : onWriteSend(k)

-----------------------------------------------------------------------------
(* The reactor thread: messages of the worker *)

PipeHas(type) == w2m # <<>> /\ Head(w2m).type = type
Took == w2m' = Tail(w2m)
Mine == swServer_connection_verify(Head(w2m).sid)

swServer_connection_incoming ==
    /\ PipeHas("incoming") /\ Took
    /\ sock' = [sock EXCEPT !.events = {"R"}, !.removed = FALSE]
    /\ m2w' = m2w \o swFactoryProcess_dispatch("connect", conn)
    /\ Serve
    /\ UNCHANGED <<conn, worker, known, accepted, arrived, onclose, refused>>

(* Listening for EPOLLOUT: epoll_ctl() fails when the socket is not        *)
(* registered, and then the connection is closed.                          *)
Listen(out, c) ==
    IF sock.removed
      THEN swReactorThread_close /\ UNCHANGED session_round
      ELSE /\ sock' = [sock EXCEPT !.out = out, !.events = {"R", "W"}]
           /\ conn' = c
           /\ Serve

(* With nothing queued the data goes to the kernel directly. *)
sendDirect ==
    /\ PipeHas("data") /\ Took /\ Mine
    /\ sock.out = <<>>
    /\ arrived' = [arrived EXCEPT ![conn.session_id] = Append(@, Head(w2m).n)]
    /\ Serve
    /\ UNCHANGED <<conn, sock, m2w, worker, known, accepted, onclose, refused>>

(* The kernel took none or part of it, or data is queued before it. *)
sendBuffered ==
    /\ PipeHas("data") /\ Took /\ Mine
    /\ \/ /\ conn.peer_closed
          /\ Serve
          /\ UNCHANGED <<conn, sock>>
       \/ /\ ~conn.peer_closed
          /\ Listen(Append(sock.out, Head(w2m).n),
                    [conn EXCEPT !.overflow = @ \/ Len(sock.out) >= BufferSize])
    /\ UNCHANGED <<m2w, worker, known, accepted, arrived, onclose, refused>>

(* CLOSE goes behind the data that is queued, unless that is of no use. *)
sendClose ==
    /\ PipeHas("close") /\ Took /\ Mine
    /\ \/ /\ conn.close_reset \/ conn.peer_closed \/ sock.out = <<>>
          /\ swReactorThread_close
          /\ UNCHANGED session_round
       \/ /\ ~conn.close_reset /\ ~conn.peer_closed /\ sock.out # <<>>
          /\ Listen(Append(sock.out, CloseChunk),
                    [conn EXCEPT !.close_queued = TRUE])
    /\ UNCHANGED <<m2w, worker, known, accepted, arrived, onclose, refused>>

sendPause ==
    /\ PipeHas("pause") /\ Took /\ Mine
    /\ sock' = IF sock.removed \/ "R" \notin sock.events THEN sock
               ELSE IF "W" \in sock.events THEN [sock EXCEPT !.events = {"W"}]
               ELSE [sock EXCEPT !.events = {}, !.removed = TRUE]
    /\ Serve
    /\ UNCHANGED <<conn, m2w, worker, known, accepted, arrived, onclose, refused>>

(* A socket that is not registered is added again; one that is registered  *)
(* for writing only is left alone.                                         *)
sendResume ==
    /\ PipeHas("resume") /\ Took /\ Mine
    /\ sock' = IF ~sock.removed THEN sock
               ELSE [sock EXCEPT !.events = {"R"}, !.removed = FALSE]
    /\ Serve
    /\ UNCHANGED <<conn, m2w, worker, known, accepted, arrived, onclose, refused>>

sendStale ==
    /\ w2m # <<>> /\ Head(w2m).type # "incoming" /\ ~Mine
    /\ Took
    /\ Serve
    /\ UNCHANGED <<conn, sock, m2w, worker, known, accepted, arrived, onclose, refused>>

swServer_master_send ==
    \/ sendDirect
    \/ sendBuffered
    \/ sendClose
    \/ sendPause
    \/ sendResume
    \/ sendStale

-----------------------------------------------------------------------------
(* The worker *)

(* What a finish() for the session s adds to the reactor thread's pipe. *)
swFactoryProcess_finish(type, s, n) ==
    IF \/ ~swServer_connection_verify(s)
       \/ type # "close" /\ (conn.closed \/ conn.peer_closed)
       \/ conn.overflow
      THEN <<>>
      ELSE <<[type |-> type, sid |-> s, n |-> n]>>

(* end() up to the return of onClose, for the connection c: its slot is    *)
(* found by the session, and the worker keeps the pointer.                 *)
endBegin(s, c) ==
    IF swServer_connection_verify(s) /\ (c.close_force \/ ~(c.closing \/ c.closed))
      THEN /\ conn' = [c EXCEPT !.closing = TRUE]
           /\ onclose' = [onclose EXCEPT ![s] = IF @ < 2 THEN @ + 1 ELSE @]
           /\ worker' = [pc |-> "closing", sid |-> s]
      ELSE conn' = c /\ onclose' = onclose /\ worker' = Idle

(* The rest of end(): the slot may be another connection's by now.  A      *)
(* connection whose buffer has overflowed is marked closed all the same.   *)
endFinish ==
    /\ worker.pc = "closing"
    /\ conn' = [conn EXCEPT !.closing = FALSE, !.closed = TRUE]
    /\ w2m' = w2m \o swFactoryProcess_finish("close", worker.sid, 0)
    /\ worker' = Idle
    /\ refused' = IF swServer_connection_verify(worker.sid) /\ conn.overflow
                    THEN refused \union {worker.sid} ELSE refused
    /\ Serve
    /\ UNCHANGED <<sock, m2w, known, accepted, arrived, onclose>>

swWorker_onTask ==
    /\ worker.pc = "idle" /\ m2w # <<>>
    /\ m2w' = Tail(m2w)
    /\ LET t == Head(m2w)
       IN  \/ /\ t.type = "connect"
              /\ known' = known \union {t.sid}
              /\ UNCHANGED <<conn, onclose, worker>>
           \/ /\ t.type = "data"
              /\ UNCHANGED <<conn, onclose, worker, known>>
           \/ /\ t.type = "close"
              /\ endBegin(t.sid, conn)
              /\ UNCHANGED known
    /\ Serve
    /\ UNCHANGED <<sock, w2m, accepted, arrived, refused>>

(* $serv->send($fd, ...) in a callback, onClose included *)
send(s) ==
    /\ s \in known /\ accepted[s] < MaxSend
    /\ LET m == swFactoryProcess_finish("data", s, accepted[s] + 1)
       IN  /\ m # <<>>
           /\ w2m' = w2m \o m
    /\ accepted' = [accepted EXCEPT ![s] = @ + 1]
    /\ Serve
    /\ UNCHANGED <<conn, sock, m2w, worker, known, arrived, onclose, refused>>

(* $serv->close($fd, $reset) in the worker that owns the connection *)
swServer_tcp_close(s, reset) ==
    /\ "close" \in Ops /\ (reset => "reset" \in Ops)
    /\ worker.pc = "idle" /\ s \in known /\ PipesHaveRoom
    /\ swServer_connection_verify(s)
    /\ endBegin(s, [conn EXCEPT !.close_reset = @ \/ reset])
    /\ Serve
    /\ UNCHANGED <<sock, m2w, w2m, known, accepted, arrived, refused>>

(* $serv->close($fd) in another worker: the owner is notified *)
closeElsewhere(s) ==
    /\ "close_other" \in Ops
    /\ s \in known /\ PipesHaveRoom
    /\ swServer_connection_verify(s)
    /\ m2w' = Append(m2w, Msg("close", s))
    /\ Serve
    /\ UNCHANGED <<conn, sock, w2m, worker, known, accepted, arrived, onclose, refused>>

(* $serv->pause($fd) and resume($fd) *)
swServer_tcp_feedback(s, type) ==
    /\ "pause" \in Ops
    /\ s \in known /\ PipesHaveRoom
    /\ swServer_connection_verify(s)
    /\ w2m' = Append(w2m, Msg(type, s))
    /\ Serve
    /\ UNCHANGED <<conn, sock, m2w, worker, known, accepted, arrived, onclose, refused>>

-----------------------------------------------------------------------------
(* The heartbeat thread finds the connection idle for too long. *)
swHeartbeatThread_loop ==
    /\ "heartbeat" \in Ops /\ PipesHaveRoom
    /\ swServer_connection_valid
    /\ conn' = [conn EXCEPT !.close_force = TRUE, !.close_notify = TRUE]
    /\ \/ /\ conn.peer_closed
          /\ m2w' = m2w \o swFactoryProcess_dispatch("close", conn')
          /\ UNCHANGED sock
       \/ /\ ~conn.peer_closed
          /\ sock' = [sock EXCEPT !.events = IF sock.removed THEN @ ELSE {"W"}]
          /\ UNCHANGED m2w
    /\ Serve
    /\ UNCHANGED <<w2m, worker, known, accepted, arrived, onclose, refused>>

reactorThread ==
    \/ swReactorThread_onRead
    \/ swReactorThread_onClose
    \/ swReactorThread_onWrite
    \/ swServer_connection_incoming
    \/ swServer_master_send

workerSteps == endFinish \/ swWorker_onTask

userCalls ==
    \E s \in Sessions :
        \/ send(s)
        \/ \E reset \in BOOLEAN : swServer_tcp_close(s, reset)
        \/ closeElsewhere(s)
        \/ \E type \in {"pause", "resume"} : swServer_tcp_feedback(s, type)

Next ==
    \/ swServer_connection_new
    \/ ClientSends
    \/ ClientCloses
    \/ reactorThread
    \/ workerSteps
    \/ userCalls
    \/ swHeartbeatThread_loop

Spec == Init /\ [][Next]_vars

(* The reactor thread and the worker each go on while they have something  *)
(* to do; the heartbeat thread looks at every connection again and again;  *)
(* a client that reads makes room, so a write that is tried again and      *)
(* again empties the buffer at last.                                       *)
Fairness ==
    /\ WF_vars(swReactorThread_onRead \/ swReactorThread_onClose)
    /\ WF_vars(swServer_connection_incoming \/ swServer_master_send)
    /\ WF_vars(workerSteps)
    /\ WF_vars(swHeartbeatThread_loop)
    /\ SF_vars(onWriteNotify \/ onWriteClose \/ onWriteSend(Len(sock.out)))

FairSpec == Spec /\ Fairness

-----------------------------------------------------------------------------
(* The state stays in its types, and a socket that is not registered has   *)
(* no events; a slot that is free has no socket.                           *)
TypeOK ==
    /\ conn \in [active : BOOLEAN, session_id : 0 .. MaxSession,
                 closed : BOOLEAN, closing : BOOLEAN, peer_closed : BOOLEAN,
                 close_queued : BOOLEAN, close_reset : BOOLEAN,
                 close_force : BOOLEAN, close_notify : BOOLEAN,
                 overflow : BOOLEAN]
    /\ sock \in [events : SUBSET {"R", "W"}, removed : BOOLEAN, out : Seq(Chunks)]
    /\ sock.removed <=> sock.events = {}
    /\ peer \in {"none", "open", "closed"}
    /\ conn.active <=> peer # "none"
    /\ unread \in 0 .. MaxData /\ sofar \in 0 .. MaxData
    /\ m2w \in Seq(Messages) /\ w2m \in Seq(Messages)
    /\ worker \in [pc : {"idle", "closing"}, sid : 0 .. MaxSession]
    /\ known \subseteq Sessions
    /\ accepted \in [Sessions -> 0 .. MaxSend]
    /\ arrived \in [Sessions -> Seq(Chunks)]
    /\ onclose \in [Sessions -> 0 .. 2] /\ refused \subseteq Sessions

(* onClose is called once for a session at most, whoever closes first: the *)
(* client, this worker or another one.                                     *)
OnCloseOnce == \A s \in Sessions : onclose[s] <= 1

(* A connection that the worker has marked closed is on its way out: a     *)
(* CLOSE for it is in the pipe or in its output buffer.  dispatch() drops  *)
(* every later event of such a connection, so nothing else would free it.  *)
(* This is not so if finish() has refused the CLOSE because the buffer had *)
(* overflowed: that connection stays.                                      *)
ClosedUnderWay ==
    conn.active /\ conn.closed /\ conn.session_id \notin refused =>
        \/ \E i \in DOMAIN w2m : w2m[i].type = "close" /\ w2m[i].sid = conn.session_id
        \/ conn.close_queued /\ Contains(sock.out, CloseChunk)

(* What a session's sends put on the wire keeps the order of the calls,    *)
(* and until the client has closed nothing is left out.                    *)
InOrder ==
    \A s \in Sessions :
        /\ \A i, j \in DOMAIN arrived[s] : i < j => arrived[s][i] < arrived[s][j]
        /\ conn.session_id = s /\ ~conn.peer_closed =>
               arrived[s] = [i \in 1 .. Len(arrived[s]) |-> i]

Frees == conn.active /\ ~conn'.active

(* A send that has to wait closes a connection that pause() has taken out  *)
(* of the reactor.                                                         *)
Unlistened == sock.removed /\ ~conn.peer_closed /\ PipeHas("data")

(* Where nothing but the worker's close() ends a session, all that send()  *)
(* had accepted is on the wire when the descriptor is closed: the CLOSE    *)
(* waits behind the data.  This and the next two are not so for the end of *)
(* a paused connection by a send.                                          *)
Drains ==
    Frees /\ peer = "open" /\ ~conn.close_reset /\ ~Unlistened
      => Len(arrived'[conn.session_id]) = accepted[conn.session_id]

(* A connection is freed for a reason of its own: its client has closed,   *)
(* or onClose was called for this session.  No late message for an earlier *)
(* session of the same descriptor ends it.                                 *)
HasCause == Frees /\ ~Unlistened => peer = "closed" \/ onclose[conn.session_id] > 0

(* The callbacks know of every end: a session whose onConnect was called   *)
(* is not freed without its onClose.                                       *)
IsTold == Frees /\ ~Unlistened => onclose[conn.session_id] > 0

Doomed(s) ==
    /\ conn.session_id = s /\ s \notin refused
    /\ peer = "closed" \/ conn.closed \/ conn.close_force

(* A connection whose client has gone, that the worker has closed or that  *)
(* the heartbeat thread has given up is freed in the end, unless its CLOSE *)
(* is refused.                                                             *)
Freed == \A s \in Sessions : Doomed(s) ~> (conn.session_id # s \/ s \in refused)
=============================================================================
