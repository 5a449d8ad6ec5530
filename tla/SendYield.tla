----------------------------- MODULE SendYield ------------------------------
(***************************************************************************)
(* send_yield: $serv->send() of a coroutine whose connection's output      *)
(* buffer has overflowed waits until the reactor thread has drained it     *)
(* (swoole_server.cc, php_swoole_server_send_yield(), _send_resume(),      *)
(* php_swoole_onBufferEmpty(), php_swoole_onClose(), onSendTimeout; the    *)
(* watermarks of swServer_master_send() and swReactorThread_onWrite()).    *)
(*                                                                         *)
(* One connection, the reactor thread that serves it and the worker that   *)
(* owns it.  A resumed coroutine runs inside the handler that resumes it,  *)
(* until it yields: the handlers under way form a stack.                   *)
(***************************************************************************)
EXTENDS Naturals, Sequences, FiniteSets, SequencesExt

CONSTANTS
    Coros,         \* coroutines of the worker that send to the connection
    None,
    MaxSend,       \* sends of the coroutines, at most
    BufferSize,    \* socket->buffer_size, in sends
    OnBufferFull,  \* whether the user has set onBufferFull
    HighWater,     \* port->buffer_high_watermark
    LowWater,      \* port->buffer_low_watermark
    Timeout,       \* whether send_timeout is set
    OnCloseSends   \* whether the user's onClose may send

SendYieldAssumption ==
    /\ {MaxSend, BufferSize, HighWater, LowWater} \subseteq Nat
    /\ LowWater < BufferSize /\ HighWater <= BufferSize
    /\ {OnBufferFull, Timeout, OnCloseSends} \subseteq BOOLEAN
    /\ None \notin Coros

VARIABLES
    conn,     \* flags of the swConnection
    out,      \* sends in the output buffer
    w2m,      \* sends in the pipe to the reactor thread
    m2w,      \* events in the pipe to the worker
    coros,    \* coros_list of the connection
    mapped,   \* whether send_coroutine_map has that list
    timers,   \* coroutines whose send timer runs
    co,       \* what each coroutine is at
    cur,      \* the coroutine that runs, or None
    stack,    \* the handlers under way, innermost last
    calls,    \* sends begun
    waits,    \* ghost: the coroutines in the order of their waits
    broken,   \* ghost: a handler used what another one had freed
    inside,   \* ghost: a coroutine that onBufferEmpty had resumed has closed the connection
    late      \* ghost: the coroutines that wait for a send in the user's onClose

ghosts == <<broken, inside, late>>
reactorVars == <<conn, out, w2m, m2w>>
workerVars == <<coros, mapped, timers, co, cur, stack, calls, waits, ghosts>>
vars == <<reactorVars, workerVars>>

Handlers == [h : {"empty", "close", "closed"}, ctx : Coros \union {None}, by : Coros \union {None}]

Init ==
    /\ conn = [overflow |-> FALSE, high_watermark |-> FALSE, closing |-> FALSE,
               closed |-> FALSE, peer_closed |-> FALSE]
    /\ out = 0 /\ w2m = 0
    /\ m2w = <<>>
    /\ coros = <<>> /\ mapped = FALSE /\ timers = {}
    /\ co = [c \in Coros |-> "ready"]
    /\ cur = None /\ stack = <<>>
    /\ calls = 0 /\ waits = <<>> /\ broken = FALSE /\ inside = FALSE /\ late = {}

-----------------------------------------------------------------------------
(* The reactor thread *)

(* An event for the worker; dropped once the connection is closed. *)
notify(event) == m2w' = IF conn.closed THEN m2w ELSE Append(m2w, event)

(* Faulty variant: the high watermark is noted only past a full buffer.    *)
swServer_master_send_Late ==
    /\ w2m > 0 /\ ~conn.peer_closed
    /\ w2m' = w2m - 1
    /\ out' = out + 1
    /\ conn' = [conn EXCEPT !.overflow = @ \/ out >= BufferSize,
                            !.high_watermark = @ \/ out > BufferSize]
    /\ UNCHANGED <<m2w, workerVars>>

(* A send is appended to the buffer (the kernel takes nothing now). *)
swServer_master_send ==
    /\ w2m > 0 /\ ~conn.peer_closed
    /\ w2m' = w2m - 1
    /\ out' = out + 1
    /\ conn' = [conn EXCEPT !.overflow = @ \/ out >= BufferSize,
                            !.high_watermark = @ \/ (IF OnBufferFull
                                                     THEN out + 1 >= HighWater
                                                     ELSE out >= BufferSize)]
    /\ UNCHANGED <<m2w, workerVars>>

(* Faulty variant: a buffer that had overflowed empties without a notice.  *)
swReactorThread_onWrite_NoNotify(k) ==
    /\ out > 0 /\ ~conn.peer_closed
    /\ out' = out - k
    /\ conn' = [conn EXCEPT !.overflow = @ /\ out' >= BufferSize,
                            !.high_watermark = @ /\ out' > LowWater]
    /\ IF conn.high_watermark /\ ~conn.overflow /\ out' <= LowWater
         THEN notify("buffer_empty")
         ELSE UNCHANGED m2w
    /\ UNCHANGED <<w2m, workerVars>>

(* k sends of the buffer leave; at the low watermark the worker is told. *)
swReactorThread_onWrite(k) ==
    /\ out > 0 /\ ~conn.peer_closed
    /\ out' = out - k
    /\ conn' = [conn EXCEPT !.overflow = @ /\ out' >= BufferSize,
                            !.high_watermark = @ /\ out' > LowWater]
    /\ IF conn.high_watermark /\ out' <= LowWater
         THEN notify("buffer_empty")
         ELSE UNCHANGED m2w
    /\ UNCHANGED <<w2m, workerVars>>

(* The client closes: nothing is sent any more, the worker is told. *)
swReactorThread_onClose ==
    /\ ~conn.peer_closed
    /\ conn' = [conn EXCEPT !.peer_closed = TRUE]
    /\ notify("close")
    /\ UNCHANGED <<out, w2m, workerVars>>

-----------------------------------------------------------------------------
(* Coroutines of the worker *)

(* What finish() says to a send: accepted, refused, or yield. *)
swFactoryProcess_finish ==
    IF conn.closed \/ conn.peer_closed THEN "err"
    ELSE IF conn.overflow THEN "yield"
    ELSE "ok"

EventLoop == cur = None /\ stack = <<>>

(* The event loop runs a coroutine that is ready. *)
run(c) ==
    /\ EventLoop /\ co[c] = "ready" /\ calls < MaxSend
    /\ cur' = c
    /\ co' = [co EXCEPT ![c] = "running"]
    /\ UNCHANGED <<reactorVars, coros, mapped, timers, stack, calls, waits, ghosts>>

(* It yields or ends: the handler that resumed it goes on. *)
leave ==
    /\ cur # None
    /\ cur' = None
    /\ co' = [co EXCEPT ![cur] = "ready"]
    /\ UNCHANGED <<reactorVars, coros, mapped, timers, stack, calls, waits, ghosts>>

(* The send waits at the end of the list. *)
php_swoole_server_send_yield ==
    /\ coros' = Append(coros, cur)
    /\ mapped' = TRUE
    /\ timers' = IF Timeout THEN timers \union {cur} ELSE timers
    /\ waits' = Append(waits, cur)
    /\ co' = [co EXCEPT ![cur] = "waiting"]
    /\ cur' = None
    /\ late' = IF stack # <<>> /\ stack[Len(stack)].h = "closed" THEN late \union {cur} ELSE late

send ==
    /\ cur # None /\ calls < MaxSend
    /\ calls' = calls + 1
    /\ \/ /\ swFactoryProcess_finish = "ok"
          /\ w2m' = w2m + 1
          /\ UNCHANGED <<coros, mapped, timers, waits, co, cur, late>>
       \/ /\ swFactoryProcess_finish = "err"
          /\ UNCHANGED <<w2m, coros, mapped, timers, waits, co, cur, late>>
       \/ /\ swFactoryProcess_finish = "yield"
          /\ php_swoole_server_send_yield
          /\ UNCHANGED w2m
    /\ UNCHANGED <<conn, out, m2w, stack, broken, inside>>

(* Resume the coroutine of a context.  A context that is not waiting has   *)
(* been resumed before.                                                    *)
Resume(c) ==
    /\ cur' = c
    /\ co' = [co EXCEPT ![c] = "running"]
    /\ waits' = IF Contains(waits, c) THEN RemoveFirst(waits, c) ELSE waits
    /\ timers' = timers \ {c}
    /\ broken' = (broken \/ co[c] # "waiting")
    /\ late' = late \ {c} /\ UNCHANGED inside

Frame == stack[Len(stack)]
Push(h, by) == Append(stack, [h |-> h, ctx |-> None, by |-> by])
SetCtx(c) == [stack EXCEPT ![Len(stack)].ctx = c]

-----------------------------------------------------------------------------
(* php_swoole_onBufferEmpty() *)

onBufferEmpty ==
    /\ EventLoop /\ m2w # <<>> /\ Head(m2w) = "buffer_empty"
    /\ m2w' = Tail(m2w)
    /\ stack' = IF mapped THEN Push("empty", None) ELSE stack
    /\ UNCHANGED <<conn, out, w2m, coros, mapped, timers, co, cur, calls, waits, ghosts>>

InHandler(h) == cur = None /\ stack # <<>> /\ Frame.h = h

(* The send of the first context is tried again; if it must wait still,    *)
(* all wait on.                                                            *)
emptyResume ==
    /\ InHandler("empty") /\ Frame.ctx = None /\ coros # <<>>
    /\ IF swFactoryProcess_finish = "yield"
         THEN /\ stack' = Front(stack)
              /\ UNCHANGED <<w2m, timers, co, cur, waits, ghosts>>
         ELSE /\ w2m' = IF swFactoryProcess_finish = "ok" THEN w2m + 1 ELSE w2m
              /\ Resume(Head(coros))
              /\ stack' = SetCtx(Head(coros))
    /\ UNCHANGED <<conn, out, m2w, coros, mapped, calls>>

(* The coroutine has yielded: its context is freed and leaves the list.    *)
emptyPop ==
    /\ InHandler("empty") /\ Frame.ctx # None
    /\ IF mapped
         THEN /\ coros' = Tail(coros)
              /\ mapped' = (coros' # <<>>)
              /\ stack' = IF coros' = <<>> THEN Front(stack) ELSE SetCtx(None)
              /\ UNCHANGED broken
         ELSE /\ broken' = TRUE
              /\ stack' = Front(stack)
              /\ UNCHANGED <<coros, mapped>>
    /\ UNCHANGED <<reactorVars, timers, co, cur, calls, waits, inside, late>>

-----------------------------------------------------------------------------
(* swFactoryProcess_end() with php_swoole_onClose() *)

(* For an event of the reactor thread, or for a call of the coroutine by. *)
end(by) ==
    IF conn.closing \/ conn.closed
      THEN UNCHANGED <<conn, cur, stack>>
      ELSE /\ conn' = [conn EXCEPT !.closing = TRUE]
           /\ stack' = Push("close", by)
           /\ cur' = None

onClose ==
    /\ EventLoop /\ m2w # <<>> /\ Head(m2w) = "close"
    /\ m2w' = Tail(m2w)
    /\ end(None)
    /\ UNCHANGED <<out, w2m, coros, mapped, timers, co, calls, waits, ghosts>>

close ==
    /\ cur # None /\ ~conn.closing /\ ~conn.closed
    /\ end(cur)
    /\ inside' = (inside \/ stack # <<>>)
    /\ UNCHANGED <<out, w2m, m2w, coros, mapped, timers, co, calls, waits, broken, late>>

(* Every waiting send fails: its context leaves the list and is resumed. *)
closeResume ==
    /\ InHandler("close") /\ mapped /\ coros # <<>>
    /\ coros' = Tail(coros)
    /\ Resume(Head(coros))
    /\ UNCHANGED <<reactorVars, mapped, stack, calls>>

(* The list is freed and the user's onClose runs as the coroutine c. *)
closeCallback(c) ==
    /\ InHandler("close") /\ coros = <<>>
    /\ mapped' = FALSE
    /\ stack' = [stack EXCEPT ![Len(stack)].h = "closed"]
    /\ IF c = None
         THEN UNCHANGED <<co, cur>>
         ELSE /\ OnCloseSends /\ co[c] = "ready"
              /\ co' = [co EXCEPT ![c] = "running"]
              /\ cur' = c
    /\ UNCHANGED <<reactorVars, coros, timers, calls, waits, ghosts>>

(* end() marks the connection closed and goes back to its caller. *)
closeDone ==
    /\ InHandler("closed")
    /\ conn' = [conn EXCEPT !.closing = FALSE, !.closed = TRUE]
    /\ stack' = Front(stack)
    /\ cur' = Frame.by
    /\ UNCHANGED <<out, w2m, m2w, coros, mapped, timers, co, calls, waits, ghosts>>

(* The send of c has waited for send_timeout. *)
php_swoole_onSendTimeout(c) ==
    /\ EventLoop /\ c \in timers
    /\ IF mapped
         THEN /\ coros' = RemoveFirst(coros, c)
              /\ mapped' = (coros' # <<>>)
              /\ Resume(c)
         ELSE /\ timers' = timers \ {c}
              /\ UNCHANGED <<coros, mapped, co, cur, waits, ghosts>>
    /\ UNCHANGED <<reactorVars, stack, calls>>

drain == \E k \in 1 .. out : swReactorThread_onWrite(k)
handlers ==
    \/ onBufferEmpty \/ emptyResume \/ emptyPop
    \/ onClose \/ closeResume \/ closeDone
    \/ \E c \in Coros \union {None} : closeCallback(c)
timeouts == \E c \in Coros : php_swoole_onSendTimeout(c)

Next ==
    \/ swServer_master_send
    \/ drain
    \/ swReactorThread_onClose
    \/ \E c \in Coros : run(c)
    \/ leave
    \/ send
    \/ close
    \/ handlers
    \/ timeouts

Spec == Init /\ [][Next]_vars

(* The reactor thread writes while the client reads; a coroutine does not  *)
(* keep the worker for ever, and its event loop reads the pipe in turn     *)
(* with all that makes coroutines ready.                                   *)
FairSpec ==
    /\ Spec
    /\ WF_vars(swServer_master_send) /\ WF_vars(drain)
    /\ SF_vars(handlers) /\ WF_vars(leave)

-----------------------------------------------------------------------------
(* The state stays in its types; a timer runs only for a send that waits.  *)
TypeOK ==
    /\ conn \in [overflow : BOOLEAN, high_watermark : BOOLEAN, closing : BOOLEAN,
                 closed : BOOLEAN, peer_closed : BOOLEAN]
    /\ out \in 0 .. MaxSend /\ w2m \in 0 .. MaxSend
    /\ m2w \in Seq({"buffer_empty", "close"})
    /\ coros \in Seq(Coros) /\ mapped \in BOOLEAN
    /\ timers \subseteq {c \in Coros : co[c] = "waiting"}
    /\ co \in [Coros -> {"ready", "running", "waiting"}]
    /\ cur \in Coros \union {None}
    /\ stack \in Seq(Handlers)
    /\ calls \in 0 .. MaxSend /\ waits \in Seq(Coros)
    /\ {broken, inside} \subseteq BOOLEAN /\ late \subseteq Coros

(* No handler uses a list or a context that was freed, and no coroutine is *)
(* resumed twice for one wait, until a coroutine that onBufferEmpty has    *)
(* resumed calls close(): its own context is still the first of the list,  *)
(* which onClose resumes, and frees under onBufferEmpty.                   *)
ResumedOnce == ~inside => ~broken

(* SW_ASSERT(current != this) of Coroutine::resume_naked(): onClose does   *)
(* not resume the coroutine on whose stack it runs, the one that called    *)
(* close().                                                                *)
(* Refuted: the code does otherwise (README.md, Disagreements).            *)
ResumesAnother ==
    InHandler("close") /\ mapped /\ coros # <<>> => Head(coros) # Frame.by

(* A send that waits is in the list, and the list holds nothing else but   *)
(* the context its handler is just resuming, until that close().           *)
WaitingIsListed ==
    ~inside => \A c \in Coros : co[c] = "waiting" <=>
        c \in ToSet(IF stack # <<>> /\ Frame.h = "empty" /\ Frame.ctx # None
                      THEN Tail(coros) ELSE coros)

(* No wakeup is lost: while a send waits, the reactor thread still has to  *)
(* reach the low watermark, or the event that it did, or the close of the  *)
(* connection, is on its way to the worker or being handled.  This is not  *)
(* so for a send that waits in the user's onClose, for which the           *)
(* connection is closed, nor after that close().                           *)
WakeIsComing ==
    ~inside /\ ToSet(waits) \ late # {} =>
        \/ conn.high_watermark
        \/ m2w # <<>>
        \/ stack # <<>>

(* Sends that wait are resumed in the order in which they began to wait,   *)
(* until that close().                                                     *)
InTurn ==
    \A c \in Coros : co[c] = "waiting" /\ co'[c] = "running" /\ ~Timeout /\ ~inside
                       => waits # <<>> /\ c = Head(waits)

Pending(c) == co[c] = "waiting" /\ c \notin late

(* A send that waits returns in the end, with or without a timeout, with   *)
(* the same two exceptions.                                                *)
WaitReturns == \A c \in Coros : Pending(c) ~> (~Pending(c) \/ inside)
=============================================================================
