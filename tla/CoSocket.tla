------------------------------ MODULE CoSocket ------------------------------
(***************************************************************************)
(* swoole::coroutine::Socket: coroutines that read, write, connect, cancel *)
(* and close on one socket.  An operation that would block registers its   *)
(* event with the reactor and its coroutine as read_co or write_co, arms   *)
(* read_timer or write_timer, and yields; the reactor, the timer, cancel() *)
(* or close() resumes it, and it tries again or returns.                   *)
(*                                                                         *)
(* Resuming is a call: whoever resumes goes on when the coroutine yields   *)
(* again.  The stack holds the coroutines that run, and pending what the   *)
(* event loop does after them.  A system call that does not block changes  *)
(* nothing here.  With SSL a read may have to wait for a write event and a *)
(* write for a read event, which is want_event.                            *)
(***************************************************************************)
EXTENDS Naturals, Sequences

CONSTANTS
  Users,    \* the coroutines that use the socket
  NoUser,
  Programs  \* what programs call on the socket, and "ssl" if they make it use SSL

AllCalls == {"recv", "send", "poll", "dns4", "dns6", "cancel_read", "cancel_write", "close"}

ASSUME CoSocketAssumption ==
  NoUser \notin Users /\ Programs \subseteq SUBSET (AllCalls \cup {"ssl"})

VARIABLES
  program,       \* the one that runs
  sock,          \* the members of Socket
  socket_freed,  \* close() has returned true, and its caller has deleted the Socket
  pc,            \* pc[c]: what c does
  added,         \* added[c]: the event that c waits for
  slot,          \* slot[c]: the timer of its operation
  stack,         \* the coroutines that run; the last one is current
  captured,      \* what epoll_wait() has returned for the socket and is still to be handled
  pending,       \* what the event loop still has to do for an event
  crashed        \* a callback has resumed a coroutine that is not there

socketVars == <<program, sock, socket_freed, pc, added, slot, stack, captured, pending, crashed>>

Ssl == "ssl" \in program
NoTimer == <<>>
Members(timer) ==
  [read_co : Users \cup {NoUser}, write_co : Users \cup {NoUser},
   events : SUBSET {"READ", "WRITE"}, want : {"NULL", "READ", "WRITE"},
   read_timer : timer, write_timer : timer, closed : BOOLEAN, enabled : SUBSET Users]

SocketInit ==
  /\ program \in Programs
  /\ sock = [read_co |-> NoUser, write_co |-> NoUser, events |-> {}, want |-> "NULL",
             read_timer |-> NoTimer, write_timer |-> NoTimer, closed |-> FALSE,
             enabled |-> {}]
  /\ socket_freed = FALSE /\ stack = <<>> /\ crashed = FALSE
  /\ captured = {} /\ pending = "none"
  /\ pc = [c \in Users |-> "off"] /\ added = [c \in Users |-> "READ"]
  /\ slot = [c \in Users |-> "read_timer"]

Top(q) == q[Len(q)]
Below(q) == [i \in 1..(Len(q) - 1) |-> q[i]]

Looking == {"dns4", "dns6"}
Waits == {"read", "write", "once"}
Opposite(e) == IF e = "READ" THEN "WRITE" ELSE "READ"
EventOf(p) == IF p = "read" THEN "READ" ELSE "WRITE"
Holder(e) == IF e = "READ" THEN "read_co" ELSE "write_co"

\* Faulty variant: only the writer counts.
has_bound_Writer(s) == s.write_co # NoUser

has_bound(s) == s.read_co # NoUser \/ s.write_co # NoUser

-----------------------------------------------------------------------------
\* timer_controller::start(): the timer is armed unless there is one; t: it has an end.  A
\* controller that has armed a timer is enabled.
start(s, c, tm, t) ==
  IF s[tm] = NoTimer THEN [s EXCEPT ![tm] = <<c, t>>, !.enabled = @ \cup {c}] ELSE s

\* Faulty variant: both timers are deleted.
timer_ends_Both(s, c) ==
  [s EXCEPT !.read_timer = NoTimer, !.write_timer = NoTimer, !.enabled = @ \ {c}]

\* ~timer_controller(): an enabled controller deletes the timer.
timer_ends(s, c) ==
  IF c \in s.enabled THEN [s EXCEPT ![slot[c]] = NoTimer, !.enabled = @ \ {c}] ELSE s

\* wait_event(), before the yield: c waits for e, or for the opposite event when SSL wants it.
wait_event(s, c, e, opposite) ==
  LET a == IF opposite THEN Opposite(e) ELSE e IN
  [s EXCEPT !.events = @ \cup {a}, !.want = IF opposite THEN a ELSE @, ![Holder(e)] = c]

\* wait_event(), after the yield.
waited(s, c) ==
  LET r == [s EXCEPT ![Holder(EventOf(pc[c]))] = NoUser] IN
  [r EXCEPT !.events = IF r.want = "NULL" \/ ~has_bound(r) THEN @ \ {added[c]} ELSE @,
            !.want = "NULL"]

\* Coroutine c, whose socket is in state s, waits in an operation, and base run below it.
Blocks(s, c, p, tm, base) ==
  \E t \in BOOLEAN, opposite \in {FALSE, Ssl} :
    /\ sock' = wait_event(start(s, c, tm, t), c, EventOf(p), opposite)
    /\ added' = [added EXCEPT ![c] = IF opposite THEN Opposite(EventOf(p)) ELSE EventOf(p)]
    /\ slot' = [slot EXCEPT ![c] = tm]
    /\ pc' = [pc EXCEPT ![c] = p]
    /\ stack' = base

\* The locals of its operation end with it.
Forgets(c) ==
  /\ added' = [added EXCEPT ![c] = "READ"]
  /\ slot' = [slot EXCEPT ![c] = "read_timer"]

\* It returns to the program.
Returns(s, c, base) ==
  /\ sock' = timer_ends(s, c)
  /\ pc' = [pc EXCEPT ![c] = "on"]
  /\ stack' = Append(base, c)
  /\ Forgets(c)

\* co->resume() on a coroutine that waits in wait_event() or looks a name up; ok: errCode
\* is 0.  poll() and connect() wait once.  After the look-up connect() goes on.
socket_resume(s, c, ok, base) ==
  IF pc[c] \in Waits
    THEN \/ Returns(waited(s, c), c, base)
         \/ /\ ok /\ ~s.closed /\ pc[c] # "once"
            /\ Blocks(waited(s, c), c, pc[c], slot[c], base)
    ELSE LET r == IF pc[c] = "dns4"
                  THEN [s EXCEPT !.read_co = NoUser, !.write_co = NoUser] ELSE s
         IN  \/ Returns(r, c, base)
             \/ /\ ok /\ ~s.closed /\ ~has_bound(r)
                /\ Blocks(r, c, "once", "write_timer", base)

\* A callback resumes h, which it takes from the socket without looking.
Callback(s, h, ok) ==
  IF h = NoUser
    THEN crashed' = TRUE /\ sock' = s /\ UNCHANGED <<pc, added, slot, stack>>
    ELSE socket_resume(s, h, ok, <<>>) /\ UNCHANGED crashed

-----------------------------------------------------------------------------
InLoop == ~crashed /\ ~socket_freed /\ stack = <<>>
Nothing == UNCHANGED <<sock, pc, added, slot, stack, crashed>>

\* readable_event_callback() and writable_event_callback().
event_callback(e) ==
  IF sock.want = "NULL" THEN Callback(sock, sock[Holder(e)], TRUE)
  ELSE IF sock.want = e THEN Callback(sock, sock[Holder(Opposite(e))], TRUE)
  ELSE Nothing

\* error_event_callback(): first the writer, then the reader.
error_event_callback ==
  IF sock.write_co # NoUser
    THEN /\ socket_resume(sock, sock.write_co, TRUE, <<>>)
         /\ pending' = "error" /\ UNCHANGED crashed
    ELSE /\ pending' = "none"
         /\ IF sock.read_co # NoUser
              THEN socket_resume(sock, sock.read_co, TRUE, <<>>) /\ UNCHANGED crashed
              ELSE Nothing

\* swReactorEpoll_wait(): epoll_wait() returns events of the socket, of those that it is
\* registered for, or an error.  They are handled after other events of the batch, whose
\* handlers may run coroutines.
epoll_wait ==
  /\ InLoop /\ captured = {} /\ pending = "none" /\ sock.events # {}
  /\ \E happened \in SUBSET sock.events :
       captured' = IF happened = {} THEN {"ERROR"} ELSE happened
  /\ UNCHANGED <<program, sock, socket_freed, pc, added, slot, stack, pending, crashed>>

\* Faulty variant: a socket that was removed since is not looked for.
on_events_Removed ==
  /\ InLoop /\ captured # {} /\ pending = "none"
  /\ captured' = {}
  /\ IF "READ" \in captured
       THEN /\ event_callback("READ")
            /\ pending' = IF "WRITE" \in captured THEN "write" ELSE "none"
     ELSE IF "WRITE" \in captured THEN event_callback("WRITE") /\ UNCHANGED pending
     ELSE error_event_callback
  /\ UNCHANGED <<program, socket_freed>>

\* The events are handled if the socket is still registered, whatever for; the handler of
\* WRITE comes after that of READ.
on_events ==
  /\ InLoop /\ captured # {} /\ pending = "none"
  /\ captured' = {}
  /\ IF sock.events = {} THEN Nothing /\ UNCHANGED pending
     ELSE IF "READ" \in captured
       THEN /\ event_callback("READ")
            /\ pending' = IF "WRITE" \in captured THEN "write" ELSE "none"
     ELSE IF "WRITE" \in captured THEN event_callback("WRITE") /\ UNCHANGED pending
     ELSE error_event_callback
  /\ UNCHANGED <<program, socket_freed>>

on_pending ==
  /\ InLoop /\ pending # "none"
  /\ pending' = "none"
  /\ IF sock.events = {} THEN Nothing
     ELSE IF pending = "write" THEN event_callback("WRITE")
     ELSE IF sock.read_co # NoUser
       THEN socket_resume(sock, sock.read_co, TRUE, <<>>) /\ UNCHANGED crashed
       ELSE Nothing
  /\ UNCHANGED <<program, socket_freed, captured>>

\* timer_callback(): timers are looked at after the batch.
timer_callback(tm) ==
  /\ InLoop /\ captured = {} /\ pending = "none" /\ sock[tm] # NoTimer /\ sock[tm][2]
  /\ Callback([sock EXCEPT ![tm] = NoTimer],
              IF tm = "read_timer" THEN sock.read_co ELSE sock.write_co, FALSE)
  /\ UNCHANGED <<program, socket_freed, captured, pending>>

\* The look-up of a name is answered.
on_dns(c, ok) ==
  /\ InLoop /\ pending = "none" /\ pc[c] \in Looking
  /\ socket_resume(sock, c, ok, <<>>)
  /\ UNCHANGED <<program, socket_freed, captured, pending, crashed>>

\* The event loop runs a coroutine that is not in the socket.
run(c) ==
  /\ InLoop /\ pending = "none" /\ pc[c] = "off"
  /\ pc' = [pc EXCEPT ![c] = "on"] /\ stack' = <<c>>
  /\ UNCHANGED <<program, sock, socket_freed, added, slot, captured, pending, crashed>>

-----------------------------------------------------------------------------
Current(c) == ~crashed /\ stack # <<>> /\ Top(stack) = c
Calls(c, o) == Current(c) /\ pc[c] = "on" /\ ~socket_freed /\ o \in program
Other == UNCHANGED <<program, socket_freed, captured, pending, crashed>>

\* The coroutine yields elsewhere, or ends.
leave(c) ==
  /\ Current(c) /\ pc[c] = "on"
  /\ pc' = [pc EXCEPT ![c] = "off"] /\ stack' = Below(stack)
  /\ UNCHANGED <<sock, added, slot>> /\ Other

\* is_available(): the process ends with an error if another coroutine reads (writes), and
\* the operation fails if the socket is closed; the call blocks.
recv(c) ==
  /\ Calls(c, "recv") /\ sock.read_co = NoUser /\ ~sock.closed
  /\ Blocks(sock, c, "read", "read_timer", Below(stack)) /\ Other

send(c) ==
  /\ Calls(c, "send") /\ sock.write_co = NoUser /\ ~sock.closed
  /\ Blocks(sock, c, "write", "write_timer", Below(stack)) /\ Other

\* poll(): waits for WRITE with the timer of reads.
poll(c) ==
  /\ Calls(c, "poll") /\ sock.write_co = NoUser /\ ~sock.closed
  /\ Blocks(sock, c, "once", "read_timer", Below(stack)) /\ Other

\* connect() to a name: for IPv4 the coroutine is both read_co and write_co during the look-up.
connect(c, dns) ==
  /\ Calls(c, dns) /\ dns \in Looking
  /\ ~has_bound(sock) /\ ~sock.closed
  /\ sock' = IF dns = "dns4" THEN [sock EXCEPT !.read_co = c, !.write_co = c] ELSE sock
  /\ pc' = [pc EXCEPT ![c] = dns] /\ stack' = Below(stack)
  /\ UNCHANGED <<added, slot>> /\ Other

\* cancel(): resumes the reader, or the writer.
cancel(c, e) ==
  /\ Calls(c, IF e = "READ" THEN "cancel_read" ELSE "cancel_write")
  /\ sock[Holder(e)] # NoUser
  /\ socket_resume(sock, sock[Holder(e)], FALSE, stack) /\ Other

\* close(): if coroutines are in operations they are resumed, the writer first, and their
\* operations fail; otherwise the socket can be freed.
Fails(s, b) ==
  IF pc[b] \in Waits THEN timer_ends(waited(s, b), b)
                     ELSE [s EXCEPT !.read_co = NoUser, !.write_co = NoUser]

socket_close(c) ==
  /\ Calls(c, "close")
  /\ sock.closed => ~has_bound(sock)
  /\ LET s == [sock EXCEPT !.closed = TRUE]
         b == IF s.write_co # NoUser THEN s.write_co ELSE s.read_co
     IN  IF has_bound(s)
           THEN /\ sock' = Fails(s, b)
                /\ pc' = [pc EXCEPT ![b] = "on", ![c] = IF b = s.write_co THEN "closing" ELSE @]
                /\ stack' = Append(stack, b)
                /\ Forgets(b) /\ UNCHANGED socket_freed
           ELSE sock' = s /\ socket_freed' = TRUE /\ UNCHANGED <<pc, stack, added, slot>>
  /\ UNCHANGED <<program, captured, pending, crashed>>

\* The rest of close(), after the writer has run.
closes(c) ==
  /\ Current(c) /\ pc[c] = "closing"
  /\ IF ~socket_freed /\ sock.read_co # NoUser
       THEN /\ sock' = Fails(sock, sock.read_co)
            /\ pc' = [pc EXCEPT ![sock.read_co] = "on", ![c] = "on"]
            /\ stack' = Append(stack, sock.read_co)
            /\ Forgets(sock.read_co)
       ELSE pc' = [pc EXCEPT ![c] = "on"] /\ UNCHANGED <<sock, stack, added, slot>>
  /\ Other

Uses(c) ==
  \/ leave(c) \/ recv(c) \/ send(c) \/ poll(c) \/ socket_close(c) \/ closes(c)
  \/ \E dns \in Looking : connect(c, dns)
  \/ \E e \in {"READ", "WRITE"} : cancel(c, e)

SocketNext ==
  \/ epoll_wait \/ on_events \/ on_pending
  \/ \E tm \in {"read_timer", "write_timer"} : timer_callback(tm)
  \/ \E c \in Users : run(c) \/ Uses(c) \/ \E ok \in BOOLEAN : on_dns(c, ok)

SocketSpec == SocketInit /\ [][SocketNext]_socketVars

\* A coroutine that runs goes on until it yields, at last to the event loop, whose batches
\* are finite and which handles events and timers.
SocketFairness ==
  /\ \A c \in Users : SF_socketVars(leave(c)) /\ WF_socketVars(closes(c))
  /\ SF_socketVars(on_events) /\ WF_socketVars(on_pending)
  /\ \A tm \in {"read_timer", "write_timer"} : SF_socketVars(timer_callback(tm))

FairSocket == SocketSpec /\ SocketFairness

-----------------------------------------------------------------------------
\* Every variable has its type.
SocketTypeOK ==
  /\ program \in Programs
  /\ sock \in Members({NoTimer} \cup (Users \X BOOLEAN))
  /\ socket_freed \in BOOLEAN /\ crashed \in BOOLEAN /\ pending \in {"none", "write", "error"}
  /\ captured \in {{}, {"ERROR"}, {"READ"}, {"WRITE"}, {"READ", "WRITE"}}
  /\ pc \in [Users -> {"off", "on", "closing"} \cup Waits \cup Looking]
  /\ added \in [Users -> {"READ", "WRITE"}] /\ slot \in [Users -> {"read_timer", "write_timer"}]
  /\ stack \in Seq(Users) /\ \A i, j \in 1..Len(stack) : stack[i] = stack[j] => i = j

\* read_co and write_co are the coroutines that wait in the socket, and no other waits.
BoundIsWaiting ==
  \A c \in Users :
    /\ sock.read_co = c <=> pc[c] \in {"read", "dns4"}
    /\ sock.write_co = c <=> pc[c] \in {"write", "once", "dns4"}

\* The reactor watches the socket for the events that coroutines wait for and no others.
EventsAreWaitedFor == sock.events = {added[c] : c \in {d \in Users : pc[d] \in Waits}}

\* A timer is that of the operation whose coroutine it would resume, and who waits has one.
TimerIsOwn ==
  /\ \A c \in Users : pc[c] \in Waits => sock[slot[c]] # NoTimer
  /\ sock.read_timer # NoTimer => sock.read_timer[1] = sock.read_co
  /\ sock.write_timer # NoTimer => sock.write_timer[1] = sock.write_co

\* The program uses no SSL, does not cancel a write, and neither polls nor looks IPv6 names
\* up.
Plain == program \subseteq {"recv", "send", "dns4", "cancel_read", "close"}

\* Every callback finds the coroutine that it resumes, if nothing is cancelled: an event that
\* was captured before the cancel() is handled while a coroutine waits for the other event.
NoNullResume == "cancel_read" \notin program => ~crashed

\* Nobody waits in a socket that was freed.
FreedIsIdle == socket_freed => \A c \in Users : pc[c] \notin Waits \cup {"dns4"}

\* A closed socket has nobody waiting once the event loop runs again.
ClosedIsIdle == sock.closed /\ stack = <<>> => ~has_bound(sock)

Limited(c) == pc[c] \in Waits /\ sock[slot[c]] = <<c, TRUE>>

\* An operation with a timeout returns, however often its event comes in vain.
TimedReturns == \A c \in Users : Limited(c) ~> (pc[c] \notin Waits)

\* The coroutines that a socket has bound are those that wait in it, and none waits in a
\* socket that was freed, or was closed once the loop runs.  If the program uses no TLS,
\* cancels no write and neither polls nor looks IPv6 names up, the events registered and the
\* timers set are those of the coroutine that waits; and if it does not cancel a read either,
\* no callback finds its coroutine gone, though the events were captured before other
\* coroutines ran (coroutine/socket.cc, reactor/epoll.cc).
SocketBound ==
  /\ SocketTypeOK /\ BoundIsWaiting /\ FreedIsIdle /\ ClosedIsIdle
  /\ Plain => EventsAreWaitedFor /\ TimerIsOwn /\ NoNullResume

\* No socket is freed while connect() looks a name up for it.
\* Refuted: the code does otherwise (README.md, Disagreements).
ConnectHoldsSocket == socket_freed => \A c \in Users : pc[c] \notin Looking
=============================================================================
