--------------------------- MODULE CoSocketProofs ---------------------------
(***************************************************************************)
(* Coroutines that share a socket: proof of SocketBound for any number of  *)
(* coroutines and for every program that uses the socket.                  *)
(*                                                                         *)
(* BoundInv holds for every program.  It adds to the invariant that the    *)
(* coroutines on the stack are those that run (Running), and that a closed *)
(* socket has no writer and a reader only while close() is under way       *)
(* (Closed).  PlainInv is what plain programs add: events and timers are   *)
(* those of the reader and of the writer (Quiet), and events that were     *)
(* captured find their coroutine, or a closed socket, however many         *)
(* coroutines run before they are handled (Awaited).                       *)
(***************************************************************************)
EXTENDS CoSocket, Integers, TLAPS

Member(q) == {q[i] : i \in 1..Len(q)}
NoRepeat(q) == \A i, j \in 1..Len(q) : q[i] = q[j] => i = j

\* What push_back() adds to a list.
LEMMA AppendQueue ==
  ASSUME NEW S, NEW q \in Seq(S), NEW c \in S
  PROVE  /\ Append(q, c) \in Seq(S)
         /\ Append(q, c) # <<>>
         /\ Member(Append(q, c)) = Member(q) \cup {c}
         /\ NoRepeat(q) /\ c \notin Member(q) => NoRepeat(Append(q, c))
<1> DEFINE r == Append(q, c)
<1>1. /\ r \in Seq(S) /\ Len(r) = Len(q) + 1 /\ r[Len(q) + 1] = c
      /\ \A i \in 1..Len(q) : r[i] = q[i]
      /\ Len(q) \in Nat
  OBVIOUS
<1>2. r # <<>>
  BY <1>1
<1> HIDE DEF r
<1>3. Member(r) = Member(q) \cup {c}
  BY <1>1 DEF Member
<1>4. ASSUME NoRepeat(q), c \notin Member(q) PROVE NoRepeat(r)
  BY <1>1, <1>4 DEF NoRepeat, Member
<1> QED
  BY <1>1, <1>2, <1>3, <1>4, Zenon DEF r

\* What is left of a stack when its last element goes.
LEMMA BelowQueue ==
  ASSUME NEW S, NEW q \in Seq(S), q # <<>>, NoRepeat(q)
  PROVE  /\ Below(q) \in Seq(S)
         /\ Top(q) \in Member(q)
         /\ Member(Below(q)) = Member(q) \ {Top(q)}
         /\ NoRepeat(Below(q))
<1> DEFINE r == Below(q)
<1>1. /\ Len(q) \in Nat \ {0} /\ r \in Seq(S) /\ Len(r) = Len(q) - 1 /\ Top(q) = q[Len(q)]
      /\ \A i \in 1..Len(r) : r[i] = q[i]
  <2>1. /\ Len(q) \in Nat \ {0} /\ Len(q) - 1 \in Nat /\ Top(q) = q[Len(q)]
        /\ \A i \in 1..Len(q) : q[i] \in S
    BY DEF Top
  <2>2. r \in [1..(Len(q) - 1) -> S] /\ \A i \in 1..(Len(q) - 1) : r[i] = q[i]
    BY <2>1 DEF Below
  <2> HIDE DEF r
  <2>3. r \in Seq(S) /\ Len(r) = Len(q) - 1
    BY <2>1, <2>2
  <2> QED
    BY <2>1, <2>2, <2>3, Zenon
<1> HIDE DEF r
<1>2. Top(q) \in Member(q)
  BY <1>1 DEF Member
<1>3. NoRepeat(r)
  BY <1>1 DEF NoRepeat
<1>4. ASSUME NEW x \in Member(r) PROVE x \in Member(q) /\ x # Top(q)
  <2>1. PICK i \in 1..Len(r) : x = r[i]
    BY <1>4, Zenon DEF Member
  <2>2. i \in 1..Len(q) /\ Len(q) \in 1..Len(q) /\ x = q[i] /\ i # Len(q)
    BY <2>1, <1>1
  <2> QED
    BY <2>2, <1>1, Zenon DEF NoRepeat, Member
<1>5. ASSUME NEW x \in Member(q), x # Top(q) PROVE x \in Member(r)
  <2>1. PICK i \in 1..Len(q) : x = q[i]
    BY <1>5, Zenon DEF Member
  <2>2. i \in 1..Len(r) /\ r[i] = q[i]
    BY <2>1, <1>1, <1>5
  <2> QED
    BY <2>1, <2>2, Zenon DEF Member
<1> QED
  BY <1>1, <1>2, <1>3, <1>4, <1>5, Zenon DEF r

\* States of the Socket.
Sock == Members({NoTimer} \cup (Users \X BOOLEAN))
Free == Users \cup {NoUser}

\* The fields of a socket, one by one.
LEMMA SockShape ==
  ASSUME NEW s \in Sock
  PROVE  /\ DOMAIN s = {"read_co", "write_co", "events", "want", "read_timer", "write_timer", "closed", "enabled"}
         /\ s.read_co \in Free /\ s.write_co \in Free /\ s.events \subseteq {"READ", "WRITE"}
         /\ s.want \in {"NULL", "READ", "WRITE"} /\ s.closed \in BOOLEAN
         /\ s.enabled \subseteq Users
         /\ s.read_timer \in {NoTimer} \cup (Users \X BOOLEAN)
         /\ s.write_timer \in {NoTimer} \cup (Users \X BOOLEAN)
BY Zenon DEF Sock, Members, Free

\* ~timer_controller() deletes at most the timer of c.
LEMMA EndsShape ==
  ASSUME NEW s \in Sock, NEW c \in Users, slot[c] \in {"read_timer", "write_timer"},
         NEW r, r = timer_ends(s, c)
  PROVE  /\ r \in Sock /\ r.read_co = s.read_co /\ r.write_co = s.write_co
         /\ r.events = s.events /\ r.want = s.want /\ r.closed = s.closed
         /\ r.enabled = s.enabled \ {c}
         /\ r.read_timer = IF c \in s.enabled /\ slot[c] = "read_timer" THEN NoTimer ELSE s.read_timer
         /\ r.write_timer = IF c \in s.enabled /\ slot[c] = "write_timer" THEN NoTimer ELSE s.write_timer
<1>1. CASE c \in s.enabled
  <2>1. CASE slot[c] = "read_timer"
    BY <1>1, <2>1, Zenon DEF timer_ends, Sock, Members
  <2>2. CASE slot[c] = "write_timer"
    BY <1>1, <2>2, Zenon DEF timer_ends, Sock, Members
  <2> QED
    BY <2>1, <2>2, Zenon
<1>2. CASE c \notin s.enabled
  <2>1. s.enabled = s.enabled \ {c}
    BY <1>2, Zenon
  <2> QED
    BY <1>2, <2>1, Zenon DEF timer_ends
<1> QED
  BY <1>1, <1>2, Zenon

\* start() arms the timer tm if there is none.
LEMMA StartShape ==
  ASSUME NEW s \in Sock, NEW c \in Users, NEW tm \in {"read_timer", "write_timer"},
         NEW t \in BOOLEAN, NEW r, r = start(s, c, tm, t)
  PROVE  /\ r \in Sock /\ r.read_co = s.read_co /\ r.write_co = s.write_co
         /\ r.events = s.events /\ r.want = s.want /\ r.closed = s.closed
         /\ s[tm] = NoTimer => r.enabled = s.enabled \cup {c}
         /\ s[tm] # NoTimer => r.enabled = s.enabled
         /\ tm = "read_timer" /\ s.read_timer = NoTimer => r.read_timer = <<c, t>>
         /\ tm # "read_timer" \/ s.read_timer # NoTimer => r.read_timer = s.read_timer
         /\ tm = "write_timer" /\ s.write_timer = NoTimer => r.write_timer = <<c, t>>
         /\ tm # "write_timer" \/ s.write_timer # NoTimer => r.write_timer = s.write_timer
<1>0. <<c, t>> \in Users \X BOOLEAN
  BY Zenon
<1>1. CASE tm = "read_timer"
  BY <1>0, <1>1, Zenon DEF start, Sock, Members
<1>2. CASE tm = "write_timer"
  BY <1>0, <1>2, Zenon DEF start, Sock, Members
<1> QED
  BY <1>1, <1>2, Zenon

\* wait_event() before the yield.
LEMMA WaitShape ==
  ASSUME NEW s \in Sock, NEW c \in Users, NEW e \in {"READ", "WRITE"}, NEW o \in BOOLEAN,
         NEW r, r = wait_event(s, c, e, o)
  PROVE  /\ r \in Sock
         /\ r.read_co = IF e = "READ" THEN c ELSE s.read_co
         /\ r.write_co = IF e = "WRITE" THEN c ELSE s.write_co
         /\ ~ o => r.events = s.events \cup {e} /\ r.want = s.want
         /\ r.closed = s.closed /\ r.enabled = s.enabled
         /\ r.read_timer = s.read_timer /\ r.write_timer = s.write_timer
<1>1. CASE e = "READ"
  BY <1>1, Zenon DEF wait_event, Holder, Opposite, Sock, Members
<1>2. CASE e = "WRITE"
  BY <1>2, Zenon DEF wait_event, Holder, Opposite, Sock, Members
<1> QED
  BY <1>1, <1>2, Zenon

\* wait_event() after the yield.
LEMMA WaitedShape ==
  ASSUME NEW s \in Sock, NEW c \in Users, pc[c] \in Waits,
         NEW r, r = waited(s, c)
  PROVE  /\ r \in Sock
         /\ r.read_co = IF pc[c] = "read" THEN NoUser ELSE s.read_co
         /\ r.write_co = IF pc[c] # "read" THEN NoUser ELSE s.write_co
         /\ s.want = "NULL" => r.events = s.events \ {added[c]}
         /\ r.want = "NULL"
         /\ r.closed = s.closed /\ r.enabled = s.enabled
         /\ r.read_timer = s.read_timer /\ r.write_timer = s.write_timer
<1>1. CASE pc[c] = "read"
  BY <1>1, Zenon DEF waited, Holder, EventOf, Sock, Members
<1>2. CASE pc[c] # "read"
  BY <1>2, Zenon DEF waited, Holder, EventOf, Sock, Members
<1> QED
  BY <1>1, <1>2, Zenon

-----------------------------------------------------------------------------
\* What holds of every program.
Types ==
  /\ pc \in [Users -> {"off", "on", "closing"} \cup Waits \cup Looking]
  /\ added \in [Users -> {"READ", "WRITE"}] /\ slot \in [Users -> {"read_timer", "write_timer"}]

\* The locals of the other coroutines stay.
LocalsKept(c) == \A d \in Users \ {c} : added'[d] = added[d] /\ slot'[d] = slot[d]

SockTypes ==
  /\ program \in Programs /\ sock \in Sock /\ Types
  /\ socket_freed \in BOOLEAN /\ crashed \in BOOLEAN /\ pending \in {"none", "write", "error"}
  /\ stack \in Seq(Users) /\ NoRepeat(stack)

\* What epoll_wait() may return for the socket.
CaptureOK == captured \in {{}, {"ERROR"}, {"READ"}, {"WRITE"}, {"READ", "WRITE"}}

\* The coroutines on the stack are those that run.
Running == \A c \in Users : c \in Member(stack) <=> pc[c] \in {"on", "closing"}

\* A closed socket has no writer, and its reader is about to be resumed by a close().
Closed ==
  /\ sock.closed => /\ sock.write_co = NoUser
                    /\ sock.read_co # NoUser => \E c \in Users : pc[c] = "closing"
  /\ (\E c \in Users : pc[c] = "closing") => sock.closed

BoundInv == SockTypes /\ BoundIsWaiting /\ FreedIsIdle /\ Running /\ Closed

\* What wait_event() does to the bound coroutines before the yield.
LEMMA BlocksBound ==
  ASSUME Types, NEW s \in Sock, NEW c \in Users, NEW p \in Waits,
         NEW tm \in {"read_timer", "write_timer"}, NEW base, Blocks(s, c, p, tm, base)
  PROVE  /\ sock' \in Sock /\ Types' /\ pc' = [pc EXCEPT ![c] = p] /\ stack' = base
         /\ sock'.read_co = IF p = "read" THEN c ELSE s.read_co
         /\ sock'.write_co = IF p # "read" THEN c ELSE s.write_co
         /\ sock'.closed = s.closed
<1>1. PICK t \in BOOLEAN, o \in BOOLEAN :
        /\ sock' = wait_event(start(s, c, tm, t), c, EventOf(p), o)
        /\ added' = [added EXCEPT ![c] = IF o THEN Opposite(EventOf(p)) ELSE EventOf(p)]
        /\ slot' = [slot EXCEPT ![c] = tm]
        /\ pc' = [pc EXCEPT ![c] = p]
        /\ stack' = base
  <2>0. Ssl \in BOOLEAN
    BY DEF Ssl
  <2>1. \A o \in {FALSE, Ssl} : o \in BOOLEAN
    BY <2>0, Zenon
  <2> QED
    BY <2>1, Zenon DEF Blocks
<1>2. EventOf(p) \in {"READ", "WRITE"} /\ (EventOf(p) = "READ" <=> p = "read")
  BY Zenon DEF EventOf
<1>3. PICK r : r = start(s, c, tm, t)
  BY Zenon
<1>4. r \in Sock /\ r.read_co = s.read_co /\ r.write_co = s.write_co /\ r.closed = s.closed
  BY <1>1, <1>3, StartShape
<1>5. /\ sock' \in Sock
      /\ sock'.read_co = IF p = "read" THEN c ELSE s.read_co
      /\ sock'.write_co = IF p # "read" THEN c ELSE s.write_co
      /\ sock'.closed = s.closed
  BY <1>1, <1>2, <1>3, <1>4, WaitShape
<1>6. Types'
  BY <1>1, <1>2, Zenon DEF Types, Opposite
<1> QED
  BY <1>1, <1>5, <1>6, Zenon

\* An operation's locals end with it, and no others.
LEMMA ForgetsLocals ==
  ASSUME Types, NEW c \in Users, Forgets(c)
  PROVE  /\ added' \in [Users -> {"READ", "WRITE"}]
         /\ slot' \in [Users -> {"read_timer", "write_timer"}]
         /\ LocalsKept(c)
<1>1. /\ added' = [added EXCEPT ![c] = "READ"] /\ added \in [Users -> {"READ", "WRITE"}]
      /\ slot' = [slot EXCEPT ![c] = "read_timer"]
      /\ slot \in [Users -> {"read_timer", "write_timer"}]
  BY Zenon DEF Forgets, Types
<1>2. LocalsKept(c)
  BY <1>1, Zenon DEF LocalsKept
<1> QED
  BY <1>1, <1>2, Zenon

\* An operation that returns leaves the bound coroutines to the others.
LEMMA ReturnsBound ==
  ASSUME Types, NEW s \in Sock, NEW c \in Users, NEW base, Returns(s, c, base)
  PROVE  /\ sock' \in Sock /\ Types' /\ pc' = [pc EXCEPT ![c] = "on"]
         /\ stack' = Append(base, c)
         /\ sock'.read_co = s.read_co /\ sock'.write_co = s.write_co /\ sock'.closed = s.closed
<1>1. sock' = timer_ends(s, c) /\ slot[c] \in {"read_timer", "write_timer"}
  BY Zenon DEF Returns, Types
<1>2. /\ sock' \in Sock /\ sock'.read_co = s.read_co /\ sock'.write_co = s.write_co
      /\ sock'.closed = s.closed
  BY <1>1, EndsShape
<1>3. Types'
  BY ForgetsLocals, Zenon DEF Returns, Types
<1> QED
  BY <1>2, <1>3, Zenon DEF Returns

\* A coroutine that waits in the socket is resumed: it returns, or waits again.
LEMMA ResumeBound ==
  ASSUME Types, BoundIsWaiting, NEW s \in Sock,
         s.read_co = sock.read_co, s.write_co = sock.write_co,
         NEW c \in Users, pc[c] \in Waits \cup Looking, NEW ok, NEW base,
         socket_resume(s, c, ok, base)
  PROVE  /\ sock' \in Sock /\ Types' /\ BoundIsWaiting' /\ sock'.closed = s.closed
         /\ \A d \in Users \ {c} : pc'[d] = pc[d]
         /\ \/ pc'[c] = "on" /\ stack' = Append(base, c)
            \/ pc'[c] \in Waits /\ stack' = base /\ ~ s.closed
         /\ s.closed => /\ sock'.read_co \in {NoUser, s.read_co}
                        /\ sock'.write_co \in {NoUser, s.write_co}
<1> USE CoSocketAssumption
<1>1. CASE pc[c] \in Waits
  <2>1. PICK r : r = waited(s, c)
    BY Zenon
  <2>2. /\ r \in Sock /\ r.closed = s.closed
        /\ r.read_co = IF pc[c] = "read" THEN NoUser ELSE s.read_co
        /\ r.write_co = IF pc[c] # "read" THEN NoUser ELSE s.write_co
    BY <1>1, <2>1, WaitedShape
  <2>3. CASE Returns(r, c, base)
    <3>1. /\ sock' \in Sock /\ Types' /\ pc' = [pc EXCEPT ![c] = "on"]
          /\ stack' = Append(base, c)
          /\ sock'.read_co = r.read_co /\ sock'.write_co = r.write_co /\ sock'.closed = r.closed
      BY <2>2, <2>3, ReturnsBound, Zenon
    <3>2. pc'[c] = "on" /\ \A d \in Users \ {c} : pc'[d] = pc[d]
      BY <3>1, Zenon DEF Types
    <3>3. BoundIsWaiting'
      BY <1>1, <2>2, <3>1, <3>2 DEF BoundIsWaiting, Waits
    <3> QED
      BY <2>2, <3>1, <3>2, <3>3, Zenon
  <2>4. CASE ~ s.closed /\ Blocks(r, c, pc[c], slot[c], base)
    <3>1. /\ sock' \in Sock /\ Types' /\ pc' = [pc EXCEPT ![c] = pc[c]] /\ stack' = base
          /\ sock'.read_co = IF pc[c] = "read" THEN c ELSE r.read_co
          /\ sock'.write_co = IF pc[c] # "read" THEN c ELSE r.write_co
          /\ sock'.closed = r.closed
      <4>1. slot[c] \in {"read_timer", "write_timer"}
        BY Zenon DEF Types
      <4> QED
        BY <1>1, <2>2, <2>4, <4>1, BlocksBound
    <3>2. \A d \in Users : pc'[d] = pc[d]
      BY <3>1, Zenon DEF Types
    <3>3. BoundIsWaiting'
      BY <1>1, <2>2, <3>1, <3>2 DEF BoundIsWaiting, Waits
    <3> QED
      BY <1>1, <2>2, <2>4, <3>1, <3>2, <3>3, Zenon
  <2> QED
    BY <1>1, <2>1, <2>3, <2>4, Zenon DEF socket_resume
<1>2. CASE pc[c] \in Looking
  <2>1. PICK r : r = IF pc[c] = "dns4" THEN [s EXCEPT !.read_co = NoUser, !.write_co = NoUser] ELSE s
    BY Zenon
  <2>2. /\ r \in Sock /\ r.closed = s.closed
        /\ r.read_co = IF pc[c] = "dns4" THEN NoUser ELSE s.read_co
        /\ r.write_co = IF pc[c] = "dns4" THEN NoUser ELSE s.write_co
    BY <2>1, Zenon DEF Sock, Members
  <2>3. CASE Returns(r, c, base)
    <3>1. /\ sock' \in Sock /\ Types' /\ pc' = [pc EXCEPT ![c] = "on"]
          /\ stack' = Append(base, c)
          /\ sock'.read_co = r.read_co /\ sock'.write_co = r.write_co /\ sock'.closed = r.closed
      BY <2>2, <2>3, ReturnsBound, Zenon
    <3>2. pc'[c] = "on" /\ \A d \in Users \ {c} : pc'[d] = pc[d]
      BY <3>1, Zenon DEF Types
    <3>3. BoundIsWaiting'
      BY <1>2, <2>2, <3>1, <3>2 DEF BoundIsWaiting, Looking
    <3> QED
      BY <2>2, <3>1, <3>2, <3>3, Zenon
  <2>4. CASE ~ s.closed /\ ~ has_bound(r) /\ Blocks(r, c, "once", "write_timer", base)
    <3>1. /\ sock' \in Sock /\ Types' /\ pc' = [pc EXCEPT ![c] = "once"] /\ stack' = base
          /\ sock'.read_co = r.read_co /\ sock'.write_co = c /\ sock'.closed = r.closed
      <4>1. "once" \in Waits /\ "once" # "read"
        BY Zenon DEF Waits
      <4> QED
        BY <2>2, <2>4, <4>1, BlocksBound
    <3>2. pc'[c] = "once" /\ \A d \in Users \ {c} : pc'[d] = pc[d]
      BY <3>1, Zenon DEF Types
    <3>3. BoundIsWaiting'
      BY <1>2, <2>2, <2>4, <3>1, <3>2 DEF BoundIsWaiting, Looking, has_bound
    <3> QED
      BY <2>2, <2>4, <3>1, <3>2, <3>3, Zenon DEF Waits
  <2>5. pc[c] \notin Waits
    BY <1>2, Zenon DEF Waits, Looking
  <2> QED
    BY <2>1, <2>3, <2>4, <2>5, Zenon DEF socket_resume
<1> QED
  BY <1>1, <1>2, Zenon

\* A new socket has nobody bound.
LEMMA InitBound == SocketInit => BoundInv
<1> SUFFICES ASSUME SocketInit PROVE BoundInv
  BY Zenon
<1> USE CoSocketAssumption
<1>1. SockTypes
  <2>1. stack \in Seq(Users) /\ NoRepeat(stack)
    <3>1. <<>> \in Seq(Users) /\ Len(<<>>) = 0 /\ 1..0 = {}
      OBVIOUS
    <3> QED
      BY <3>1, Zenon DEF SocketInit, NoRepeat
  <2>2. sock \in Sock
    BY Zenon DEF SocketInit, Sock, Members
  <2> QED
    BY <2>1, <2>2, Zenon DEF SocketInit, SockTypes, Types
<1>2. BoundIsWaiting /\ FreedIsIdle /\ Running /\ Closed
  BY DEF SocketInit, BoundIsWaiting, FreedIsIdle, Running, Closed, Member
<1> QED
  BY <1>1, <1>2, Zenon DEF BoundInv

\* BoundInv, taken apart,
LEMMA BoundFacts ==
  ASSUME BoundInv
  PROVE  /\ sock \in Sock /\ Types /\ stack \in Seq(Users) /\ NoRepeat(stack)
         /\ program \in Programs
         /\ socket_freed \in BOOLEAN /\ crashed \in BOOLEAN
         /\ pending \in {"none", "write", "error"}
         /\ BoundIsWaiting /\ FreedIsIdle /\ Running /\ Closed
BY Zenon DEF BoundInv, SockTypes

\* and put together.
LEMMA BoundAgain ==
  ASSUME sock' \in Sock, Types', stack' \in Seq(Users), NoRepeat(stack'), program' \in Programs,
         socket_freed' \in BOOLEAN, crashed' \in BOOLEAN, pending' \in {"none", "write", "error"},
         BoundIsWaiting', FreedIsIdle', Running', Closed'
  PROVE  BoundInv'
BY Zenon DEF BoundInv, SockTypes

\* What a callback, cancel() or close() resumes is in an operation of the socket.
LEMMA HolderWaits ==
  ASSUME BoundIsWaiting, NEW h \in Users, h = sock.read_co \/ h = sock.write_co
  PROVE  pc[h] \in Waits \cup Looking
BY Zenon DEF BoundIsWaiting, Waits, Looking

\* Resuming a coroutine that waits in the socket keeps the invariant,
LEMMA ResumeStep ==
  ASSUME BoundInv, ~ socket_freed, NEW s \in Sock, s.read_co = sock.read_co,
         s.write_co = sock.write_co,
         s.closed = sock.closed, NEW c \in Users, pc[c] \in Waits \cup Looking, NEW ok,
         NEW base, base = stack, socket_resume(s, c, ok, base),
         socket_freed' = socket_freed, program' = program, crashed' \in BOOLEAN,
         pending' \in {"none", "write", "error"}
  PROVE  BoundInv'
<1>0. /\ sock \in Sock /\ Types /\ stack \in Seq(Users) /\ NoRepeat(stack)
      /\ program \in Programs
      /\ socket_freed \in BOOLEAN
      /\ BoundIsWaiting /\ FreedIsIdle /\ Running /\ Closed
  BY BoundFacts, Zenon
<1>1. /\ sock' \in Sock /\ Types' /\ BoundIsWaiting' /\ sock'.closed = s.closed
      /\ \A d \in Users \ {c} : pc'[d] = pc[d]
      /\ \/ pc'[c] = "on" /\ stack' = Append(stack, c)
         \/ pc'[c] \in Waits /\ stack' = stack /\ ~ s.closed
      /\ s.closed => /\ sock'.read_co \in {NoUser, s.read_co}
                     /\ sock'.write_co \in {NoUser, s.write_co}
  BY <1>0, ResumeBound, Zenon
<1>2. pc[c] \notin {"on", "closing"} /\ c \notin Member(stack)
  BY <1>0, Zenon DEF Running, Waits, Looking
<1>3. /\ Append(stack, c) \in Seq(Users) /\ NoRepeat(Append(stack, c))
      /\ Member(Append(stack, c)) = Member(stack) \cup {c}
  BY <1>0, <1>2, AppendQueue
<1>4. stack' \in Seq(Users) /\ NoRepeat(stack')
  BY <1>0, <1>1, <1>3, Zenon
<1>5. Running'
  BY <1>0, <1>1, <1>2, <1>3, Zenon DEF Running, Waits
<1>6. Closed'
  <2>0. (\E d \in Users : pc'[d] = "closing") => sock'.closed
    BY <1>0, <1>1, Zenon DEF Closed, Waits
  <2> SUFFICES ASSUME sock'.closed
               PROVE  /\ sock'.write_co = NoUser
                      /\ sock'.read_co # NoUser => \E d \in Users : pc'[d] = "closing"
    BY <2>0, Zenon DEF Closed
  <2>1. /\ sock.write_co = NoUser
        /\ sock.read_co # NoUser => \E d \in Users : pc[d] = "closing"
    BY <1>0, <1>1, Zenon DEF Closed
  <2>2. \A d \in Users : pc[d] = "closing" => pc'[d] = "closing"
    BY <1>1, <1>2, Zenon
  <2> QED
    BY <1>1, <2>1, <2>2, Zenon
<1>7. FreedIsIdle'
  BY Zenon DEF FreedIsIdle
<1> QED
  BY <1>0, <1>1, <1>4, <1>5, <1>6, <1>7, BoundAgain, Zenon

\* so does a callback of the reactor or of a timer, whomever it finds,
LEMMA CallbackStep ==
  ASSUME BoundInv, InLoop, NEW s \in Sock, s.read_co = sock.read_co, s.write_co = sock.write_co,
         s.closed = sock.closed, NEW h, h = sock.read_co \/ h = sock.write_co, NEW ok,
         Callback(s, h, ok),
         socket_freed' = socket_freed, program' = program, pending' \in {"none", "write", "error"}
  PROVE  BoundInv'
<1>0. /\ sock \in Sock /\ Types /\ stack \in Seq(Users) /\ NoRepeat(stack)
      /\ program \in Programs
      /\ socket_freed \in BOOLEAN /\ crashed \in BOOLEAN
      /\ BoundIsWaiting /\ FreedIsIdle /\ Running /\ Closed
  BY BoundFacts, Zenon
<1>1. ~ socket_freed /\ stack = <<>>
  BY Zenon DEF InLoop
<1>2. CASE h = NoUser
  <2>1. crashed' = TRUE /\ sock' = s /\ UNCHANGED <<pc, added, slot, stack>>
    BY <1>2, Zenon DEF Callback
  <2>2. Types'
    BY <1>0, <2>1, Zenon DEF Types
  <2>3. BoundIsWaiting' /\ FreedIsIdle' /\ Running' /\ Closed'
    BY <1>0, <2>1, Zenon DEF BoundIsWaiting, FreedIsIdle, Running, Closed
  <2> QED
    BY <1>0, <2>1, <2>2, <2>3, BoundAgain, Zenon
<1>3. CASE h # NoUser
  <2>1. h \in Users
    BY <1>0, <1>3, SockShape DEF Free
  <2>2. pc[h] \in Waits \cup Looking
    BY <1>0, <2>1, HolderWaits, Zenon
  <2>3. socket_resume(s, h, ok, <<>>) /\ UNCHANGED crashed
    BY <1>3, Zenon DEF Callback
  <2>4. crashed' \in BOOLEAN
    BY <1>0, <2>3, Zenon
  <2> QED
    BY <1>1, <2>1, <2>2, <2>3, <2>4, ResumeStep, Zenon
<1> QED
  BY <1>2, <1>3, Zenon

\* and the steps of the event loop that make such callbacks.
LEMMA LoopBound ==
  ASSUME BoundInv, program' = program,
         on_events \/ on_pending \/ \E tm \in {"read_timer", "write_timer"} : timer_callback(tm)
  PROVE  BoundInv'
<1>0. /\ sock \in Sock /\ Types /\ stack \in Seq(Users) /\ NoRepeat(stack)
      /\ program \in Programs
      /\ socket_freed \in BOOLEAN /\ crashed \in BOOLEAN
      /\ pending \in {"none", "write", "error"}
      /\ BoundIsWaiting /\ FreedIsIdle /\ Running /\ Closed
  BY BoundFacts, Zenon
<1>1. InLoop /\ ~ socket_freed /\ stack = <<>> /\ socket_freed' = socket_freed
  BY Zenon DEF on_events, on_pending, timer_callback, InLoop
<1>2. ASSUME Nothing, pending' \in {"none", "write", "error"} PROVE BoundInv'
  <2>1. Types' /\ BoundIsWaiting' /\ FreedIsIdle' /\ Running' /\ Closed'
    BY <1>0, <1>1, <1>2, Zenon DEF Nothing, Types, BoundIsWaiting, FreedIsIdle, Running, Closed
  <2> QED
    BY <1>0, <1>1, <1>2, <2>1, BoundAgain, Zenon DEF Nothing
<1>3. ASSUME NEW h \in Users, h = sock.read_co \/ h = sock.write_co,
             socket_resume(sock, h, TRUE, <<>>),
             UNCHANGED crashed, pending' \in {"none", "write", "error"}
      PROVE  BoundInv'
  <2>1. pc[h] \in Waits \cup Looking
    BY <1>0, <1>3, HolderWaits, Zenon
  <2>2. crashed' \in BOOLEAN
    BY <1>0, <1>3, Zenon
  <2> QED
    BY <1>0, <1>1, <1>3, <2>1, <2>2, ResumeStep, Zenon
<1>4. ASSUME NEW e \in {"READ", "WRITE"}, event_callback(e),
             pending' \in {"none", "write", "error"}
      PROVE  BoundInv'
  <2>1. \/ \E h \in {sock.read_co, sock.write_co} : Callback(sock, h, TRUE)
        \/ Nothing
    BY <1>4, Zenon DEF event_callback, Holder, Opposite
  <2> QED
    BY <1>0, <1>1, <1>2, <1>4, <2>1, CallbackStep, Zenon
<1>5. CASE on_events
  <2>1. \/ Nothing /\ UNCHANGED pending
        \/ error_event_callback
        \/ /\ \E e \in {"READ", "WRITE"} : event_callback(e)
           /\ pending' \in {"none", "write"} \/ UNCHANGED pending
    BY <1>5, Zenon DEF on_events
  <2>2. CASE error_event_callback
    <3>1. error_event_callback
      BY <2>2, Zenon
    <3>2. pending' \in {"none", "write", "error"}
      BY <3>1, Zenon DEF error_event_callback
    <3>3. sock.read_co \in Users \cup {NoUser} /\ sock.write_co \in Users \cup {NoUser}
      BY <1>0, SockShape, Zenon DEF Free
    <3> QED
      BY <1>2, <1>3, <3>1, <3>2, <3>3, Zenon DEF error_event_callback
  <2> QED
    BY <1>0, <1>2, <1>4, <2>1, <2>2, Zenon
<1>6. CASE on_pending
  <2>1. pending' \in {"none", "write", "error"}
    BY <1>6, Zenon DEF on_pending
  <2>2. sock.read_co \in Users \cup {NoUser}
    BY <1>0, SockShape, Zenon DEF Free
  <2>3. \/ Nothing \/ event_callback("WRITE")
        \/ sock.read_co # NoUser /\ socket_resume(sock, sock.read_co, TRUE, <<>>) /\ UNCHANGED crashed
    BY <1>6, Zenon DEF on_pending
  <2> QED
    BY <1>2, <1>3, <1>4, <2>1, <2>2, <2>3, Zenon
<1>7. ASSUME NEW tm \in {"read_timer", "write_timer"}, timer_callback(tm) PROVE BoundInv'
  <2>1. PICK s : s = [sock EXCEPT ![tm] = NoTimer]
    BY Zenon
  <2>2. /\ s \in Sock /\ s.read_co = sock.read_co /\ s.write_co = sock.write_co
        /\ s.closed = sock.closed
    <3>1. CASE tm = "read_timer"
      BY <1>0, <2>1, <3>1, Zenon DEF Sock, Members
    <3>2. CASE tm = "write_timer"
      BY <1>0, <2>1, <3>2, Zenon DEF Sock, Members
    <3> QED
      BY <3>1, <3>2, Zenon
  <2>3. PICK h : h = IF tm = "read_timer" THEN sock.read_co ELSE sock.write_co
    BY Zenon
  <2>4. Callback(s, h, FALSE) /\ pending' = pending
    BY <1>7, <2>1, <2>3, Zenon DEF timer_callback
  <2> QED
    BY <1>0, <1>1, <2>2, <2>3, <2>4, CallbackStep, Zenon
<1> QED
  BY <1>5, <1>6, <1>7, Zenon

\* So do running and leaving a coroutine, and the answer of a look-up.
LEMMA OthersBound ==
  ASSUME BoundInv, program' = program, NEW c \in Users,
         run(c) \/ leave(c) \/ \E ok \in BOOLEAN : on_dns(c, ok)
  PROVE  BoundInv'
<1>0. /\ sock \in Sock /\ Types /\ stack \in Seq(Users) /\ NoRepeat(stack)
      /\ program \in Programs
      /\ socket_freed \in BOOLEAN /\ crashed \in BOOLEAN
      /\ pending \in {"none", "write", "error"}
      /\ BoundIsWaiting /\ FreedIsIdle /\ Running /\ Closed
  BY BoundFacts, Zenon
<1>1. CASE run(c)
  <2>1. /\ stack = <<>> /\ pc[c] = "off" /\ ~ socket_freed /\ pc' = [pc EXCEPT ![c] = "on"]
        /\ stack' = <<c>>
        /\ UNCHANGED <<sock, socket_freed, added, slot, pending, crashed>>
    BY <1>1, Zenon DEF run, InLoop
  <2>2. Types' /\ pc'[c] = "on" /\ \A d \in Users \ {c} : pc'[d] = pc[d]
    BY <1>0, <2>1, Zenon DEF Types
  <2>3. stack' \in Seq(Users) /\ NoRepeat(stack') /\ Member(stack') = {c} /\ Member(stack) = {}
    BY <2>1 DEF NoRepeat, Member
  <2>4. BoundIsWaiting'
    BY <1>0, <2>1, <2>2, Zenon DEF BoundIsWaiting
  <2>5. FreedIsIdle' /\ Running' /\ Closed'
    BY <1>0, <2>1, <2>2, <2>3, Zenon DEF FreedIsIdle, Running, Closed
  <2> QED
    BY <1>0, <2>1, <2>2, <2>3, <2>4, <2>5, BoundAgain, Zenon
<1>2. CASE leave(c)
  <2>1. /\ stack # <<>> /\ Top(stack) = c /\ pc[c] = "on" /\ pc' = [pc EXCEPT ![c] = "off"]
        /\ stack' = Below(stack)
        /\ UNCHANGED <<sock, socket_freed, added, slot, pending, crashed>>
    BY <1>2, Zenon DEF leave, Current, Other
  <2>2. Types' /\ pc'[c] = "off" /\ \A d \in Users \ {c} : pc'[d] = pc[d]
    BY <1>0, <2>1, Zenon DEF Types
  <2>3. stack' \in Seq(Users) /\ NoRepeat(stack') /\ Member(stack') = Member(stack) \ {c}
    BY <1>0, <2>1, BelowQueue, Zenon
  <2>4. BoundIsWaiting'
    BY <1>0, <2>1, <2>2, Zenon DEF BoundIsWaiting
  <2>5. Running' /\ Closed'
    BY <1>0, <2>1, <2>2, <2>3, Zenon DEF Running, Closed
  <2>6. FreedIsIdle'
    BY <1>0, <2>1, <2>2, Zenon DEF FreedIsIdle, Waits
  <2> QED
    BY <1>0, <2>1, <2>2, <2>3, <2>4, <2>5, <2>6, BoundAgain, Zenon
<1>3. ASSUME NEW ok \in BOOLEAN, on_dns(c, ok) PROVE BoundInv'
  <2>1. /\ ~ socket_freed /\ stack = <<>> /\ pc[c] \in Looking
        /\ socket_resume(sock, c, ok, <<>>)
        /\ UNCHANGED <<socket_freed, pending, crashed>>
    BY <1>3, Zenon DEF on_dns, InLoop
  <2> QED
    BY <1>0, <2>1, ResumeStep, Zenon
<1> QED
  BY <1>1, <1>2, <1>3, Zenon

\* An operation that is_available() lets in, and that waits, keeps the invariant.
LEMMA BlockStep ==
  ASSUME BoundInv, program' = program, NEW c \in Users, Current(c), pc[c] = "on",
         ~ socket_freed, ~ sock.closed,
         NEW p \in Waits, NEW tm \in {"read_timer", "write_timer"},
         p = "read" => sock.read_co = NoUser, p # "read" => sock.write_co = NoUser,
         Blocks(sock, c, p, tm, Below(stack)), Other
  PROVE  BoundInv'
<1> USE CoSocketAssumption
<1>0. /\ sock \in Sock /\ Types /\ stack \in Seq(Users) /\ NoRepeat(stack)
      /\ program \in Programs
      /\ socket_freed \in BOOLEAN /\ crashed \in BOOLEAN
      /\ pending \in {"none", "write", "error"}
      /\ BoundIsWaiting /\ FreedIsIdle /\ Running /\ Closed
  BY BoundFacts, Zenon
<1>1. PICK base : base = Below(stack)
  BY Zenon
<1>2. /\ sock' \in Sock /\ Types' /\ pc' = [pc EXCEPT ![c] = p] /\ stack' = base
      /\ sock'.read_co = IF p = "read" THEN c ELSE sock.read_co
      /\ sock'.write_co = IF p # "read" THEN c ELSE sock.write_co
      /\ sock'.closed = sock.closed
  <2>1. PICK s \in Sock : s = sock
    BY <1>0, Zenon
  <2> QED
    BY <1>0, <1>1, <2>1, BlocksBound
<1>3. pc'[c] = p /\ \A d \in Users \ {c} : pc'[d] = pc[d]
  BY <1>0, <1>2, Zenon DEF Types
<1>4. stack' \in Seq(Users) /\ NoRepeat(stack') /\ Member(stack') = Member(stack) \ {c}
  BY <1>0, <1>1, <1>2, BelowQueue, Zenon DEF Current
<1>5. BoundIsWaiting'
  BY <1>0, <1>2, <1>3 DEF BoundIsWaiting, Waits
<1>6. Running'
  BY <1>0, <1>3, <1>4, Zenon DEF Running, Waits
<1>7. Closed' /\ FreedIsIdle'
  BY <1>0, <1>2, <1>3, Zenon DEF Closed, FreedIsIdle, Other, Waits
<1> QED
  BY <1>0, <1>2, <1>4, <1>5, <1>6, <1>7, BoundAgain, Zenon DEF Other

\* So do the calls of recv(), send(), poll(), connect() and cancel(),
LEMMA CallsBound ==
  ASSUME BoundInv, program' = program, NEW c \in Users,
         \/ recv(c) \/ send(c) \/ poll(c)
         \/ \E dns \in Looking : connect(c, dns)
         \/ \E e \in {"READ", "WRITE"} : cancel(c, e)
  PROVE  BoundInv'
<1> USE CoSocketAssumption
<1>0. /\ sock \in Sock /\ Types /\ stack \in Seq(Users) /\ NoRepeat(stack)
      /\ program \in Programs
      /\ socket_freed \in BOOLEAN /\ crashed \in BOOLEAN
      /\ pending \in {"none", "write", "error"}
      /\ BoundIsWaiting /\ FreedIsIdle /\ Running /\ Closed
  BY BoundFacts, Zenon
<1>1. Current(c) /\ pc[c] = "on" /\ ~ socket_freed /\ Other
  BY Zenon DEF recv, send, poll, connect, cancel, Calls
<1>2. CASE recv(c) \/ send(c) \/ poll(c)
  <2>1. PICK p \in Waits, tm \in {"read_timer", "write_timer"} :
          /\ ~ sock.closed
          /\ p = "read" => sock.read_co = NoUser
          /\ p # "read" => sock.write_co = NoUser
          /\ Blocks(sock, c, p, tm, Below(stack))
    BY <1>2, Zenon DEF recv, send, poll, Waits
  <2> QED
    BY <1>1, <2>1, BlockStep, Zenon
<1>3. ASSUME NEW dns \in Looking, connect(c, dns) PROVE BoundInv'
  <2>1. /\ ~ has_bound(sock) /\ ~ sock.closed
        /\ sock' = IF dns = "dns4" THEN [sock EXCEPT !.read_co = c, !.write_co = c] ELSE sock
        /\ pc' = [pc EXCEPT ![c] = dns] /\ stack' = Below(stack)
        /\ UNCHANGED <<added, slot>>
    BY <1>3, Zenon DEF connect
  <2>2. /\ sock' \in Sock /\ sock'.closed = sock.closed
        /\ sock'.read_co = IF dns = "dns4" THEN c ELSE sock.read_co
        /\ sock'.write_co = IF dns = "dns4" THEN c ELSE sock.write_co
    BY <1>0, <2>1, Zenon DEF Sock, Members
  <2>3. Types' /\ pc'[c] = dns /\ \A d \in Users \ {c} : pc'[d] = pc[d]
    BY <1>0, <2>1, Zenon DEF Types
  <2>4. stack' \in Seq(Users) /\ NoRepeat(stack') /\ Member(stack') = Member(stack) \ {c}
    BY <1>0, <1>1, <2>1, BelowQueue, Zenon DEF Current
  <2>5. BoundIsWaiting'
    BY <1>0, <1>1, <2>1, <2>2, <2>3 DEF BoundIsWaiting, Looking, has_bound
  <2>6. Running'
    BY <1>0, <2>3, <2>4, Zenon DEF Running, Looking
  <2>7. Closed' /\ FreedIsIdle'
    BY <1>0, <1>1, <2>1, <2>2, <2>3, Zenon DEF Closed, FreedIsIdle, Other, Looking
  <2> QED
    BY <1>0, <1>1, <2>2, <2>3, <2>4, <2>5, <2>6, <2>7, BoundAgain, Zenon DEF Other
<1>4. ASSUME NEW e \in {"READ", "WRITE"}, cancel(c, e) PROVE BoundInv'
  <2>1. PICK h : h # NoUser /\ (h = sock.read_co \/ h = sock.write_co) /\ socket_resume(sock, h, FALSE, stack)
    BY <1>4, Zenon DEF cancel, Holder
  <2>2. h \in Users
    BY <1>0, <2>1, SockShape, Zenon DEF Free
  <2>3. pc[h] \in Waits \cup Looking
    BY <1>0, <2>1, <2>2, HolderWaits, Zenon
  <2>4. PICK s \in Sock : s = sock
    BY <1>0, Zenon
  <2>5. PICK base : base = stack
    BY Zenon
  <2> QED
    BY <1>0, <1>1, <2>1, <2>2, <2>3, <2>4, <2>5, ResumeStep, Zenon DEF Other
<1> QED
  BY <1>2, <1>3, <1>4, Zenon

\* close() ends the operation of b.
LEMMA FailsBound ==
  ASSUME Types, BoundIsWaiting, NEW s \in Sock, s.read_co = sock.read_co,
         s.write_co = sock.write_co,
         NEW b \in Users, b = sock.read_co \/ b = sock.write_co, sock' = Fails(s, b)
  PROVE  /\ sock' \in Sock /\ sock'.closed = s.closed
         /\ sock'.read_co = IF sock.read_co = b THEN NoUser ELSE sock.read_co
         /\ sock'.write_co = IF sock.write_co = b THEN NoUser ELSE sock.write_co
<1> USE CoSocketAssumption
<1>1. CASE pc[b] \in Waits
  <2>1. PICK r : r = waited(s, b)
    BY Zenon
  <2>2. /\ r \in Sock /\ r.closed = s.closed
        /\ r.read_co = IF pc[b] = "read" THEN NoUser ELSE s.read_co
        /\ r.write_co = IF pc[b] # "read" THEN NoUser ELSE s.write_co
    BY <1>1, <2>1, WaitedShape
  <2>3. sock' = timer_ends(r, b) /\ slot[b] \in {"read_timer", "write_timer"}
    BY <1>1, <2>1, Zenon DEF Fails, Types
  <2>4. /\ sock' \in Sock /\ sock'.closed = r.closed
        /\ sock'.read_co = r.read_co /\ sock'.write_co = r.write_co
    BY <2>2, <2>3, EndsShape
  <2> QED
    BY <1>1, <2>2, <2>4, Zenon DEF BoundIsWaiting, Waits
<1>2. CASE pc[b] \notin Waits
  <2>1. sock' = [s EXCEPT !.read_co = NoUser, !.write_co = NoUser]
    BY <1>2, Zenon DEF Fails
  <2>2. sock' \in Sock /\ sock'.closed = s.closed /\ sock'.read_co = NoUser /\ sock'.write_co = NoUser
    BY <2>1, Zenon DEF Sock, Members
  <2>3. pc[b] = "dns4"
    BY <1>2, Zenon DEF BoundIsWaiting, Waits
  <2> QED
    BY <2>2, <2>3, Zenon DEF BoundIsWaiting
<1> QED
  BY <1>1, <1>2, Zenon

\* the first half of close(), which resumes the writer,
LEMMA CloseBound ==
  ASSUME BoundInv, program' = program, NEW c \in Users, socket_close(c) PROVE BoundInv'
<1> USE CoSocketAssumption
<1>0. /\ sock \in Sock /\ Types /\ stack \in Seq(Users) /\ NoRepeat(stack)
      /\ program \in Programs
      /\ socket_freed \in BOOLEAN /\ crashed \in BOOLEAN
      /\ pending \in {"none", "write", "error"}
      /\ BoundIsWaiting /\ FreedIsIdle /\ Running /\ Closed
  BY BoundFacts, Zenon
<1>1. /\ Current(c) /\ pc[c] = "on" /\ ~ socket_freed /\ (sock.closed => ~ has_bound(sock))
      /\ UNCHANGED <<pending, crashed>>
  BY Zenon DEF socket_close, Calls
<1>2. PICK s : s = [sock EXCEPT !.closed = TRUE]
  BY Zenon
<1>3. /\ s \in Sock /\ s.read_co = sock.read_co /\ s.write_co = sock.write_co /\ s.closed = TRUE
  BY <1>0, <1>2, Zenon DEF Sock, Members
<1>4. CASE has_bound(s)
  <2>1. PICK b : b = IF s.write_co # NoUser THEN s.write_co ELSE s.read_co
    BY Zenon
  <2>2. b \in Users /\ (b = sock.read_co \/ b = sock.write_co)
    BY <1>0, <1>3, <1>4, <2>1, SockShape, Zenon DEF has_bound, Free
  <2>3. /\ sock' = Fails(s, b)
        /\ pc' = [pc EXCEPT ![b] = "on", ![c] = IF b = s.write_co THEN "closing" ELSE @]
        /\ stack' = Append(stack, b) /\ UNCHANGED socket_freed /\ Forgets(b)
    BY <1>2, <1>4, <2>1, Zenon DEF socket_close
  <2>4. /\ sock' \in Sock /\ sock'.closed = TRUE
        /\ sock'.read_co = IF sock.read_co = b THEN NoUser ELSE sock.read_co
        /\ sock'.write_co = IF sock.write_co = b THEN NoUser ELSE sock.write_co
    BY <1>0, <1>3, <2>2, <2>3, FailsBound, Zenon
  <2>5. pc[b] \in {"read", "write", "once", "dns4"} /\ b # c /\ b \notin Member(stack)
    BY <1>0, <1>1, <2>2, Zenon DEF BoundIsWaiting, Running
  <2>6. /\ Types' /\ pc'[b] = "on" /\ pc'[c] = IF b = s.write_co THEN "closing" ELSE "on"
        /\ \A d \in Users \ {b, c} : pc'[d] = pc[d]
    BY <1>0, <1>1, <2>2, <2>3, <2>5, ForgetsLocals, Zenon DEF Types
  <2>7. stack' \in Seq(Users) /\ NoRepeat(stack') /\ Member(stack') = Member(stack) \cup {b}
    BY <1>0, <2>2, <2>3, <2>5, AppendQueue
  <2>8. BoundIsWaiting'
    BY <1>0, <1>1, <2>4, <2>5, <2>6 DEF BoundIsWaiting
  <2>9. Running'
    BY <1>0, <1>1, <2>6, <2>7, Zenon DEF Running
  <2>10. Closed'
    <3>1. sock'.write_co = NoUser
      BY <1>3, <2>1, <2>2, <2>4, Zenon
    <3>2. sock'.read_co # NoUser => pc'[c] = "closing"
      BY <1>3, <2>1, <2>2, <2>4, <2>6, Zenon
    <3>3. sock'.closed
      BY <1>3, <2>4, Zenon
    <3> QED
      BY <3>1, <3>2, <3>3, Zenon DEF Closed
  <2>11. FreedIsIdle'
    BY <1>1, <2>3, Zenon DEF FreedIsIdle
  <2> QED
    BY <1>0, <1>1, <2>3, <2>4, <2>6, <2>7, <2>8, <2>9, <2>10, <2>11, BoundAgain, Zenon
<1>5. CASE ~ has_bound(s)
  <2>1. sock' = s /\ socket_freed' = TRUE /\ UNCHANGED <<pc, stack, added, slot>>
    BY <1>2, <1>5, Zenon DEF socket_close
  <2>2. Types' /\ BoundIsWaiting' /\ Running'
    BY <1>0, <1>1, <1>3, <2>1, Zenon DEF Types, BoundIsWaiting, Running
  <2>3. Closed'
    BY <1>3, <1>5, <2>1, Zenon DEF Closed, has_bound
  <2>4. FreedIsIdle'
    BY <1>0, <1>3, <1>5, <2>1 DEF FreedIsIdle, has_bound, BoundIsWaiting, Waits
  <2> QED
    BY <1>0, <1>1, <1>3, <2>1, <2>2, <2>3, <2>4, BoundAgain, Zenon
<1> QED
  BY <1>4, <1>5, Zenon

\* and its second half, which resumes the reader.
LEMMA ClosesBound ==
  ASSUME BoundInv, program' = program, NEW c \in Users, closes(c) PROVE BoundInv'
<1> USE CoSocketAssumption
<1>0. /\ sock \in Sock /\ Types /\ stack \in Seq(Users) /\ NoRepeat(stack)
      /\ program \in Programs
      /\ socket_freed \in BOOLEAN /\ crashed \in BOOLEAN
      /\ pending \in {"none", "write", "error"}
      /\ BoundIsWaiting /\ FreedIsIdle /\ Running /\ Closed
  BY BoundFacts, Zenon
<1>1. Current(c) /\ pc[c] = "closing" /\ Other
  BY Zenon DEF closes
<1>2. CASE ~ socket_freed /\ sock.read_co # NoUser
  <2>1. PICK b : b = sock.read_co
    BY Zenon
  <2>2. b \in Users
    BY <1>0, <1>2, <2>1, SockShape, Zenon DEF Free
  <2>3. /\ sock' = Fails(sock, b) /\ pc' = [pc EXCEPT ![b] = "on", ![c] = "on"]
        /\ stack' = Append(stack, b) /\ Forgets(b)
    BY <1>2, <2>1, Zenon DEF closes
  <2>4. /\ sock' \in Sock /\ sock'.closed = sock.closed
        /\ sock'.read_co = NoUser
        /\ sock'.write_co = IF sock.write_co = b THEN NoUser ELSE sock.write_co
    <3>1. PICK s \in Sock : s = sock
      BY <1>0, Zenon
    <3> QED
      BY <1>0, <2>1, <2>2, <2>3, <3>1, FailsBound, Zenon
  <2>5. pc[b] \in {"read", "dns4"} /\ b # c /\ b \notin Member(stack)
    BY <1>0, <1>1, <2>1, <2>2, Zenon DEF BoundIsWaiting, Running
  <2>6. /\ Types' /\ pc'[b] = "on" /\ pc'[c] = "on"
        /\ \A d \in Users \ {b, c} : pc'[d] = pc[d]
    BY <1>0, <1>1, <2>2, <2>3, <2>5, ForgetsLocals, Zenon DEF Types
  <2>7. stack' \in Seq(Users) /\ NoRepeat(stack') /\ Member(stack') = Member(stack) \cup {b}
    BY <1>0, <2>2, <2>3, <2>5, AppendQueue
  <2>8. BoundIsWaiting'
    BY <1>0, <1>1, <2>1, <2>4, <2>5, <2>6 DEF BoundIsWaiting
  <2>9. Running'
    BY <1>0, <1>1, <2>6, <2>7, Zenon DEF Running
  <2>10. Closed'
    BY <1>0, <1>1, <2>4, Zenon DEF Closed
  <2>11. FreedIsIdle'
    BY <1>1, <1>2, Zenon DEF FreedIsIdle, Other
  <2> QED
    BY <1>0, <1>1, <2>4, <2>6, <2>7, <2>8, <2>9, <2>10, <2>11, BoundAgain, Zenon DEF Other
<1>3. CASE socket_freed \/ sock.read_co = NoUser
  <2>1. pc' = [pc EXCEPT ![c] = "on"] /\ UNCHANGED <<sock, stack, added, slot>>
    BY <1>3, Zenon DEF closes
  <2>2. Types' /\ pc'[c] = "on" /\ \A d \in Users \ {c} : pc'[d] = pc[d]
    BY <1>0, <1>1, <2>1, Zenon DEF Types
  <2>3. BoundIsWaiting' /\ Running'
    BY <1>0, <1>1, <2>1, <2>2, Zenon DEF BoundIsWaiting, Running
  <2>4. FreedIsIdle'
    BY <1>0, <1>1, <2>2, Zenon DEF FreedIsIdle, Waits, Other
  <2>5. Closed'
    <3>1. sock.read_co = NoUser
      <4>1. CASE socket_freed
        <5>1. sock.read_co \in Users => pc[sock.read_co] \in {"read", "dns4"}
          BY <1>0, Zenon DEF BoundIsWaiting
        <5>2. sock.read_co \in Users \cup {NoUser}
          BY <1>0, SockShape, Zenon DEF Free
        <5> QED
          BY <1>0, <4>1, <5>1, <5>2, Zenon DEF FreedIsIdle, Waits
      <4> QED
        BY <1>3, <4>1, Zenon
    <3> QED
      BY <1>0, <1>1, <2>1, <3>1, Zenon DEF Closed
  <2> QED
    BY <1>0, <1>1, <2>1, <2>2, <2>3, <2>4, <2>5, BoundAgain, Zenon DEF Other
<1> QED
  BY <1>2, <1>3, Zenon

\* The operations that a program uses do not change.
LEMMA SameProgram == SocketNext => program' = program
<1> SUFFICES ASSUME SocketNext PROVE program' = program
  BY Zenon
<1>1. CASE \/ epoll_wait \/ on_events \/ on_pending
           \/ \E tm \in {"read_timer", "write_timer"} : timer_callback(tm)
  BY <1>1, Zenon DEF epoll_wait, on_events, on_pending, timer_callback
<1>2. ASSUME NEW c \in Users, run(c) \/ \E ok \in BOOLEAN : on_dns(c, ok) PROVE program' = program
  BY <1>2, Zenon DEF run, on_dns
<1>3. ASSUME NEW c \in Users, Uses(c) PROVE program' = program
  BY <1>3, Zenon DEF Uses, leave, recv, send, poll, socket_close, closes, connect, cancel, Other
<1> QED
  BY <1>1, <1>2, <1>3, Zenon DEF SocketNext

\* Every step keeps the invariant.
LEMMA NextBound == BoundInv /\ [SocketNext]_socketVars => BoundInv'
<1> SUFFICES ASSUME BoundInv, [SocketNext]_socketVars PROVE BoundInv'
  BY Zenon
<1>2. CASE epoll_wait \/ UNCHANGED socketVars
  <2>1. UNCHANGED <<program, sock, socket_freed, pc, added, slot, stack, pending, crashed>>
    BY <1>2, Zenon DEF epoll_wait, socketVars
  <2> QED
    BY <2>1 DEF BoundInv, SockTypes, Types, BoundIsWaiting, FreedIsIdle, Running, Closed
<1>1. CASE SocketNext
  <2>1. program' = program
    BY <1>1, SameProgram, Zenon
  <2>2. CASE on_events \/ on_pending \/ \E tm \in {"read_timer", "write_timer"} : timer_callback(tm)
    BY <2>1, <2>2, LoopBound, Zenon
  <2>3. ASSUME NEW c \in Users, run(c) \/ \E ok \in BOOLEAN : on_dns(c, ok) PROVE BoundInv'
    BY <2>1, <2>3, OthersBound, Zenon
  <2>4. ASSUME NEW c \in Users, Uses(c) PROVE BoundInv'
    <3>1. CASE leave(c)
      BY <2>1, <3>1, OthersBound, Zenon
    <3>2. CASE socket_close(c)
      BY <2>1, <3>2, CloseBound, Zenon
    <3>3. CASE closes(c)
      BY <2>1, <3>3, ClosesBound, Zenon
    <3>4. CASE \/ recv(c) \/ send(c) \/ poll(c)
               \/ \E dns \in Looking : connect(c, dns)
               \/ \E e \in {"READ", "WRITE"} : cancel(c, e)
      BY <2>1, <3>4, CallsBound, Zenon
    <3> QED
      BY <2>4, <3>1, <3>2, <3>3, <3>4, Zenon DEF Uses
  <2> QED
    BY <1>1, <1>2, <2>2, <2>3, <2>4, Zenon DEF SocketNext
<1> QED
  BY <1>1, <1>2, Zenon

\* What is captured has its type.
LEMMA NextCapture == BoundInv /\ CaptureOK /\ [SocketNext]_socketVars => CaptureOK'
<1> SUFFICES ASSUME BoundInv, CaptureOK, [SocketNext]_socketVars PROVE CaptureOK'
  BY Zenon
<1>1. CASE epoll_wait
  <2>1. PICK happened \in SUBSET sock.events :
          captured' = IF happened = {} THEN {"ERROR"} ELSE happened
    BY <1>1, Zenon DEF epoll_wait
  <2>2. happened \subseteq {"READ", "WRITE"}
    BY <2>1, BoundFacts, SockShape, Zenon
  <2>3. \/ happened = {} \/ happened = {"READ"} \/ happened = {"WRITE"}
        \/ happened = {"READ", "WRITE"}
    BY <2>2
  <2> QED
    BY <2>1, <2>3, Zenon DEF CaptureOK
<1>2. CASE \/ on_events \/ on_pending
           \/ \E tm \in {"read_timer", "write_timer"} : timer_callback(tm)
  BY <1>2, Zenon DEF on_events, on_pending, timer_callback, CaptureOK
<1>3. ASSUME NEW c \in Users, run(c) \/ \E ok \in BOOLEAN : on_dns(c, ok) PROVE CaptureOK'
  BY <1>3, Zenon DEF run, on_dns, CaptureOK
<1>4. ASSUME NEW c \in Users, Uses(c) PROVE CaptureOK'
  <2>1. captured' = captured
    BY <1>4, Zenon DEF Uses, leave, recv, send, poll, socket_close, closes, connect, cancel, Other
  <2> QED
    BY <2>1, Zenon DEF CaptureOK
<1>5. CASE UNCHANGED socketVars
  BY <1>5, Zenon DEF socketVars, CaptureOK
<1> QED
  BY <1>1, <1>2, <1>3, <1>4, <1>5, Zenon DEF SocketNext

\* Nobody is bound to a closed socket once the event loop runs.
LEMMA BoundClosed == BoundInv => ClosedIsIdle
<1> SUFFICES ASSUME BoundInv, sock.closed, stack = <<>> PROVE ~ has_bound(sock)
  BY Zenon DEF ClosedIsIdle
<1>1. Member(stack) = {}
  BY DEF Member
<1>2. \A c \in Users : pc[c] # "closing"
  BY <1>1, BoundFacts, Zenon DEF Running
<1> QED
  BY <1>2, BoundFacts, Zenon DEF Closed, has_bound

-----------------------------------------------------------------------------
\* What holds besides of a plain program.
TimerOf(p) == IF p = "read" THEN "read_timer" ELSE "write_timer"
Reads == \E c \in Users : pc[c] = "read"
Writes == \E c \in Users : pc[c] \in {"write", "once"}

Quiet ==
  /\ sock.want = "NULL"
  /\ sock.enabled = {c \in Users : pc[c] \in Waits}
  /\ \A c \in Users :
       /\ pc[c] # "dns6"
       /\ pc[c] \in Waits => added[c] = EventOf(pc[c]) /\ slot[c] = TimerOf(pc[c])
       /\ pc[c] = "read" => sock.read_timer # NoTimer /\ sock.read_timer[1] = c
       /\ pc[c] \in {"write", "once"} => sock.write_timer # NoTimer /\ sock.write_timer[1] = c
  /\ "READ" \in sock.events <=> Reads
  /\ "WRITE" \in sock.events <=> Writes
  /\ sock.read_timer # NoTimer => Reads
  /\ sock.write_timer # NoTimer => Writes

\* The handler that is still to come finds its coroutine, unless the socket was closed or the
\* reader was cancelled.
Calm == "cancel_read" \notin program
Awaited ==
  /\ pending # "none" => captured = {}
  /\ pending = "write" \/ "WRITE" \in captured => sock.closed \/ Writes
  /\ Calm /\ "READ" \in captured => sock.closed \/ Reads

PlainKept == Quiet /\ Awaited /\ (Calm => ~ crashed)
PlainInv == Plain => PlainKept

\* Coroutines other than c wait as before.
Others(c) ==
  \A d \in Users \ {c} :
    \/ pc'[d] = pc[d]
    \/ pc[d] \notin Waits \cup {"dns6"} /\ pc'[d] \notin Waits \cup {"dns6"}

\* s is the socket, but for the timer of c.
SameBut(s, c) ==
  /\ s.events = sock.events /\ s.want = sock.want /\ s.enabled = sock.enabled
  /\ s.read_timer = sock.read_timer \/ pc[c] = "read"
  /\ s.write_timer = sock.write_timer \/ pc[c] # "read"

\* r is the socket without the operation of c.
Ended(r, c) ==
  /\ r.want = "NULL" /\ r.enabled = sock.enabled \ {c}
  /\ r.events = sock.events \ {EventOf(pc[c])}
  /\ r.read_timer = IF pc[c] = "read" THEN NoTimer ELSE sock.read_timer
  /\ r.write_timer = IF pc[c] # "read" THEN NoTimer ELSE sock.write_timer

\* An operation that ends.
LEMMA EndsWaited ==
  ASSUME Types, sock \in Sock, Quiet, NEW s \in Sock, NEW c \in Users, pc[c] \in Waits,
         SameBut(s, c), NEW r, r = timer_ends(waited(s, c), c)
  PROVE  Ended(r, c)
<1>0. /\ s.events = sock.events /\ s.want = sock.want /\ s.enabled = sock.enabled
      /\ s.read_timer = sock.read_timer \/ pc[c] = "read"
      /\ s.write_timer = sock.write_timer \/ pc[c] # "read"
  BY Zenon DEF SameBut
<1>1. PICK w : w = waited(s, c)
  BY Zenon
<1>2. /\ w \in Sock /\ w.want = "NULL" /\ w.events = sock.events \ {added[c]}
      /\ w.enabled = sock.enabled /\ w.read_timer = s.read_timer
      /\ w.write_timer = s.write_timer
  <2>1. sock.want = "NULL"
    BY Zenon DEF Quiet
  <2> QED
    BY <1>0, <1>1, <2>1, WaitedShape
<1>3. c \in sock.enabled /\ added[c] = EventOf(pc[c]) /\ slot[c] = TimerOf(pc[c])
  BY Zenon DEF Quiet
<1>4. slot[c] \in {"read_timer", "write_timer"}
  BY Zenon DEF Types
<1>5. /\ r.events = w.events /\ r.want = w.want /\ r.enabled = w.enabled \ {c}
      /\ r.read_timer = IF c \in w.enabled /\ slot[c] = "read_timer" THEN NoTimer ELSE w.read_timer
      /\ r.write_timer = IF c \in w.enabled /\ slot[c] = "write_timer" THEN NoTimer ELSE w.write_timer
  BY <1>1, <1>2, <1>4, EndsShape
<1> QED
  BY <1>0, <1>2, <1>3, <1>5, Zenon DEF TimerOf, Ended

\* A coroutine that stops waiting takes its event and its timer with it.
LEMMA QuietOff ==
  ASSUME BoundIsWaiting, Quiet, NEW c \in Users, pc[c] \in Waits,
         sock'.want = "NULL", sock'.enabled = sock.enabled \ {c},
         sock'.events = sock.events \ {EventOf(pc[c])},
         sock'.read_timer = IF pc[c] = "read" THEN NoTimer ELSE sock.read_timer,
         sock'.write_timer = IF pc[c] # "read" THEN NoTimer ELSE sock.write_timer,
         pc'[c] \notin Waits \cup {"dns6"}, Others(c), LocalsKept(c)
  PROVE  Quiet' /\ (pc[c] = "read" => (Writes' <=> Writes))
<1> USE DEF Waits
<1>1. sock'.enabled = {d \in Users : pc'[d] \in Waits}
  BY Zenon DEF Quiet, Others
<1>2. CASE pc[c] = "read"
  <2>1. ~ Reads' /\ (Writes' <=> Writes)
    BY <1>2 DEF Reads, Writes, Others, BoundIsWaiting
  <2> QED
    BY <1>1, <1>2, <2>1 DEF Quiet, EventOf, Others, LocalsKept, TimerOf, Reads
<1>3. CASE pc[c] # "read"
  <2>1. ~ Writes' /\ (Reads' <=> Reads)
    BY <1>3, Zenon DEF Reads, Writes, Others, BoundIsWaiting
  <2> QED
    BY <1>1, <1>3, <2>1 DEF Quiet, EventOf, Others, LocalsKept, TimerOf, Writes
<1> QED
  BY <1>2, <1>3, Zenon

\* A step of a coroutine that does not wait leaves events and timers as they are.
LEMMA QuietSame ==
  ASSUME Quiet, NEW c \in Users, pc[c] \notin Waits,
         sock'.want = sock.want, sock'.enabled = sock.enabled, sock'.events = sock.events,
         sock'.read_timer = sock.read_timer, sock'.write_timer = sock.write_timer,
         pc'[c] \notin Waits \cup {"dns6"}, Others(c), LocalsKept(c)
  PROVE  Quiet' /\ (Writes' <=> Writes) /\ (Reads' <=> Reads)
<1> USE DEF Waits
<1>1. (Reads' <=> Reads) /\ (Writes' <=> Writes)
  BY Zenon DEF Reads, Writes, Others
<1>2. sock'.enabled = {d \in Users : pc'[d] \in Waits}
  BY Zenon DEF Quiet, Others
<1> QED
  BY <1>1, <1>2 DEF Quiet, Others, LocalsKept

\* The socket s with c parked in p, its timer armed unless there is one.
Parked(s, c, p, tm) ==
  /\ sock'.want = s.want /\ sock'.events = s.events \cup {EventOf(p)}
  /\ s[tm] = NoTimer => sock'.enabled = s.enabled \cup {c}
  /\ s[tm] # NoTimer => sock'.enabled = s.enabled
  /\ sock'.read_timer # s.read_timer => p = "read" /\ s.read_timer = NoTimer
  /\ sock'.write_timer # s.write_timer => p # "read" /\ s.write_timer = NoTimer
  /\ p = "read" /\ s.read_timer = NoTimer => sock'.read_timer # NoTimer /\ sock'.read_timer[1] = c
  /\ p # "read" /\ s.write_timer = NoTimer => sock'.write_timer # NoTimer /\ sock'.write_timer[1] = c
  /\ added' = [added EXCEPT ![c] = EventOf(p)] /\ slot' = [slot EXCEPT ![c] = tm]

\* wait_event() without TLS parks the coroutine with its own event and timer.
LEMMA QuietBlocks ==
  ASSUME Plain, NEW s \in Sock, NEW c \in Users, NEW p \in Waits,
         NEW tm \in {"read_timer", "write_timer"}, tm = TimerOf(p), NEW base,
         Blocks(s, c, p, tm, base)
  PROVE  Parked(s, c, p, tm)
<1>1. ~ Ssl
  BY Zenon DEF Plain, Ssl
<1>2. PICK t \in BOOLEAN :
        /\ sock' = wait_event(start(s, c, tm, t), c, EventOf(p), FALSE)
        /\ added' = [added EXCEPT ![c] = EventOf(p)] /\ slot' = [slot EXCEPT ![c] = tm]
  <2>1. PICK t \in BOOLEAN, o \in {FALSE, Ssl} :
          /\ sock' = wait_event(start(s, c, tm, t), c, EventOf(p), o)
          /\ added' = [added EXCEPT ![c] = IF o THEN Opposite(EventOf(p)) ELSE EventOf(p)]
          /\ slot' = [slot EXCEPT ![c] = tm]
    BY Zenon DEF Blocks
  <2>2. Ssl = FALSE
    BY <1>1 DEF Ssl
  <2>3. o = FALSE
    BY <2>1, <2>2, Zenon
  <2> QED
    BY <2>1, <2>3, Zenon
<1>3. PICK r : r = start(s, c, tm, t) /\ t \in BOOLEAN
  BY <1>2, Zenon
<1>4. /\ r \in Sock /\ r.events = s.events /\ r.want = s.want
      /\ s[tm] = NoTimer => r.enabled = s.enabled \cup {c}
      /\ s[tm] # NoTimer => r.enabled = s.enabled
      /\ tm = "read_timer" /\ s.read_timer = NoTimer => r.read_timer = <<c, t>>
      /\ tm # "read_timer" \/ s.read_timer # NoTimer => r.read_timer = s.read_timer
      /\ tm = "write_timer" /\ s.write_timer = NoTimer => r.write_timer = <<c, t>>
      /\ tm # "write_timer" \/ s.write_timer # NoTimer => r.write_timer = s.write_timer
  BY <1>3, StartShape
<1>5. EventOf(p) \in {"READ", "WRITE"}
  BY Zenon DEF EventOf
<1>6. /\ sock'.events = r.events \cup {EventOf(p)} /\ sock'.want = r.want
      /\ sock'.enabled = r.enabled
      /\ sock'.read_timer = r.read_timer /\ sock'.write_timer = r.write_timer
  <2>1. PICK o \in BOOLEAN : ~ o /\ o = FALSE
    BY Zenon
  <2>2. PICK e \in {"READ", "WRITE"} : e = EventOf(p)
    BY <1>5, Zenon
  <2>3. sock' = wait_event(r, c, e, o)
    BY <1>2, <1>3, <2>1, <2>2, Zenon
  <2> QED
    BY <1>4, <2>1, <2>2, <2>3, WaitShape
<1>7. <<c, t>> # NoTimer /\ <<c, t>>[1] = c
  BY Zenon DEF NoTimer
<1> QED
  BY <1>2, <1>4, <1>6, <1>7, Zenon DEF TimerOf, Parked

\* An operation that begins to wait.
LEMMA QuietOn ==
  ASSUME Types, Plain, Quiet, NEW s \in Sock, s.events = sock.events, s.want = sock.want,
         s.enabled = sock.enabled, s.read_timer = sock.read_timer, s.write_timer = sock.write_timer,
         NEW c \in Users, pc[c] \notin Waits, NEW p \in Waits, p = "read" => ~ Reads,
         p # "read" => ~ Writes,
         NEW tm \in {"read_timer", "write_timer"}, tm = TimerOf(p), NEW base,
         Blocks(s, c, p, tm, base)
  PROVE  Quiet' /\ (p = "read" => (Writes' <=> Writes))
<1> USE DEF Waits
<1>1. /\ sock'.want = s.want /\ sock'.events = s.events \cup {EventOf(p)}
      /\ s[tm] = NoTimer => sock'.enabled = s.enabled \cup {c}
      /\ sock'.read_timer # s.read_timer => p = "read" /\ s.read_timer = NoTimer
      /\ sock'.write_timer # s.write_timer => p # "read" /\ s.write_timer = NoTimer
      /\ p = "read" /\ s.read_timer = NoTimer => sock'.read_timer # NoTimer /\ sock'.read_timer[1] = c
      /\ p # "read" /\ s.write_timer = NoTimer => sock'.write_timer # NoTimer /\ sock'.write_timer[1] = c
      /\ added' = [added EXCEPT ![c] = EventOf(p)] /\ slot' = [slot EXCEPT ![c] = tm]
  <2>1. Parked(s, c, p, tm)
    BY QuietBlocks, Zenon
  <2> QED
    BY <2>1, Zenon DEF Parked
<1>2. pc' = [pc EXCEPT ![c] = p]
  BY Zenon DEF Blocks
<1>3. /\ pc'[c] = p /\ added'[c] = EventOf(p) /\ slot'[c] = tm
      /\ \A d \in Users \ {c} : pc'[d] = pc[d] /\ added'[d] = added[d] /\ slot'[d] = slot[d]
  BY <1>1, <1>2, Zenon DEF Types
<1>4. s[tm] = NoTimer
  BY Zenon DEF Quiet, TimerOf
<1>5. sock'.enabled = {d \in Users : pc'[d] \in Waits}
  <2>1. sock'.enabled = sock.enabled \cup {c}
    BY <1>1, <1>4, Zenon
  <2>2. sock.enabled = {d \in Users : pc[d] \in Waits}
    BY Zenon DEF Quiet
  <2> QED
    BY <1>3, <2>1, <2>2, Zenon
<1>6. CASE p = "read"
  <2>1. Reads' /\ (Writes' <=> Writes)
    BY <1>3, <1>6, Zenon DEF Reads, Writes
  <2>2. s.read_timer = NoTimer /\ \A d \in Users : pc[d] # "read"
    BY <1>6, Zenon DEF Quiet, Reads
  <2> QED
    <3>1. sock'.want = "NULL" /\ sock'.events = sock.events \cup {"READ"}
      BY <1>1, <1>6, Zenon DEF Quiet, EventOf
    <3>2. ("READ" \in sock'.events <=> Reads') /\ ("WRITE" \in sock'.events <=> Writes')
      BY <2>1, <3>1, Zenon DEF Quiet
    <3>3. /\ sock'.read_timer # NoTimer /\ sock'.read_timer[1] = c
          /\ sock'.write_timer = sock.write_timer
      BY <1>1, <1>6, <2>2, Zenon
    <3>4. pc'[c] = "read" /\ added'[c] = EventOf("read") /\ slot'[c] = TimerOf("read")
      BY <1>3, <1>6, Zenon
    <3>5. \A d \in Users \ {c} :
            /\ pc'[d] # "dns6" /\ pc'[d] # "read"
            /\ pc'[d] \in Waits => added'[d] = EventOf(pc'[d]) /\ slot'[d] = TimerOf(pc'[d])
            /\ pc'[d] \in {"write", "once"} =>
                 sock.write_timer # NoTimer /\ sock.write_timer[1] = d
      BY <1>3, <2>2 DEF Quiet
    <3>6. sock'.write_timer # NoTimer => Writes'
      BY <2>1, <3>3, Zenon DEF Quiet
    <3>7. \A d \in Users :
            /\ pc'[d] # "dns6"
            /\ pc'[d] \in Waits => added'[d] = EventOf(pc'[d]) /\ slot'[d] = TimerOf(pc'[d])
            /\ pc'[d] = "read" => sock'.read_timer # NoTimer /\ sock'.read_timer[1] = d
            /\ pc'[d] \in {"write", "once"} =>
                 sock'.write_timer # NoTimer /\ sock'.write_timer[1] = d
      BY <3>3, <3>4, <3>5
    <3> QED
      BY <1>5, <2>1, <3>1, <3>2, <3>3, <3>6, <3>7, Zenon DEF Quiet
<1>7. CASE p # "read"
  <2>1. Writes' /\ (Reads' <=> Reads)
    BY <1>3, <1>7, Zenon DEF Reads, Writes
  <2>2. s.write_timer = NoTimer /\ \A d \in Users : pc[d] \notin {"write", "once"}
    BY <1>7, Zenon DEF Quiet, Writes
  <2> QED
    <3>1. sock'.want = "NULL" /\ sock'.events = sock.events \cup {"WRITE"}
      BY <1>1, <1>7, Zenon DEF Quiet, EventOf
    <3>2. ("READ" \in sock'.events <=> Reads') /\ ("WRITE" \in sock'.events <=> Writes')
      BY <2>1, <3>1, Zenon DEF Quiet
    <3>3. /\ sock'.write_timer # NoTimer /\ sock'.write_timer[1] = c
          /\ sock'.read_timer = sock.read_timer
      BY <1>1, <1>7, <2>2, Zenon
    <3>4. /\ pc'[c] # "read" /\ pc'[c] # "dns6"
          /\ added'[c] = EventOf(pc'[c]) /\ slot'[c] = TimerOf(pc'[c])
      BY <1>3, <1>7, Zenon
    <3>5. \A d \in Users \ {c} :
            /\ pc'[d] # "dns6" /\ pc'[d] \notin {"write", "once"}
            /\ pc'[d] \in Waits => added'[d] = EventOf(pc'[d]) /\ slot'[d] = TimerOf(pc'[d])
            /\ pc'[d] = "read" => sock.read_timer # NoTimer /\ sock.read_timer[1] = d
      BY <1>3, <2>2 DEF Quiet
    <3>6. sock'.read_timer # NoTimer => Reads'
      BY <2>1, <3>3, Zenon DEF Quiet
    <3>7. \A d \in Users :
            /\ pc'[d] # "dns6"
            /\ pc'[d] \in Waits => added'[d] = EventOf(pc'[d]) /\ slot'[d] = TimerOf(pc'[d])
            /\ pc'[d] = "read" => sock'.read_timer # NoTimer /\ sock'.read_timer[1] = d
            /\ pc'[d] \in {"write", "once"} =>
                 sock'.write_timer # NoTimer /\ sock'.write_timer[1] = d
      BY <3>3, <3>4, <3>5
    <3> QED
      BY <1>5, <1>7, <2>1, <3>1, <3>2, <3>3, <3>6, <3>7, Zenon DEF Quiet
<1> QED
  BY <1>6, <1>7, Zenon

\* An operation that waits again.
LEMMA QuietAgain ==
  ASSUME Types, Plain, Quiet, NEW s \in Sock, s.events = sock.events, s.want = sock.want,
         s.enabled = sock.enabled, s.read_timer = sock.read_timer, s.write_timer = sock.write_timer,
         NEW c \in Users, pc[c] \in Waits, NEW base,
         Blocks(waited(s, c), c, pc[c], slot[c], base)
  PROVE  Quiet' /\ (Writes' <=> Writes)
<1> USE DEF Waits
<1>0. PICK p \in Waits, tm \in {"read_timer", "write_timer"} :
        p = pc[c] /\ tm = slot[c] /\ tm = TimerOf(p) /\ added[c] = EventOf(p)
  BY Zenon DEF Quiet, TimerOf
<1>1. PICK w : w = waited(s, c)
  BY Zenon
<1>2. /\ w \in Sock /\ w.want = "NULL" /\ w.events = sock.events \ {added[c]}
      /\ w.enabled = sock.enabled /\ w.read_timer = sock.read_timer
      /\ w.write_timer = sock.write_timer
  <2>1. sock.want = "NULL"
    BY Zenon DEF Quiet
  <2> QED
    BY <1>1, <2>1, WaitedShape
<1>3. Blocks(w, c, p, tm, base)
  BY <1>0, <1>1, Zenon
<1>4. /\ sock'.want = w.want /\ sock'.events = w.events \cup {EventOf(p)}
      /\ w[tm] # NoTimer => sock'.enabled = w.enabled
      /\ sock'.read_timer # w.read_timer => p = "read" /\ w.read_timer = NoTimer
      /\ sock'.write_timer # w.write_timer => p # "read" /\ w.write_timer = NoTimer
      /\ added' = [added EXCEPT ![c] = EventOf(p)] /\ slot' = [slot EXCEPT ![c] = tm]
  <2>1. w \in Sock /\ p \in Waits /\ tm \in {"read_timer", "write_timer"} /\ tm = TimerOf(p)
    BY <1>0, <1>2, Zenon
  <2>2. Parked(w, c, p, tm)
    BY <1>3, <2>1, QuietBlocks, Zenon
  <2> QED
    BY <2>2, Zenon DEF Parked
<1>5. pc' = [pc EXCEPT ![c] = p]
  BY <1>3, Zenon DEF Blocks
<1>6. \A d \in Users : pc'[d] = pc[d] /\ added'[d] = added[d] /\ slot'[d] = slot[d]
  BY <1>0, <1>4, <1>5, Zenon DEF Types
<1>7. w[tm] # NoTimer
  <2>1. (p = "read" => sock.read_timer # NoTimer) /\ (p # "read" => sock.write_timer # NoTimer)
    BY <1>0, Zenon DEF Quiet
  <2> QED
    BY <1>0, <1>2, <2>1, Zenon DEF TimerOf
<1>8. /\ sock'.want = "NULL" /\ sock'.enabled = sock.enabled
      /\ sock'.read_timer = sock.read_timer /\ sock'.write_timer = sock.write_timer
  BY <1>0, <1>2, <1>4, <1>7, Zenon DEF TimerOf
<1>9. sock'.events = sock.events
  <2>1. EventOf(p) \in sock.events
    BY <1>0, Zenon DEF Quiet, EventOf, Reads, Writes
  <2> QED
    BY <1>0, <1>2, <1>4, <2>1, Zenon
<1>10. (Reads' <=> Reads) /\ (Writes' <=> Writes)
  BY <1>6, Zenon DEF Reads, Writes
<1>11. sock'.enabled = {d \in Users : pc'[d] \in Waits}
  BY <1>6, <1>8, Zenon DEF Quiet
<1>12. \A d \in Users :
         /\ pc'[d] # "dns6"
         /\ pc'[d] \in Waits => added'[d] = EventOf(pc'[d]) /\ slot'[d] = TimerOf(pc'[d])
         /\ pc'[d] = "read" => sock'.read_timer # NoTimer /\ sock'.read_timer[1] = d
         /\ pc'[d] \in {"write", "once"} =>
              sock'.write_timer # NoTimer /\ sock'.write_timer[1] = d
  BY <1>6, <1>8 DEF Quiet
<1>13. /\ "READ" \in sock'.events <=> Reads'
       /\ "WRITE" \in sock'.events <=> Writes'
       /\ sock'.read_timer # NoTimer => Reads'
       /\ sock'.write_timer # NoTimer => Writes'
  BY <1>8, <1>9, <1>10, Zenon DEF Quiet
<1> QED
  BY <1>8, <1>10, <1>11, <1>12, <1>13, Zenon DEF Quiet

\* A coroutine that waits in the socket is resumed.
LEMMA QuietResume ==
  ASSUME Types, BoundIsWaiting, sock \in Sock, Plain, Quiet,
         NEW s \in Sock, s.events = sock.events, s.want = sock.want, s.enabled = sock.enabled,
         NEW c \in Users, pc[c] \in Waits \cup Looking, NEW ok \in BOOLEAN, NEW base,
         socket_resume(s, c, ok, base),
         ok => s.read_timer = sock.read_timer /\ s.write_timer = sock.write_timer,
         s.read_timer = sock.read_timer \/ pc[c] = "read",
         s.write_timer = sock.write_timer \/ pc[c] \in {"write", "once"}
  PROVE  Quiet' /\ (pc[c] \in {"read", "dns4"} => (Writes => Writes'))
<1>1. CASE pc[c] \in Waits
  <2>0. pc[c] # "dns4" /\ (pc[c] \in {"write", "once"} <=> pc[c] # "read")
    BY <1>1, Zenon DEF Waits
  <2>1. CASE Returns(waited(s, c), c, base)
    <3>1. PICK r : r = timer_ends(waited(s, c), c)
      BY Zenon
    <3>2. /\ r.want = "NULL" /\ r.enabled = sock.enabled \ {c}
          /\ r.events = sock.events \ {EventOf(pc[c])}
          /\ r.read_timer = IF pc[c] = "read" THEN NoTimer ELSE sock.read_timer
          /\ r.write_timer = IF pc[c] # "read" THEN NoTimer ELSE sock.write_timer
      <4>1. SameBut(s, c)
        BY <2>0, Zenon DEF SameBut
      <4>2. Ended(r, c)
        BY <1>1, <3>1, <4>1, EndsWaited, Zenon
      <4> QED
        BY <4>2, Zenon DEF Ended
    <3>3. /\ sock' = r /\ pc'[c] = "on" /\ (\A d \in Users \ {c} : pc'[d] = pc[d])
          /\ LocalsKept(c)
      BY <2>1, <3>1, ForgetsLocals, Zenon DEF Returns, Types
    <3>4. Others(c) /\ pc'[c] \notin Waits \cup {"dns6"}
      BY <3>3, Zenon DEF Others, Waits
    <3> QED
      BY <1>1, <2>0, <3>2, <3>3, <3>4, QuietOff, Zenon
  <2>2. CASE ok /\ Blocks(waited(s, c), c, pc[c], slot[c], base)
    BY <1>1, <2>2, QuietAgain, Zenon
  <2> QED
    BY <1>1, <2>1, <2>2, Zenon DEF socket_resume
<1>2. CASE pc[c] \in Looking
  <2>0. pc[c] = "dns4" /\ pc[c] \notin Waits
    BY <1>2, Zenon DEF Looking, Quiet, Waits
  <2>1. PICK r : r = [s EXCEPT !.read_co = NoUser, !.write_co = NoUser]
    BY Zenon
  <2>2. /\ r \in Sock /\ r.events = sock.events /\ r.want = sock.want
        /\ r.enabled = sock.enabled
        /\ r.read_timer = sock.read_timer /\ r.write_timer = sock.write_timer
    BY <2>0, <2>1, CoSocketAssumption, Zenon DEF Sock, Members
  <2>3. ~ Reads /\ ~ Writes
    BY <2>0, Zenon DEF Reads, Writes, BoundIsWaiting
  <2>4. c \notin r.enabled
    BY <2>0, <2>2, Zenon DEF Quiet
  <2>5. CASE Returns(r, c, base)
    <3>1. /\ sock' = r /\ pc'[c] = "on" /\ (\A d \in Users \ {c} : pc'[d] = pc[d])
          /\ LocalsKept(c)
      BY <2>4, <2>5, ForgetsLocals, Zenon DEF Returns, Types, timer_ends
    <3>2. Others(c) /\ pc'[c] \notin Waits \cup {"dns6"}
      BY <3>1, Zenon DEF Others, Waits
    <3> QED
      BY <2>0, <2>2, <2>3, <3>1, <3>2, QuietSame, Zenon
  <2>6. CASE Blocks(r, c, "once", "write_timer", base)
    <3>1. "once" \in Waits /\ "once" # "read" /\ "write_timer" = TimerOf("once")
      BY Zenon DEF Waits, TimerOf
    <3>2. PICK p \in Waits : p = "once"
      BY <3>1, Zenon
    <3> QED
      BY <2>0, <2>2, <2>3, <2>6, <3>1, <3>2, QuietOn, Zenon
  <2> QED
    BY <2>0, <2>1, <2>5, <2>6, Zenon DEF socket_resume
<1> QED
  BY <1>1, <1>2, Zenon

\* A new socket has no event and no timer.
LEMMA InitPlain == SocketInit => PlainInv
<1> SUFFICES ASSUME SocketInit PROVE ~ crashed /\ Quiet /\ Awaited
  BY Zenon DEF PlainInv, PlainKept
<1>1. ~ Reads /\ ~ Writes /\ \A c \in Users : pc[c] \notin Waits \cup {"dns6"}
  BY Zenon DEF SocketInit, Reads, Writes, Waits
<1> QED
  BY <1>1, Zenon DEF SocketInit, Quiet, Awaited, Waits

\* A plain program's callbacks find the coroutines that they resume.
LEMMA LoopPlain ==
  ASSUME BoundInv, CaptureOK, Plain, Quiet, Awaited, program' = program,
         on_events \/ on_pending \/ \E tm \in {"read_timer", "write_timer"} : timer_callback(tm)
  PROVE  PlainKept'
<1> USE CoSocketAssumption
<1>0. /\ sock \in Sock /\ Types /\ stack \in Seq(Users) /\ NoRepeat(stack)
      /\ program \in Programs
      /\ socket_freed \in BOOLEAN /\ crashed \in BOOLEAN
      /\ pending \in {"none", "write", "error"}
      /\ BoundIsWaiting /\ FreedIsIdle /\ Running /\ Closed
  BY BoundFacts, Zenon
<1>1. stack = <<>> /\ ~ crashed
  BY Zenon DEF on_events, on_pending, timer_callback, InLoop
<1>2. ASSUME Nothing PROVE ~ crashed' /\ Quiet' /\ (Writes => Writes')
  BY <1>1, <1>2, Zenon DEF Nothing, Quiet, Reads, Writes
<1>3. ASSUME NEW h \in Users, h = sock.read_co \/ h = sock.write_co,
             socket_resume(sock, h, TRUE, <<>>),
             UNCHANGED crashed
      PROVE  ~ crashed' /\ Quiet' /\ (pc[h] \in {"read", "dns4"} => (Writes => Writes'))
  <2>1. pc[h] \in Waits \cup Looking
    BY <1>0, <1>3, HolderWaits, Zenon
  <2>2. PICK s \in Sock, ok \in BOOLEAN : s = sock /\ ok = TRUE
    <3>1. TRUE \in BOOLEAN
      BY Zenon
    <3> QED
      BY <1>0, <3>1, Zenon
  <2>3. ~ crashed'
    BY <1>1, <1>3, Zenon
  <2> QED
    BY <1>0, <1>3, <2>1, <2>2, <2>3, QuietResume, Zenon
<1>4. Reads => sock.read_co \in Users /\ pc[sock.read_co] = "read"
  BY <1>0, Zenon DEF Reads, BoundIsWaiting
<1>5. Writes => sock.write_co \in Users /\ pc[sock.write_co] \in {"write", "once"}
  BY <1>0, Zenon DEF Writes, BoundIsWaiting
<1>6. ASSUME event_callback("READ"), Calm => Reads
      PROVE  (Calm => ~ crashed') /\ Quiet' /\ (Writes => Writes')
  <2>1. Callback(sock, sock.read_co, TRUE)
    BY <1>6, Zenon DEF event_callback, Quiet, Holder
  <2>2. CASE sock.read_co = NoUser
    <3>1. ~ Calm /\ UNCHANGED <<sock, pc, added, slot>>
      BY <1>4, <1>6, <2>1, <2>2, Zenon DEF Callback
    <3> QED
      BY <3>1, Zenon DEF Quiet, Reads, Writes
  <2>3. CASE sock.read_co # NoUser
    <3>1. sock.read_co \in Users /\ pc[sock.read_co] \in {"read", "dns4"}
      BY <1>0, <2>3, SockShape, Zenon DEF Free, BoundIsWaiting
    <3>2. socket_resume(sock, sock.read_co, TRUE, <<>>) /\ UNCHANGED crashed
      BY <2>1, <2>3, Zenon DEF Callback
    <3> QED
      BY <1>3, <3>1, <3>2, Zenon
  <2> QED
    BY <2>2, <2>3, Zenon
<1>7. ASSUME event_callback("WRITE"), Writes PROVE ~ crashed' /\ Quiet'
  <2>1. Callback(sock, sock.write_co, TRUE)
    BY <1>7, Zenon DEF event_callback, Quiet, Holder
  <2>2. socket_resume(sock, sock.write_co, TRUE, <<>>) /\ UNCHANGED crashed
    BY <1>5, <1>7, <2>1, Zenon DEF Callback
  <2> QED
    BY <1>3, <1>5, <1>7, <2>2, Zenon
<1>c. (Calm' <=> Calm) /\ (sock.closed => ~ Reads /\ ~ Writes /\ sock.events = {})
  <2>1. ASSUME sock.closed PROVE ~ Reads /\ ~ Writes
    <3>1. ~ has_bound(sock)
      BY <1>1, <2>1, BoundClosed, Zenon DEF ClosedIsIdle
    <3> QED
      BY <1>4, <1>5, <3>1, Zenon DEF has_bound
  <2>2. ~ Reads /\ ~ Writes => sock.events = {}
    BY <1>0, SockShape DEF Quiet
  <2> QED
    BY <2>1, <2>2, Zenon DEF Calm
<1>8. CASE on_events
  <2>1. captured' = {} /\ pending = "none" /\ captured # {}
    BY <1>8, Zenon DEF on_events
  <2>a. ASSUME (Calm => ~ crashed') /\ Quiet', pending' = "write" => Writes' PROVE PlainKept'
    BY <1>c, <2>1, <2>a, Zenon DEF PlainKept, Awaited
  <2>2. CASE sock.events = {}
    BY <1>2, <1>8, <2>1, <2>2, <2>a, Zenon DEF on_events
  <2>3. CASE sock.events # {} /\ "READ" \in captured
    <3>1. event_callback("READ") /\ (pending' = "write" => "WRITE" \in captured)
      BY <1>8, <2>3, Zenon DEF on_events
    <3>2. (Calm => Reads) /\ ("WRITE" \in captured => Writes)
      BY <1>c, <2>3, Zenon DEF Awaited
    <3> QED
      BY <1>6, <2>a, <3>1, <3>2, Zenon
  <2>4. CASE sock.events # {} /\ "READ" \notin captured /\ "WRITE" \in captured
    <3>1. event_callback("WRITE") /\ pending' = pending
      BY <1>8, <2>4, Zenon DEF on_events
    <3>2. Writes
      BY <1>c, <2>4, Zenon DEF Awaited
    <3> QED
      BY <1>7, <2>1, <2>a, <3>1, <3>2, Zenon
  <2>5. CASE sock.events # {} /\ "READ" \notin captured /\ "WRITE" \notin captured
    <3>1. error_event_callback /\ pending' # "write"
      BY <1>8, <2>5, Zenon DEF on_events, error_event_callback
    <3>2. sock.read_co \in Users \cup {NoUser} /\ sock.write_co \in Users \cup {NoUser}
      BY <1>0, SockShape, Zenon DEF Free
    <3> QED
      BY <1>2, <1>3, <2>a, <3>1, <3>2, Zenon DEF error_event_callback
  <2> QED
    BY <2>2, <2>3, <2>4, <2>5, Zenon
<1>9. CASE on_pending
  <2>1. pending' = "none" /\ captured' = {}
    BY <1>9, Zenon DEF on_pending, Awaited
  <2>a. ASSUME ~ crashed' /\ Quiet' PROVE PlainKept'
    BY <2>1, <2>a, Zenon DEF PlainKept, Awaited
  <2>2. CASE sock.events = {}
    BY <1>2, <1>9, <2>2, <2>a, Zenon DEF on_pending
  <2>3. CASE sock.events # {} /\ pending = "write"
    <3>1. Writes
      BY <1>c, <2>3, Zenon DEF Awaited
    <3> QED
      BY <1>7, <1>9, <2>3, <2>a, <3>1, Zenon DEF on_pending
  <2>4. CASE sock.events # {} /\ pending # "write"
    <3>1. sock.read_co \in Users \cup {NoUser}
      BY <1>0, SockShape, Zenon DEF Free
    <3>2. \/ sock.read_co # NoUser /\ socket_resume(sock, sock.read_co, TRUE, <<>>) /\ UNCHANGED crashed
          \/ Nothing
      BY <1>9, <2>4, Zenon DEF on_pending
    <3> QED
      BY <1>2, <1>3, <2>a, <3>1, <3>2, Zenon
  <2> QED
    BY <2>2, <2>3, <2>4, Zenon
<1>10. ASSUME NEW tm \in {"read_timer", "write_timer"}, timer_callback(tm)
       PROVE  PlainKept'
  <2>1. PICK s : s = [sock EXCEPT ![tm] = NoTimer]
    BY Zenon
  <2>2. /\ s \in Sock /\ s.events = sock.events /\ s.want = sock.want
        /\ s.enabled = sock.enabled
        /\ tm = "read_timer" => s.write_timer = sock.write_timer
        /\ tm = "write_timer" => s.read_timer = sock.read_timer
    <3>1. CASE tm = "read_timer"
      BY <1>0, <2>1, <3>1, Zenon DEF Sock, Members
    <3>2. CASE tm = "write_timer"
      BY <1>0, <2>1, <3>2, Zenon DEF Sock, Members
    <3> QED
      BY <3>1, <3>2, Zenon
  <2>3. PICK h : h = IF tm = "read_timer" THEN sock.read_co ELSE sock.write_co
    BY Zenon
  <2>4. /\ Callback(s, h, FALSE) /\ pending' = "none" /\ captured' = {}
        /\ sock[tm] # NoTimer
    BY <1>10, <2>1, <2>3, Zenon DEF timer_callback
  <2>5. /\ h \in Users
        /\ tm = "read_timer" => pc[h] = "read"
        /\ tm = "write_timer" => pc[h] \in {"write", "once"}
    BY <1>4, <1>5, <2>3, <2>4, Zenon DEF Quiet
  <2>6. socket_resume(s, h, FALSE, <<>>) /\ UNCHANGED crashed
    BY <2>4, <2>5, Zenon DEF Callback
  <2>7. pc[h] \in Waits \cup Looking
    BY <2>5, Zenon DEF Waits
  <2>8. PICK ok \in BOOLEAN : ok = FALSE
    BY Zenon
  <2>9. Quiet'
    BY <1>0, <2>2, <2>5, <2>6, <2>7, <2>8, QuietResume, Zenon
  <2> QED
    BY <1>1, <2>4, <2>6, <2>9, Zenon DEF Awaited, PlainKept
<1> QED
  BY <1>8, <1>9, <1>10, Zenon

\* What is captured is what coroutines wait for.
LEMMA CapturePlain ==
  ASSUME BoundInv, Quiet, Awaited, epoll_wait PROVE PlainKept'
<1>1. /\ ~ crashed' /\ pending = "none" /\ pending' = "none"
      /\ UNCHANGED <<program, sock, pc, added, slot>>
      /\ \A e \in {"READ", "WRITE"} : e \in captured' => e \in sock.events
  BY Zenon DEF epoll_wait, InLoop
<1>2. Quiet' /\ (Reads' <=> Reads) /\ (Writes' <=> Writes)
  BY <1>1, Zenon DEF Quiet, Reads, Writes
<1>3. ("READ" \in captured' => Reads) /\ ("WRITE" \in captured' => Writes)
  BY <1>1, Zenon DEF Quiet
<1> QED
  BY <1>1, <1>2, <1>3, Zenon DEF PlainKept, Awaited

\* Running and leaving a coroutine, and the answer of a look-up, keep PlainInv;
LEMMA OthersPlain ==
  ASSUME BoundInv, Plain, Quiet, Awaited, program' = program, NEW c \in Users,
         run(c) \/ leave(c) \/ \E ok \in BOOLEAN : on_dns(c, ok)
  PROVE  PlainKept'
<1>0. /\ sock \in Sock /\ Types /\ stack \in Seq(Users) /\ NoRepeat(stack)
      /\ program \in Programs
      /\ socket_freed \in BOOLEAN /\ crashed \in BOOLEAN
      /\ pending \in {"none", "write", "error"}
      /\ BoundIsWaiting /\ FreedIsIdle /\ Running /\ Closed
  BY BoundFacts, Zenon
<1>1. CASE run(c) \/ leave(c)
  <2>1. /\ pc[c] \in {"on", "off"} /\ pc'[c] \in {"on", "off"}
        /\ (\A d \in Users \ {c} : pc'[d] = pc[d])
        /\ UNCHANGED <<sock, added, slot, captured, pending>>
    BY <1>0, <1>1, Zenon DEF run, leave, Other, Types
  <2>a. ~ crashed /\ crashed' = crashed
    BY <1>1, Zenon DEF run, leave, Other, InLoop, Current
  <2>b. ~ crashed'
    BY <2>a, Zenon
  <2>2. Others(c) /\ pc[c] \notin Waits /\ pc'[c] \notin Waits \cup {"dns6"}
    BY <2>1, Zenon DEF Others, Waits
  <2>3. Quiet' /\ (Writes' <=> Writes) /\ (Reads' <=> Reads)
    BY <2>1, <2>2, QuietSame, Zenon DEF LocalsKept
  <2> QED
    BY <2>1, <2>3, <2>b, Zenon DEF Awaited, Calm, PlainKept
<1>2. ASSUME NEW ok \in BOOLEAN, on_dns(c, ok) PROVE PlainKept'
  <2>1. /\ pc[c] \in Looking /\ socket_resume(sock, c, ok, <<>>)
        /\ UNCHANGED <<socket_freed, captured, pending>> /\ ~ crashed' /\ pending = "none"
    BY <1>2, Zenon DEF on_dns, InLoop
  <2>2. PICK s \in Sock : s = sock
    BY <1>0, Zenon
  <2>3. Quiet'
    BY <1>0, <2>1, <2>2, QuietResume, Zenon
  <2>4. ~ Reads /\ ~ Writes
    BY <1>0, <2>1, Zenon DEF Looking, Quiet, Reads, Writes, BoundIsWaiting
  <2>5. sock'.closed = sock.closed
    BY <1>0, <2>1, <2>2, ResumeBound, Zenon
  <2> QED
    BY <2>1, <2>3, <2>4, <2>5, Zenon DEF Awaited, Calm, PlainKept
<1> QED
  BY <1>1, <1>2, Zenon

\* so do the calls of recv(), send(), poll(), connect() and cancel(),
LEMMA CallsPlain ==
  ASSUME BoundInv, Plain, Quiet, Awaited, program' = program, NEW c \in Users,
         \/ recv(c) \/ send(c) \/ poll(c)
         \/ \E dns \in Looking : connect(c, dns)
         \/ \E e \in {"READ", "WRITE"} : cancel(c, e)
  PROVE  PlainKept'
<1> USE CoSocketAssumption
<1>0. /\ sock \in Sock /\ Types /\ stack \in Seq(Users) /\ NoRepeat(stack)
      /\ program \in Programs
      /\ socket_freed \in BOOLEAN /\ crashed \in BOOLEAN
      /\ pending \in {"none", "write", "error"}
      /\ BoundIsWaiting /\ FreedIsIdle /\ Running /\ Closed
  BY BoundFacts, Zenon
<1>a. /\ pc[c] = "on" /\ UNCHANGED <<captured, pending, crashed>> /\ ~ crashed
  BY Zenon DEF recv, send, poll, connect, cancel, Calls, Current, Other
<1>1. /\ pc[c] = "on" /\ pc[c] \notin Waits /\ UNCHANGED <<captured, pending>> /\ ~ crashed'
      /\ (Calm' <=> Calm)
  BY <1>a, Zenon DEF Waits, Calm
<1>2. ~ poll(c) /\ ~ cancel(c, "WRITE") /\ ~ connect(c, "dns6")
  BY Zenon DEF poll, cancel, connect, Calls, Plain
<1>b. PICK base : base = Below(stack)
  BY Zenon
<1>3. PICK s \in Sock : s = sock /\ base = Below(stack)
  BY <1>0, <1>b, Zenon
<1>4. CASE recv(c) \/ send(c)
  <2>1. PICK p \in Waits, tm \in {"read_timer", "write_timer"} :
          /\ tm = TimerOf(p) /\ ~ sock.closed
          /\ p = "read" => sock.read_co = NoUser
          /\ p # "read" => sock.write_co = NoUser
          /\ Blocks(s, c, p, tm, base)
    BY <1>3, <1>4, Zenon DEF recv, send, Waits, TimerOf
  <2>2. (p = "read" => ~ Reads) /\ (p # "read" => ~ Writes)
    BY <1>0, <2>1 DEF Reads, Writes, BoundIsWaiting
  <2>3. Quiet' /\ (p = "read" => (Writes' <=> Writes))
    BY <1>0, <1>1, <1>3, <2>1, <2>2, QuietOn, Zenon
  <2>4. (p # "read" => Writes') /\ (Reads => Reads')
    <3>1. pc' = [pc EXCEPT ![c] = p]
      BY <2>1, Zenon DEF Blocks
    <3> QED
      BY <1>0, <1>1, <3>1, Zenon DEF Writes, Reads, Waits, Types
  <2>5. sock'.closed = sock.closed
    <3>1. /\ Types /\ p \in Waits /\ tm \in {"read_timer", "write_timer"} /\ s = sock
          /\ Blocks(s, c, p, tm, base)
      BY <1>0, <1>3, <2>1, Zenon
    <3> QED
      BY <3>1, BlocksBound
  <2> QED
    BY <1>1, <2>3, <2>4, <2>5, Zenon DEF Awaited, PlainKept
<1>5. CASE connect(c, "dns4")
  <2>1. /\ sock' = [sock EXCEPT !.read_co = c, !.write_co = c]
        /\ pc' = [pc EXCEPT ![c] = "dns4"] /\ UNCHANGED <<added, slot>>
    BY <1>5, Zenon DEF connect
  <2>2. /\ sock'.want = sock.want /\ sock'.enabled = sock.enabled /\ sock'.events = sock.events
        /\ sock'.read_timer = sock.read_timer /\ sock'.write_timer = sock.write_timer
        /\ sock'.closed = sock.closed
    BY <1>0, <2>1, Zenon DEF Sock, Members
  <2>3. Others(c) /\ pc'[c] \notin Waits \cup {"dns6"}
    BY <1>0, <2>1, Zenon DEF Others, Waits, Types
  <2>4. Quiet' /\ (Writes' <=> Writes) /\ (Reads' <=> Reads)
    BY <1>1, <2>1, <2>2, <2>3, QuietSame, Zenon DEF LocalsKept
  <2> QED
    BY <1>1, <2>2, <2>4, Zenon DEF Awaited, PlainKept
<1>6. CASE cancel(c, "READ")
  <2>1. PICK h : h # NoUser /\ h = sock.read_co /\ socket_resume(sock, h, FALSE, stack)
    BY <1>6, Zenon DEF cancel, Holder
  <2>2. h \in Users /\ pc[h] \in {"read", "dns4"}
    BY <1>0, <2>1, SockShape, Zenon DEF Free, BoundIsWaiting
  <2>3. pc[h] \in Waits \cup Looking
    BY <2>2, Zenon DEF Waits, Looking
  <2>q. PICK q : q = stack
    BY Zenon
  <2>4. PICK ok \in BOOLEAN : ok = FALSE /\ q = stack
    BY <2>q, Zenon
  <2>5. socket_resume(s, h, ok, q)
    BY <1>3, <2>1, <2>4, Zenon
  <2>6. Quiet' /\ (Writes => Writes')
    BY <1>0, <1>3, <2>2, <2>3, <2>5, QuietResume, Zenon
  <2>7. sock'.closed = sock.closed
    BY <1>0, <1>3, <2>2, <2>3, <2>5, ResumeBound, Zenon
  <2>8. ~ Calm
    BY <1>6, Zenon DEF cancel, Calls, Calm
  <2> QED
    BY <1>1, <2>6, <2>7, <2>8, Zenon DEF Awaited, PlainKept
<1> QED
  BY <1>2, <1>4, <1>5, <1>6, Zenon DEF Looking

\* close() ends the operation of b.
LEMMA QuietFails ==
  ASSUME Types, BoundIsWaiting, sock \in Sock, Quiet,
         NEW s \in Sock, s.events = sock.events, s.want = sock.want, s.enabled = sock.enabled,
         s.read_timer = sock.read_timer, s.write_timer = sock.write_timer,
         NEW b \in Users, b = sock.read_co \/ b = sock.write_co, sock' = Fails(s, b),
         pc'[b] = "on", Others(b), LocalsKept(b)
  PROVE  Quiet' /\ (pc[b] \in {"read", "dns4"} => (Writes => Writes'))
<1> USE CoSocketAssumption
<1>0. pc'[b] \notin Waits \cup {"dns6"}
  BY Zenon DEF Waits
<1>1. CASE pc[b] \in Waits
  <2>1. PICK r : r = timer_ends(waited(s, b), b)
    BY Zenon
  <2>2. /\ r.want = "NULL" /\ r.enabled = sock.enabled \ {b}
        /\ r.events = sock.events \ {EventOf(pc[b])}
        /\ r.read_timer = IF pc[b] = "read" THEN NoTimer ELSE sock.read_timer
        /\ r.write_timer = IF pc[b] # "read" THEN NoTimer ELSE sock.write_timer
    <3>1. SameBut(s, b)
      BY Zenon DEF SameBut
    <3>2. Ended(r, b)
      BY <1>1, <2>1, <3>1, EndsWaited, Zenon
    <3> QED
      BY <3>2, Zenon DEF Ended
  <2>3. sock' = r
    BY <1>1, <2>1, Zenon DEF Fails
  <2>4. pc[b] # "dns4"
    BY <1>1, Zenon DEF Waits
  <2> QED
    BY <1>0, <1>1, <2>2, <2>3, <2>4, QuietOff, Zenon
<1>2. CASE pc[b] \notin Waits
  <2>1. sock' = [s EXCEPT !.read_co = NoUser, !.write_co = NoUser]
    BY <1>2, Zenon DEF Fails
  <2>2. /\ sock'.want = sock.want /\ sock'.enabled = sock.enabled /\ sock'.events = sock.events
        /\ sock'.read_timer = sock.read_timer /\ sock'.write_timer = sock.write_timer
    BY <2>1, Zenon DEF Sock, Members
  <2> QED
    BY <1>0, <1>2, <2>2, QuietSame, Zenon
<1> QED
  BY <1>1, <1>2, Zenon

\* and both halves of close().
LEMMA ClosePlain ==
  ASSUME BoundInv, Plain, Quiet, Awaited, program' = program, NEW c \in Users,
         socket_close(c) \/ closes(c)
  PROVE  PlainKept'
<1> USE CoSocketAssumption
<1>0. /\ sock \in Sock /\ Types /\ stack \in Seq(Users) /\ NoRepeat(stack)
      /\ program \in Programs
      /\ socket_freed \in BOOLEAN /\ crashed \in BOOLEAN
      /\ pending \in {"none", "write", "error"}
      /\ BoundIsWaiting /\ FreedIsIdle /\ Running /\ Closed
  BY BoundFacts, Zenon
<1>b. /\ pc[c] \in {"on", "closing"} /\ UNCHANGED <<captured, pending, crashed>>
      /\ ~ crashed
  BY Zenon DEF socket_close, closes, Calls, Current, Other
<1>1. /\ pc[c] \in {"on", "closing"} /\ UNCHANGED <<captured, pending>>
      /\ ~ crashed'
  BY <1>b, Zenon
<1>a. ASSUME Quiet', sock'.closed PROVE PlainKept'
  BY <1>1, <1>a, Zenon DEF PlainKept, Awaited
<1>2. pc[c] \notin Waits \cup {"dns6"}
  BY <1>1, Zenon DEF Waits
<1>3. ASSUME NEW b \in Users, b # c, pc'[b] = "on", pc'[c] \in {"on", "closing"},
             \A d \in Users \ {b, c} : pc'[d] = pc[d]
      PROVE  Others(b)
  BY <1>2, <1>3, Zenon DEF Others, Waits
<1>4. CASE socket_close(c)
  <2>1. PICK s : s = [sock EXCEPT !.closed = TRUE]
    BY Zenon
  <2>2. /\ s \in Sock /\ s.read_co = sock.read_co /\ s.write_co = sock.write_co
        /\ s.closed = TRUE
        /\ s.events = sock.events /\ s.want = sock.want /\ s.enabled = sock.enabled
        /\ s.read_timer = sock.read_timer /\ s.write_timer = sock.write_timer
    BY <1>0, <2>1, Zenon DEF Sock, Members
  <2>3. CASE has_bound(s)
    <3>1. PICK b : b = IF s.write_co # NoUser THEN s.write_co ELSE s.read_co
      BY Zenon
    <3>2. b \in Users /\ (b = sock.read_co \/ b = sock.write_co)
      BY <1>0, <2>2, <2>3, <3>1, SockShape, Zenon DEF has_bound, Free
    <3>3. /\ sock' = Fails(s, b)
          /\ pc' = [pc EXCEPT ![b] = "on", ![c] = IF b = s.write_co THEN "closing" ELSE @]
          /\ LocalsKept(b)
      BY <1>0, <1>4, <2>1, <2>3, <3>1, <3>2, ForgetsLocals, Zenon DEF socket_close
    <3>4. pc[b] \in Waits \cup Looking
      BY <1>0, <3>2, HolderWaits, Zenon
    <3>5. b # c
      BY <1>1, <3>4, Zenon DEF Waits, Looking
    <3>6. pc'[b] = "on" /\ Others(b)
      <4>1. /\ pc'[b] = "on" /\ pc'[c] \in {"on", "closing"}
            /\ \A d \in Users \ {b, c} : pc'[d] = pc[d]
        BY <1>0, <1>1, <3>2, <3>3, <3>5, Zenon DEF Types
      <4> QED
        BY <1>3, <3>2, <3>5, <4>1, Zenon
    <3>7. Quiet'
      BY <1>0, <1>1, <2>2, <3>2, <3>3, <3>6, QuietFails, Zenon
    <3>8. sock'.closed
      BY <1>0, <2>2, <3>2, <3>3, FailsBound, Zenon
    <3> QED
      BY <1>a, <3>7, <3>8, Zenon
  <2>4. CASE ~ has_bound(s)
    <3>1. sock' = s /\ UNCHANGED pc /\ LocalsKept(c)
      BY <1>4, <2>1, <2>4, Zenon DEF socket_close, LocalsKept
    <3>2. Others(c) /\ pc'[c] \notin Waits \cup {"dns6"}
      BY <1>2, <3>1, Zenon DEF Others
    <3>3. Quiet'
      BY <1>1, <1>2, <2>2, <3>1, <3>2, QuietSame, Zenon
    <3> QED
      BY <1>a, <2>2, <3>1, <3>3, Zenon
  <2> QED
    BY <2>3, <2>4, Zenon
<1>5. CASE closes(c)
  <2>0. sock.closed
    BY <1>0, <1>5, Zenon DEF closes, Closed
  <2>1. CASE ~ socket_freed /\ sock.read_co # NoUser
    <3>0. PICK b : b = sock.read_co
      BY Zenon
    <3>1. PICK s \in Sock : b = sock.read_co /\ s = sock
      BY <1>0, <3>0, Zenon
    <3>2. b \in Users /\ pc[b] \in {"read", "dns4"} /\ b # c
      BY <1>0, <1>1, <2>1, <3>1, SockShape, Zenon DEF Free, BoundIsWaiting
    <3>3. /\ sock' = Fails(s, b) /\ pc' = [pc EXCEPT ![b] = "on", ![c] = "on"]
          /\ LocalsKept(b)
      BY <1>0, <1>5, <2>1, <3>1, <3>2, ForgetsLocals, Zenon DEF closes
    <3>4. pc'[b] = "on" /\ Others(b)
      <4>1. /\ pc'[b] = "on" /\ pc'[c] \in {"on", "closing"}
            /\ \A d \in Users \ {b, c} : pc'[d] = pc[d]
        BY <1>0, <3>2, <3>3, Zenon DEF Types
      <4> QED
        BY <1>3, <3>2, <4>1, Zenon
    <3>5. Quiet'
      BY <1>0, <1>1, <3>1, <3>2, <3>3, <3>4, QuietFails, Zenon
    <3>6. sock'.closed = sock.closed
      BY <1>0, <3>1, <3>2, <3>3, FailsBound, Zenon
    <3> QED
      BY <1>a, <2>0, <3>5, <3>6, Zenon
  <2>2. CASE socket_freed \/ sock.read_co = NoUser
    <3>1. pc' = [pc EXCEPT ![c] = "on"] /\ sock' = sock /\ LocalsKept(c)
      BY <1>5, <2>2, Zenon DEF closes, LocalsKept
    <3>2. Others(c) /\ pc'[c] \notin Waits \cup {"dns6"}
      BY <1>0, <3>1, Zenon DEF Others, Types, Waits
    <3>3. Quiet'
      BY <1>1, <1>2, <3>1, <3>2, QuietSame, Zenon
    <3> QED
      BY <1>a, <2>0, <3>1, <3>3, Zenon
  <2> QED
    BY <2>1, <2>2, Zenon
<1> QED
  BY <1>4, <1>5, Zenon

\* Every step keeps PlainInv.
LEMMA NextPlain ==
  BoundInv /\ CaptureOK /\ PlainInv /\ [SocketNext]_socketVars => PlainInv'
<1> SUFFICES ASSUME BoundInv, CaptureOK, PlainInv, [SocketNext]_socketVars, Plain'
             PROVE  PlainKept'
  BY Zenon DEF PlainInv
<1>0. program' = program
  BY SameProgram, Zenon DEF socketVars
<1>1. Plain /\ Quiet /\ Awaited /\ (Calm => ~ crashed)
  BY <1>0, Zenon DEF Plain, PlainInv, PlainKept
<1>2. CASE on_events \/ on_pending \/ \E tm \in {"read_timer", "write_timer"} : timer_callback(tm)
  BY <1>0, <1>1, <1>2, LoopPlain, Zenon
<1>3. ASSUME NEW c \in Users, run(c) \/ \E ok \in BOOLEAN : on_dns(c, ok)
      PROVE  PlainKept'
  BY <1>0, <1>1, <1>3, OthersPlain, Zenon
<1>4. ASSUME NEW c \in Users, Uses(c) PROVE PlainKept'
  <2>1. CASE leave(c)
    BY <1>0, <1>1, <2>1, OthersPlain, Zenon
  <2>2. CASE socket_close(c) \/ closes(c)
    BY <1>0, <1>1, <2>2, ClosePlain, Zenon
  <2>3. CASE \/ recv(c) \/ send(c) \/ poll(c)
             \/ \E dns \in Looking : connect(c, dns)
             \/ \E e \in {"READ", "WRITE"} : cancel(c, e)
    BY <1>0, <1>1, <2>3, CallsPlain, Zenon
  <2> QED
    BY <1>4, <2>1, <2>2, <2>3, Zenon DEF Uses
<1>5. CASE epoll_wait
  BY <1>1, <1>5, CapturePlain, Zenon
<1>6. CASE UNCHANGED socketVars
  <2>1. UNCHANGED <<program, sock, pc, added, slot, captured, pending, crashed>>
    BY <1>6, Zenon DEF socketVars
  <2> QED
    BY <1>1, <2>1, Zenon DEF PlainKept, Calm, Quiet, Awaited, Reads, Writes
<1> QED
  BY <1>2, <1>3, <1>4, <1>5, <1>6, Zenon DEF SocketNext

\* The events registered and the timers set are those of the coroutines that wait.
LEMMA PlainOwn ==
  ASSUME BoundInv, Quiet PROVE EventsAreWaitedFor /\ TimerIsOwn
<1>0. sock \in Sock /\ BoundIsWaiting
  BY BoundFacts, Zenon
<1>1. EventsAreWaitedFor
  <2>1. sock.events \subseteq {"READ", "WRITE"}
    BY <1>0, SockShape, Zenon
  <2>2. "READ" \in {added[c] : c \in {d \in Users : pc[d] \in Waits}} <=> Reads
    <3>1. \A c \in Users : pc[c] \in Waits => added[c] = EventOf(pc[c])
      BY Zenon DEF Quiet
    <3>2. \A c \in Users : pc[c] \in Waits => (added[c] = "READ" <=> pc[c] = "read")
      BY <3>1, Zenon DEF EventOf
    <3>3. "read" \in Waits
      BY Zenon DEF Waits
    <3> QED
      BY <3>2, <3>3, Zenon DEF Reads
  <2>3. "WRITE" \in {added[c] : c \in {d \in Users : pc[d] \in Waits}} <=> Writes
    <3>1. \A c \in Users : pc[c] \in Waits => added[c] = EventOf(pc[c])
      BY Zenon DEF Quiet
    <3>2. \A c \in Users : pc[c] \in Waits => (added[c] = "WRITE" <=> pc[c] \in {"write", "once"})
      BY <3>1, Zenon DEF EventOf, Waits
    <3>3. {"write", "once"} \subseteq Waits
      BY Zenon DEF Waits
    <3> QED
      BY <3>2, <3>3, Zenon DEF Writes
  <2>4. {added[c] : c \in {d \in Users : pc[d] \in Waits}} \subseteq {"READ", "WRITE"}
    BY Zenon DEF Quiet, EventOf
  <2> QED
    BY <2>1, <2>2, <2>3, <2>4 DEF EventsAreWaitedFor, Quiet
<1>2. TimerIsOwn
  BY <1>0 DEF Quiet, TimerIsOwn, TimerOf, BoundIsWaiting, Waits, Reads, Writes
<1> QED
  BY <1>1, <1>2, Zenon

\* Whatever a program does with a socket, the coroutines bound to it are the ones that wait
\* in it, and none waits in one that was freed.  If the program is plain, every event and
\* timer is that of the coroutine that waits; and if it cancels no read either, no callback
\* finds its coroutine gone, whatever ran since epoll_wait() returned the event
\* (coroutine/socket.cc, reactor/epoll.cc).
THEOREM SocketStaysBound == SocketSpec => []SocketBound
<1>1. BoundInv /\ CaptureOK /\ PlainInv => SocketBound
  <2> SUFFICES ASSUME BoundInv, CaptureOK, PlainInv PROVE SocketBound
    BY Zenon
  <2>1. SocketTypeOK
    BY Zenon DEF BoundInv, SockTypes, CaptureOK, SocketTypeOK, Types, Sock, NoRepeat
  <2>2. Plain => EventsAreWaitedFor /\ TimerIsOwn /\ NoNullResume
    BY PlainOwn, Zenon DEF PlainInv, PlainKept, Calm, NoNullResume
  <2> QED
    BY <2>1, <2>2, BoundClosed, Zenon DEF BoundInv, SocketBound
<1>2. SocketInit => BoundInv /\ CaptureOK /\ PlainInv
  BY InitBound, InitPlain, Zenon DEF SocketInit, CaptureOK
<1>3. BoundInv /\ CaptureOK /\ PlainInv /\ [SocketNext]_socketVars
        => (BoundInv /\ CaptureOK /\ PlainInv)'
  BY NextBound, NextCapture, NextPlain, Zenon
<1> QED
  BY <1>1, <1>2, <1>3, PTL DEF SocketSpec
=============================================================================
