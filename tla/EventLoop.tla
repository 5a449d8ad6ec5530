----------------------------- MODULE EventLoop ------------------------------
(***************************************************************************)
(* Swoole\Event (swoole_event.cc) over the event loop of epoll             *)
(* (src/reactor/epoll.cc, src/reactor/base.cc): descriptors of the user    *)
(* are added, changed and deleted while the loop hands out a batch of      *)
(* events.  A swSocket object is named by the pointer that the kernel      *)
(* keeps for its descriptor; it is freed by a task that the loop runs      *)
(* after the batch.  A descriptor's number is used again after close().    *)
(***************************************************************************)
EXTENDS Integers, Sequences, FiniteSets, SequencesExt

CONSTANTS
    Fd,          \* descriptors of the user
    Sock,        \* addresses of swSocket objects
    None,
    MaxOp,       \* calls of the user, at most
    Flags,       \* SW_EVENT_ERROR and SW_EVENT_ONCE, if the user passes their numbers: PHP
                 \* has constants for SW_EVENT_READ and SW_EVENT_WRITE only
    Complete,    \* the user gives a callback for every event that is listened for
    DelFirst     \* the user deletes a descriptor from the loop before closing it

EventLoopAssumption ==
    /\ None \notin Fd \union Sock /\ Sock \subseteq Int
    /\ Flags \subseteq {"error", "once"}
    /\ MaxOp \in Nat /\ {Complete, DelFirst} \subseteq BOOLEAN

Event == {"read", "write"}

VARIABLES
    open,       \* descriptors that are open
    epoll,      \* epoll[fd]: the object and the events the kernel has for fd
    socket,     \* the swSocket objects
    event_socket_map,
    event_num,
    batch,      \* what epoll_wait() has returned and is still to be handled
    defer_tasks, doing,  \* tasks for after the batch, and those being run
    pc,         \* where the loop is
    exited,     \* Event::exit() has set running to 0
    ops,        \* calls of the user
    fault       \* ghost: what went wrong, as the steps below say

vars == <<open, epoll, socket, event_socket_map, event_num, batch, defer_tasks, doing, pc,
          exited, ops, fault>>
kernel == <<open, epoll>>
loop == <<batch, doing, pc, exited>>

NoInterest == [s |-> None, events |-> {}, armed |-> FALSE]
Fresh == [fd |-> None, events |-> {}, removed |-> TRUE, callbacks |-> {}, object |-> "freed",
          state |-> "freed"]

Init ==
    /\ open = Fd /\ epoll = [fd \in Fd |-> NoInterest]
    /\ socket = [s \in Sock |-> Fresh]
    /\ event_socket_map = [fd \in Fd |-> None]
    /\ event_num = 0
    /\ batch = <<>> /\ defer_tasks = <<>> /\ doing = <<>>
    /\ pc = "main" /\ exited = FALSE /\ ops = 0 /\ fault = {}

-----------------------------------------------------------------------------
(* Calls of the user, from the script, a callback or a deferred function *)
UserCode == pc \in {"main", "handler", "callback"} /\ ops < MaxOp
Op == UserCode /\ ops' = ops + 1

(* The allocator hands out a freed address, and soon the one freed before. *)
Lowest(s) == socket[s].state = "freed" /\ \A r \in Sock : socket[r].state = "freed" => s <= r

(* Event::add(): refused if the descriptor is in the map.  epoll may not   *)
(* take it (a closed descriptor, a regular file): what was made for it is  *)
(* freed again.                                                            *)
swoole_event_add(fd, s, events, callbacks) ==
    /\ Op /\ event_socket_map[fd] = None /\ Lowest(s)
    /\ Complete => events \intersect Event \subseteq callbacks
    /\ \/ /\ fd \in open
          /\ epoll' = [epoll EXCEPT ![fd] = [s |-> s, events |-> events, armed |-> TRUE]]
          /\ socket' = [socket EXCEPT ![s] = [fd |-> fd, events |-> events, removed |-> FALSE,
                           callbacks |-> callbacks, object |-> "set", state |-> "live"]]
          /\ event_num' = event_num + 1
          /\ event_socket_map' = [event_socket_map EXCEPT ![fd] = s]
       \/ UNCHANGED <<epoll, socket, event_num, event_socket_map>>
    /\ UNCHANGED <<open, defer_tasks, loop, fault>>

Registered(fd) == fd \in open /\ epoll[fd].s # None

(* Event::set(): the callbacks given replace those of the object, or are   *)
(* added to them; then the call is refused if one is missing.  MOD fails   *)
(* on what is not registered.  An object that a missing callback has made  *)
(* NULL is used all the same.                                              *)
swoole_event_set(fd, events, callbacks) ==
    LET s == event_socket_map[fd]
        has == socket[s].callbacks \union callbacks
        missing == (events \intersect Event) \ has
        object == socket[s].object
    IN /\ Op /\ s # None
       /\ IF callbacks \union (events \intersect Event) # {} /\ object # "set"
            THEN fault' = fault \union {object} /\ UNCHANGED <<epoll, socket>>
            ELSE /\ IF missing = {} /\ Registered(fd)
                      THEN /\ epoll' = [epoll EXCEPT ![fd].events = events, ![fd].armed = TRUE]
                           /\ socket' = [socket EXCEPT ![s].callbacks = has, ![s].events = events]
                      ELSE /\ socket' = [socket EXCEPT ![s].callbacks = has]
                           /\ UNCHANGED epoll
                 /\ UNCHANGED fault
       /\ UNCHANGED <<open, event_socket_map, event_num, defer_tasks, loop>>

(* epoll_ctl(DEL), which fails on what is closed or not registered.  Freed *)
(* or not, the object is taken from the loop only if it succeeds.          *)
swReactorEpoll_del(fd) ==
    IF Registered(fd)
      THEN /\ epoll' = [epoll EXCEPT ![fd] = NoInterest]
           /\ event_num' = event_num - 1
      ELSE UNCHANGED <<epoll, event_num>>

(* Faulty variant: the object is freed at once, though the batch may hold it. *)
swoole_event_del_AtOnce(fd) ==
    LET s == event_socket_map[fd]
    IN /\ Op /\ s # None
       /\ defer_tasks' = Append(defer_tasks, [task |-> "object", s |-> s])
       /\ swReactorEpoll_del(fd)
       /\ event_socket_map' = [event_socket_map EXCEPT ![fd] = None]
       /\ socket' = [socket EXCEPT ![s].fd = None, ![s].events = {}, ![s].removed = TRUE,
                                   ![s].state = "freed"]
       /\ UNCHANGED <<open, loop, fault>>

(* Event::del(), with swSocket_free(): the callbacks and the object are    *)
(* freed after the batch.                                                  *)
swoole_event_del(fd) ==
    LET s == event_socket_map[fd]
    IN /\ Op /\ s # None
       /\ defer_tasks' = defer_tasks \o
            <<[task |-> "object", s |-> s], [task |-> "socket", s |-> s]>>
       /\ swReactorEpoll_del(fd)
       /\ event_socket_map' = [event_socket_map EXCEPT ![fd] = None]
       /\ socket' = [socket EXCEPT ![s].fd = None, ![s].events = {}, ![s].removed = TRUE,
                                   ![s].state = "deferred"]
       /\ UNCHANGED <<open, loop, fault>>

(* fclose(): the kernel forgets the descriptor. *)
close(fd) ==
    /\ Op /\ fd \in open
    /\ DelFirst => event_socket_map[fd] = None
    /\ open' = open \ {fd}
    /\ epoll' = [epoll EXCEPT ![fd] = NoInterest]
    /\ UNCHANGED <<socket, event_socket_map, event_num, defer_tasks, loop, fault>>

(* Another stream gets the number of one that was closed. *)
reopen(fd) ==
    /\ Op /\ fd \notin open
    /\ open' = open \union {fd}
    /\ UNCHANGED <<epoll, socket, event_socket_map, event_num, defer_tasks, loop, fault>>

(* Event::defer() of a function of the user. *)
swoole_event_defer ==
    /\ Op
    /\ defer_tasks' = Append(defer_tasks, [task |-> "call", s |-> None])
    /\ UNCHANGED <<kernel, socket, event_socket_map, event_num, loop, fault>>

(* Event::exit(): the loop ends with this turn, whatever is registered. *)
swoole_event_exit ==
    /\ Op
    /\ exited' = TRUE
    /\ UNCHANGED <<kernel, socket, event_socket_map, event_num, defer_tasks, batch, doing, pc,
                   fault>>

(* User code returns to the loop, or the script to Event::wait(). *)
return ==
    /\ pc \in {"main", "handler", "callback"}
    /\ pc' = [main |-> "exit", handler |-> "batch", callback |-> "deferred"][pc]
    /\ UNCHANGED <<kernel, socket, event_socket_map, event_num, batch, defer_tasks, doing, ops,
                   exited, fault>>

-----------------------------------------------------------------------------
(* One turn of the loop *)

(* epoll_wait() returns events of some descriptors, or none: a signal, a   *)
(* timeout, a deferred task.  An error or a hang-up is reported whatever   *)
(* the descriptor listens for; SW_EVENT_ONCE disarms what is reported.     *)
Ready == {fd \in open : epoll[fd].s # None /\ epoll[fd].armed}
Reported(fd) == SUBSET ((epoll[fd].events \intersect Event) \union {"hup"}) \ {{}}
epoll_wait ==
    /\ pc = "wait"
    /\ \E fds \in SUBSET Ready : \E order \in SetToSeqs(fds) :
         \E evs \in [fds -> UNION {Reported(fd) : fd \in fds}] :
           /\ \A fd \in fds : evs[fd] \in Reported(fd)
           /\ batch' = [i \in 1 .. Len(order) |-> [s |-> epoll[order[i]].s,
                            events |-> evs[order[i]], hup |-> evs[order[i]] = {"hup"}]]
           /\ epoll' = [fd \in Fd |-> IF fd \in fds /\ "once" \in epoll[fd].events
                                       THEN [epoll[fd] EXCEPT !.armed = FALSE] ELSE epoll[fd]]
    /\ pc' = "batch"
    /\ UNCHANGED <<open, socket, event_socket_map, event_num, defer_tasks, doing, ops, exited,
                   fault>>

(* The next event of the batch: reading, then writing, then the error. *)
NextOf(evs) == CASE "read" \in evs -> "read" [] "write" \in evs -> "write" [] OTHER -> "hup"

(* The callback of the event is called; if there is none the descriptor    *)
(* leaves the loop but not the map, and the object is NULL.                *)
php_swoole_event_onEvent(s, ev) ==
    LET fd == socket[s].fd
        gone == Registered(fd)
    IN IF socket[s].object # "set" \/ socket[s].state # "live"
         THEN /\ fault' = fault \union {IF socket[s].object = "null" THEN "null" ELSE "freed"}
              /\ UNCHANGED <<epoll, event_num, socket, defer_tasks, pc>>
         ELSE IF ev \in socket[s].callbacks
                THEN /\ pc' = "handler"
                     /\ UNCHANGED <<epoll, event_num, socket, defer_tasks, fault>>
                ELSE /\ socket' = [socket EXCEPT ![s].object = "null",
                                      ![s].removed = @ \/ gone,
                                      ![s].events = IF gone THEN {} ELSE @]
                     /\ defer_tasks' = Append(defer_tasks, [task |-> "lost_object", s |-> s])
                     /\ swReactorEpoll_del(fd)
                     /\ fault' = fault \union {IF socket[s].events \intersect Event = {}
                                               THEN "paused" ELSE "missing"}
                     /\ UNCHANGED pc

(* An error or a hang-up without an event: the callback for reading if     *)
(* that is listened for, else the one for writing.  With SW_EVENT_ERROR    *)
(* the callbacks are freed and the descriptor leaves the loop, but not the *)
(* map.                                                                    *)
php_swoole_event_onError(s) ==
    IF "error" \notin socket[s].events
      THEN php_swoole_event_onEvent(s, IF "read" \in socket[s].events THEN "read" ELSE "write")
      ELSE LET gone == Registered(socket[s].fd)
           IN /\ socket' = [socket EXCEPT ![s].object = "freed", ![s].removed = @ \/ gone,
                                          ![s].events = IF gone THEN {} ELSE @]
              /\ swReactorEpoll_del(socket[s].fd)
              /\ fault' = IF socket[s].object = "set" THEN fault
                          ELSE fault \union {socket[s].object}
              /\ UNCHANGED <<defer_tasks, pc>>

(* SW_EVENT_ONCE: the object is counted out, and the kernel keeps it. *)
swReactor_del(s) ==
    /\ socket' = [socket EXCEPT ![s].events = {}, ![s].removed = TRUE]
    /\ event_num' = event_num - 1
    /\ fault' = fault \union {"once"}
    /\ UNCHANGED <<epoll, defer_tasks, pc>>

(* An event is handled unless its object was removed since epoll_wait();   *)
(* a hang-up that came with an event is not handled once more, and then    *)
(* SW_EVENT_ONCE is not looked at either.                                  *)
handle ==
    /\ pc = "batch" /\ batch # <<>>
    /\ LET e == Head(batch)
           ev == NextOf(e.events)
           sock == socket[e.s]
           over == e.events = {} \/ sock.removed \/ (ev = "hup" /\ ~e.hup)
       IN /\ batch' = IF over THEN Tail(batch) ELSE [batch EXCEPT ![1].events = @ \ {ev}]
          /\ CASE over /\ e.events = {} /\ ~sock.removed /\ "once" \in sock.events ->
                    swReactor_del(e.s)
               [] ~over /\ ev = "hup" -> php_swoole_event_onError(e.s)
               [] ~over /\ ev # "hup" -> php_swoole_event_onEvent(e.s, ev)
               [] OTHER -> UNCHANGED <<epoll, event_num, socket, defer_tasks, pc, fault>>
    /\ UNCHANGED <<open, event_socket_map, doing, ops, exited>>

(* reactor_finish(): the deferred tasks are taken and run. *)
reactor_finish ==
    /\ pc = "batch" /\ batch = <<>>
    /\ doing' = defer_tasks /\ defer_tasks' = <<>>
    /\ pc' = "deferred"
    /\ UNCHANGED <<kernel, socket, event_socket_map, event_num, batch, ops, exited, fault>>

php_event_object_free(s) ==
    /\ fault' = IF socket[s].object = "set" THEN fault ELSE fault \union {socket[s].object}
    /\ socket' = [socket EXCEPT ![s].object = "freed"]

socket_free_defer(s) ==
    /\ socket' = [socket EXCEPT ![s] = Fresh]
    /\ UNCHANGED fault

defer_task ==
    /\ pc = "deferred" /\ doing # <<>>
    /\ doing' = Tail(doing)
    /\ LET t == Head(doing)
       IN \/ /\ t.task = "object" /\ php_event_object_free(t.s) /\ UNCHANGED pc
          \/ /\ t.task = "lost_object" /\ UNCHANGED <<socket, fault, pc>>
          \/ /\ t.task = "socket" /\ socket_free_defer(t.s) /\ UNCHANGED pc
          \/ /\ t.task = "call" /\ pc' = "callback" /\ UNCHANGED <<socket, fault>>
    /\ UNCHANGED <<kernel, event_socket_map, event_num, batch, defer_tasks, ops, exited>>

defer_task_done ==
    /\ pc = "deferred" /\ doing = <<>>
    /\ pc' = "exit"
    /\ UNCHANGED <<kernel, socket, event_socket_map, event_num, batch, defer_tasks, doing, ops,
                   exited, fault>>

swReactor_empty == defer_tasks = <<>> /\ event_num = 0

exit ==
    /\ pc = "exit"
    /\ pc' = IF exited \/ swReactor_empty THEN "ended" ELSE "wait"
    /\ UNCHANGED <<kernel, socket, event_socket_map, event_num, batch, defer_tasks, doing, ops,
                   exited, fault>>

Turn == epoll_wait \/ handle \/ reactor_finish \/ defer_task \/ defer_task_done \/ exit

Events == {e \union f : e \in SUBSET Event, f \in SUBSET Flags}

Next ==
    \/ \E fd \in Fd, s \in Sock, events \in Events, cbs \in SUBSET Event \ {{}} :
         events \intersect Event # {} /\ swoole_event_add(fd, s, events, cbs)
    \/ \E fd \in Fd, events \in Events, cbs \in SUBSET Event : swoole_event_set(fd, events, cbs)
    \/ \E fd \in Fd : swoole_event_del(fd)
    \/ \E fd \in Fd : close(fd)
    \/ \E fd \in Fd : reopen(fd)
    \/ swoole_event_defer
    \/ swoole_event_exit
    \/ return
    \/ Turn

Spec == Init /\ [][Next]_vars

(* User code returns, and the loop turns. *)
FairSpec == Spec /\ WF_vars(return) /\ WF_vars(Turn)

-----------------------------------------------------------------------------
(* The state stays in its types. *)
TypeOK ==
    /\ open \subseteq Fd
    /\ epoll \in [Fd -> [s : Sock \union {None}, events : Events, armed : BOOLEAN]]
    /\ socket \in [Sock -> [fd : Fd \union {None}, events : Events, removed : BOOLEAN,
                            callbacks : SUBSET Event, object : {"set", "null", "freed"},
                            state : {"live", "deferred", "freed"}]]
    /\ event_socket_map \in [Fd -> Sock \union {None}]
    /\ event_num \in Int
    /\ pc \in {"main", "wait", "batch", "handler", "deferred", "callback", "exit", "ended"}
    /\ exited \in BOOLEAN /\ ops \in 0 .. MaxOp
    /\ fault \subseteq {"freed", "null", "missing", "paused", "once"}

(* No event is handled through an object that was deleted or freed since   *)
(* epoll_wait() returned it, and no object is freed twice, whatever the    *)
(* callbacks of the batch delete, close, reopen, add and replace.  A NULL  *)
(* object is met only after a hang-up of a descriptor that was set to      *)
(* listen for nothing and has no callback for writing.                     *)
NoFault ==
    /\ "freed" \notin fault
    /\ "null" \in fault => "paused" \in fault

(* What a batch, and the kernel, still point to is not freed memory.       *)
PointersLive ==
    /\ \A i \in DOMAIN batch : socket[batch[i].s].state # "freed"
    /\ \A fd \in Fd : epoll[fd].s # None => /\ socket[epoll[fd].s].state = "live"
                                            /\ event_socket_map[fd] = epoll[fd].s

(* The kernel listens for what the object says, and event_num, which       *)
(* decides when the loop may end, counts what the kernel listens to.       *)
CountAgrees ==
    /\ event_num = Cardinality({fd \in Fd : epoll[fd].s # None})
    /\ \A fd \in Fd : epoll[fd].s # None => socket[epoll[fd].s].events = epoll[fd].events

(* The loop ends only when nothing is left to run or to listen to, unless  *)
(* Event::exit() ends it or SW_EVENT_ONCE has counted a descriptor twice.  *)
EndsEmpty ==
    pc = "ended" /\ ~exited /\ "once" \notin fault =>
        defer_tasks = <<>> /\ \A fd \in Fd : epoll[fd].s = None

Deserted == ops = MaxOp /\ \A fd \in Fd : event_socket_map[fd] = None

(* Once the user is done and has deleted everything, the loop ends.        *)
Ends == Deserted ~> pc = "ended"
=============================================================================
