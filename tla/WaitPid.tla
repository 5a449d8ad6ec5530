------------------------------ MODULE WaitPid -------------------------------
(***************************************************************************)
(* System::wait() and System::waitpid(): coroutines that wait for the end  *)
(* of child processes.  The kernel keeps the status of a child that has    *)
(* ended until somebody reaps it and raises SIGCHLD, which is lost while   *)
(* no handler is set.  The handler reaps every child that has ended, and   *)
(* resumes a coroutine for each, or keeps the status in child_processes.   *)
(*                                                                         *)
(* A child ends at any instant, in particular between the steps of the     *)
(* first call, which sets the handler after it has looked for the child.   *)
(***************************************************************************)
EXTENDS Naturals, Sequences

CONSTANTS
  Parents,
  Child,
  AnyPid,        \* the pid -1: any child
  NoParent,
  MaxChildWaits  \* bound of the calls of a coroutine

ASSUME WaitPidAssumption ==
  AnyPid \notin Child /\ NoParent \notin Parents /\ MaxChildWaits \in Nat

VARIABLES
  running,          \* the coroutine that runs, or NoParent: the event loop
  child_pc,         \* child_pc[c]: where in waitpid() c is
  pid,              \* pid[c]: the argument of its call
  child_timed,      \* child_timed[c]: the call has a timeout
  child_n,          \* child_n[c]: number of calls
  child,            \* child[p]: "alive", "zombie" or "reaped"
  signal_ready,     \* the handler of SIGCHLD is set
  child_pending,    \* SIGCHLD is pending
  handling,         \* signal_handler() is in its loop
  wait_list,        \* coroutines in wait(), in order
  waitpid_map,      \* waitpid_map[p]: the coroutine in waitpid(p), or NoParent
  child_processes,  \* reaped children whose status nobody has asked for
  returned,         \* returned[p]: how often the status of p was returned
  doubled,          \* pids that two coroutines have waited for at a time
  stolen,           \* pids that a call reaped while another one waited for them
  missed            \* children that ended between the look and the handler

child_tasks == <<running, child_pc, pid, child_timed, child_n>>
kernel == <<child, signal_ready, child_pending>>
books == <<wait_list, waitpid_map, child_processes>>
childGhosts == <<returned, doubled, stolen, missed>>
childVars == <<child_tasks, kernel, handling, books, childGhosts>>

ChildInit ==
  /\ running = NoParent
  /\ child_pc = [c \in Parents |-> "idle"] /\ pid = [c \in Parents |-> AnyPid]
  /\ child_timed = [c \in Parents |-> FALSE] /\ child_n = [c \in Parents |-> 0]
  /\ child = [p \in Child |-> "alive"]
  /\ signal_ready = FALSE /\ child_pending = FALSE /\ handling = FALSE
  /\ wait_list = <<>> /\ waitpid_map = [p \in Child |-> NoParent] /\ child_processes = {}
  /\ returned = [p \in Child |-> 0]
  /\ doubled = {} /\ stolen = {} /\ missed = {}

Zombies == {p \in Child : child[p] = "zombie"}
Matches(p, q) == p = AnyPid \/ p = q
WaitsFor(c, p) == child_pc[c] = "waiting" /\ pid[c] = p

-----------------------------------------------------------------------------
\* A child ends.
exit(p) ==
  /\ child[p] = "alive"
  /\ child' = [child EXCEPT ![p] = "zombie"]
  /\ child_pending' = (child_pending \/ signal_ready)
  /\ missed' = IF ~signal_ready /\ \E c \in Parents : child_pc[c] = "tried"
               THEN missed \cup {p} ELSE missed
  /\ UNCHANGED <<child_tasks, signal_ready, handling, books, returned, doubled, stolen>>

\* The event loop runs a coroutine that does not wait.
child_start(c) ==
  /\ running = NoParent /\ ~handling /\ child_pc[c] = "idle" /\ child_n[c] < MaxChildWaits
  /\ running' = c
  /\ UNCHANGED <<child_pc, pid, child_timed, child_n, kernel, handling, books, childGhosts>>

\* A coroutine does something else than wait.
child_leave(c) ==
  /\ running = c /\ child_pc[c] = "idle"
  /\ running' = NoParent
  /\ UNCHANGED <<child_pc, pid, child_timed, child_n, kernel, handling, books, childGhosts>>

\* waitpid(p): a status that was kept is returned; otherwise the call looks once, and goes
\* on to wait when no such child has ended.  A status is asked for until it is returned.
Kept(p) ==
  \E q \in child_processes :
    /\ Matches(p, q)
    /\ child_processes' = child_processes \ {q}
    /\ returned' = [returned EXCEPT ![q] = @ + 1]
    /\ UNCHANGED child_pc

Looks(c, p) ==
  /\ \A q \in child_processes : ~Matches(p, q)
  /\ IF \E q \in Zombies : Matches(p, q)
       THEN \E q \in Zombies :
              /\ Matches(p, q)
              /\ child' = [child EXCEPT ![q] = "reaped"]
              /\ returned' = [returned EXCEPT ![q] = @ + 1]
              /\ stolen' = IF \E d \in Parents : WaitsFor(d, q) THEN stolen \cup {q} ELSE stolen
              /\ UNCHANGED child_pc
       ELSE /\ child_pc' = [child_pc EXCEPT ![c] = "tried"]
            /\ UNCHANGED <<child, returned, stolen>>
  /\ UNCHANGED child_processes

waitpid(c, p, t) ==
  /\ running = c /\ child_pc[c] = "idle" /\ child_n[c] < MaxChildWaits
  /\ p \in Child => returned[p] = 0
  /\ child_n' = [child_n EXCEPT ![c] = @ + 1]
  /\ pid' = [pid EXCEPT ![c] = p] /\ child_timed' = [child_timed EXCEPT ![c] = t]
  /\ \/ Kept(p) /\ UNCHANGED <<child, stolen>>
     \/ Looks(c, p)
  /\ UNCHANGED <<running, signal_ready, child_pending, handling, wait_list, waitpid_map,
                 doubled, missed>>

\* signal_init(), the task is enqueued, and the coroutine yields.
enqueue(c) ==
  /\ running = c /\ child_pc[c] = "tried"
  /\ child_pc' = [child_pc EXCEPT ![c] = "waiting"] /\ running' = NoParent
  /\ signal_ready' = TRUE
  /\ IF pid[c] = AnyPid
       THEN wait_list' = Append(wait_list, c) /\ UNCHANGED <<waitpid_map, doubled>>
       ELSE /\ waitpid_map' = [waitpid_map EXCEPT ![pid[c]] = c]
            /\ doubled' = IF \E d \in Parents : WaitsFor(d, pid[c])
                          THEN doubled \cup {pid[c]} ELSE doubled
            /\ UNCHANGED wait_list
  /\ UNCHANGED <<pid, child_timed, child_n, child, child_pending, handling, child_processes,
                 returned, stolen, missed>>

-----------------------------------------------------------------------------
\* list::remove(); the list holds a task at most once.
remove(q, c) ==
  IF \E i \in 1..Len(q) : q[i] = c
    THEN LET i == CHOOSE i \in 1..Len(q) : q[i] = c
         IN  [j \in 1..(Len(q) - 1) |-> IF j < i THEN q[j] ELSE q[j + 1]]
    ELSE q

\* Faulty variant: the entry of waitpid_map stays.
dequeue_Stays(c, done) ==
  /\ running' = c
  /\ child_pc' = [child_pc EXCEPT ![c] = "idle"]
  /\ IF pid[c] = AnyPid
       THEN wait_list' = IF done THEN Tail(wait_list) ELSE remove(wait_list, c)
       ELSE UNCHANGED wait_list
  /\ UNCHANGED waitpid_map

\* After the yield: the coroutine dequeues its task, which has a result or not.
dequeue(c, done) ==
  /\ running' = c
  /\ child_pc' = [child_pc EXCEPT ![c] = "idle"]
  /\ IF pid[c] = AnyPid
       THEN /\ wait_list' = IF done THEN Tail(wait_list) ELSE remove(wait_list, c)
            /\ UNCHANGED waitpid_map
       ELSE /\ waitpid_map' = [waitpid_map EXCEPT ![pid[c]] = NoParent]
            /\ UNCHANGED wait_list

\* The event loop sees SIGCHLD.
on_signal ==
  /\ running = NoParent /\ ~handling /\ child_pending
  /\ child_pending' = FALSE /\ handling' = TRUE
  /\ UNCHANGED <<child_tasks, child, signal_ready, books, childGhosts>>

\* signal_handler() hands the status of p to who waits for p, to the first that waits for
\* any child, or keeps it.
Receiver(p) ==
  IF waitpid_map[p] # NoParent THEN waitpid_map[p]
  ELSE IF wait_list # <<>> THEN Head(wait_list)
  ELSE NoParent

\* Faulty variant: the handler reaps one child for each signal.
signal_handler_One ==
  /\ running = NoParent /\ handling
  /\ handling' = FALSE
  /\ IF Zombies = {}
       THEN UNCHANGED <<child_tasks, child, books, returned>>
       ELSE \E p \in Zombies :
              /\ child' = [child EXCEPT ![p] = "reaped"]
              /\ UNCHANGED <<pid, child_timed, child_n>>
              /\ IF Receiver(p) = NoParent
                   THEN /\ child_processes' = child_processes \cup {p}
                        /\ UNCHANGED <<running, child_pc, wait_list, waitpid_map, returned>>
                   ELSE /\ dequeue(Receiver(p), TRUE)
                        /\ returned' = [returned EXCEPT ![p] = @ + 1]
                        /\ UNCHANGED child_processes
  /\ UNCHANGED <<signal_ready, child_pending, doubled, stolen, missed>>

signal_handler ==
  /\ running = NoParent /\ handling
  /\ IF Zombies = {}
       THEN handling' = FALSE /\ UNCHANGED <<child_tasks, child, books, returned>>
       ELSE \E p \in Zombies :
              /\ child' = [child EXCEPT ![p] = "reaped"]
              /\ UNCHANGED <<pid, child_timed, child_n, handling>>
              /\ IF Receiver(p) = NoParent
                   THEN /\ child_processes' = child_processes \cup {p}
                        /\ UNCHANGED <<running, child_pc, wait_list, waitpid_map, returned>>
                   ELSE /\ dequeue(Receiver(p), TRUE)
                        /\ returned' = [returned EXCEPT ![p] = @ + 1]
                        /\ UNCHANGED child_processes
  /\ UNCHANGED <<signal_ready, child_pending, doubled, stolen, missed>>

\* The timer of a call.
child_timeout(c) ==
  /\ running = NoParent /\ ~handling /\ child_pc[c] = "waiting" /\ child_timed[c]
  /\ dequeue(c, FALSE)
  /\ UNCHANGED <<pid, child_timed, child_n, kernel, handling, child_processes, childGhosts>>

ChildLoop == on_signal \/ signal_handler
ChildRuns(c) ==
  child_leave(c) \/ enqueue(c) \/ \E p \in Child \cup {AnyPid}, t \in BOOLEAN : waitpid(c, p, t)

ChildNext ==
  \/ \E p \in Child : exit(p)
  \/ \E c \in Parents : child_start(c) \/ ChildRuns(c) \/ child_timeout(c)
  \/ ChildLoop

ChildSpec == ChildInit /\ [][ChildNext]_childVars

\* A coroutine runs until it yields, and the event loop sees signals and timers.
ChildFairness ==
  /\ SF_childVars(ChildLoop)
  /\ \A c \in Parents : WF_childVars(ChildRuns(c)) /\ SF_childVars(child_timeout(c))

FairChild == ChildSpec /\ ChildFairness

-----------------------------------------------------------------------------
Member(q) == {q[i] : i \in 1..Len(q)}
NoRepeat(q) == \A i, j \in 1..Len(q) : q[i] = q[j] => i = j

\* Every variable has its type.
ChildTypeOK ==
  /\ running \in Parents \cup {NoParent}
  /\ child_pc \in [Parents -> {"idle", "tried", "waiting"}]
  /\ pid \in [Parents -> Child \cup {AnyPid}]
  /\ child_timed \in [Parents -> BOOLEAN] /\ child_n \in [Parents -> 0..MaxChildWaits]
  /\ child \in [Child -> {"alive", "zombie", "reaped"}]
  /\ signal_ready \in BOOLEAN /\ child_pending \in BOOLEAN /\ handling \in BOOLEAN
  /\ wait_list \in Seq(Parents) /\ waitpid_map \in [Child -> Parents \cup {NoParent}]
  /\ child_processes \subseteq Child /\ returned \in [Child -> Nat]

\* The status of a child that was reaped is in one place: child_processes keeps it, or
\* exactly one call has returned it.
StatusOnce ==
  \A p \in Child :
    returned[p] + (IF p \in child_processes THEN 1 ELSE 0)
      = (IF child[p] = "reaped" THEN 1 ELSE 0)

\* wait_list and waitpid_map hold tasks on the stacks of coroutines that are still inside
\* the call, each once and under the pid it asks for.
NoDangling ==
  /\ NoRepeat(wait_list)
  /\ \A c \in Member(wait_list) : WaitsFor(c, AnyPid)
  /\ \A p \in Child : waitpid_map[p] # NoParent => WaitsFor(waitpid_map[p], p)

\* A coroutine that waits is on the books, and the child it waits for is not reaped behind
\* its back; unless two wait for the same pid, or a call that looks for any child takes it.
NotForgotten ==
  \A c \in Parents : child_pc[c] = "waiting" =>
    IF pid[c] = AnyPid
      THEN c \in Member(wait_list)
      ELSE pid[c] \notin doubled =>
             waitpid_map[pid[c]] = c /\ (child[pid[c]] = "reaped" => pid[c] \in stolen)

\* A status is not kept while somebody waits for it.
NotKeptBack ==
  \A c \in Parents : child_pc[c] = "waiting" =>
    \A p \in child_processes : ~Matches(pid[c], p) \/ p \in doubled

WaitedFor(p) == \E c \in Parents : child_pc[c] = "waiting" /\ Matches(pid[c], p)
Noticed(p) == child[p] = "reaped" \/ p \in missed \/ ~WaitedFor(p)

\* The end of a child is noticed while somebody waits, unless it falls between the look of
\* the first call and the handler it sets.
DeathNoticed == \A p \in Child : (child[p] = "zombie" /\ WaitedFor(p)) ~> Noticed(p)

\* The status of a child that was reaped is kept or was returned by one call, and is not kept
\* while somebody waits for it; wait_list and waitpid_map hold tasks of coroutines that are
\* still in the call, and all of those (os/wait.cc).  Two coroutines that ask for one pid,
\* or one that asks for any, are the exception to the last.
ChildrenReported ==
  ChildTypeOK /\ StatusOnce /\ NoDangling /\ NotForgotten /\ NotKeptBack

\* waitpid() returns after the end of the child, when nobody else waits.
\* Refuted: the code does otherwise (README.md, Disagreements).
WaitReturns ==
  \A c \in Parents :
    (child_pc[c] = "waiting" /\ pid[c] \in Child /\ child[pid[c]] = "zombie")
      ~> (child_pc[c] # "waiting")
=============================================================================
