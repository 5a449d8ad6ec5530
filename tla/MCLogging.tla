----------------------------- MODULE MCLogging -----------------------------
(***************************************************************************)
(* What the logger workers write into the database: users (UserLog),       *)
(* groups (GroupLog) and administrators of groups (GroupAdmins).           *)
(*                                                                         *)
(* The three hold different Mutexes and write different tables, and share  *)
(* no variable.  A behaviour picks one part, which moves, while the others *)
(* stay where they begin.                                                  *)
(***************************************************************************)
EXTENDS MCUserLog, GroupLog, GroupAdmins

VARIABLE part

\* Two messages of one worker in a supergroup, the second with a new username, and one of
\* another worker with a new title; a private message.
GroupLog_updProc == [u \in Upd |-> IF u <= 2 THEN p1 ELSE p2]
GroupLog_typeOf == [u \in Upd |-> IF u <= 3 THEN "supergroup" ELSE "private"]
GroupLog_usernameOf == [u \in Upd |-> IF u = 2 THEN "y" ELSE "x"]
GroupLog_titleOf == [u \in Upd |-> IF u = 3 THEN "z" ELSE "t"]

\* Two calls in one worker, one in another; the second list shrinks, the third is empty.
GroupAdmins_callProc == [c \in Call |-> IF c <= 2 THEN p1 ELSE p2]
GroupAdmins_listOf == 1 :> Admin @@ 2 :> {"b"} @@ 3 :> {}

all == <<part, vars, groupVars, adminVars>>

LoggingInit ==
  /\ part \in {"UserLog", "GroupLog", "GroupAdmins"}
  /\ Init /\ GroupInit /\ AdminInit
  /\ part # "UserLog" => row = NoRow

\* Only part p moves.
Only(p) ==
  /\ part = p /\ UNCHANGED part
  /\ p # "UserLog" => UNCHANGED vars
  /\ p # "GroupLog" => UNCHANGED groupVars
  /\ p # "GroupAdmins" => UNCHANGED adminVars

LoggingNext ==
  \/ Only("UserLog") /\ Next
  \/ Only("GroupLog") /\ GroupNext
  \/ Only("GroupAdmins") /\ AdminNext

LoggingSpec == LoggingInit /\ [][LoggingNext]_all

\* The variables of the part that moves.
moving ==
  CASE part = "UserLog" -> vars
    [] part = "GroupLog" -> groupVars
    [] OTHER -> adminVars

Moves(p) == part = p /\ UNCHANGED part

\* The fairness of every part, as its module states it.  The steps of an update, and those of
\* a call that share a disjunct, are enabled one at a time and until they are taken.
Works(i) ==
  \/ Moves("GroupLog") /\ (run(i) \/ ResolveGroup(i) \/ TrackGroup(i))
  \/ Moves("GroupAdmins") /\ i <= 3
       /\ (trackAdmins(i) \/ deleteAdmins(i)
             \/ insertAdmins(i))

Drops(i) ==
  \/ Moves("GroupLog") /\ groupDrops(i)
  \/ Moves("GroupAdmins") /\ i <= 3
       /\ \E a \in Admin : pushAdmin(i, a) \/ popAdmin(i, a)

FairLogging ==
  /\ LoggingSpec
  /\ \A o \in Obj :
       /\ WF_moving(Moves("UserLog") /\ (resolveUserInternal(o) \/ insertRejected(o)))
       /\ WF_moving(Moves("UserLog") /\ Track(o))
       /\ WF_moving(Moves("UserLog") /\ serverDrops(o))
  /\ \A i \in Upd : WF_moving(Works(i)) /\ WF_moving(Drops(i))

\* What the object, update or call i of a part has begun, and when it has come to its end.
Object == <<o1, o2, o3>>
Begun(i) ==
  CASE part = "UserLog" -> i <= 3 /\ pc[Object[i]] = "resolving"
    [] part = "GroupLog" -> group_pc[i] = "new"
    [] OTHER -> i <= 3 /\ admin_pc[i] \in {"collect", "replace", "deleted"}

Ended(i) ==
  CASE part = "UserLog" -> pc[Object[i]] \in {"resolved", "fetched", "stored", "done", "dead"}
    [] part = "GroupLog" -> group_pc[i] \in {"unset", "skipped", "done", "dead"}
    [] OTHER -> admin_pc[i] \in {"done", "dead"} \cup AdminOrphan

\* Every resolveUser(), every update of a group and every trackAdmins() that a logger worker
\* has begun comes to its end, or the worker dies: transactions that dead workers left in the
\* database delay it but do not stop it, a rejected statement ends it, and pop() waits for no
\* row that nobody pushes.
LoggingEnds == \A i \in Upd : Begun(i) ~> (i <= 3 \/ part = "GroupLog") /\ Ended(i)
=============================================================================
