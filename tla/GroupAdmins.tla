---------------------------- MODULE GroupAdmins ----------------------------
(***************************************************************************)
(* Group::trackAdmins(): how the administrator list of one group gets into *)
(* tg_group_admins.                                                        *)
(*                                                                         *)
(* Under the Mutex "tg_group_admins/<id>" a call asks Telegram for the     *)
(* list, starts one coroutine per administrator, which resolves the user   *)
(* and pushes a row into a channel, pops one row for each, and replaces    *)
(* the table's rows by a DELETE and an INSERT that share no transaction.   *)
(*                                                                         *)
(* Lists are numbered in the order in which Telegram shows them.  Rows are *)
(* not represented: the table holds the INSERTs of a set of calls.         *)
(***************************************************************************)
EXTENDS Naturals, FiniteSets

CONSTANTS
  AdminProc,   \* logger worker processes
  Call,        \* calls of trackAdmins()
  callProc,    \* the process of a call
  Admin,       \* Telegram users
  MaxVersion,  \* bound: how many lists Telegram shows, one after the other
  listOf       \* listOf[v]: the administrators of list v

ASSUME AdminsAssumption ==
  /\ callProc \in [Call -> AdminProc]
  /\ IsFiniteSet(Admin)
  /\ MaxVersion \in Nat \ {0}
  /\ listOf \in [1..MaxVersion -> SUBSET Admin]

VARIABLES
  admin_alive, \* workers that have not died
  version,     \* the list that Telegram shows now
  known,       \* administrators that have a row of tg_users
  stored,      \* calls whose INSERT is in tg_group_admins
  admin_pc,    \* admin_pc[c]: how far the call has come
  list,        \* list[c]: the version getChatAdministrators returned, 0: none yet
  channel,     \* channel[c]: administrators whose coroutine has pushed its row
  popped       \* popped[c]: administrators in the INSERT so far

adminVars == <<admin_alive, version, known, stored, admin_pc, list, channel, popped>>

Version == 1..MaxVersion
AdminOrphan == {"orphanDelete", "orphanInsert"}
AdminPC == {"new", "collect", "replace", "deleted", "done", "dead"} \cup AdminOrphan

AdminInit ==
  /\ admin_alive = AdminProc
  /\ version = 1
  /\ known = {}
  /\ stored = {}
  /\ admin_pc = [c \in Call |-> "new"]
  /\ list = [c \in Call |-> 0]
  /\ channel = [c \in Call |-> {}]
  /\ popped = [c \in Call |-> {}]

AdminRuns(c) == callProc[c] \in admin_alive
Rows(c) == IF list[c] = 0 THEN {} ELSE listOf[list[c]]

\* Faulty variant: trackAdmins() without its Mutex.
AdminsLocked_Never == FALSE

\* Somebody is between lock() and unlock().
AdminsLocked == \E c \in Call : admin_pc[c] \in {"collect", "replace", "deleted"}

\* lock(), getChatAdministrators, and go() for every administrator.
trackAdmins(c) ==
  /\ AdminRuns(c) /\ admin_pc[c] = "new"
  /\ ~ AdminsLocked
  /\ list' = [list EXCEPT ![c] = version]
  /\ admin_pc' = [admin_pc EXCEPT ![c] = IF listOf[version] = {} THEN "replace" ELSE "collect"]
  /\ UNCHANGED <<admin_alive, version, known, stored, channel, popped>>

\* The answer has no result: unlock().
noResult(c) ==
  /\ AdminRuns(c) /\ admin_pc[c] = "new"
  /\ ~ AdminsLocked
  /\ admin_pc' = [admin_pc EXCEPT ![c] = "done"]
  /\ UNCHANGED <<admin_alive, version, known, stored, list, channel, popped>>

\* An administrator's coroutine: resolveUser() commits the user's row, then push(),
\* which never waits in a channel with room for all of them.
pushAdmin(c, a) ==
  /\ AdminRuns(c) /\ admin_pc[c] = "collect"
  /\ a \in Rows(c) \ (channel[c] \cup popped[c])
  /\ known' = known \cup {a}
  /\ channel' = [channel EXCEPT ![c] = @ \cup {a}]
  /\ UNCHANGED <<admin_alive, version, stored, admin_pc, list, popped>>

\* Faulty variant: one administrator more is waited for.
Complete_OneMore(c, rows) == Cardinality(rows) > Cardinality(Rows(c))

\* for ($i = 0; $i < $uc; $i++) has made its last turn.
Complete(c, rows) == Cardinality(rows) >= Cardinality(Rows(c))

\* pop() of a row; the call waits while the channel is empty.
popAdmin(c, a) ==
  /\ AdminRuns(c) /\ admin_pc[c] = "collect"
  /\ a \in channel[c]
  /\ channel' = [channel EXCEPT ![c] = @ \ {a}]
  /\ popped' = [popped EXCEPT ![c] = @ \cup {a}]
  /\ admin_pc' = [admin_pc EXCEPT ![c] = IF Complete(c, popped'[c]) THEN "replace" ELSE "collect"]
  /\ UNCHANGED <<admin_alive, version, known, stored, list>>

\* DELETE FROM tg_group_admins; without rows to insert, unlock().
deleteAdmins(c) ==
  /\ AdminRuns(c) /\ admin_pc[c] = "replace"
  /\ stored' = {}
  /\ admin_pc' = [admin_pc EXCEPT ![c] = IF popped[c] = {} THEN "done" ELSE "deleted"]
  /\ UNCHANGED <<admin_alive, version, known, list, channel, popped>>

\* INSERT INTO tg_group_admins, unlock().  The rows refer to tg_users.
insertAdmins(c) ==
  /\ AdminRuns(c) /\ admin_pc[c] = "deleted"
  /\ stored' = stored \cup {c}
  /\ admin_pc' = [admin_pc EXCEPT ![c] = "done"]
  /\ UNCHANGED <<admin_alive, version, known, list, channel, popped>>

-----------------------------------------------------------------------------
\* A process ends.  The kernel frees its Mutexes; a statement it had already sent may
\* still be executed, or not.
AdminLeaves(s) ==
  CASE s = "replace" -> "orphanDelete"
    [] s = "deleted" -> "orphanInsert"
    [] s \in AdminOrphan \cup {"new", "collect", "done", "dead"} -> "dead"

admin_exit(p) ==
  /\ p \in admin_alive
  /\ admin_alive' = admin_alive \ {p}
  /\ admin_pc' = [c \in Call |-> IF callProc[c] = p THEN AdminLeaves(admin_pc[c]) ELSE admin_pc[c]]
  /\ UNCHANGED <<version, known, stored, list, channel, popped>>

adminExecutes(c) ==
  /\ \/ admin_pc[c] = "orphanDelete" /\ stored' = {}
     \/ admin_pc[c] = "orphanInsert" /\ stored' = stored \cup {c}
  /\ admin_pc' = [admin_pc EXCEPT ![c] = "dead"]
  /\ UNCHANGED <<admin_alive, version, known, list, channel, popped>>

adminDrops(c) ==
  /\ admin_pc[c] \in AdminOrphan
  /\ admin_pc' = [admin_pc EXCEPT ![c] = "dead"]
  /\ UNCHANGED <<admin_alive, version, known, stored, list, channel, popped>>

\* The group's administrators change.
changeAdmins ==
  /\ version < MaxVersion
  /\ version' = version + 1
  /\ UNCHANGED <<admin_alive, known, stored, admin_pc, list, channel, popped>>

AdminStep(c) ==
  \/ trackAdmins(c) \/ noResult(c) \/ deleteAdmins(c) \/ insertAdmins(c)
  \/ \E a \in Admin : pushAdmin(c, a) \/ popAdmin(c, a)

AdminNext ==
  \/ \E c \in Call : AdminStep(c) \/ adminExecutes(c) \/ adminDrops(c)
  \/ \E p \in AdminProc : admin_exit(p)
  \/ changeAdmins

AdminSpec == AdminInit /\ [][AdminNext]_adminVars

\* A live worker gets on with its coroutines; each administrator's coroutine ends
\* resolveUser() (UserLog), and pop() returns once a row is there.
AdminFairness ==
  \A c \in Call :
    /\ WF_adminVars(trackAdmins(c)) /\ WF_adminVars(deleteAdmins(c)) /\ WF_adminVars(insertAdmins(c))
    /\ \A a \in Admin : WF_adminVars(pushAdmin(c, a)) /\ WF_adminVars(popAdmin(c, a))

FairAdmin == AdminSpec /\ AdminFairness

-----------------------------------------------------------------------------
\* Every variable has its type, and a row leaves the channel when it is popped.
AdminTypeOK ==
  /\ admin_alive \subseteq AdminProc
  /\ version \in Version
  /\ known \subseteq Admin
  /\ stored \subseteq Call
  /\ admin_pc \in [Call -> AdminPC]
  /\ list \in [Call -> Version \cup {0}]
  /\ channel \in [Call -> SUBSET Admin]
  /\ popped \in [Call -> SUBSET Admin]
  /\ \A c \in Call : channel[c] \cap popped[c] = {}

\* tg_group_admins has no UNIQUE key: only the Mutex keeps the rows of two calls from
\* standing there together, and only the death of a worker can break that.
OneList == admin_alive = AdminProc => Cardinality(stored) <= 1

\* While all workers live, no list in the table is older than one that a finished call
\* stored before: the Mutex covers the question to Telegram and the INSERT.
NewestList ==
  admin_alive = AdminProc =>
    \A c, d \in Call : c \in stored /\ admin_pc[d] = "done" => list[d] <= list[c]

\* Without a death the table is empty only for the time between DELETE and INSERT, or
\* because the newest list is empty.
NotLost ==
  admin_alive = AdminProc /\ stored = {} =>
    \/ \E c \in Call : admin_pc[c] = "deleted"
    \/ \A c \in Call : admin_pc[c] = "done" /\ list[c] # 0 =>
         \E d \in Call : admin_pc[d] = "done" /\ list[d] >= list[c] /\ list[d] # 0 /\ Rows(d) = {}

\* The rows of an INSERT are the whole list that Telegram gave, and each refers to an
\* existing row of tg_users, also when the call's worker has died.
WholeList ==
  \A c \in Call : admin_pc[c] \in {"deleted", "orphanInsert"} \/ c \in stored =>
    popped[c] = Rows(c) /\ Rows(c) \subseteq known

\* An INSERT of trackAdmins() has the whole list that Telegram gave, each row referring to a
\* row of tg_users.  While all workers live, tg_group_admins holds the rows of one call, of no
\* older list than before, and is empty only between DELETE and INSERT or if the newest list
\* is empty (LoggerUtils/Group.php).
AdminsKept == AdminTypeOK /\ OneList /\ NewestList /\ NotLost /\ WholeList

\* trackAdmins() ends: pop() without a timeout waits for no row that nobody pushes.
TrackAdminsEnds ==
  \A c \in Call : admin_pc[c] \in {"collect", "replace", "deleted"} ~>
                    admin_pc[c] \in {"done", "dead"} \cup AdminOrphan
=============================================================================
