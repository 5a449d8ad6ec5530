------------------------------ MODULE UserLog ------------------------------
(***************************************************************************)
(* LoggerUtils/User.php: what the logger workers store about one Telegram  *)
(* user in tg_users and tg_user_history.                                   *)
(*                                                                         *)
(* Every update (and every entry of an administrator list) makes one User  *)
(* object.  resolveUser() runs one transaction under the Mutex             *)
(* "tg_users/<tg_user_id>"; trackPhoto(), later and in a coroutine of its  *)
(* own, asks Telegram for the profile photo and stores it under another    *)
(* Mutex, "tg_users/id_<id>", without a transaction.  group_msg_count and  *)
(* private_msg_count are never incremented, so no update skips trackPhoto. *)
(*                                                                         *)
(* An Exception, or an Error outside logger_handler()'s own coroutine, ends*)
(* the worker process.  The kernel then releases its Mutexes at once, but  *)
(* a statement it had already sent may still be executed by the database.  *)
(***************************************************************************)
EXTENDS Naturals, Sequences

CONSTANTS
  Proc,      \* logger worker processes
  Obj,       \* User objects
  procOf,    \* the process of an object
  Name,      \* values of (username, first_name, last_name)
  nameOf,    \* the names in the object's Data
  MaxPhoto,  \* bound: how often the user changes the profile photo
  NoRow

ASSUME UserAssumption ==
  /\ procOf \in [Obj -> Proc]
  /\ nameOf \in [Obj -> Name]
  /\ MaxPhoto \in Nat
  /\ NoRow \notin [name : Name, photo : 0..MaxPhoto]

VARIABLES
  alive,      \* workers that have not died
  profile,    \* the photo Telegram shows now; photos are numbered in order, 0: none
  row,        \* the user's row of tg_users, or NoRow
  history,    \* the user's rows of tg_user_history, by id
  pc,         \* pc[o]: how far the object has come
  seen,       \* seen[o]: the row that SELECT returned ($this->u)
  fetched,    \* fetched[o]: the photo that getUserProfilePhotos returned
  historyId   \* historyId[o]: the history row the object has made, 0: none

vars == <<alive, profile, row, history, pc, seen, fetched, historyId>>

Photo == 0..MaxPhoto
Row == [name : Name, photo : Photo]
Orphan == {"orphanTransaction", "orphanPhoto", "orphanHistory"}
PC == {"new", "resolving", "resolved", "fetched", "stored", "done", "dead"} \cup Orphan

\* Nothing is known about the user, or an earlier run of the daemon left a row.
Init ==
  /\ alive = Proc
  /\ profile = 0
  /\ \/ row = NoRow /\ history = <<>>
     \/ \E n \in Name : row = [name |-> n, photo |-> 0] /\ history = <<row>>
  /\ pc = [o \in Obj |-> "new"]
  /\ seen = [o \in Obj |-> NoRow]
  /\ fetched = [o \in Obj |-> 0]
  /\ historyId = [o \in Obj |-> 0]

Runs(o) == procOf[o] \in alive

\* Somebody is between lock() and unlock() in resolveUser().
UserLocked == \E o \in Obj : pc[o] = "resolving"

\* Faulty variant: trackPhoto() without its Mutex.
PhotoLocked_Never == FALSE

\* Somebody is between lock() and unlock() in trackPhoto().
PhotoLocked == \E o \in Obj : pc[o] \in {"fetched", "stored"}

\* The transaction of a dead worker still has its row locks in the database.
RowLocked == \E o \in Obj : pc[o] = "orphanTransaction"

-----------------------------------------------------------------------------
\* resolveUser(): lock, begin, SELECT.
resolveUser(o) ==
  /\ Runs(o) /\ pc[o] = "new"
  /\ ~ UserLocked
  /\ pc' = [pc EXCEPT ![o] = "resolving"]
  /\ seen' = [seen EXCEPT ![o] = row]
  /\ UNCHANGED <<alive, profile, row, history, fetched, historyId>>

seenPhoto(o) == IF seen[o] = NoRow THEN 0 ELSE seen[o].photo

\* trackUserUpdate(): a name differs from the row that was read.
doUpdate(o) == seen[o] # NoRow /\ seen[o].name # nameOf[o]

needHistory(o) == seen[o] = NoRow \/ doUpdate(o)

\* insertUser() meets the UNIQUE key of tg_user_id.
Duplicate(o) == seen[o] = NoRow /\ row # NoRow

lastInsertId == Len(history) + 1

createUserHistory(o) ==
  /\ history' = Append(history, [name |-> nameOf[o], photo |-> seenPhoto(o)])
  /\ historyId' = [historyId EXCEPT ![o] = lastInsertId]

\* What the transaction of resolveUserInternal() leaves when it is committed.
Transaction(o) ==
  /\ ~ Duplicate(o)
  /\ row' = IF seen[o] = NoRow THEN [name |-> nameOf[o], photo |-> 0]
            ELSE IF doUpdate(o) THEN [row EXCEPT !.name = nameOf[o]] ELSE row
  /\ IF needHistory(o) THEN createUserHistory(o) ELSE UNCHANGED <<history, historyId>>

\* resolveUserInternal(), commit, unlock.
resolveUserInternal(o) ==
  /\ Runs(o) /\ pc[o] = "resolving"
  /\ ~ RowLocked
  /\ Transaction(o)
  /\ pc' = [pc EXCEPT ![o] = "resolved"]
  /\ UNCHANGED <<alive, profile, seen, fetched>>

-----------------------------------------------------------------------------
\* trackPhoto(): lock, getUserProfilePhotos; without a photo, unlock and return.
trackPhoto(o) ==
  /\ Runs(o) /\ pc[o] = "resolved"
  /\ ~ PhotoLocked
  /\ profile # 0
  /\ fetched' = [fetched EXCEPT ![o] = profile]
  /\ pc' = [pc EXCEPT ![o] = "fetched"]
  /\ UNCHANGED <<alive, profile, row, history, seen, historyId>>

noPhoto(o) ==
  /\ Runs(o) /\ pc[o] = "resolved"
  /\ ~ PhotoLocked
  /\ pc' = [pc EXCEPT ![o] = "done"]
  /\ UNCHANGED <<alive, profile, row, history, seen, fetched, historyId>>

\* resolveFile() returns null.
noFile(o) ==
  /\ Runs(o) /\ pc[o] = "fetched"
  /\ pc' = [pc EXCEPT ![o] = "done"]
  /\ UNCHANGED <<alive, profile, row, history, seen, fetched, historyId>>

\* $u["photo"] is a string or null (emulated prepares) and $fileId an int: they
\* always differ.  Without a history row of its own the object updates the photo
\* and then inserts one, in two statements.
storePhoto(o) ==
  /\ Runs(o) /\ pc[o] = "fetched"
  /\ historyId[o] = 0
  /\ ~ RowLocked
  /\ row' = [row EXCEPT !.photo = fetched[o]]
  /\ pc' = [pc EXCEPT ![o] = "stored"]
  /\ UNCHANGED <<alive, profile, history, seen, fetched, historyId>>

newHistory(o) ==
  /\ Runs(o) /\ pc[o] = "stored"
  /\ createUserHistory(o)
  /\ pc' = [pc EXCEPT ![o] = "done"]
  /\ UNCHANGED <<alive, profile, row, seen, fetched>>

\* With one, both are updated in one statement.
Amendment(o) ==
  /\ row' = [row EXCEPT !.photo = fetched[o]]
  /\ history' = [history EXCEPT ![historyId[o]].photo = fetched[o]]

amendHistory(o) ==
  /\ Runs(o) /\ pc[o] = "fetched"
  /\ historyId[o] # 0
  /\ ~ RowLocked
  /\ Amendment(o)
  /\ pc' = [pc EXCEPT ![o] = "done"]
  /\ UNCHANGED <<alive, profile, seen, fetched, historyId>>

-----------------------------------------------------------------------------
\* A process ends; what its objects had sent to the database is left behind.
LeftBehind(s) ==
  CASE s = "resolving" -> "orphanTransaction"
    [] s = "fetched" -> "orphanPhoto"
    [] s = "stored" -> "orphanHistory"
    [] s \in Orphan \cup {"new", "resolved", "done", "dead"} -> "dead"

exit(p) ==
  /\ p \in alive
  /\ alive' = alive \ {p}
  /\ pc' = [o \in Obj |-> IF procOf[o] = p THEN LeftBehind(pc[o]) ELSE pc[o]]
  /\ UNCHANGED <<profile, row, history, seen, fetched, historyId>>

\* Faulty variant: the transaction is tried again.
insertRejected_Retried(o) ==
  /\ Runs(o) /\ pc[o] = "resolving"
  /\ ~ RowLocked
  /\ Duplicate(o)
  /\ UNCHANGED vars

\* The INSERT is rejected: rollback, unlock, and the Exception ends the worker.
insertRejected(o) ==
  /\ Runs(o) /\ pc[o] = "resolving"
  /\ ~ RowLocked
  /\ Duplicate(o)
  /\ exit(procOf[o])

\* The database executes the last statements of a dead worker, or drops them.
serverExecutes(o) ==
  /\ \/ /\ pc[o] = "orphanTransaction"
        /\ Transaction(o)
     \/ /\ pc[o] = "orphanPhoto" /\ historyId[o] = 0
        /\ ~ RowLocked
        /\ row' = [row EXCEPT !.photo = fetched[o]]
        /\ UNCHANGED <<history, historyId>>
     \/ /\ pc[o] = "orphanPhoto" /\ historyId[o] # 0
        /\ ~ RowLocked
        /\ Amendment(o)
        /\ UNCHANGED historyId
     \/ /\ pc[o] = "orphanHistory"
        /\ createUserHistory(o)
        /\ UNCHANGED row
  /\ pc' = [pc EXCEPT ![o] = "dead"]
  /\ UNCHANGED <<alive, profile, seen, fetched>>

serverDrops(o) ==
  /\ pc[o] \in Orphan
  /\ pc' = [pc EXCEPT ![o] = "dead"]
  /\ UNCHANGED <<alive, profile, row, history, seen, fetched, historyId>>

\* The user changes the profile photo.
changePhoto ==
  /\ profile < MaxPhoto
  /\ profile' = profile + 1
  /\ UNCHANGED <<alive, row, history, pc, seen, fetched, historyId>>

Resolve(o) == resolveUser(o) \/ resolveUserInternal(o) \/ insertRejected(o)
Track(o) ==
  trackPhoto(o) \/ noPhoto(o) \/ noFile(o) \/ storePhoto(o) \/ newHistory(o) \/ amendHistory(o)

Next ==
  \/ \E o \in Obj : Resolve(o) \/ Track(o) \/ serverExecutes(o) \/ serverDrops(o)
  \/ \E p \in Proc : exit(p)
  \/ changePhoto

Spec == Init /\ [][Next]_vars

\* Live workers get on with an object they have begun, and the database notices
\* that a client is gone.
Fairness ==
  \A o \in Obj :
    /\ WF_vars(resolveUserInternal(o)) /\ WF_vars(insertRejected(o)) /\ WF_vars(Track(o))
    /\ WF_vars(serverDrops(o))

FairSpec == Spec /\ Fairness

-----------------------------------------------------------------------------
\* Every variable has its type, and the ids the objects keep are ids of history rows.
TypeOK ==
  /\ alive \in SUBSET Proc
  /\ profile \in Photo
  /\ row \in Row \cup {NoRow}
  /\ history \in Seq(Row)
  /\ pc \in [Obj -> PC]
  /\ seen \in [Obj -> Row \cup {NoRow}]
  /\ fetched \in [Obj -> Photo]
  /\ historyId \in [Obj -> Nat]
  /\ \A o \in Obj : historyId[o] <= Len(history)

\* insertUser() meets the UNIQUE key, which would end the worker, only if another
\* worker has died: resolveUser()'s Mutex covers the SELECT and the INSERT.
NoInsertRace ==
  \A o \in Obj : pc[o] = "resolving" /\ Duplicate(o) => alive # Proc

\* The names in tg_users are also in tg_user_history, whatever dies when:
\* resolveUser() updates both in one transaction.
NameRecorded ==
  row # NoRow => \E k \in 1..Len(history) : history[k].name = row.name

\* The history row that trackPhoto() amends was made by the same object, from the
\* same Data, and belongs to no other object.
AmendsOwnHistory ==
  \A o \in Obj : historyId[o] # 0 =>
    /\ history[historyId[o]].name = nameOf[o]
    /\ \A x \in Obj : historyId[x] = historyId[o] => x = o

\* The photo in tg_users goes back to an older one only when the database executes an UPDATE
\* that a dead worker had sent: the Mutex of trackPhoto() covers getUserProfilePhotos and the
\* UPDATE, but not beyond the death of its holder.
PhotoForward ==
  [][row # NoRow /\ row'.photo < row.photo =>
       \E o \in Obj : pc[o] = "orphanPhoto" /\ serverExecutes(o)]_vars

\* What tg_users and tg_user_history hold of a user: whatever dies when, no name is forgotten,
\* and trackPhoto() amends its own history row.  resolveUser() tries to insert a user twice
\* only after a worker has died, and the photo goes back to an older one only by a late
\* UPDATE of a worker that has died (LoggerUtils/User.php).
UserKept ==
  /\ [](TypeOK /\ NoInsertRace /\ NameRecorded /\ AmendsOwnHistory)
  /\ PhotoForward

\* resolveUser() returns, or its worker dies; transactions that dead workers left in
\* the database delay it but do not stop it.
ResolveEnds ==
  \A o \in Obj : pc[o] = "resolving" ~> pc[o] \in {"resolved", "fetched", "stored", "done", "dead"}

\* "Create new history": the history row that trackPhoto() makes holds the photo it
\* has just stored.
HistoryHoldsPhoto ==
  [][\A o \in Obj : newHistory(o) => history'[Len(history')].photo = fetched[o]]_vars
=============================================================================
