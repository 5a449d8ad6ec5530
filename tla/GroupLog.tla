------------------------------ MODULE GroupLog ------------------------------
(***************************************************************************)
(* Logger::run() and what it does with updates that concern one chat:      *)
(* PrivateLogger and GroupLogger, and LoggerUtils/Group.php behind the     *)
(* latter, which keeps one row of tg_groups and the rows of                *)
(* tg_group_history.  (Group::trackAdmins() is in GroupAdmins, the user    *)
(* behind the update in UserLog.)                                          *)
(*                                                                         *)
(* logger_handler() catches an Error of run(), reports it and goes on; an  *)
(* Exception ends the worker process, and so does an Error of a coroutine  *)
(* that run() started.                                                     *)
(***************************************************************************)
EXTENDS Naturals, Sequences

CONSTANTS
  GroupProc,      \* logger worker processes
  Upd,            \* updates
  updProc,        \* the worker that handles the update
  typeOf,         \* its chat_type, or "unmapped" if Logger skips its msg_type
  Username,       \* usernames of the group
  usernameOf,     \* the chat_username in the update
  Title,          \* titles of the group
  titleOf,        \* the chat_title in the update
  MaxGroupPhoto,  \* bound: how often the group changes its photo
  NoGroup

ASSUME GroupAssumption ==
  /\ updProc \in [Upd -> GroupProc]
  /\ typeOf \in [Upd -> {"private", "supergroup", "channel", "unmapped"}]
  /\ usernameOf \in [Upd -> Username]
  /\ titleOf \in [Upd -> Title]
  /\ MaxGroupPhoto \in Nat
  /\ NoGroup \notin [username : Username, name : Title, photo : 0..MaxGroupPhoto]

VARIABLES
  group_alive,     \* workers that have not died
  group_profile,   \* the photo Telegram shows now; photos are numbered in order, 0: none
  group_row,       \* the group's row of tg_groups, or NoGroup
  group_history,   \* the group's rows of tg_group_history, by id
  group_pc,        \* group_pc[o]: how far the update has come
  group_seen,      \* group_seen[o]: the row that SELECT returned
  group_fetched,   \* group_fetched[o]: the photo that getChat returned
  group_historyId  \* group_historyId[o]: the history row the Group object has made, 0: none

groupVars == <<group_alive, group_profile, group_row, group_history, group_pc, group_seen,
               group_fetched, group_historyId>>

GroupPhoto == 0..MaxGroupPhoto
GroupRow == [username : Username, name : Title, photo : GroupPhoto]
GroupOrphan == {"orphanTransaction", "orphanPhoto", "orphanHistory"}
GroupPC == {"new", "unset", "skipped", "group", "resolving", "resolved", "fetched", "stored",
            "done", "dead"} \cup GroupOrphan

GroupInit ==
  /\ group_alive = GroupProc
  /\ group_profile = 0
  /\ group_row = NoGroup
  /\ group_history = <<>>
  /\ group_pc = [o \in Upd |-> "new"]
  /\ group_seen = [o \in Upd |-> NoGroup]
  /\ group_fetched = [o \in Upd |-> 0]
  /\ group_historyId = [o \in Upd |-> 0]

GroupRuns(o) == updProc[o] \in group_alive

\* Logger::run(): unmapped messages and other chats are skipped.  PrivateLogger makes a
\* User and calls resolveUser() without setData(), an Error that logger_handler()
\* catches.  GroupLogger resolves the user and starts its trackPhoto() first.
run(o) ==
  /\ GroupRuns(o) /\ group_pc[o] = "new"
  /\ group_pc' = [group_pc EXCEPT ![o] = CASE typeOf[o] = "private" -> "unset"
                               [] typeOf[o] = "supergroup" -> "group"
                               [] OTHER -> "skipped"]
  /\ UNCHANGED <<group_alive, group_profile, group_row, group_history, group_seen,
                 group_fetched, group_historyId>>

\* Somebody is between lock() and unlock() in resolveGroup().
GroupLocked == \E o \in Upd : group_pc[o] = "resolving"

\* Somebody is between lock() and unlock() in Group::trackPhoto().
GroupPhotoLocked == \E o \in Upd : group_pc[o] \in {"fetched", "stored"}

\* The transaction of a dead worker still has its row locks in the database.
GroupRowLocked == \E o \in Upd : group_pc[o] = "orphanTransaction"

-----------------------------------------------------------------------------
\* resolveGroup(): lock, begin, SELECT.
resolveGroup(o) ==
  /\ GroupRuns(o) /\ group_pc[o] = "group"
  /\ ~ GroupLocked
  /\ group_pc' = [group_pc EXCEPT ![o] = "resolving"]
  /\ group_seen' = [group_seen EXCEPT ![o] = group_row]
  /\ UNCHANGED <<group_alive, group_profile, group_row, group_history, group_fetched,
                 group_historyId>>

\* trackGroupUpdate(): the UPDATE sets first_name, a column tg_groups does not have.
renamed(o) == group_seen[o] # NoGroup /\ group_seen[o].name # titleOf[o]

groupUpdate(o) == group_seen[o] # NoGroup /\ group_seen[o].username # usernameOf[o]

\* insertGroup() meets the UNIQUE key of tg_group_id.
GroupDuplicate(o) == group_seen[o] = NoGroup /\ group_row # NoGroup

\* Faulty variant: a changed username makes no history.
needGroupHistory_InsertOnly(o) == group_seen[o] = NoGroup

needGroupHistory(o) == group_seen[o] = NoGroup \/ groupUpdate(o)

lastGroupId == Len(group_history) + 1

seenGroupPhoto(o) == IF group_seen[o] = NoGroup THEN 0 ELSE group_seen[o].photo

\* The history row holds the photo of the row that was read.
createGroupHistory(o) ==
  /\ group_history' = Append(group_history, [username |-> usernameOf[o], name |-> titleOf[o],
                                             photo |-> seenGroupPhoto(o)])
  /\ group_historyId' = [group_historyId EXCEPT ![o] = lastGroupId]

\* What the transaction of resolveGroupInternal() leaves when it is committed.
GroupTransaction(o) ==
  /\ ~ GroupDuplicate(o) /\ ~ renamed(o)
  /\ group_row' = IF group_seen[o] = NoGroup
                    THEN [username |-> usernameOf[o], name |-> titleOf[o], photo |-> 0]
                  ELSE IF groupUpdate(o) THEN [group_row EXCEPT !.username = usernameOf[o]]
                  ELSE group_row
  /\ IF needGroupHistory(o) THEN createGroupHistory(o)
     ELSE UNCHANGED <<group_history, group_historyId>>

\* resolveGroupInternal(), commit, unlock; GroupLogger then starts trackPhoto().
resolveGroupInternal(o) ==
  /\ GroupRuns(o) /\ group_pc[o] = "resolving"
  /\ ~ GroupRowLocked
  /\ GroupTransaction(o)
  /\ group_pc' = [group_pc EXCEPT ![o] = "resolved"]
  /\ UNCHANGED <<group_alive, group_profile, group_seen, group_fetched>>

-----------------------------------------------------------------------------
\* Group::trackPhoto(): lock, getChat; without a photo, unlock and return.
trackGroupPhoto(o) ==
  /\ GroupRuns(o) /\ group_pc[o] = "resolved"
  /\ ~ GroupPhotoLocked
  /\ group_profile # 0
  /\ group_fetched' = [group_fetched EXCEPT ![o] = group_profile]
  /\ group_pc' = [group_pc EXCEPT ![o] = "fetched"]
  /\ UNCHANGED <<group_alive, group_profile, group_row, group_history, group_seen,
                 group_historyId>>

\* getChat shows no photo, or resolveFile() returns null.
noGroupPhoto(o) ==
  /\ GroupRuns(o)
  /\ \/ group_pc[o] = "resolved" /\ ~ GroupPhotoLocked
     \/ group_pc[o] = "fetched"
  /\ group_pc' = [group_pc EXCEPT ![o] = "done"]
  /\ UNCHANGED <<group_alive, group_profile, group_row, group_history, group_seen,
                 group_fetched, group_historyId>>

\* $u["photo"] and $fileId never have the same type, so the photo is always stored:
\* with a history row of the object's own in one statement, otherwise in two.
storeGroupPhoto(o) ==
  /\ GroupRuns(o) /\ group_pc[o] = "fetched"
  /\ group_historyId[o] = 0
  /\ ~ GroupRowLocked
  /\ group_row' = [group_row EXCEPT !.photo = group_fetched[o]]
  /\ group_pc' = [group_pc EXCEPT ![o] = "stored"]
  /\ UNCHANGED <<group_alive, group_profile, group_history, group_seen, group_fetched,
                 group_historyId>>

newGroupHistory(o) ==
  /\ GroupRuns(o) /\ group_pc[o] = "stored"
  /\ createGroupHistory(o)
  /\ group_pc' = [group_pc EXCEPT ![o] = "done"]
  /\ UNCHANGED <<group_alive, group_profile, group_row, group_seen, group_fetched>>

GroupAmendment(o) ==
  /\ group_row' = [group_row EXCEPT !.photo = group_fetched[o]]
  /\ group_history' = [group_history EXCEPT ![group_historyId[o]].photo = group_fetched[o]]

amendGroupHistory(o) ==
  /\ GroupRuns(o) /\ group_pc[o] = "fetched"
  /\ group_historyId[o] # 0
  /\ ~ GroupRowLocked
  /\ GroupAmendment(o)
  /\ group_pc' = [group_pc EXCEPT ![o] = "done"]
  /\ UNCHANGED <<group_alive, group_profile, group_seen, group_fetched, group_historyId>>

-----------------------------------------------------------------------------
\* A process ends; what its updates had sent to the database is left behind.
GroupLeaves(s) ==
  CASE s = "resolving" -> "orphanTransaction"
    [] s = "fetched" -> "orphanPhoto"
    [] s = "stored" -> "orphanHistory"
    [] s \in GroupOrphan \cup {"new", "unset", "skipped", "group", "resolved", "done",
                                "dead"} -> "dead"

GroupDies(p) ==
  /\ p \in group_alive
  /\ group_alive' = group_alive \ {p}
  /\ UNCHANGED <<group_profile, group_row, group_history, group_seen, group_fetched,
                 group_historyId>>

group_exit(p) ==
  /\ GroupDies(p)
  /\ group_pc' = [o \in Upd |-> IF updProc[o] = p THEN GroupLeaves(group_pc[o])
                                ELSE group_pc[o]]

\* A statement is rejected: rollback, unlock, and the Exception ends the worker.
rejected(o) ==
  /\ GroupRuns(o) /\ group_pc[o] = "resolving"
  /\ ~ GroupRowLocked
  /\ GroupDuplicate(o) \/ renamed(o)
  /\ GroupDies(updProc[o])
  /\ group_pc' = [x \in Upd |-> IF x = o THEN "dead"
                                ELSE IF updProc[x] = updProc[o] THEN GroupLeaves(group_pc[x])
                                ELSE group_pc[x]]

\* The database executes the last statements of a dead worker, or drops them.
groupExecutes(o) ==
  /\ \/ /\ group_pc[o] = "orphanTransaction"
        /\ GroupTransaction(o)
     \/ /\ group_pc[o] = "orphanPhoto" /\ group_historyId[o] = 0
        /\ ~ GroupRowLocked
        /\ group_row' = [group_row EXCEPT !.photo = group_fetched[o]]
        /\ UNCHANGED <<group_history, group_historyId>>
     \/ /\ group_pc[o] = "orphanPhoto" /\ group_historyId[o] # 0
        /\ ~ GroupRowLocked
        /\ GroupAmendment(o)
        /\ UNCHANGED group_historyId
     \/ /\ group_pc[o] = "orphanHistory"
        /\ createGroupHistory(o)
        /\ UNCHANGED group_row
  /\ group_pc' = [group_pc EXCEPT ![o] = "dead"]
  /\ UNCHANGED <<group_alive, group_profile, group_seen, group_fetched>>

groupDrops(o) ==
  /\ group_pc[o] \in GroupOrphan
  /\ group_pc' = [group_pc EXCEPT ![o] = "dead"]
  /\ UNCHANGED <<group_alive, group_profile, group_row, group_history, group_seen,
                 group_fetched, group_historyId>>

\* The group changes its photo.
changeGroupPhoto ==
  /\ group_profile < MaxGroupPhoto
  /\ group_profile' = group_profile + 1
  /\ UNCHANGED <<group_alive, group_row, group_history, group_pc, group_seen, group_fetched,
                 group_historyId>>

ResolveGroup(o) == resolveGroup(o) \/ resolveGroupInternal(o) \/ rejected(o)
TrackGroup(o) ==
  trackGroupPhoto(o) \/ noGroupPhoto(o) \/ storeGroupPhoto(o) \/ newGroupHistory(o)
    \/ amendGroupHistory(o)

GroupNext ==
  \/ \E o \in Upd :
       run(o) \/ ResolveGroup(o) \/ TrackGroup(o) \/ groupExecutes(o) \/ groupDrops(o)
  \/ \E p \in GroupProc : group_exit(p)
  \/ changeGroupPhoto

GroupSpec == GroupInit /\ [][GroupNext]_groupVars

\* A live worker gets on with the coroutines of its updates, and the database notices
\* that a client is gone.
GroupFairness ==
  \A o \in Upd :
    /\ WF_groupVars(run(o) \/ ResolveGroup(o) \/ TrackGroup(o))
    /\ WF_groupVars(groupDrops(o))

FairGroup == GroupSpec /\ GroupFairness

-----------------------------------------------------------------------------
\* Every variable has its type, and the ids the objects keep are ids of history rows.
GroupTypeOK ==
  /\ group_alive \subseteq GroupProc
  /\ group_profile \in GroupPhoto
  /\ group_row \in GroupRow \cup {NoGroup}
  /\ group_history \in Seq(GroupRow)
  /\ group_pc \in [Upd -> GroupPC]
  /\ group_seen \in [Upd -> GroupRow \cup {NoGroup}]
  /\ group_fetched \in [Upd -> GroupPhoto]
  /\ group_historyId \in [Upd -> Nat]
  /\ \A o \in Upd : group_historyId[o] <= Len(group_history)

\* What tg_groups says of the group is also in tg_group_history, whatever dies when:
\* resolveGroup() writes both in one transaction, or neither.
InfoRecorded ==
  group_row # NoGroup => \E k \in 1..Len(group_history) :
    group_history[k].username = group_row.username /\ group_history[k].name = group_row.name

\* insertGroup() meets the UNIQUE key only if another worker has died: the Mutex covers
\* SELECT and INSERT.
NoGroupRace ==
  \A o \in Upd : group_pc[o] = "resolving" /\ GroupDuplicate(o) => group_alive # GroupProc

\* The history row that Group::trackPhoto() amends was made by the same object, from
\* the same update.
AmendsOwnGroup ==
  \A o \in Upd : group_historyId[o] # 0 =>
    /\ group_history[group_historyId[o]].name = titleOf[o]
    /\ group_history[group_historyId[o]].username = usernameOf[o]
    /\ \A x \in Upd : group_historyId[x] = group_historyId[o] => x = o

\* The photo in tg_groups goes back to an older one only when the database executes an UPDATE
\* that a dead worker had sent.
GroupPhotoForward ==
  [][group_row # NoGroup /\ group_row'.photo < group_row.photo =>
       \E o \in Upd : group_pc[o] = "orphanPhoto" /\ groupExecutes(o)]_groupVars

\* While all workers live, resolveGroup() returns only when the row says what its update
\* says, whatever other updates say of the group meanwhile.
ResolvedIsCurrent ==
  [][\A o \in Upd : resolveGroupInternal(o) /\ group_alive = GroupProc =>
       group_row'.username = usernameOf[o] /\ group_row'.name = titleOf[o]]_groupVars

\* What tg_groups says of the group is also in tg_group_history, whatever dies when.  A history
\* row is amended only by the object that made it, and insertGroup() meets the UNIQUE key only
\* after a death.  The photo goes back to an older one only by a late UPDATE of a worker that
\* has died.  While all workers live, resolveGroup() returns only when the row says what its
\* update says; an update with a new title does not get that far, for the database rejects it
\* and the worker dies (LoggerUtils/Group.php).
GroupKept ==
  /\ [](GroupTypeOK /\ InfoRecorded /\ NoGroupRace /\ AmendsOwnGroup)
  /\ GroupPhotoForward
  /\ ResolvedIsCurrent

\* Every update that a worker takes is finished, skipped or reported, or its worker dies.
RunEnds ==
  \A o \in Upd : group_pc[o] = "new" ~> group_pc[o] \in {"unset", "skipped", "done", "dead"}

\* "Check for group info update.": an update that shows a new title of a known group is
\* stored, not rejected by the database.
\* Refuted: the code does otherwise (README.md, Disagreements).
InfoUpdateAccepted ==
  \A o \in Upd : group_pc[o] = "resolving" => ~ renamed(o)

\* "Data has not been set": the assertion of resolveUser() that its data was set.
\* Refuted: the code does otherwise (README.md, Disagreements).
DataIsSet ==
  \A o \in Upd : group_pc[o] # "unset"
=============================================================================
