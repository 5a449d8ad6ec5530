--------------------------- MODULE UserLogProofs ---------------------------
(***************************************************************************)
(* Proofs about what the logger workers write of users (UserLog) and of    *)
(* groups (GroupLog), for any number of workers, updates and names.        *)
(***************************************************************************)
EXTENDS UserLog, GroupLog, TLAPS

USE UserAssumption

-----------------------------------------------------------------------------
\* What the database holds about the user.
DBInv ==
  /\ row \in Row \cup {NoRow}
  /\ history \in Seq(Row)
  /\ historyId \in [Obj -> Nat]
  /\ \A o \in Obj : historyId[o] <= Len(history)
  /\ AmendsOwnHistory
  /\ NameRecorded

\* A row that somebody has read or resolved is never deleted.
RowKnown ==
  \A o \in Obj :
    \/ seen[o] # NoRow
    \/ pc[o] \in {"resolved", "fetched", "stored", "orphanPhoto", "orphanHistory"}
    => row # NoRow

\* Each Mutex has one holder; only dead workers have left anything behind.
LockInv ==
  /\ \A o \in Obj : pc[o] \in Orphan \cup {"dead"} => procOf[o] \notin alive
  /\ \A o, x \in Obj : pc[o] = "resolving" /\ pc[x] = "resolving" => o = x
  /\ \A o, x \in Obj :
       pc[o] \in {"fetched", "stored"} /\ pc[x] \in {"fetched", "stored"} => o = x

\* The holder of trackPhoto()'s Mutex has fetched no older photo than the row has.
PhotoNotStale ==
  \A o \in Obj : pc[o] = "fetched" => row.photo <= fetched[o]

\* Nothing stored or on its way is newer than what Telegram shows, and what a dead
\* worker left behind is no newer than what the holder of the Mutex has fetched.
PhotoInv ==
  /\ \A o \in Obj : fetched[o] <= profile
  /\ row # NoRow => row.photo <= profile
  /\ PhotoNotStale
  /\ \A o, x \in Obj : pc[o] = "fetched" /\ pc[x] = "orphanPhoto" => fetched[x] <= fetched[o]

IInv == TypeOK /\ DBInv /\ RowKnown /\ LockInv /\ PhotoInv /\ NoInsertRace

\* The inductive invariant holds at the start of the daemon.
LEMMA InitInv == Init => IInv
<1> SUFFICES ASSUME Init PROVE IInv
  BY Zenon
<1>1. row \in Row \cup {NoRow} /\ history \in Seq(Row) /\ NameRecorded
      /\ (row # NoRow => row.photo = 0)
  <2>1. CASE row = NoRow /\ history = <<>>
    BY <2>1 DEF NameRecorded
  <2>2. ASSUME NEW n \in Name, row = [name |-> n, photo |-> 0], history = <<row>>
        PROVE  /\ row \in Row /\ history \in Seq(Row) /\ NameRecorded /\ row.photo = 0
    <3>1. row \in Row
      BY <2>2 DEF Row, Photo
    <3>2. Len(history) = 1 /\ history[1] = row
      BY <2>2, Zenon
    <3>3. QED BY <2>2, <3>1, <3>2 DEF NameRecorded
  <2>3. QED BY <2>1, <2>2, Zenon DEF Init
<1>2. TypeOK
  BY <1>1 DEF Init, TypeOK, Photo, PC
<1>3. DBInv
  BY <1>1 DEF Init, DBInv, AmendsOwnHistory
<1>4. RowKnown /\ LockInv /\ NoInsertRace
  BY Zenon DEF Init, RowKnown, LockInv, NoInsertRace, Orphan
<1>5. PhotoInv
  BY <1>1 DEF Init, PhotoInv, PhotoNotStale, Photo
<1>6. QED BY <1>2, <1>3, <1>4, <1>5, Zenon DEF IInv

-----------------------------------------------------------------------------
\* createUserHistory() appends a row with the object's names and keeps its id.
LEMMA CreateDB ==
  ASSUME TypeOK, DBInv, NEW o \in Obj, createUserHistory(o)
  PROVE  /\ history' \in Seq(Row) /\ Len(history') = Len(history) + 1
         /\ historyId' \in [Obj -> Nat] /\ \A x \in Obj : historyId'[x] <= Len(history')
         /\ \A k \in 1..Len(history) : history'[k] = history[k]
         /\ history'[Len(history')].name = nameOf[o]
         /\ AmendsOwnHistory'
<1> DEFINE r == [name |-> nameOf[o], photo |-> seenPhoto(o)]
<1>1. r \in Row /\ r.name = nameOf[o]
  BY DEF TypeOK, seenPhoto, Row, Photo
<1> HIDE DEF r
<1>2. history' = Append(history, r) /\ historyId' = [historyId EXCEPT ![o] = Len(history) + 1]
  BY Zenon DEF createUserHistory, lastInsertId, r
<1>3. history \in Seq(Row) /\ Len(history) \in Nat
  BY DEF DBInv
<1>4. /\ history' \in Seq(Row) /\ Len(history') = Len(history) + 1
      /\ \A k \in 1..Len(history) : history'[k] = history[k]
      /\ history'[Len(history) + 1] = r
  BY <1>1, <1>2, <1>3
<1>5. \A x \in Obj : historyId[x] \in Nat /\ historyId[x] <= Len(history)
  BY Zenon DEF DBInv
<1>6. \A x \in Obj : historyId'[x] = IF x = o THEN Len(history) + 1 ELSE historyId[x]
  BY <1>2, Zenon DEF DBInv
<1>7. historyId' \in [Obj -> Nat] /\ \A x \in Obj : historyId'[x] <= Len(history')
  BY <1>2, <1>3, <1>4, <1>5, <1>6 DEF DBInv
<1>8. AmendsOwnHistory'
  <2> SUFFICES ASSUME NEW x \in Obj, historyId'[x] # 0
               PROVE  /\ history'[historyId'[x]].name = nameOf[x]
                      /\ \A y \in Obj : historyId'[y] = historyId'[x] => y = x
    BY Zenon DEF AmendsOwnHistory
  <2>1. CASE x = o
    BY <1>1, <1>3, <1>4, <1>5, <1>6, <2>1
  <2>2. CASE x # o
    <3>1. historyId'[x] = historyId[x] /\ historyId[x] \in 1..Len(history)
      BY <1>3, <1>5, <1>6, <2>2
    <3>2. /\ history[historyId[x]].name = nameOf[x]
          /\ \A y \in Obj : historyId[y] = historyId[x] => y = x
      BY <3>1, Zenon DEF DBInv, AmendsOwnHistory
    <3>3. history'[historyId'[x]].name = nameOf[x]
      BY <1>4, <3>1, <3>2, Zenon
    <3>4. ASSUME NEW y \in Obj, historyId'[y] = historyId'[x] PROVE y = x
      <4>1. y # o
        BY <1>3, <1>6, <3>1, <3>4
      <4>2. QED BY <1>6, <3>1, <3>2, <3>4, <4>1, Zenon
    <3>5. QED BY <3>3, <3>4, Zenon
  <2>3. QED BY <2>1, <2>2, Zenon
<1>9. QED BY <1>1, <1>4, <1>7, <1>8, Zenon

\* A committed transaction leaves the row, and records its names.
LEMMA TransactionDB ==
  ASSUME TypeOK, DBInv, RowKnown, NEW o \in Obj, Transaction(o)
  PROVE  /\ DBInv' /\ row' # NoRow
         /\ row'.photo = IF row = NoRow THEN 0 ELSE row.photo
<1>1. seen[o] = NoRow <=> row = NoRow
  BY Zenon DEF Transaction, Duplicate, RowKnown
<1>2. row' = IF row = NoRow THEN [name |-> nameOf[o], photo |-> 0]
             ELSE IF doUpdate(o) THEN [row EXCEPT !.name = nameOf[o]] ELSE row
  BY <1>1, Zenon DEF Transaction
<1>3. /\ row' \in Row /\ row' # NoRow
      /\ row'.photo = IF row = NoRow THEN 0 ELSE row.photo
      /\ row'.name = IF needHistory(o) THEN nameOf[o] ELSE row.name
  BY <1>1, <1>2 DEF DBInv, Row, Photo, needHistory, doUpdate
<1>4. CASE needHistory(o)
  <2>1. createUserHistory(o)
    BY <1>4, Zenon DEF Transaction
  <2>2. /\ history' \in Seq(Row) /\ Len(history') = Len(history) + 1
        /\ historyId' \in [Obj -> Nat] /\ \A x \in Obj : historyId'[x] <= Len(history')
        /\ history'[Len(history')].name = nameOf[o]
        /\ AmendsOwnHistory'
    BY <2>1, CreateDB, Zenon
  <2>3. Len(history') \in 1..Len(history')
    BY <2>2 DEF DBInv
  <2>4. NameRecorded'
    BY <1>3, <1>4, <2>2, <2>3, Zenon DEF NameRecorded
  <2>5. QED BY <1>3, <2>2, <2>4, Zenon DEF DBInv
<1>5. CASE ~ needHistory(o)
  <2>1. history' = history /\ historyId' = historyId /\ row # NoRow
    BY <1>1, <1>5, Zenon DEF Transaction, needHistory
  <2>2. NameRecorded' /\ AmendsOwnHistory'
    BY <1>3, <1>5, <2>1, Zenon DEF DBInv, NameRecorded, AmendsOwnHistory
  <2>3. QED BY <1>3, <2>1, <2>2, Zenon DEF DBInv
<1>6. QED BY <1>4, <1>5, Zenon

\* The UPDATE of the photo alone.
LEMMA PhotoDB ==
  ASSUME TypeOK, DBInv, NEW o \in Obj, row # NoRow,
         row' = [row EXCEPT !.photo = fetched[o]], UNCHANGED <<history, historyId>>
  PROVE  DBInv' /\ row' # NoRow /\ row'.photo = fetched[o]
<1>1. row' \in Row /\ row' # NoRow /\ row'.photo = fetched[o] /\ row'.name = row.name
  BY Zenon DEF TypeOK, Row, Photo
<1>2. QED BY <1>1, Zenon DEF DBInv, NameRecorded, AmendsOwnHistory

\* The UPDATE of photo and history row together keeps every name.
LEMMA AmendDB ==
  ASSUME TypeOK, DBInv, NEW o \in Obj, row # NoRow, historyId[o] # 0,
         Amendment(o), UNCHANGED historyId
  PROVE  DBInv' /\ row' # NoRow /\ row'.photo = fetched[o]
<1>1. row' \in Row /\ row' # NoRow /\ row'.photo = fetched[o] /\ row'.name = row.name
  BY Zenon DEF TypeOK, Row, Photo, Amendment
<1> DEFINE h == historyId[o]
<1>2. h \in 1..Len(history) /\ history \in Seq(Row) /\ history[h] \in Row
  BY DEF DBInv
<1> DEFINE r == [history[h] EXCEPT !.photo = fetched[o]]
<1>3. r \in Row /\ r.name = history[h].name
  BY <1>2, Zenon DEF TypeOK, Row
<1>4. history' = [history EXCEPT ![h] = r]
  BY Zenon DEF Amendment
<1> HIDE DEF h, r
<1>5. /\ history' \in Seq(Row) /\ Len(history') = Len(history)
      /\ \A k \in 1..Len(history) : history'[k].name = history[k].name
  BY <1>2, <1>3, <1>4
<1>6. NameRecorded'
  BY <1>1, <1>5, Zenon DEF DBInv, NameRecorded
<1>7. AmendsOwnHistory'
  <2>1. \A x \in Obj : historyId[x] # 0 => historyId[x] \in 1..Len(history)
    BY DEF DBInv
  <2>2. QED BY <1>5, <2>1, Zenon DEF DBInv, AmendsOwnHistory
<1>8. QED BY <1>1, <1>5, <1>6, <1>7, Zenon DEF DBInv
-----------------------------------------------------------------------------
\* The types of what the workers hold, apart from the database.
CtlType ==
  /\ alive \in SUBSET Proc /\ profile \in Photo
  /\ pc \in [Obj -> PC] /\ seen \in [Obj -> Row \cup {NoRow}] /\ fetched \in [Obj -> Photo]

\* TypeOK is the types of the workers' state and of the database.
LEMMA Types == TypeOK <=> CtlType /\ row \in Row \cup {NoRow} /\ history \in Seq(Row)
                         /\ historyId \in [Obj -> Nat]
                         /\ \A o \in Obj : historyId[o] <= Len(history)
  BY Zenon DEF TypeOK, CtlType

\* resolveUser() begins: it is the only one under its Mutex, and has just read the row.
LEMMA BeginInv ==
  ASSUME IInv, NEW o \in Obj, resolveUser(o)
  PROVE  IInv'
<1> USE DEF IInv
<1>1. /\ pc[o] = "new" /\ procOf[o] \in alive /\ \A x \in Obj : pc[x] # "resolving"
      /\ pc' = [pc EXCEPT ![o] = "resolving"] /\ seen' = [seen EXCEPT ![o] = row]
      /\ UNCHANGED <<alive, profile, row, history, fetched, historyId>>
  BY Zenon DEF resolveUser, Runs, UserLocked
<1>2. \A x \in Obj : pc'[x] = IF x = o THEN "resolving" ELSE pc[x]
  BY <1>1, Zenon DEF TypeOK
<1>3. \A x \in Obj : seen'[x] = IF x = o THEN row ELSE seen[x]
  BY <1>1, Zenon DEF TypeOK
<1>4. TypeOK'
  BY <1>1, Zenon DEF TypeOK, PC
<1>5. DBInv'
  BY <1>1, Zenon DEF DBInv, AmendsOwnHistory, NameRecorded
<1>6. RowKnown' /\ NoInsertRace'
  BY <1>1, <1>2, <1>3 DEF RowKnown, NoInsertRace, Duplicate
<1>7. LockInv'
  BY <1>1, <1>2 DEF LockInv, Orphan
<1>8. PhotoInv'
  BY <1>1, <1>2 DEF PhotoInv, PhotoNotStale
<1>9. QED BY <1>4, <1>5, <1>6, <1>7, <1>8, Zenon

\* The transaction is committed, by its worker or by the database after the worker's
\* death.
LEMMA CommitInv ==
  ASSUME IInv, NEW o \in Obj, NEW s \in {"resolved", "dead"}, Transaction(o),
         \/ pc[o] = "resolving" /\ s = "resolved" /\ procOf[o] \in alive
         \/ pc[o] = "orphanTransaction" /\ s = "dead",
         pc' = [pc EXCEPT ![o] = s], UNCHANGED <<alive, profile, seen, fetched>>
  PROVE  IInv'
<1> USE DEF IInv
<1>1. /\ DBInv' /\ row' # NoRow
      /\ row'.photo = IF row = NoRow THEN 0 ELSE row.photo
  BY TransactionDB, Zenon
<1>2. \A x \in Obj : pc'[x] = IF x = o THEN s ELSE pc[x]
  BY Zenon DEF TypeOK
<1>3. TypeOK'
  <2>1. CtlType'
    BY Types, Zenon DEF CtlType, PC
  <2>2. QED BY <1>1, <2>1, Types, Zenon DEF DBInv, TypeOK, CtlType
<1>4. RowKnown'
  BY <1>1, Zenon DEF RowKnown
<1>5. LockInv'
  BY <1>2, Zenon DEF LockInv, Orphan
<1>6. NoInsertRace'
  <2> SUFFICES ASSUME NEW x \in Obj, pc'[x] = "resolving", alive = Proc PROVE FALSE
    BY Zenon DEF NoInsertRace
  <2>1. x # o /\ pc[x] = "resolving"
    BY <1>2, Zenon
  <2>2. procOf[o] \in alive
    BY <2>1, Zenon
  <2>3. pc[o] = "resolving"
    BY <2>2, Zenon DEF LockInv, Orphan
  <2>4. QED BY <2>1, <2>3, Zenon DEF LockInv
<1>7. PhotoInv'
  <2>1. profile \in Nat /\ \A x \in Obj : fetched[x] \in Nat
    BY DEF TypeOK, Photo
  <2>2. row'.photo <= profile
    BY <1>1, <2>1 DEF PhotoInv
  <2>3. PhotoNotStale'
    <3> SUFFICES ASSUME NEW x \in Obj, pc[x] = "fetched" PROVE row'.photo <= fetched[x]
      BY <1>2, Zenon DEF PhotoNotStale
    <3>1. row # NoRow
      BY Zenon DEF RowKnown
    <3>2. QED BY <1>1, <3>1, Zenon DEF PhotoInv, PhotoNotStale
  <2>4. QED BY <1>2, <2>2, <2>3, Zenon DEF PhotoInv
<1>8. QED BY <1>1, <1>3, <1>4, <1>5, <1>6, <1>7, Zenon

\* trackPhoto() has fetched a photo: nobody else is under its Mutex, and nothing
\* older workers left behind is newer.
LEMMA FetchInv ==
  ASSUME IInv, NEW o \in Obj, trackPhoto(o)
  PROVE  IInv'
<1> USE DEF IInv
<1>1. /\ pc[o] = "resolved" /\ procOf[o] \in alive
      /\ \A x \in Obj : pc[x] \notin {"fetched", "stored"}
      /\ pc' = [pc EXCEPT ![o] = "fetched"] /\ fetched' = [fetched EXCEPT ![o] = profile]
      /\ UNCHANGED <<alive, profile, row, history, seen, historyId>>
  BY Zenon DEF trackPhoto, Runs, PhotoLocked
<1>2. \A x \in Obj : pc'[x] = IF x = o THEN "fetched" ELSE pc[x]
  BY <1>1, Zenon DEF TypeOK
<1>3. \A x \in Obj : fetched'[x] = IF x = o THEN profile ELSE fetched[x]
  BY <1>1, Zenon DEF TypeOK
<1>4. TypeOK'
  BY <1>1, Zenon DEF TypeOK, PC
<1>5. DBInv'
  BY <1>1, Zenon DEF DBInv, AmendsOwnHistory, NameRecorded
<1>6. row # NoRow
  BY <1>1, Zenon DEF RowKnown
<1>7. RowKnown' /\ NoInsertRace'
  BY <1>1, <1>2, <1>6 DEF RowKnown, NoInsertRace, Duplicate
<1>8. LockInv'
  BY <1>1, <1>2 DEF LockInv, Orphan
<1>9. PhotoInv'
  <2>1. profile \in Nat
    BY DEF TypeOK, Photo
  <2>2. QED BY <1>1, <1>2, <1>3, <1>6, <2>1 DEF PhotoInv, PhotoNotStale
<1>10. QED BY <1>4, <1>5, <1>7, <1>8, <1>9, Zenon
\* The photo is written, by the holder of the Mutex or by the database after the
\* worker's death.
LEMMA WriteInv ==
  ASSUME IInv, NEW o \in Obj, NEW s \in {"stored", "done", "dead"},
         DBInv', row' # NoRow, row'.photo = fetched[o],
         \/ pc[o] = "fetched" /\ s # "dead" /\ procOf[o] \in alive
         \/ pc[o] = "orphanPhoto" /\ s = "dead",
         pc' = [pc EXCEPT ![o] = s], UNCHANGED <<alive, profile, seen, fetched>>
  PROVE  IInv'
<1> USE DEF IInv
<1>1. \A x \in Obj : pc'[x] = IF x = o THEN s ELSE pc[x]
  BY Zenon DEF TypeOK
<1>2. TypeOK'
  <2>1. CtlType'
    BY Types, Zenon DEF CtlType, PC
  <2>2. QED BY <2>1, Types, Zenon DEF DBInv, TypeOK, CtlType
<1>3. row # NoRow
  BY Zenon DEF RowKnown
<1>4. RowKnown' /\ NoInsertRace'
  BY <1>1, <1>3, Zenon DEF RowKnown, NoInsertRace, Duplicate
<1>5. LockInv'
  BY <1>1 DEF LockInv, Orphan
<1>6. PhotoInv'
  <2>1. row'.photo <= profile
    BY Zenon DEF PhotoInv
  <2>2. PhotoNotStale'
    <3> SUFFICES ASSUME NEW x \in Obj, pc'[x] = "fetched" PROVE fetched[o] <= fetched[x]
      BY Zenon DEF PhotoNotStale
    <3>1. x # o /\ pc[x] = "fetched"
      BY <1>1, Zenon
    <3>2. pc[o] = "orphanPhoto"
      BY <3>1, Zenon DEF LockInv
    <3>3. QED BY <3>1, <3>2, Zenon DEF PhotoInv
  <2>3. QED BY <1>1, <2>1, <2>2, Zenon DEF PhotoInv
<1>7. QED BY <1>2, <1>4, <1>5, <1>6, Zenon

\* The history row that follows the UPDATE of the photo is inserted.
LEMMA HistoryInv ==
  ASSUME IInv, NEW o \in Obj, NEW s \in {"done", "dead"}, createUserHistory(o), row' = row,
         \/ pc[o] = "stored" /\ s = "done" /\ procOf[o] \in alive
         \/ pc[o] = "orphanHistory" /\ s = "dead",
         pc' = [pc EXCEPT ![o] = s], UNCHANGED <<alive, profile, seen, fetched>>
  PROVE  IInv'
<1> USE DEF IInv
<1>1. \A x \in Obj : pc'[x] = IF x = o THEN s ELSE pc[x]
  BY Zenon DEF TypeOK
<1>2. /\ history' \in Seq(Row) /\ Len(history') = Len(history) + 1
      /\ historyId' \in [Obj -> Nat] /\ \A x \in Obj : historyId'[x] <= Len(history')
      /\ \A k \in 1..Len(history) : history'[k] = history[k]
      /\ AmendsOwnHistory'
  BY CreateDB, Zenon
<1>3. NameRecorded'
  <2>1. \A k \in 1..Len(history) : k \in 1..Len(history')
    BY <1>2 DEF DBInv
  <2>2. QED BY <1>2, <2>1, Zenon DEF DBInv, NameRecorded
<1>4. DBInv'
  BY <1>2, <1>3, Zenon DEF DBInv
<1>5. TypeOK'
  <2>1. CtlType'
    BY Types, Zenon DEF CtlType, PC
  <2>2. QED BY <1>4, <2>1, Types, Zenon DEF DBInv, TypeOK, CtlType
<1>6. RowKnown' /\ NoInsertRace'
  BY <1>1, Zenon DEF RowKnown, NoInsertRace, Duplicate
<1>7. LockInv'
  BY <1>1, Zenon DEF LockInv, Orphan
<1>8. PhotoInv'
  BY <1>1, Zenon DEF PhotoInv, PhotoNotStale
<1>9. QED BY <1>4, <1>5, <1>6, <1>7, <1>8, Zenon

\* trackPhoto() returns without writing, or the database drops what was left behind.
LEMMA LeaveInv ==
  ASSUME IInv, NEW o \in Obj, NEW s \in {"done", "dead"},
         \/ pc[o] \in {"resolved", "fetched"} /\ s = "done" /\ procOf[o] \in alive
         \/ pc[o] \in Orphan /\ s = "dead",
         pc' = [pc EXCEPT ![o] = s],
         UNCHANGED <<alive, profile, row, history, seen, fetched, historyId>>
  PROVE  IInv'
<1> USE DEF IInv
<1>1. \A x \in Obj : pc'[x] = IF x = o THEN s ELSE pc[x]
  BY Zenon DEF TypeOK
<1>2. TypeOK'
  BY Zenon DEF TypeOK, PC
<1>3. DBInv'
  BY Zenon DEF DBInv, AmendsOwnHistory, NameRecorded
<1>4. RowKnown' /\ NoInsertRace'
  BY <1>1, Zenon DEF RowKnown, NoInsertRace, Duplicate
<1>5. LockInv'
  BY <1>1, Zenon DEF LockInv, Orphan
<1>6. PhotoInv'
  BY <1>1, Zenon DEF PhotoInv, PhotoNotStale
<1>7. QED BY <1>2, <1>3, <1>4, <1>5, <1>6, Zenon

\* A worker dies: its Mutexes are free, its last statements stay with the database.
LEMMA ExitInv ==
  ASSUME IInv, NEW p \in Proc, exit(p)
  PROVE  IInv'
<1> USE DEF IInv
<1>1. /\ p \in alive /\ alive' = alive \ {p}
      /\ pc' = [x \in Obj |-> IF procOf[x] = p THEN LeftBehind(pc[x]) ELSE pc[x]]
      /\ UNCHANGED <<profile, row, history, seen, fetched, historyId>>
  BY Zenon DEF exit
<1>2. \A x \in Obj : procOf[x] # p => pc'[x] = pc[x]
  BY <1>1, Zenon
<1>3. \A x \in Obj : procOf[x] = p =>
        /\ pc'[x] \in Orphan \cup {"dead"}
        /\ pc'[x] = "orphanPhoto" => pc[x] = "fetched"
        /\ pc'[x] = "orphanHistory" => pc[x] = "stored"
  <2> SUFFICES ASSUME NEW x \in Obj, procOf[x] = p
               PROVE  /\ LeftBehind(pc[x]) \in Orphan \cup {"dead"}
                      /\ LeftBehind(pc[x]) = "orphanPhoto" => pc[x] = "fetched"
                      /\ LeftBehind(pc[x]) = "orphanHistory" => pc[x] = "stored"
    BY <1>1, Zenon
  <2>1. pc[x] \in PC
    BY Zenon DEF TypeOK
  <2>2. QED BY <2>1, Zenon DEF LeftBehind, PC, Orphan
<1>4. TypeOK'
  <2>1. \A x \in Obj : pc'[x] \in PC
    BY <1>2, <1>3, Zenon DEF TypeOK, PC
  <2>2. pc' \in [Obj -> PC]
    BY <1>1, <2>1, Zenon
  <2>3. QED BY <1>1, <2>2, Zenon DEF TypeOK
<1>5. DBInv'
  BY <1>1, Zenon DEF DBInv, AmendsOwnHistory, NameRecorded
<1>6. RowKnown'
  BY <1>1, <1>2, <1>3, Zenon DEF RowKnown, Orphan
<1>7. NoInsertRace'
  BY <1>1, Zenon DEF NoInsertRace, TypeOK
<1>8. LockInv'
  BY <1>1, <1>2, <1>3, Zenon DEF LockInv, Orphan
<1>9. PhotoInv'
  <2>1. \A x \in Obj : pc'[x] = "fetched" => pc[x] = "fetched" /\ procOf[x] # p
    BY <1>2, <1>3, Zenon DEF Orphan
  <2>2. ASSUME NEW x \in Obj, NEW y \in Obj, pc'[x] = "fetched", pc'[y] = "orphanPhoto"
        PROVE  fetched[y] <= fetched[x]
    <3>1. pc[y] = "orphanPhoto"
      BY <1>2, <1>3, <2>1, <2>2, Zenon DEF LockInv
    <3>2. QED BY <2>1, <2>2, <3>1, Zenon DEF PhotoInv
  <2>3. QED BY <1>1, <2>1, <2>2, Zenon DEF PhotoInv, PhotoNotStale
<1>10. QED BY <1>4, <1>5, <1>6, <1>7, <1>8, <1>9, Zenon

\* Every step of the workers, the database and the user keeps the invariant.
LEMMA StepInv == IInv /\ [Next]_vars => IInv'
<1> SUFFICES ASSUME IInv, [Next]_vars PROVE IInv'
  BY Zenon
<1>0. TypeOK /\ DBInv /\ RowKnown
  BY Zenon DEF IInv
<1>1. ASSUME NEW o \in Obj, Resolve(o) PROVE IInv'
  <2>1. CASE resolveUser(o)
    BY <2>1, BeginInv, Zenon
  <2>2. CASE resolveUserInternal(o)
    BY <2>2, CommitInv, Zenon DEF resolveUserInternal, Runs
  <2>3. CASE insertRejected(o)
    BY <2>3, ExitInv, Zenon DEF insertRejected
  <2>4. QED BY <1>1, <2>1, <2>2, <2>3, Zenon DEF Resolve
<1>2. ASSUME NEW o \in Obj, Track(o) PROVE IInv'
  <2>1. CASE trackPhoto(o)
    BY <2>1, FetchInv, Zenon
  <2>2. CASE noPhoto(o) \/ noFile(o)
    BY <2>2, LeaveInv, Zenon DEF noPhoto, noFile, Runs
  <2>3. CASE storePhoto(o)
    <3>1. row # NoRow
      BY <1>0, <2>3, Zenon DEF storePhoto, RowKnown
    <3>2. DBInv' /\ row' # NoRow /\ row'.photo = fetched[o]
      BY <1>0, <2>3, <3>1, PhotoDB, Zenon DEF storePhoto
    <3>3. QED BY <2>3, <3>2, WriteInv, Zenon DEF storePhoto, Runs
  <2>4. CASE newHistory(o)
    BY <2>4, HistoryInv, Zenon DEF newHistory, Runs
  <2>5. CASE amendHistory(o)
    <3>1. row # NoRow
      BY <1>0, <2>5, Zenon DEF amendHistory, RowKnown
    <3>2. DBInv' /\ row' # NoRow /\ row'.photo = fetched[o]
      BY <1>0, <2>5, <3>1, AmendDB, Zenon DEF amendHistory
    <3>3. QED BY <2>5, <3>2, WriteInv, Zenon DEF amendHistory, Runs
  <2>6. QED BY <1>2, <2>1, <2>2, <2>3, <2>4, <2>5, Zenon DEF Track
<1>3. ASSUME NEW o \in Obj, serverExecutes(o) PROVE IInv'
  <2>0. pc' = [pc EXCEPT ![o] = "dead"] /\ UNCHANGED <<alive, profile, seen, fetched>>
    BY <1>3, Zenon DEF serverExecutes
  <2>1. CASE pc[o] = "orphanTransaction" /\ Transaction(o)
    BY <2>0, <2>1, CommitInv, Zenon
  <2>2. CASE pc[o] = "orphanPhoto"
    <3>1. row # NoRow
      BY <1>0, <2>2, Zenon DEF RowKnown
    <3>2. \/ row' = [row EXCEPT !.photo = fetched[o]] /\ UNCHANGED <<history, historyId>>
          \/ historyId[o] # 0 /\ Amendment(o) /\ UNCHANGED historyId
      BY <1>3, <2>2, Zenon DEF serverExecutes
    <3>3. DBInv' /\ row' # NoRow /\ row'.photo = fetched[o]
      BY <1>0, <3>1, <3>2, PhotoDB, AmendDB, Zenon
    <3>4. QED BY <2>0, <2>2, <3>3, WriteInv, Zenon
  <2>3. CASE pc[o] = "orphanHistory" /\ createUserHistory(o) /\ row' = row
    BY <2>0, <2>3, HistoryInv, Zenon
  <2>4. QED BY <1>3, <2>1, <2>2, <2>3, Zenon DEF serverExecutes
<1>4. ASSUME NEW o \in Obj, serverDrops(o) PROVE IInv'
  BY <1>4, LeaveInv, Zenon DEF serverDrops
<1>5. ASSUME NEW p \in Proc, exit(p) PROVE IInv'
  BY <1>5, ExitInv, Zenon
<1>6. CASE changePhoto
  <2>1. profile' = profile + 1 /\ profile' \in Photo /\ profile \in Nat
        /\ \A x \in Obj : fetched[x] \in Nat
    BY <1>0, <1>6 DEF changePhoto, TypeOK, Photo
  <2>2. TypeOK'
    BY <1>0, <1>6, <2>1, Zenon DEF changePhoto, TypeOK
  <2>3. DBInv' /\ RowKnown' /\ LockInv' /\ NoInsertRace'
    BY <1>6, Zenon DEF changePhoto, IInv, DBInv, AmendsOwnHistory, NameRecorded, RowKnown,
                LockInv, NoInsertRace, Duplicate
  <2>4. row # NoRow => row.photo \in Nat
    BY <1>0 DEF TypeOK, Row, Photo
  <2>5. PhotoInv'
    BY <1>6, <2>1, <2>4 DEF changePhoto, IInv, PhotoInv, PhotoNotStale
  <2>6. QED BY <2>2, <2>3, <2>5, Zenon DEF IInv
<1>7. CASE UNCHANGED vars
  BY <1>7, Zenon DEF vars, IInv, TypeOK, DBInv, AmendsOwnHistory, NameRecorded, RowKnown,
              LockInv, NoInsertRace, Duplicate, PhotoInv, PhotoNotStale
<1>8. QED BY <1>1, <1>2, <1>3, <1>4, <1>5, <1>6, <1>7, Zenon DEF Next

\* The inductive invariant of user logging.
THEOREM Invariance == Spec => []IInv
  BY InitInv, StepInv, PTL DEF Spec

\* Types of user logging.
THEOREM TypeCorrect == Spec => []TypeOK
<1>1. IInv => TypeOK
  BY Zenon DEF IInv
<1>2. QED BY <1>1, Invariance, PTL

\* While no worker has died, insertUser() never meets the UNIQUE key.
THEOREM InsertRaceFree == Spec => []NoInsertRace
<1>1. IInv => NoInsertRace
  BY Zenon DEF IInv
<1>2. QED BY <1>1, Invariance, PTL

\* Whatever dies when, the names in tg_users are in tg_user_history, and the history
\* row an object amends is its own.
THEOREM HistoryComplete == Spec => [](NameRecorded /\ AmendsOwnHistory)
<1>1. IInv => NameRecorded /\ AmendsOwnHistory
  BY Zenon DEF IInv, DBInv
<1>2. QED BY <1>1, Invariance, PTL

\* A step that is not the late UPDATE of a dead worker does not set the photo back.
LEMMA PhotoStep ==
  ASSUME IInv, [Next]_vars, row # NoRow,
         ~ \E o \in Obj : pc[o] = "orphanPhoto" /\ serverExecutes(o)
  PROVE  ~ (row'.photo < row.photo)
<1>0. row \in Row /\ row.photo \in Nat /\ \A o \in Obj : fetched[o] \in Nat
  BY DEF IInv, TypeOK, Row, Photo
<1>1. ASSUME NEW o \in Obj, Transaction(o) PROVE row'.photo = row.photo
  BY <1>0, <1>1, Zenon DEF Transaction, Duplicate, Row
<1>2. ASSUME NEW o \in Obj, pc[o] = "fetched", row' = [row EXCEPT !.photo = fetched[o]]
      PROVE  row.photo <= row'.photo /\ row'.photo \in Nat
  <2>1. row'.photo = fetched[o]
    BY <1>0, <1>2, Zenon DEF Row
  <2> QED
    BY <1>0, <1>2, <2>1, Zenon DEF IInv, PhotoInv, PhotoNotStale
<1>3. row'.photo = row.photo \/ (row.photo <= row'.photo /\ row'.photo \in Nat)
  <2>1. ASSUME NEW o \in Obj, Resolve(o)
        PROVE  row'.photo = row.photo
    BY <1>1, <2>1, Zenon DEF Resolve, resolveUser, resolveUserInternal, insertRejected, exit
  <2>2. ASSUME NEW o \in Obj, Track(o)
        PROVE  row' = row \/ (pc[o] = "fetched" /\ row' = [row EXCEPT !.photo = fetched[o]])
    BY <2>2, Zenon DEF Track, trackPhoto, noPhoto, noFile, storePhoto, newHistory, amendHistory,
                       Amendment
  <2>3. ASSUME NEW o \in Obj, serverExecutes(o) PROVE row'.photo = row.photo
    BY <1>1, <2>3, Zenon DEF serverExecutes
  <2>4. ASSUME (\E o \in Obj : serverDrops(o)) \/ (\E p \in Proc : exit(p)) \/ changePhoto
               \/ UNCHANGED vars
        PROVE  row' = row
    BY <2>4, Zenon DEF serverDrops, exit, changePhoto, vars
  <2> QED
    BY <1>2, <2>1, <2>2, <2>3, <2>4, Zenon DEF Next
<1> QED
  BY <1>0, <1>3

\* The photo in tg_users is set back only by a late UPDATE of a dead worker.
THEOREM PhotoFresh == Spec => PhotoForward
<1>1. IInv /\ [Next]_vars =>
        [row # NoRow /\ row'.photo < row.photo =>
           \E o \in Obj : pc[o] = "orphanPhoto" /\ serverExecutes(o)]_vars
  BY PhotoStep, Zenon
<1> QED
  BY <1>1, Invariance, PTL DEF Spec, PhotoForward

\* What the tables hold of a user, for any number of objects and workers, any of which may
\* die at any step: names are not forgotten, histories are the objects' own, and only a late
\* UPDATE of a dead worker sets the photo back.
THEOREM UserIsKept == Spec => UserKept
  BY TypeCorrect, InsertRaceFree, HistoryComplete, PhotoFresh, PTL DEF UserKept

-----------------------------------------------------------------------------
(* GroupLog                                                                *)

HIDE UserAssumption
USE GroupAssumption

\* What the database holds about the group.
GroupDB ==
  /\ group_row \in GroupRow \cup {NoGroup}
  /\ group_history \in Seq(GroupRow)
  /\ group_historyId \in [Upd -> Nat]
  /\ \A o \in Upd : group_historyId[o] <= Len(group_history)
  /\ AmendsOwnGroup
  /\ InfoRecorded

\* A row that somebody has read or resolved is never deleted, and keeps its title: the UPDATE
\* that would change it is rejected.
GroupKnown ==
  \A o \in Upd :
    /\ \/ group_seen[o] # NoGroup
       \/ group_pc[o] \in {"resolved", "fetched", "stored", "orphanPhoto", "orphanHistory"}
       => group_row # NoGroup
    /\ group_seen[o] # NoGroup => group_row.name = group_seen[o].name

\* Each Mutex has one holder; only dead workers have left anything behind.
GroupLocks ==
  /\ \A o \in Upd : group_pc[o] \in GroupOrphan \cup {"dead"} => updProc[o] \notin group_alive
  /\ \A o, x \in Upd : group_pc[o] = "resolving" /\ group_pc[x] = "resolving" => o = x
  /\ \A o, x \in Upd :
       group_pc[o] \in {"fetched", "stored"} /\ group_pc[x] \in {"fetched", "stored"} => o = x

\* The holder of Group::trackPhoto()'s Mutex has fetched no older photo than the row has.
GroupPhotoNotStale ==
  \A o \in Upd : group_pc[o] = "fetched" => group_row.photo <= group_fetched[o]

\* Nothing stored or on its way is newer than what Telegram shows, and what a dead
\* worker left behind is no newer than what the holder of the Mutex has fetched.
GroupPhotos ==
  /\ \A o \in Upd : group_fetched[o] <= group_profile
  /\ group_row # NoGroup => group_row.photo <= group_profile
  /\ GroupPhotoNotStale
  /\ \A o, x \in Upd : group_pc[o] = "fetched" /\ group_pc[x] = "orphanPhoto" => group_fetched[x] <= group_fetched[o]

\* While all workers live, the row that resolveGroup() has read is still what the table says,
\* apart from the photo.
SeenCurrent ==
  group_alive = GroupProc =>
    \A o \in Upd : group_pc[o] = "resolving" =>
      /\ group_seen[o] = NoGroup => group_row = NoGroup
      /\ group_seen[o] # NoGroup => /\ group_row.username = group_seen[o].username
                                    /\ group_row.name = group_seen[o].name

GroupInv == GroupTypeOK /\ GroupDB /\ GroupKnown /\ GroupLocks /\ GroupPhotos /\ SeenCurrent

\* The inductive invariant holds at the start of the daemon.
LEMMA InitGroup == GroupInit => GroupInv
<1> SUFFICES ASSUME GroupInit PROVE GroupInv
  BY Zenon
<1>1. GroupTypeOK
  BY DEF GroupInit, GroupTypeOK, GroupPhoto, GroupPC
<1>2. GroupDB
  BY DEF GroupInit, GroupDB, AmendsOwnGroup, InfoRecorded
<1>3. GroupKnown /\ GroupLocks /\ SeenCurrent
  BY Zenon DEF GroupInit, GroupKnown, GroupLocks, SeenCurrent, GroupOrphan
<1>4. GroupPhotos
  BY DEF GroupInit, GroupPhotos, GroupPhotoNotStale, GroupPhoto
<1> QED
  BY <1>1, <1>2, <1>3, <1>4, Zenon DEF GroupInv

-----------------------------------------------------------------------------
\* createUserHistory() appends a row with the object's names and keeps its id.
LEMMA CreateGroup ==
  ASSUME GroupTypeOK, GroupDB, NEW o \in Upd, createGroupHistory(o)
  PROVE  /\ group_history' \in Seq(GroupRow) /\ Len(group_history') = Len(group_history) + 1
         /\ group_historyId' \in [Upd -> Nat]
         /\ \A x \in Upd : group_historyId'[x] <= Len(group_history')
         /\ \A k \in 1..Len(group_history) : group_history'[k] = group_history[k]
         /\ group_history'[Len(group_history')].name = titleOf[o]
         /\ group_history'[Len(group_history')].username = usernameOf[o]
         /\ AmendsOwnGroup'
<1> DEFINE r == [username |-> usernameOf[o], name |-> titleOf[o], photo |-> seenGroupPhoto(o)]
<1>1. r \in GroupRow /\ r.username = usernameOf[o] /\ r.name = titleOf[o]
  BY DEF GroupTypeOK, seenGroupPhoto, GroupRow, GroupPhoto
<1> HIDE DEF r
<1>2. group_history' = Append(group_history, r) /\ group_historyId' = [group_historyId EXCEPT ![o] = Len(group_history) + 1]
  BY Zenon DEF createGroupHistory, lastGroupId, r
<1>3. group_history \in Seq(GroupRow) /\ Len(group_history) \in Nat
  BY DEF GroupDB
<1>4. /\ group_history' \in Seq(GroupRow) /\ Len(group_history') = Len(group_history) + 1
      /\ \A k \in 1..Len(group_history) : group_history'[k] = group_history[k]
      /\ group_history'[Len(group_history) + 1] = r
  BY <1>1, <1>2, <1>3
<1>5. \A x \in Upd : group_historyId[x] \in Nat /\ group_historyId[x] <= Len(group_history)
  BY Zenon DEF GroupDB
<1>6. \A x \in Upd : group_historyId'[x] = IF x = o THEN Len(group_history) + 1 ELSE group_historyId[x]
  BY <1>2, Zenon DEF GroupDB
<1>7. group_historyId' \in [Upd -> Nat] /\ \A x \in Upd : group_historyId'[x] <= Len(group_history')
  BY <1>2, <1>3, <1>4, <1>5, <1>6 DEF GroupDB
<1>8. AmendsOwnGroup'
  <2> SUFFICES ASSUME NEW x \in Upd, group_historyId'[x] # 0
               PROVE  /\ group_history'[group_historyId'[x]].name = titleOf[x]
                      /\ group_history'[group_historyId'[x]].username = usernameOf[x]
                      /\ \A y \in Upd : group_historyId'[y] = group_historyId'[x] => y = x
    BY Zenon DEF AmendsOwnGroup
  <2>1. CASE x = o
    <3>1. group_historyId'[x] = Len(group_history) + 1 /\ group_history'[group_historyId'[x]] = r
      BY <1>4, <1>6, <2>1, Zenon
    <3>2. ASSUME NEW y \in Upd, group_historyId'[y] = group_historyId'[x] PROVE y = x
      BY <1>3, <1>5, <1>6, <2>1, <3>1, <3>2
    <3> QED
      BY <1>1, <2>1, <3>1, <3>2, Zenon
  <2>2. CASE x # o
    <3>1. group_historyId'[x] = group_historyId[x] /\ group_historyId[x] \in 1..Len(group_history)
      BY <1>3, <1>5, <1>6, <2>2
    <3>2. /\ group_history[group_historyId[x]].name = titleOf[x]
          /\ group_history[group_historyId[x]].username = usernameOf[x]
          /\ \A y \in Upd : group_historyId[y] = group_historyId[x] => y = x
      BY <3>1, Zenon DEF GroupDB, AmendsOwnGroup
    <3>3. /\ group_history'[group_historyId'[x]].name = titleOf[x]
          /\ group_history'[group_historyId'[x]].username = usernameOf[x]
      BY <1>4, <3>1, <3>2, Zenon
    <3>4. ASSUME NEW y \in Upd, group_historyId'[y] = group_historyId'[x] PROVE y = x
      <4>1. y # o
        BY <1>3, <1>6, <3>1, <3>4
      <4>2. QED BY <1>6, <3>1, <3>2, <3>4, <4>1, Zenon
    <3>5. QED BY <3>3, <3>4, Zenon
  <2>3. QED BY <2>1, <2>2, Zenon
<1>9. QED BY <1>1, <1>4, <1>7, <1>8, Zenon

\* A committed transaction leaves the row, and records its names.
LEMMA TransactionGroup ==
  ASSUME GroupTypeOK, GroupDB, GroupKnown, NEW o \in Upd, GroupTransaction(o)
  PROVE  /\ GroupDB' /\ group_row' # NoGroup
         /\ group_row'.photo = IF group_row = NoGroup THEN 0 ELSE group_row.photo
         /\ group_row # NoGroup => group_row'.name = group_row.name
<1>1. /\ group_seen[o] = NoGroup <=> group_row = NoGroup
      /\ group_row # NoGroup => group_row.name = titleOf[o]
  BY Zenon DEF GroupTransaction, GroupDuplicate, GroupKnown, renamed
<1>2. group_row' = IF group_row = NoGroup
                     THEN [username |-> usernameOf[o], name |-> titleOf[o], photo |-> 0]
                   ELSE IF groupUpdate(o) THEN [group_row EXCEPT !.username = usernameOf[o]]
                   ELSE group_row
  BY <1>1, Zenon DEF GroupTransaction
<1>3. /\ group_row' \in GroupRow /\ group_row' # NoGroup
      /\ group_row'.photo = IF group_row = NoGroup THEN 0 ELSE group_row.photo
      /\ group_row'.name = titleOf[o]
      /\ group_row'.username = IF needGroupHistory(o) THEN usernameOf[o] ELSE group_row.username
  <2>1. CASE group_row = NoGroup
    BY <1>1, <1>2, <2>1 DEF GroupRow, GroupPhoto, needGroupHistory
  <2>2. CASE group_row # NoGroup /\ groupUpdate(o)
    <3>1. group_row \in GroupRow
      BY <2>2, Zenon DEF GroupDB
    <3>2. group_row' = [group_row EXCEPT !.username = usernameOf[o]] /\ usernameOf[o] \in Username
      BY <1>2, <2>2, Zenon
    <3>3. /\ group_row' \in GroupRow
          /\ group_row'.photo = group_row.photo /\ group_row'.name = group_row.name
          /\ group_row'.username = usernameOf[o]
      BY <3>1, <3>2, Zenon DEF GroupRow
    <3>4. NoGroup \notin GroupRow
      BY Zenon DEF GroupRow, GroupPhoto
    <3> QED
      BY <1>1, <2>2, <3>3, <3>4, Zenon DEF needGroupHistory
  <2>3. CASE group_row # NoGroup /\ ~ groupUpdate(o)
    BY <1>1, <1>2, <2>3, Zenon DEF GroupDB, needGroupHistory
  <2> QED
    BY <2>1, <2>2, <2>3, Zenon
<1>4. CASE needGroupHistory(o)
  <2>1. createGroupHistory(o)
    BY <1>4, Zenon DEF GroupTransaction
  <2>2. /\ group_history' \in Seq(GroupRow) /\ Len(group_history') = Len(group_history) + 1
        /\ group_historyId' \in [Upd -> Nat]
        /\ \A x \in Upd : group_historyId'[x] <= Len(group_history')
        /\ group_history'[Len(group_history')].name = titleOf[o]
         /\ group_history'[Len(group_history')].username = usernameOf[o]
        /\ AmendsOwnGroup'
    BY <2>1, CreateGroup, Zenon
  <2>3. Len(group_history') \in 1..Len(group_history')
    BY <2>2 DEF GroupDB
  <2>4. InfoRecorded'
    BY <1>3, <1>4, <2>2, <2>3, Zenon DEF InfoRecorded
  <2>5. QED BY <1>1, <1>3, <2>2, <2>4, Zenon DEF GroupDB
<1>5. CASE ~ needGroupHistory(o)
  <2>1. group_history' = group_history /\ group_historyId' = group_historyId /\ group_row # NoGroup
    BY <1>1, <1>5, Zenon DEF GroupTransaction, needGroupHistory
  <2>2. InfoRecorded' /\ AmendsOwnGroup'
    BY <1>1, <1>3, <1>5, <2>1, Zenon DEF GroupDB, InfoRecorded, AmendsOwnGroup
  <2>3. QED BY <1>1, <1>3, <2>1, <2>2, Zenon DEF GroupDB
<1>6. QED BY <1>1, <1>3, <1>4, <1>5, Zenon

\* The UPDATE of the photo alone.
LEMMA PhotoGroup ==
  ASSUME GroupTypeOK, GroupDB, NEW o \in Upd, group_row # NoGroup,
         group_row' = [group_row EXCEPT !.photo = group_fetched[o]], UNCHANGED <<group_history,
             group_historyId>>
  PROVE  /\ GroupDB' /\ group_row' # NoGroup /\ group_row'.photo = group_fetched[o]
         /\ group_row'.name = group_row.name /\ group_row'.username = group_row.username
<1>1. /\ group_row' \in GroupRow /\ group_row' # NoGroup /\ group_row'.photo = group_fetched[o]
      /\ group_row'.name = group_row.name /\ group_row'.username = group_row.username
  BY Zenon DEF GroupTypeOK, GroupRow, GroupPhoto
<1>2. QED BY <1>1, Zenon DEF GroupDB, InfoRecorded, AmendsOwnGroup

\* The UPDATE of photo and history row together keeps every name.
LEMMA AmendGroup ==
  ASSUME GroupTypeOK, GroupDB, NEW o \in Upd, group_row # NoGroup, group_historyId[o] # 0,
         GroupAmendment(o), UNCHANGED group_historyId
  PROVE  /\ GroupDB' /\ group_row' # NoGroup /\ group_row'.photo = group_fetched[o]
         /\ group_row'.name = group_row.name /\ group_row'.username = group_row.username
<1>1. /\ group_row' \in GroupRow /\ group_row' # NoGroup /\ group_row'.photo = group_fetched[o]
      /\ group_row'.name = group_row.name /\ group_row'.username = group_row.username
  BY ZenonT(40) DEF GroupTypeOK, GroupRow, GroupPhoto, GroupAmendment
<1> DEFINE h == group_historyId[o]
<1>2. h \in 1..Len(group_history) /\ group_history \in Seq(GroupRow) /\ group_history[h] \in GroupRow
  BY DEF GroupDB
<1> DEFINE r == [group_history[h] EXCEPT !.photo = group_fetched[o]]
<1>3. /\ r \in GroupRow /\ r.name = group_history[h].name
      /\ r.username = group_history[h].username
  BY <1>2, Zenon DEF GroupTypeOK, GroupRow
<1>4. group_history' = [group_history EXCEPT ![h] = r]
  BY Zenon DEF GroupAmendment
<1> HIDE DEF h, r
<1>5. /\ group_history' \in Seq(GroupRow) /\ Len(group_history') = Len(group_history)
      /\ \A k \in 1..Len(group_history) :
           /\ group_history'[k].name = group_history[k].name
           /\ group_history'[k].username = group_history[k].username
  BY <1>2, <1>3, <1>4
<1>6. InfoRecorded'
  BY <1>1, <1>5, Zenon DEF GroupDB, InfoRecorded
<1>7. AmendsOwnGroup'
  <2>1. \A x \in Upd : group_historyId[x] # 0 => group_historyId[x] \in 1..Len(group_history)
    BY DEF GroupDB
  <2>2. QED BY <1>5, <2>1, Zenon DEF GroupDB, AmendsOwnGroup
<1>8. QED BY <1>1, <1>5, <1>6, <1>7, Zenon DEF GroupDB
-----------------------------------------------------------------------------
\* The types of what the workers hold, apart from the database.
GroupCtl ==
  /\ group_alive \in SUBSET GroupProc /\ group_profile \in GroupPhoto
  /\ group_pc \in [Upd -> GroupPC] /\ group_seen \in [Upd -> GroupRow \cup {NoGroup}]
  /\ group_fetched \in [Upd -> GroupPhoto]

\* TypeOK is the types of the workers' state and of the database.
LEMMA GroupTypes == GroupTypeOK <=> GroupCtl /\ group_row \in GroupRow \cup {NoGroup} /\ group_history \in Seq(GroupRow)
                         /\ group_historyId \in [Upd -> Nat]
                         /\ \A o \in Upd : group_historyId[o] <= Len(group_history)
  BY Zenon DEF GroupTypeOK, GroupCtl

\* resolveGroup() begins: it is the only one under its Mutex, and has just read the row.
LEMMA BeginGroup ==
  ASSUME GroupInv, NEW o \in Upd, resolveGroup(o)
  PROVE  GroupInv'
<1> USE DEF GroupInv
<1>1. /\ group_pc[o] = "group" /\ updProc[o] \in group_alive
      /\ \A x \in Upd : group_pc[x] # "resolving"
      /\ group_pc' = [group_pc EXCEPT ![o] = "resolving"]
      /\ group_seen' = [group_seen EXCEPT ![o] = group_row]
      /\ UNCHANGED <<group_alive, group_profile, group_row, group_history, group_fetched,
                     group_historyId>>
  BY Zenon DEF resolveGroup, GroupRuns, GroupLocked
<1>2. \A x \in Upd : group_pc'[x] = IF x = o THEN "resolving" ELSE group_pc[x]
  BY <1>1, Zenon DEF GroupTypeOK
<1>3. \A x \in Upd : group_seen'[x] = IF x = o THEN group_row ELSE group_seen[x]
  BY <1>1, Zenon DEF GroupTypeOK
<1>4. GroupTypeOK'
  BY <1>1, Zenon DEF GroupTypeOK, GroupPC
<1>5. GroupDB'
  BY <1>1, Zenon DEF GroupDB, AmendsOwnGroup, InfoRecorded
<1>6. GroupKnown' /\ SeenCurrent'
  BY <1>1, <1>2, <1>3 DEF GroupKnown, SeenCurrent
<1>7. GroupLocks'
  BY <1>1, <1>2 DEF GroupLocks, GroupOrphan
<1>8. GroupPhotos'
  BY <1>1, <1>2 DEF GroupPhotos, GroupPhotoNotStale
<1>9. QED BY <1>4, <1>5, <1>6, <1>7, <1>8, Zenon

\* The transaction is committed, by its worker or by the database after the worker's
\* death.
LEMMA CommitGroup ==
  ASSUME GroupInv, NEW o \in Upd, NEW s \in {"resolved", "dead"}, GroupTransaction(o),
         \/ group_pc[o] = "resolving" /\ s = "resolved" /\ updProc[o] \in group_alive
         \/ group_pc[o] = "orphanTransaction" /\ s = "dead",
         group_pc' = [group_pc EXCEPT ![o] = s], UNCHANGED <<group_alive, group_profile,
             group_seen, group_fetched>>
  PROVE  GroupInv'
<1> USE DEF GroupInv
<1>1. /\ GroupDB' /\ group_row' # NoGroup
      /\ group_row'.photo = IF group_row = NoGroup THEN 0 ELSE group_row.photo
      /\ group_row # NoGroup => group_row'.name = group_row.name
  BY TransactionGroup, Zenon
<1>2. \A x \in Upd : group_pc'[x] = IF x = o THEN s ELSE group_pc[x]
  BY Zenon DEF GroupTypeOK
<1>3. GroupTypeOK'
  <2>1. GroupCtl'
    BY GroupTypes, Zenon DEF GroupCtl, GroupPC
  <2>2. QED BY <1>1, <2>1, GroupTypes, Zenon DEF GroupDB, GroupTypeOK, GroupCtl
<1>4. GroupKnown'
  BY <1>1, Zenon DEF GroupKnown
<1>5. GroupLocks'
  BY <1>2 DEF GroupLocks, GroupOrphan
<1>6. SeenCurrent'
  <2> SUFFICES ASSUME NEW x \in Upd, group_pc'[x] = "resolving", group_alive = GroupProc PROVE FALSE
    BY Zenon DEF SeenCurrent
  <2>1. x # o /\ group_pc[x] = "resolving"
    BY <1>2, Zenon
  <2>2. updProc[o] \in group_alive
    BY <2>1, Zenon
  <2>3. group_pc[o] = "resolving"
    BY <2>2, Zenon DEF GroupLocks, GroupOrphan
  <2>4. QED BY <2>1, <2>3, Zenon DEF GroupLocks
<1>7. GroupPhotos'
  <2>1. group_profile \in Nat /\ \A x \in Upd : group_fetched[x] \in Nat
    BY DEF GroupTypeOK, GroupPhoto
  <2>2. group_row'.photo <= group_profile
    BY <1>1, <2>1 DEF GroupPhotos
  <2>3. GroupPhotoNotStale'
    <3> SUFFICES ASSUME NEW x \in Upd, group_pc[x] = "fetched" PROVE group_row'.photo <= group_fetched[x]
      BY <1>2, Zenon DEF GroupPhotoNotStale
    <3>1. group_row # NoGroup
      BY Zenon DEF GroupKnown
    <3>2. QED BY <1>1, <3>1, Zenon DEF GroupPhotos, GroupPhotoNotStale
  <2>4. QED BY <1>2, <2>2, <2>3, Zenon DEF GroupPhotos
<1>8. QED BY <1>1, <1>3, <1>4, <1>5, <1>6, <1>7, Zenon

\* trackPhoto() has fetched a photo: nobody else is under its Mutex, and nothing
\* older workers left behind is newer.
LEMMA FetchGroup ==
  ASSUME GroupInv, NEW o \in Upd, trackGroupPhoto(o)
  PROVE  GroupInv'
<1> USE DEF GroupInv
<1>1. /\ group_pc[o] = "resolved" /\ updProc[o] \in group_alive
      /\ \A x \in Upd : group_pc[x] \notin {"fetched", "stored"}
      /\ group_pc' = [group_pc EXCEPT ![o] = "fetched"]
      /\ group_fetched' = [group_fetched EXCEPT ![o] = group_profile]
      /\ UNCHANGED <<group_alive, group_profile, group_row, group_history, group_seen,
                     group_historyId>>
  BY Zenon DEF trackGroupPhoto, GroupRuns, GroupPhotoLocked
<1>2. \A x \in Upd : group_pc'[x] = IF x = o THEN "fetched" ELSE group_pc[x]
  BY <1>1, Zenon DEF GroupTypeOK
<1>3. \A x \in Upd : group_fetched'[x] = IF x = o THEN group_profile ELSE group_fetched[x]
  BY <1>1, Zenon DEF GroupTypeOK
<1>4. GroupTypeOK'
  BY <1>1, Zenon DEF GroupTypeOK, GroupPC
<1>5. GroupDB'
  BY <1>1, Zenon DEF GroupDB, AmendsOwnGroup, InfoRecorded
<1>6. group_row # NoGroup
  BY <1>1, Zenon DEF GroupKnown
<1>7. GroupKnown' /\ SeenCurrent'
  BY <1>1, <1>2, <1>6 DEF GroupKnown, SeenCurrent
<1>8. GroupLocks'
  BY <1>1, <1>2 DEF GroupLocks, GroupOrphan
<1>9. GroupPhotos'
  <2>1. group_profile \in Nat
    BY DEF GroupTypeOK, GroupPhoto
  <2>2. QED BY <1>1, <1>2, <1>3, <1>6, <2>1 DEF GroupPhotos, GroupPhotoNotStale
<1>10. QED BY <1>4, <1>5, <1>7, <1>8, <1>9, Zenon
\* The photo is written, by the holder of the Mutex or by the database after the
\* worker's death.
LEMMA WriteGroup ==
  ASSUME GroupInv, NEW o \in Upd, NEW s \in {"stored", "done", "dead"},
         GroupDB', group_row' # NoGroup, group_row'.photo = group_fetched[o],
         group_row'.name = group_row.name, group_row'.username = group_row.username,
         \/ group_pc[o] = "fetched" /\ s # "dead" /\ updProc[o] \in group_alive
         \/ group_pc[o] = "orphanPhoto" /\ s = "dead",
         group_pc' = [group_pc EXCEPT ![o] = s], UNCHANGED <<group_alive, group_profile,
             group_seen, group_fetched>>
  PROVE  GroupInv'
<1> USE DEF GroupInv
<1>1. \A x \in Upd : group_pc'[x] = IF x = o THEN s ELSE group_pc[x]
  BY Zenon DEF GroupTypeOK
<1>2. GroupTypeOK'
  <2>1. GroupCtl'
    BY GroupTypes, Zenon DEF GroupCtl, GroupPC
  <2>2. QED BY <2>1, GroupTypes, Zenon DEF GroupDB, GroupTypeOK, GroupCtl
<1>3. group_row # NoGroup
  BY Zenon DEF GroupKnown
<1>4. GroupKnown' /\ SeenCurrent'
  BY <1>1, <1>3 DEF GroupKnown, SeenCurrent
<1>5. GroupLocks'
  BY <1>1, SMTT(40) DEF GroupLocks, GroupOrphan
<1>6. GroupPhotos'
  <2>1. group_row'.photo <= group_profile
    BY Zenon DEF GroupPhotos
  <2>2. GroupPhotoNotStale'
    <3> SUFFICES ASSUME NEW x \in Upd, group_pc'[x] = "fetched" PROVE group_fetched[o] <= group_fetched[x]
      BY Zenon DEF GroupPhotoNotStale
    <3>1. x # o /\ group_pc[x] = "fetched"
      BY <1>1, Zenon
    <3>2. group_pc[o] = "orphanPhoto"
      BY <3>1, Zenon DEF GroupLocks
    <3>3. QED BY <3>1, <3>2, Zenon DEF GroupPhotos
  <2>3. QED BY <1>1, <2>1, <2>2 DEF GroupPhotos
<1>7. QED BY <1>2, <1>4, <1>5, <1>6, Zenon

\* The history row that follows the UPDATE of the photo is inserted.
LEMMA HistoryGroup ==
  ASSUME GroupInv, NEW o \in Upd, NEW s \in {"done", "dead"}, createGroupHistory(o),
         group_row' = group_row,
         \/ group_pc[o] = "stored" /\ s = "done" /\ updProc[o] \in group_alive
         \/ group_pc[o] = "orphanHistory" /\ s = "dead",
         group_pc' = [group_pc EXCEPT ![o] = s], UNCHANGED <<group_alive, group_profile,
             group_seen, group_fetched>>
  PROVE  GroupInv'
<1> USE DEF GroupInv
<1>1. \A x \in Upd : group_pc'[x] = IF x = o THEN s ELSE group_pc[x]
  BY Zenon DEF GroupTypeOK
<1>2. /\ group_history' \in Seq(GroupRow) /\ Len(group_history') = Len(group_history) + 1
      /\ group_historyId' \in [Upd -> Nat]
      /\ \A x \in Upd : group_historyId'[x] <= Len(group_history')
      /\ \A k \in 1..Len(group_history) : group_history'[k] = group_history[k]
      /\ AmendsOwnGroup'
  BY CreateGroup, Zenon
<1>3. InfoRecorded'
  <2>1. \A k \in 1..Len(group_history) : k \in 1..Len(group_history')
    <3>1. Len(group_history) \in Nat /\ Len(group_history') = Len(group_history) + 1
      BY <1>2 DEF GroupDB
    <3> QED
      BY <3>1
  <2>2. QED BY <1>2, <2>1, Zenon DEF GroupDB, InfoRecorded
<1>4. GroupDB'
  BY <1>2, <1>3, Zenon DEF GroupDB
<1>5. GroupTypeOK'
  <2>1. GroupCtl'
    BY GroupTypes, Zenon DEF GroupCtl, GroupPC
  <2>2. QED BY <1>4, <2>1, GroupTypes, Zenon DEF GroupDB, GroupTypeOK, GroupCtl
<1>6. GroupKnown' /\ SeenCurrent'
  BY <1>1 DEF GroupKnown, SeenCurrent
<1>7. GroupLocks'
  BY <1>1 DEF GroupLocks, GroupOrphan
<1>8. GroupPhotos'
  BY <1>1, Zenon DEF GroupPhotos, GroupPhotoNotStale
<1>9. QED BY <1>4, <1>5, <1>6, <1>7, <1>8, Zenon

\* run() has chosen, trackPhoto() returns without writing, or the database drops what was left behind.
LEMMA LeaveGroup ==
  ASSUME GroupInv, NEW o \in Upd, NEW s \in {"unset", "skipped", "group", "done", "dead"},
         \/ group_pc[o] = "new" /\ s \in {"unset", "skipped", "group"} /\ updProc[o] \in group_alive
         \/ group_pc[o] \in {"resolved", "fetched"} /\ s = "done" /\ updProc[o] \in group_alive
         \/ group_pc[o] \in GroupOrphan /\ s = "dead",
         group_pc' = [group_pc EXCEPT ![o] = s],
         UNCHANGED <<group_alive, group_profile, group_row, group_history, group_seen,
                     group_fetched, group_historyId>>
  PROVE  GroupInv'
<1> USE DEF GroupInv
<1>1. \A x \in Upd : group_pc'[x] = IF x = o THEN s ELSE group_pc[x]
  BY Zenon DEF GroupTypeOK
<1>2. GroupTypeOK'
  BY Zenon DEF GroupTypeOK, GroupPC
<1>3. GroupDB'
  BY Zenon DEF GroupDB, AmendsOwnGroup, InfoRecorded
<1>4. GroupKnown' /\ SeenCurrent'
  BY <1>1, Zenon DEF GroupKnown, SeenCurrent
<1>5. GroupLocks'
  BY <1>1 DEF GroupLocks, GroupOrphan
<1>6. GroupPhotos'
  BY <1>1, Zenon DEF GroupPhotos, GroupPhotoNotStale
<1>7. QED BY <1>2, <1>3, <1>4, <1>5, <1>6, Zenon

\* A worker dies: its Mutexes are free, its last statements stay with the database.
LEMMA ExitGroup ==
  ASSUME GroupInv, NEW p \in GroupProc, GroupDies(p),
         group_pc' = [x \in Upd |-> group_pc'[x]],
         \A x \in Upd : updProc[x] # p => group_pc'[x] = group_pc[x],
         \A x \in Upd : updProc[x] = p => group_pc'[x] \in {GroupLeaves(group_pc[x]), "dead"}
  PROVE  GroupInv'
<1> USE DEF GroupInv
<1>1. /\ p \in group_alive /\ group_alive' = group_alive \ {p}
      /\ UNCHANGED <<group_profile, group_row, group_history, group_seen, group_fetched,
                     group_historyId>>
  BY Zenon DEF GroupDies
<1>2. \A x \in Upd : updProc[x] # p => group_pc'[x] = group_pc[x]
  BY Zenon
<1>3. \A x \in Upd : updProc[x] = p =>
        /\ group_pc'[x] \in GroupOrphan \cup {"dead"}
        /\ group_pc'[x] = "orphanPhoto" => group_pc[x] = "fetched"
        /\ group_pc'[x] = "orphanHistory" => group_pc[x] = "stored"
  <2> SUFFICES ASSUME NEW x \in Upd
               PROVE  /\ GroupLeaves(group_pc[x]) \in GroupOrphan \cup {"dead"}
                      /\ GroupLeaves(group_pc[x]) = "orphanPhoto" => group_pc[x] = "fetched"
                      /\ GroupLeaves(group_pc[x]) = "orphanHistory" => group_pc[x] = "stored"
    BY Zenon
  <2>1. group_pc[x] \in GroupPC
    BY Zenon DEF GroupTypeOK
  <2>2. QED BY <2>1, Zenon DEF GroupLeaves, GroupPC, GroupOrphan
<1>4. GroupTypeOK'
  <2>1. \A x \in Upd : group_pc'[x] \in GroupPC
    BY <1>2, <1>3, Zenon DEF GroupTypeOK, GroupPC
  <2>2. group_pc' \in [Upd -> GroupPC]
    BY <2>1, Zenon
  <2>3. QED BY <1>1, <2>2, Zenon DEF GroupTypeOK
<1>5. GroupDB'
  BY <1>1, Zenon DEF GroupDB, AmendsOwnGroup, InfoRecorded
<1>6. GroupKnown'
  BY <1>1, <1>2, <1>3, Zenon DEF GroupKnown, GroupOrphan
<1>7. SeenCurrent'
  BY <1>1, Zenon DEF SeenCurrent, GroupTypeOK
<1>8. GroupLocks'
  BY <1>1, <1>2, <1>3 DEF GroupLocks, GroupOrphan
<1>9. GroupPhotos'
  <2>1. \A x \in Upd : group_pc'[x] = "fetched" => group_pc[x] = "fetched" /\ updProc[x] # p
    BY <1>2, <1>3, Zenon DEF GroupOrphan
  <2>2. ASSUME NEW x \in Upd, NEW y \in Upd, group_pc'[x] = "fetched",
               group_pc'[y] = "orphanPhoto"
        PROVE  group_fetched[y] <= group_fetched[x]
    <3>1. group_pc[y] = "orphanPhoto"
      BY <1>2, <1>3, <2>1, <2>2, Zenon DEF GroupLocks
    <3>2. QED BY <2>1, <2>2, <3>1, Zenon DEF GroupPhotos
  <2>3. QED BY <1>1, <2>1, <2>2, Zenon DEF GroupPhotos, GroupPhotoNotStale
<1>10. QED BY <1>4, <1>5, <1>6, <1>7, <1>8, <1>9, Zenon

\* Every step of the workers, the database and the group keeps the invariant.
LEMMA StepGroup == GroupInv /\ [GroupNext]_groupVars => GroupInv'
<1> SUFFICES ASSUME GroupInv, [GroupNext]_groupVars PROVE GroupInv'
  BY Zenon
<1>0. GroupTypeOK /\ GroupDB /\ GroupKnown
  BY Zenon DEF GroupInv
<1>1. ASSUME NEW o \in Upd, ResolveGroup(o) PROVE GroupInv'
  <2>1. CASE resolveGroup(o)
    BY <2>1, BeginGroup, Zenon
  <2>2. CASE resolveGroupInternal(o)
    BY <2>2, CommitGroup, Zenon DEF resolveGroupInternal, GroupRuns
  <2>3. CASE rejected(o)
    <3>1. updProc[o] \in GroupProc
      BY Zenon
    <3>2. group_pc' = [x \in Upd |-> group_pc'[x]]
      BY <2>3, Zenon DEF rejected
    <3>3. \A x \in Upd : /\ updProc[x] # updProc[o] => group_pc'[x] = group_pc[x]
                         /\ updProc[x] = updProc[o] => group_pc'[x] \in {GroupLeaves(group_pc[x]), "dead"}
      BY <2>3, Zenon DEF rejected
    <3> QED
      BY <2>3, <3>1, <3>2, <3>3, ExitGroup, Zenon DEF rejected
  <2>4. QED BY <1>1, <2>1, <2>2, <2>3, Zenon DEF ResolveGroup
<1>2. ASSUME NEW o \in Upd, TrackGroup(o) PROVE GroupInv'
  <2>1. CASE trackGroupPhoto(o)
    BY <2>1, FetchGroup, Zenon
  <2>2. CASE noGroupPhoto(o)
    BY <2>2, LeaveGroup, Zenon DEF noGroupPhoto, GroupRuns
  <2>3. CASE storeGroupPhoto(o)
    <3>1. group_row # NoGroup
      BY <1>0, <2>3, Zenon DEF storeGroupPhoto, GroupKnown
    <3>2. /\ GroupDB' /\ group_row' # NoGroup /\ group_row'.photo = group_fetched[o]
          /\ group_row'.name = group_row.name /\ group_row'.username = group_row.username
      BY <1>0, <2>3, <3>1, PhotoGroup, Zenon DEF storeGroupPhoto
    <3>3. QED BY <2>3, <3>2, WriteGroup, Zenon DEF storeGroupPhoto, GroupRuns
  <2>4. CASE newGroupHistory(o)
    BY <2>4, HistoryGroup, Zenon DEF newGroupHistory, GroupRuns
  <2>5. CASE amendGroupHistory(o)
    <3>1. group_row # NoGroup
      BY <1>0, <2>5, Zenon DEF amendGroupHistory, GroupKnown
    <3>2. /\ GroupDB' /\ group_row' # NoGroup /\ group_row'.photo = group_fetched[o]
          /\ group_row'.name = group_row.name /\ group_row'.username = group_row.username
      BY <1>0, <2>5, <3>1, AmendGroup, Zenon DEF amendGroupHistory
    <3>3. QED BY <2>5, <3>2, WriteGroup, Zenon DEF amendGroupHistory, GroupRuns
  <2>6. QED BY <1>2, <2>1, <2>2, <2>3, <2>4, <2>5, Zenon DEF TrackGroup
<1>3. ASSUME NEW o \in Upd, groupExecutes(o) PROVE GroupInv'
  <2>0. group_pc' = [group_pc EXCEPT ![o] = "dead"] /\ UNCHANGED <<group_alive, group_profile,
      group_seen, group_fetched>>
    BY <1>3, Zenon DEF groupExecutes
  <2>1. CASE group_pc[o] = "orphanTransaction" /\ GroupTransaction(o)
    BY <2>0, <2>1, CommitGroup, Zenon
  <2>2. CASE group_pc[o] = "orphanPhoto"
    <3>1. group_row # NoGroup
      BY <1>0, <2>2, Zenon DEF GroupKnown
    <3>2. \/ group_row' = [group_row EXCEPT !.photo = group_fetched[o]] /\ UNCHANGED <<group_history, group_historyId>>
          \/ group_historyId[o] # 0 /\ GroupAmendment(o) /\ UNCHANGED group_historyId
      BY <1>3, <2>2, Zenon DEF groupExecutes
    <3>3. /\ GroupDB' /\ group_row' # NoGroup /\ group_row'.photo = group_fetched[o]
          /\ group_row'.name = group_row.name /\ group_row'.username = group_row.username
      BY <1>0, <3>1, <3>2, PhotoGroup, AmendGroup, Zenon
    <3>4. QED BY <2>0, <2>2, <3>3, WriteGroup, Zenon
  <2>3. CASE group_pc[o] = "orphanHistory" /\ createGroupHistory(o) /\ group_row' = group_row
    BY <2>0, <2>3, HistoryGroup, Zenon
  <2>4. QED BY <1>3, <2>1, <2>2, <2>3, Zenon DEF groupExecutes
<1>4. ASSUME NEW o \in Upd, groupDrops(o) PROVE GroupInv'
  BY <1>4, LeaveGroup, Zenon DEF groupDrops
<1>5. ASSUME NEW p \in GroupProc, group_exit(p) PROVE GroupInv'
  <2>1. /\ group_pc' = [x \in Upd |-> group_pc'[x]]
        /\ \A x \in Upd : updProc[x] # p => group_pc'[x] = group_pc[x]
        /\ \A x \in Upd : updProc[x] = p => group_pc'[x] \in {GroupLeaves(group_pc[x]), "dead"}
    BY <1>5, Zenon DEF group_exit
  <2> QED
    BY <1>5, <2>1, ExitGroup, Zenon DEF group_exit
<1>6. CASE changeGroupPhoto
  <2>1. group_profile' = group_profile + 1 /\ group_profile' \in GroupPhoto /\ group_profile \in Nat
        /\ \A x \in Upd : group_fetched[x] \in Nat
    BY <1>0, <1>6 DEF changeGroupPhoto, GroupTypeOK, GroupPhoto
  <2>2. GroupTypeOK'
    BY <1>0, <1>6, <2>1, Zenon DEF changeGroupPhoto, GroupTypeOK
  <2>3. GroupDB' /\ GroupKnown' /\ GroupLocks' /\ SeenCurrent'
    BY <1>6, Zenon DEF changeGroupPhoto, GroupInv, GroupDB, AmendsOwnGroup, InfoRecorded, GroupKnown,
                GroupLocks, SeenCurrent
  <2>4. group_row # NoGroup => group_row.photo \in Nat
    BY <1>0 DEF GroupTypeOK, GroupRow, GroupPhoto
  <2>5. GroupPhotos'
    <3>1. GroupPhotos /\ group_profile <= group_profile' /\ UNCHANGED <<group_row, group_pc,
        group_fetched>>
      BY <1>6, <2>1 DEF changeGroupPhoto, GroupInv
    <3>2. \A x \in Upd : group_fetched[x] <= group_profile'
      BY <2>1, <3>1 DEF GroupPhotos
    <3>3. group_row # NoGroup => group_row.photo <= group_profile'
      BY <2>1, <2>4, <3>1 DEF GroupPhotos
    <3> QED
      BY <3>1, <3>2, <3>3, Zenon DEF GroupPhotos, GroupPhotoNotStale
  <2>6. QED BY <2>2, <2>3, <2>5, Zenon DEF GroupInv
<1>7. CASE UNCHANGED groupVars
  BY <1>7, Zenon
    DEF groupVars, GroupInv, GroupTypeOK, GroupDB, AmendsOwnGroup, InfoRecorded, GroupKnown,
              GroupLocks, SeenCurrent, GroupPhotos, GroupPhotoNotStale
<1>8. ASSUME NEW o \in Upd, run(o) PROVE GroupInv'
  <2>1. PICK s \in {"unset", "skipped", "group"} : group_pc' = [group_pc EXCEPT ![o] = s]
    BY <1>8, Zenon DEF run
  <2> QED
    BY <1>8, <2>1, LeaveGroup, Zenon DEF run, GroupRuns
<1> QED
  BY <1>1, <1>2, <1>3, <1>4, <1>5, <1>6, <1>7, <1>8, Zenon DEF GroupNext


\* resolveGroup() returns with the row as its update says, while all workers live.
LEMMA CommitCurrent ==
  ASSUME GroupInv, NEW o \in Upd, resolveGroupInternal(o), group_alive = GroupProc
  PROVE  group_row'.username = usernameOf[o] /\ group_row'.name = titleOf[o]
<1>1. /\ group_seen[o] = NoGroup => group_row = NoGroup
      /\ group_seen[o] # NoGroup => /\ group_row.username = group_seen[o].username
                                    /\ group_row.name = group_seen[o].name
                                    /\ group_row \in GroupRow
  BY Zenon DEF GroupInv, SeenCurrent, GroupKnown, GroupDB, resolveGroupInternal
<1>2. GroupTransaction(o)
  BY Zenon DEF resolveGroupInternal
<1> QED
  BY <1>1, <1>2, Zenon DEF GroupTransaction, renamed, groupUpdate, GroupRow

\* A step that is not the late UPDATE of a dead worker does not set the photo back.
LEMMA GroupPhotoStep ==
  ASSUME GroupInv, [GroupNext]_groupVars, group_row # NoGroup,
         ~ \E o \in Upd : group_pc[o] = "orphanPhoto" /\ groupExecutes(o)
  PROVE  ~ (group_row'.photo < group_row.photo)
<1>0. group_row \in GroupRow /\ group_row.photo \in Nat /\ \A o \in Upd : group_fetched[o] \in Nat
  BY DEF GroupInv, GroupTypeOK, GroupRow, GroupPhoto
<1>1. ASSUME NEW o \in Upd, GroupTransaction(o) PROVE group_row'.photo = group_row.photo
  BY <1>0, <1>1, Zenon DEF GroupTransaction, GroupDuplicate, GroupRow
<1>2. ASSUME NEW o \in Upd, group_pc[o] = "fetched",
             group_row' = [group_row EXCEPT !.photo = group_fetched[o]]
      PROVE  group_row.photo <= group_row'.photo /\ group_row'.photo \in Nat
  <2>1. group_row'.photo = group_fetched[o]
    BY <1>0, <1>2, Zenon DEF GroupRow
  <2> QED
    BY <1>0, <1>2, <2>1, Zenon DEF GroupInv, GroupPhotos, GroupPhotoNotStale
<1>3. \/ group_row'.photo = group_row.photo
      \/ group_row.photo <= group_row'.photo /\ group_row'.photo \in Nat
  <2>1. ASSUME NEW o \in Upd, run(o) \/ ResolveGroup(o)
        PROVE  group_row'.photo = group_row.photo
    BY <1>1, <2>1, Zenon DEF run, ResolveGroup, resolveGroup, resolveGroupInternal, rejected,
                             GroupDies
  <2>2. ASSUME NEW o \in Upd, TrackGroup(o)
        PROVE  \/ group_row' = group_row
               \/ /\ group_pc[o] = "fetched"
                  /\ group_row' = [group_row EXCEPT !.photo = group_fetched[o]]
    BY <2>2, Zenon DEF TrackGroup, trackGroupPhoto, noGroupPhoto, storeGroupPhoto,
                       newGroupHistory, amendGroupHistory, GroupAmendment
  <2>3. ASSUME NEW o \in Upd, groupExecutes(o) PROVE group_row'.photo = group_row.photo
    BY <1>1, <2>3, Zenon DEF groupExecutes
  <2>4. ASSUME \/ \E o \in Upd : groupDrops(o)
               \/ \E p \in GroupProc : group_exit(p)
               \/ changeGroupPhoto \/ UNCHANGED groupVars
        PROVE  group_row' = group_row
    BY <2>4, Zenon DEF groupDrops, group_exit, GroupDies, changeGroupPhoto, groupVars
  <2> QED
    BY <1>2, <2>1, <2>2, <2>3, <2>4, Zenon DEF GroupNext
<1> QED
  BY <1>0, <1>3

\* What the tables hold of a group, for any number of updates and workers, any of which may
\* die at any step: only a late UPDATE of a dead worker sets the photo back.
THEOREM GroupIsKept == GroupSpec => GroupKept
<1>1. GroupInv => GroupTypeOK /\ InfoRecorded /\ NoGroupRace /\ AmendsOwnGroup
  BY Zenon DEF GroupInv, GroupDB, SeenCurrent, NoGroupRace, GroupDuplicate
<1>2. GroupInv /\ [GroupNext]_groupVars =>
        [\A o \in Upd : resolveGroupInternal(o) /\ group_alive = GroupProc =>
           group_row'.username = usernameOf[o] /\ group_row'.name = titleOf[o]]_groupVars
  BY CommitCurrent, Zenon
<1>3. GroupInv /\ [GroupNext]_groupVars =>
        [group_row # NoGroup /\ group_row'.photo < group_row.photo =>
           \E o \in Upd : group_pc[o] = "orphanPhoto" /\ groupExecutes(o)]_groupVars
  BY GroupPhotoStep, Zenon
<1> QED
  BY <1>1, <1>2, <1>3, InitGroup, StepGroup, PTL
     DEF GroupSpec, GroupKept, ResolvedIsCurrent, GroupPhotoForward
=============================================================================
