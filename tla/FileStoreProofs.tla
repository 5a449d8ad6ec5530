-------------------------- MODULE FileStoreProofs --------------------------
(***************************************************************************)
(* Proofs about FileStore, for any number of workers, calls, files and     *)
(* tries, and about GroupAdmins, for any number of workers, calls and      *)
(* lists: two tables that the Mutex of a call is to keep right, where a    *)
(* dead worker may leave its last statement behind.                        *)
(***************************************************************************)
EXTENDS FileStore, GroupAdmins, FiniteSetTheorems, TLAPS

USE FileAssumption

-----------------------------------------------------------------------------
\* One call at a time is under the Mutex of a file; only dead workers leave INSERTs.
LockInv ==
  /\ \A r \in Req : pc[r] \in {"orphan", "dead"} => procOf[r] \notin alive
  /\ \A r, x \in Req :
       pc[r] \in Active /\ pc[x] \in Active /\ fileOf[r] = fileOf[x] => r = x

\* A download begins only while tries are left.
TryInv ==
  \A r \in Req :
    /\ pc[r] \in {"new", "asking"} => downTry[r] = 0
    /\ pc[r] = "trying" => downTry[r] <= MaxTry

\* The temporary file holds what its call downloads; a call that inserts has stored
\* the whole file.
TmpInv ==
  \A r \in Req :
    /\ pc[r] \in {"receiving", "received"} => tmp[fileOf[r]] \in {Part(r), Whole(r)}
    /\ pc[r] \in {"moved", "orphan"} =>
         fullHash[r] = Whole(r) /\ Whole(r) \in files \cup recovered

\* A row names the stored content of its Telegram file.
RowInv ==
  \A k \in 1..Len(tg_files) :
    /\ tg_files[k].hash = [content |-> contentOf[tg_files[k].tg_file_id], whole |-> TRUE]
    /\ tg_files[k].hash \in files \cup recovered

\* Telegram answers a getFile for another id with this one.
Aliased(g) == \E f \in TgFile : f # answered[f] /\ answered[f] = g

\* While a call is under the Mutex of a file there is no row for it, unless a worker
\* has died or Telegram answers another id with this one.
FoundInv ==
  \A r \in Req : \A k \in 1..Len(tg_files) :
    pc[r] \in Active /\ tg_files[k].tg_file_id = fileOf[r] =>
      alive # Proc \/ Aliased(fileOf[r])

IInv ==
  TypeOK /\ LockInv /\ TryInv /\ TmpInv /\ RowInv /\ ReturnsRequested /\ OneRow /\ FoundInv

\* What is stored for a call has the type of stored files, and parts differ from wholes.
LEMMA StoredFacts ==
  ASSUME NEW r \in Req
  PROVE  /\ Part(r) \in Stored /\ Whole(r) \in Stored /\ Whole(r).whole = TRUE
         /\ Whole(r) \in [content : Content, whole : {TRUE}]
         /\ Part(r) \notin [content : Content, whole : {TRUE}]
         /\ Whole(r) = [content |-> contentOf[answered[fileOf[r]]], whole |-> TRUE]
  BY Zenon DEF Part, Whole, Stored

\* Two places of a table with one more row: one of them is new, or none.
LEMMA TwoOf ==
  ASSUME NEW n \in Nat, NEW j \in 1..(n + 1), NEW k \in 1..(n + 1), j # k
  PROVE  \/ j \in 1..n /\ k \in 1..n
         \/ j = n + 1 /\ k \in 1..n
         \/ k = n + 1 /\ j \in 1..n
  OBVIOUS

\* The inductive invariant holds at the start of the daemon.
LEMMA InitInv == Init => IInv
  BY DEF Init, IInv, TypeOK, LockInv, TryInv, TmpInv, RowInv, ReturnsRequested, OneRow,
         FoundInv, Active, PC

\* A call goes on to the next download, or gives up and returns null.
LEMMA MoveInv ==
  ASSUME IInv, NEW r \in Req, NEW s \in {"trying", "done"}, pc[r] \in Active,
         s = "trying" => downTry[r] <= MaxTry, procOf[r] \in alive,
         pc' = [pc EXCEPT ![r] = s], short' \in SUBSET Req,
         UNCHANGED <<alive, storage, tg_files, downTry, fullHash, result>>
  PROVE  IInv'
<1> USE DEF IInv, storage
<1>1. \A x \in Req : pc'[x] = IF x = r THEN s ELSE pc[x]
  BY Zenon DEF TypeOK
<1>2. TypeOK'
  BY Zenon DEF TypeOK, PC, Active
<1>3. LockInv'
  BY <1>1 DEF LockInv, Active
<1>4. TryInv' /\ TmpInv'
  BY <1>1, Zenon DEF TryInv, TmpInv, Part, Whole
<1>5. RowInv' /\ ReturnsRequested' /\ OneRow'
  BY DEF RowInv, ReturnsRequested, OneRow, Whole
<1>6. FoundInv'
  BY <1>1, Zenon DEF FoundInv, Active, Aliased
<1>7. QED BY <1>2, <1>3, <1>4, <1>5, <1>6, Zenon

\* A call that finds its row returns it.
LEMMA KnownInv ==
  ASSUME IInv, NEW r \in Req, resolveKnown(r)
  PROVE  IInv'
<1> USE DEF IInv, storage
<1>1. PICK k \in 1..Len(tg_files) :
        tg_files[k].tg_file_id = fileOf[r] /\ result' = [result EXCEPT ![r] = k]
  BY Zenon DEF resolveKnown, Found
<1>2. /\ procOf[r] \in alive /\ pc[r] = "new" /\ pc' = [pc EXCEPT ![r] = "done"]
      /\ UNCHANGED <<alive, storage, tg_files, downTry, short, fullHash>>
  BY Zenon DEF resolveKnown, Goes, Runs
<1>3. \A x \in Req : pc'[x] = IF x = r THEN "done" ELSE pc[x]
  BY <1>2, Zenon DEF TypeOK
<1>4. \A x \in Req : result'[x] = IF x = r THEN k ELSE result[x]
  BY <1>1, Zenon DEF TypeOK
<1>5. TypeOK'
  <2>1. k \in Nat /\ k <= Len(tg_files)
    BY DEF TypeOK
  <2>2. result' \in [Req -> Nat] /\ \A x \in Req : result'[x] <= Len(tg_files)
    BY <1>1, <1>4, <2>1, Zenon DEF TypeOK
  <2>3. QED BY <1>2, <2>2, Zenon DEF TypeOK, PC
<1>6. LockInv' /\ TryInv' /\ TmpInv'
  BY <1>2, <1>3 DEF LockInv, TryInv, TmpInv, Active, Part, Whole
<1>7. ReturnsRequested'
  <2>1. tg_files[k].hash = Whole(r)
    BY <1>1, Zenon DEF RowInv, Whole
  <2>2. QED BY <1>2, <1>4, <2>1, Zenon DEF ReturnsRequested, Whole
<1>8. RowInv' /\ OneRow'
  BY <1>2 DEF RowInv, OneRow
<1>9. FoundInv'
  BY <1>2, <1>3 DEF FoundInv, Active, Aliased
<1>10. QED BY <1>5, <1>6, <1>7, <1>8, <1>9, Zenon

\* A call that finds no row enters the section that downloads and inserts.
LEMMA UnknownInv ==
  ASSUME IInv, NEW r \in Req, resolveUnknown(r)
  PROVE  IInv'
<1> USE DEF IInv, storage
<1>1. /\ procOf[r] \in alive /\ pc[r] = "new" /\ pc' = [pc EXCEPT ![r] = "asking"]
      /\ \A x \in Req : fileOf[x] = fileOf[r] => pc[x] \notin Active
      /\ \A k \in 1..Len(tg_files) : tg_files[k].tg_file_id # fileOf[r]
      /\ UNCHANGED <<alive, storage, tg_files, downTry, short, fullHash, result>>
  BY Zenon DEF resolveUnknown, Goes, Runs, FileLocked, Found
<1>2. \A x \in Req : pc'[x] = IF x = r THEN "asking" ELSE pc[x]
  BY <1>1, Zenon DEF TypeOK
<1>3. TypeOK'
  BY <1>1, Zenon DEF TypeOK, PC, Active
<1>4. LockInv'
  BY <1>1, <1>2 DEF LockInv
<1>5. TryInv' /\ TmpInv'
  BY <1>1, <1>2 DEF TryInv, TmpInv, Part, Whole
<1>6. RowInv' /\ ReturnsRequested' /\ OneRow'
  BY <1>1 DEF RowInv, ReturnsRequested, OneRow, Whole
<1>7. FoundInv'
  BY <1>1, <1>2, Zenon DEF FoundInv, Aliased
<1>8. QED BY <1>3, <1>4, <1>5, <1>6, <1>7, Zenon

\* The temporary file is opened or filled: it belongs to this call alone.
LEMMA ReceiveInv ==
  ASSUME IInv, NEW r \in Req, NEW s \in {"receiving", "received"}, NEW t \in {Part(r), Whole(r)},
         pc[r] \in Active, procOf[r] \in alive,
         pc' = [pc EXCEPT ![r] = s], tmp' = [tmp EXCEPT ![fileOf[r]] = t],
         downTry' \in [Req -> 0..(MaxTry + 1)],
         \A x \in Req : x # r => downTry'[x] = downTry[x],
         UNCHANGED <<alive, files, recovered, tg_files, short, fullHash, result>>
  PROVE  IInv'
<1> USE DEF IInv
<1>1. \A x \in Req : pc'[x] = IF x = r THEN s ELSE pc[x]
  BY Zenon DEF TypeOK
<1>2. t \in Stored
  <2>1. Part(r) \in Stored /\ Whole(r) \in Stored
    BY StoredFacts, Zenon
  <2>2. QED BY <2>1, Zenon
<1>3. \A f \in TgFile : tmp'[f] = IF f = fileOf[r] THEN t ELSE tmp[f]
  BY Zenon DEF TypeOK
<1>4. TypeOK'
  <2>1. tmp' \in [TgFile -> Stored \cup {NoFile}]
    BY <1>2, Zenon DEF TypeOK
  <2>2. pc' \in [Req -> PC]
    BY Zenon DEF TypeOK, PC, Active
  <2>3. QED BY <2>1, <2>2, Zenon DEF TypeOK
<1>5. LockInv'
  BY <1>1 DEF LockInv, Active
<1>6. TryInv'
  BY <1>1, Zenon DEF TryInv
<1>7. TmpInv'
  <2> SUFFICES ASSUME NEW x \in Req
               PROVE  /\ pc'[x] \in {"receiving", "received"} =>
                           tmp'[fileOf[x]] \in {Part(x), Whole(x)}
                      /\ pc'[x] \in {"moved", "orphan"} =>
                           fullHash[x] = Whole(x) /\ Whole(x) \in files \cup recovered
    BY Zenon DEF TmpInv, Part, Whole
  <2>1. CASE x = r
    BY <1>1, <1>3, <2>1, Zenon
  <2>2. CASE x # r
    <3>1. pc[x] \in Active => fileOf[x] # fileOf[r]
      BY <2>2, Zenon DEF LockInv
    <3>2. QED BY <1>1, <1>3, <2>2, <3>1 DEF TmpInv, Active
  <2>3. QED BY <2>1, <2>2, Zenon
<1>8. RowInv' /\ ReturnsRequested' /\ OneRow'
  BY DEF RowInv, ReturnsRequested, OneRow, Whole
<1>9. FoundInv'
  BY <1>1, Zenon DEF FoundInv, Active, Aliased
<1>10. QED BY <1>4, <1>5, <1>6, <1>7, <1>8, <1>9, Zenon
\* The whole file is moved to where rows may name it.
LEMMA StoreInv ==
  ASSUME IInv, NEW r \in Req, move(r)
  PROVE  IInv'
<1> USE DEF IInv
<1>1. /\ procOf[r] \in alive /\ pc[r] = "received" /\ pc' = [pc EXCEPT ![r] = "moved"]
      /\ tmp[fileOf[r]] \in [content : Content, whole : {TRUE}]
      /\ fullHash' = [fullHash EXCEPT ![r] = tmp[fileOf[r]]]
      /\ tmp' = [tmp EXCEPT ![fileOf[r]] = NoFile]
      /\ UNCHANGED <<alive, tg_files, downTry, short, result>>
  BY Zenon DEF move, Goes, Runs, TooShort, tmpFile
<1>2. tmp[fileOf[r]] = Whole(r)
  <2>1. tmp[fileOf[r]] \in {Part(r), Whole(r)}
    BY <1>1, Zenon DEF TmpInv
  <2>2. Part(r) \notin [content : Content, whole : {TRUE}]
    BY StoredFacts, Zenon
  <2>3. QED BY <1>1, <2>1, <2>2, Zenon
<1>3. /\ files' \in SUBSET Stored /\ recovered' \in SUBSET Stored
      /\ files \cup recovered \subseteq files' \cup recovered'
      /\ Whole(r) \in files' \cup recovered'
  <2>1. \/ files' = files \cup {Whole(r)} /\ recovered' = recovered
        \/ recovered' = recovered \cup {Whole(r)} /\ files' = files
    BY <1>2, Zenon DEF move, tmpFile
  <2>2. Whole(r) \in Stored
    BY StoredFacts, Zenon
  <2>3. QED BY <2>1, <2>2, Zenon DEF TypeOK
<1>4. \A x \in Req : pc'[x] = IF x = r THEN "moved" ELSE pc[x]
  BY <1>1 DEF TypeOK
<1>5. \A x \in Req : fullHash'[x] = IF x = r THEN Whole(r) ELSE fullHash[x]
  BY <1>1, <1>2 DEF TypeOK
<1>6. \A f \in TgFile : f # fileOf[r] => tmp'[f] = tmp[f]
  BY <1>1 DEF TypeOK
<1>7. TypeOK'
  <2>1. tmp' \in [TgFile -> Stored \cup {NoFile}]
    BY <1>1, Zenon DEF TypeOK
  <2>2. pc' \in [Req -> PC]
    BY <1>1, Zenon DEF TypeOK, PC, Active
  <2>3. fullHash' \in [Req -> Stored \cup {NoFile}]
    BY <1>1, <1>2, StoredFacts DEF TypeOK
  <2>4. QED BY <1>1, <1>3, <2>1, <2>2, <2>3, Zenon DEF TypeOK
<1>8. LockInv' /\ TryInv'
  BY <1>1, <1>4 DEF LockInv, TryInv, Active
<1>9. TmpInv'
  <2> SUFFICES ASSUME NEW x \in Req
               PROVE  /\ pc'[x] \in {"receiving", "received"} =>
                           tmp'[fileOf[x]] \in {Part(x), Whole(x)}
                      /\ pc'[x] \in {"moved", "orphan"} =>
                           fullHash'[x] = Whole(x) /\ Whole(x) \in files' \cup recovered'
    BY Zenon DEF TmpInv, Part, Whole
  <2>1. CASE x = r
    BY <1>3, <1>4, <1>5, <2>1, Zenon
  <2>2. CASE x # r
    <3>1. pc[x] \in Active => fileOf[x] # fileOf[r]
      BY <1>1, <2>2, Zenon DEF LockInv, Active
    <3>2. QED BY <1>3, <1>4, <1>5, <1>6, <2>2, <3>1, Zenon DEF TmpInv, Active
  <2>3. QED BY <2>1, <2>2, Zenon
<1>10. RowInv'
  BY <1>1, <1>3, Zenon DEF RowInv
<1>11. ReturnsRequested' /\ OneRow'
  BY <1>1 DEF ReturnsRequested, OneRow, Whole
<1>12. FoundInv'
  BY <1>1, <1>4 DEF FoundInv, Active, Aliased
<1>13. QED BY <1>7, <1>8, <1>9, <1>10, <1>11, <1>12, Zenon

\* The row is inserted, by the call or by the database after the worker's death.
LEMMA InsertInv ==
  ASSUME IInv, NEW r \in Req, NEW s \in {"done", "dead"}, Insert(r),
         \/ /\ pc[r] = "moved" /\ s = "done" /\ procOf[r] \in alive
            /\ result' = [result EXCEPT ![r] = Len(tg_files')]
         \/ pc[r] = "orphan" /\ s = "dead" /\ result' = result,
         pc' = [pc EXCEPT ![r] = s], UNCHANGED <<alive, storage, downTry, short, fullHash>>
  PROVE  IInv'
<1> USE DEF IInv, storage
<1> DEFINE t == [tg_file_id |-> answered[fileOf[r]], hash |-> fullHash[r]]
           n == Len(tg_files)
<1>1. fullHash[r] = Whole(r) /\ Whole(r) \in files \cup recovered
  BY Zenon DEF TmpInv
<1>2. /\ t \in [tg_file_id : TgFile, hash : Stored]
      /\ t.tg_file_id = answered[fileOf[r]] /\ t.hash = Whole(r)
  <2>1. fullHash[r] \in Stored
    <3>1. Whole(r) \in Stored
      BY StoredFacts, Zenon
    <3>2. QED BY <1>1, <3>1, Zenon
  <2>2. QED BY <1>1, <2>1, Zenon
<1> HIDE DEF t
<1>3. tg_files' = Append(tg_files, t)
  BY Zenon DEF Insert, t
<1>4. n \in Nat /\ tg_files \in Seq([tg_file_id : TgFile, hash : Stored])
  BY DEF TypeOK
<1>5. /\ tg_files' \in Seq([tg_file_id : TgFile, hash : Stored])
      /\ Len(tg_files') = n + 1
      /\ \A k \in 1..n : tg_files'[k] = tg_files[k]
      /\ tg_files'[n + 1] = t
  BY <1>2, <1>3, <1>4
<1>6. \A x \in Req : pc'[x] = IF x = r THEN s ELSE pc[x]
  BY Zenon DEF TypeOK
<1>7. \A x \in Req : result[x] \in Nat /\ result[x] <= n
  BY Zenon DEF TypeOK
<1>8. \A x \in Req : result'[x] = result[x] \/ (x = r /\ result'[x] = n + 1)
  BY <1>5, Zenon DEF TypeOK
<1>9. TypeOK'
  <2>1. result' \in [Req -> Nat]
    BY <1>4, <1>5 DEF TypeOK
  <2>2. \A x \in Req : result'[x] <= Len(tg_files')
    BY <1>4, <1>5, <1>7, <1>8
  <2>3. pc' \in [Req -> PC]
    BY Zenon DEF TypeOK, PC
  <2>4. QED BY <1>5, <2>1, <2>2, <2>3, Zenon DEF TypeOK
<1>10. LockInv' /\ TryInv' /\ TmpInv'
  BY <1>6 DEF LockInv, TryInv, TmpInv, Active, Part, Whole
<1>11. RowInv'
  <2> SUFFICES ASSUME NEW k \in 1..(n + 1)
               PROVE  /\ tg_files'[k].hash =
                           [content |-> contentOf[tg_files'[k].tg_file_id], whole |-> TRUE]
                      /\ tg_files'[k].hash \in files \cup recovered
    BY <1>5, Zenon DEF RowInv
  <2>1. CASE k = n + 1
    BY <1>1, <1>2, <1>5, <2>1, StoredFacts, Zenon
  <2>2. CASE k \in 1..n
    BY <1>5, <2>2, Zenon DEF RowInv
  <2>3. k = n + 1 \/ k \in 1..n
    <3> HIDE DEF IInv
    <3>1. QED BY <1>4
  <2>4. QED BY <2>1, <2>2, <2>3, Zenon
<1>12. ReturnsRequested'
  <2> SUFFICES ASSUME NEW x \in Req, result'[x] # 0 PROVE tg_files'[result'[x]].hash = Whole(x)
    BY Zenon DEF ReturnsRequested, Whole
  <2>1. CASE x = r /\ result'[x] = n + 1
    BY <1>2, <1>5, <2>1, Zenon
  <2>2. CASE result'[x] = result[x]
    <3>1. result[x] \in 1..n
      BY <1>4, <1>7, <2>2
    <3>2. QED BY <1>5, <2>2, <3>1, Zenon DEF ReturnsRequested
  <2>3. QED BY <1>8, <2>1, <2>2, Zenon
<1>13. alive = Proc => pc[r] = "moved"
  BY Zenon DEF LockInv
<1>14. OneRow'
  <2> SUFFICES ASSUME NEW j \in 1..(n + 1), NEW k \in 1..(n + 1), j # k,
                      tg_files'[j].tg_file_id = tg_files'[k].tg_file_id,
                      alive = Proc, ~ Aliased(tg_files'[k].tg_file_id)
               PROVE  FALSE
    BY <1>5 DEF OneRow, Aliased
  <2>1. ASSUME NEW m \in 1..n, tg_files[m].tg_file_id = t.tg_file_id,
               ~ Aliased(t.tg_file_id)
        PROVE  FALSE
    <3>1. fileOf[r] = t.tg_file_id
      BY <1>2, <2>1, Zenon DEF Aliased
    <3>2. QED BY <1>13, <2>1, <3>1, Zenon DEF FoundInv, Active
  <2>2. CASE j \in 1..n /\ k \in 1..n
    BY <1>5, <2>2 DEF OneRow, Aliased
  <2>3. CASE j = n + 1 /\ k \in 1..n
    BY <1>5, <2>1, <2>3, Zenon
  <2>4. CASE k = n + 1 /\ j \in 1..n
    BY <1>5, <2>1, <2>4, Zenon
  <2>5. \/ j \in 1..n /\ k \in 1..n
        \/ j = n + 1 /\ k \in 1..n
        \/ k = n + 1 /\ j \in 1..n
    <3>1. n \in Nat /\ j \in 1..(n + 1) /\ k \in 1..(n + 1) /\ j # k
      BY <1>4, Zenon
    <3> HIDE DEF n
    <3>2. QED BY <3>1, TwoOf, Zenon
  <2>6. QED BY <2>2, <2>3, <2>4, <2>5, Zenon
<1>15. FoundInv'
  <2> SUFFICES ASSUME NEW x \in Req, NEW k \in 1..(n + 1), pc'[x] \in Active,
                      tg_files'[k].tg_file_id = fileOf[x],
                      alive = Proc, ~ Aliased(fileOf[x])
               PROVE  FALSE
    BY <1>5, Zenon DEF FoundInv, Aliased
  <2>1. x # r /\ pc[x] \in Active
    BY <1>6, Zenon DEF Active
  <2>2. CASE k \in 1..n
    BY <1>5, <2>1, <2>2, Zenon DEF FoundInv
  <2>3. CASE k = n + 1
    <3>1. answered[fileOf[r]] = fileOf[x]
      BY <1>2, <1>5, <2>3, Zenon
    <3>2. fileOf[r] = fileOf[x]
      BY <3>1, Zenon DEF Aliased
    <3>3. QED BY <1>13, <2>1, <3>2, Zenon DEF LockInv, Active
  <2>4. QED BY <1>4, <2>2, <2>3
<1>16. QED BY <1>9, <1>10, <1>11, <1>12, <1>14, <1>15, Zenon

\* A worker dies: its calls leave the section, at most an INSERT stays on its way.
LEMMA ExitInv ==
  ASSUME IInv, NEW p \in Proc, exit(p)
  PROVE  IInv'
<1> USE DEF IInv, storage
<1>1. /\ p \in alive /\ alive' = alive \ {p}
      /\ pc' = [x \in Req |-> IF procOf[x] = p THEN LeftBehind(pc[x]) ELSE pc[x]]
      /\ UNCHANGED <<storage, tg_files, downTry, short, fullHash, result>>
  BY Zenon DEF exit
<1>2. \A x \in Req :
        pc'[x] = IF procOf[x] # p THEN pc[x] ELSE IF pc[x] = "moved" THEN "orphan" ELSE "dead"
  BY <1>1, Zenon DEF LeftBehind
<1>3. alive' # Proc
  BY <1>1, Zenon
<1>4. TypeOK'
  <2>1. \A x \in Req : pc'[x] \in PC
    BY <1>2, Zenon DEF TypeOK, PC
  <2>2. pc' \in [Req -> PC]
    BY <1>1, <2>1, Zenon
  <2>3. QED BY <1>1, <2>2, Zenon DEF TypeOK
<1>5. LockInv'
  BY <1>1, <1>2, Zenon DEF LockInv, Active
<1>6. TryInv' /\ TmpInv'
  BY <1>1, <1>2, Zenon DEF TryInv, TmpInv, Part, Whole
<1>7. RowInv' /\ ReturnsRequested'
  BY <1>1, Zenon DEF RowInv, ReturnsRequested, Whole
<1>8. OneRow' /\ FoundInv'
  BY <1>3, Zenon DEF OneRow, FoundInv
<1>9. QED BY <1>4, <1>5, <1>6, <1>7, <1>8, Zenon

\* Every step of the workers and the database keeps the invariant.
LEMMA StepInv == IInv /\ [Next]_vars => IInv'
<1> SUFFICES ASSUME IInv, [Next]_vars PROVE IInv'
  BY Zenon
<1>0. TypeOK /\ TryInv
  BY Zenon DEF IInv
<1>1. ASSUME NEW r \in Req, Resolve(r) PROVE IInv'
  BY <1>1, KnownInv, UnknownInv, Zenon DEF Resolve
<1>2. ASSUME NEW r \in Req, Download(r) PROVE IInv'
  <2>1. CASE getFile(r)
    <3>1. downTry[r] <= MaxTry
      BY <1>0, <2>1 DEF getFile, Goes, TryInv
    <3>2. short' \in SUBSET Req
      BY <1>0, <2>1, Zenon DEF getFile, TypeOK
    <3>3. QED BY <2>1, <3>1, <3>2, MoveInv, Zenon DEF getFile, Goes, Runs, Active
  <2>2. CASE getFileFails(r) \/ moveFails(r)
    <3>1. short' \in SUBSET Req
      BY <1>0, <2>2, Zenon DEF getFileFails, moveFails, TypeOK
    <3>2. QED BY <2>2, <3>1, MoveInv, Zenon DEF getFileFails, moveFails, Goes, Runs, Active
  <2>3. ASSUME NEW from \in {"receiving", "received"}, retry_download(r, from),
               short' \in SUBSET Req
        PROVE  IInv'
    <3>1. ~ GivesUp(r) => downTry[r] <= MaxTry
      BY <1>0 DEF GivesUp, TypeOK
    <3>2. QED BY <2>3, <3>1, MoveInv, Zenon DEF retry_download, Goes, Runs, Active
  <2>4. CASE transferFails(r) \/ sizeTooSmall(r)
    <3>1. short' \in SUBSET Req
      BY <1>0, <2>4, Zenon DEF transferFails, sizeTooSmall, TypeOK
    <3>2. QED BY <2>3, <2>4, <3>1, Zenon DEF transferFails, sizeTooSmall
  <2>5. CASE download(r)
    <3>1. pc[r] = "trying" /\ downTry[r] \in 0..MaxTry
      BY <1>0, <2>5 DEF download, Goes, TryInv, TypeOK
    <3>2. downTry' = [downTry EXCEPT ![r] = downTry[r] + 1]
      BY <2>5, Zenon DEF download
    <3>3. /\ downTry' \in [Req -> 0..(MaxTry + 1)]
          /\ \A x \in Req : x # r => downTry'[x] = downTry[x]
      BY <1>0, <3>1, <3>2 DEF TypeOK
    <3>4. QED BY <2>5, <3>1, <3>3, ReceiveInv, Zenon DEF download, Goes, Runs, Active, tmpFile
  <2>6. CASE transferred(r)
    <3>1. PICK t \in {Part(r), Whole(r)} : tmp' = [tmp EXCEPT ![fileOf[r]] = t]
      BY <2>6, Zenon DEF transferred, tmpFile
    <3>2. /\ downTry' \in [Req -> 0..(MaxTry + 1)]
          /\ \A x \in Req : x # r => downTry'[x] = downTry[x]
      BY <1>0, <2>6, Zenon DEF transferred, TypeOK
    <3>3. QED BY <2>6, <3>1, <3>2, ReceiveInv, Zenon DEF transferred, Goes, Runs, Active
  <2>7. CASE move(r)
    BY <2>7, StoreInv, Zenon
  <2>8. CASE insert(r)
    BY <2>8, InsertInv, Zenon DEF insert, Goes, Runs
  <2>9. QED BY <1>2, <2>1, <2>2, <2>4, <2>5, <2>6, <2>7, <2>8, Zenon DEF Download
<1>3. ASSUME NEW r \in Req, serverExecutes(r) PROVE IInv'
  BY <1>3, InsertInv, Zenon DEF serverExecutes
<1>4. ASSUME NEW p \in Proc, exit(p) PROVE IInv'
  BY <1>4, ExitInv, Zenon
<1>5. CASE UNCHANGED vars
  <2>1. TypeOK' /\ LockInv' /\ TryInv'
    BY <1>5, Zenon DEF vars, IInv, TypeOK, LockInv, TryInv
  <2>2. TmpInv'
    BY <1>5, Zenon DEF vars, IInv, TmpInv, Part, Whole
  <2>3. RowInv' /\ ReturnsRequested'
    BY <1>5, Zenon DEF vars, IInv, RowInv, ReturnsRequested, Whole
  <2>4. OneRow'
    BY <1>5 DEF vars, IInv, OneRow
  <2>5. FoundInv'
    BY <1>5, Zenon DEF vars, IInv, FoundInv
  <2>6. QED BY <2>1, <2>2, <2>3, <2>4, <2>5, Zenon DEF IInv
<1>6. QED BY <1>1, <1>2, <1>3, <1>4, <1>5, Zenon DEF Next

\* The inductive invariant of file storage.
THEOREM Invariance == Spec => []IInv
  BY InitInv, StepInv, PTL DEF Spec

\* Types of file storage: among them, that a call downloads at most MaxTry + 1 times.
THEOREM TypeCorrect == Spec => []TypeOK
<1>1. IInv => TypeOK
  BY Zenon DEF IInv
<1>2. QED BY <1>1, Invariance, PTL

\* resolveFile() inserts no second row for a tg_file_id, but for a death or an alias.
THEOREM SingleRow == Spec => []OneRow
<1>1. IInv => OneRow
  BY Zenon DEF IInv
<1>2. QED BY <1>1, Invariance, PTL

\* Every row names a whole file on disk, and resolveFile() returns the row of the
\* content it was asked for.
THEOREM StoredWhole == Spec => [](RowIsBacked /\ ReturnsRequested)
<1>1. IInv => RowIsBacked /\ ReturnsRequested
  <2> SUFFICES ASSUME IInv, NEW k \in 1..Len(tg_files)
               PROVE  tg_files[k].hash \in files \cup recovered /\ tg_files[k].hash.whole
    BY Zenon DEF IInv, RowIsBacked
  <2> DEFINE h == tg_files[k].hash
  <2>1. /\ h \in files \cup recovered
        /\ h = [content |-> contentOf[tg_files[k].tg_file_id], whole |-> TRUE]
    BY Zenon DEF IInv, RowInv
  <2> HIDE DEF h
  <2>2. h.whole = TRUE
    BY <2>1, Zenon
  <2>3. h.whole
    BY <2>2, Zenon
  <2>4. QED BY <2>1, <2>3, Zenon DEF h
<1>2. QED BY <1>1, Invariance, PTL

\* What resolveFile() leaves behind, for any number of calls, files and retries.
THEOREM FilesAreKept == Spec => []FilesKept
  BY TypeCorrect, SingleRow, StoredWhole, PTL DEF FilesKept

-----------------------------------------------------------------------------
(* GroupAdmins                                                             *)

HIDE FileAssumption

\* A call in one of these states holds the Mutex of trackAdmins().
Held == {"collect", "replace", "deleted"}

\* What a call has asked for and got: rows of its list, of users that exist, and all of them
\* once it has left the loop of pop().
Collected ==
  \A c \in Call :
    /\ channel[c] \cup popped[c] \subseteq Rows(c) \cap known
    /\ list[c] <= version
    /\ admin_pc[c] = "new" => list[c] = 0
    /\ admin_pc[c] \in {"replace", "deleted"} \cup AdminOrphan \/ c \in stored =>
         list[c] # 0 /\ popped[c] = Rows(c)
    /\ c \in stored => admin_pc[c] \in {"done", "dead"}

\* One call at a time is between lock() and unlock().
OneHolder ==
  /\ \A c \in Call : admin_pc[c] \in Held => AdminRuns(c)
  /\ \A c, d \in Call : admin_pc[c] \in Held /\ admin_pc[d] \in Held => c = d

\* While all workers live, a call that holds the Mutex has a list that is not older than
\* that of any finished call, and finds its own DELETE done before its INSERT.
InTurn ==
  admin_alive = AdminProc =>
    /\ \A c \in Call : admin_pc[c] \notin AdminOrphan \cup {"dead"}
    /\ \A c, d \in Call : admin_pc[c] \in Held /\ admin_pc[d] = "done" => list[d] <= list[c]
    /\ \A c \in Call : admin_pc[c] = "deleted" => stored = {}
    /\ \A c, d \in stored : c = d

AdminInv == AdminTypeOK /\ Collected /\ OneHolder /\ InTurn /\ NewestList /\ NotLost

USE AdminsAssumption DEF Version

\* At the start the table is empty and nobody has the Mutex.
LEMMA InitAdmin == AdminInit => AdminInv
BY DEF AdminInit, AdminInv, AdminTypeOK, Collected, OneHolder, InTurn, NewestList, NotLost,
       AdminPC, AdminOrphan, Held, Rows, AdminRuns

\* The beginning of trackAdmins(), under the Mutex, keeps the invariant;
LEMMA TrackAdmin ==
  ASSUME AdminInv, NEW c \in Call, trackAdmins(c)
  PROVE  AdminInv'
<1>1. AdminTypeOK'
  BY Zenon DEF AdminInv, trackAdmins, AdminTypeOK, AdminPC
<1>2. \A d \in Call : d # c => admin_pc'[d] = admin_pc[d] /\ list'[d] = list[d]
                               /\ admin_pc[d] \notin Held
  BY Zenon DEF AdminInv, trackAdmins, AdminTypeOK, AdminsLocked, Held
<1>3. /\ list'[c] = version /\ admin_pc[c] = "new" /\ list[c] = 0
      /\ admin_pc'[c] = IF listOf[version] = {} THEN "replace" ELSE "collect"
      /\ version \in 1..MaxVersion
      /\ UNCHANGED <<admin_alive, version, known, stored, channel, popped>>
  BY Zenon DEF AdminInv, trackAdmins, AdminTypeOK, Collected
<1>4. channel[c] = {} /\ popped[c] = {} /\ c \notin stored
  BY <1>3, Zenon DEF AdminInv, Collected, Rows
<1>5. Collected'
  <2>1. ASSUME NEW d \in Call, d # c
        PROVE  Rows(d)' = Rows(d)
    BY <1>2, <2>1, Zenon DEF Rows
  <2>2. Rows(c)' = listOf[version]
    <3>1. list'[c] = version /\ version # 0
      BY <1>3
    <3>2. QED BY <3>1, Zenon DEF Rows
  <2>3. ASSUME NEW d \in Call, d # c
        PROVE  Collected!(d)'
    <3>1. Collected!(d)
      BY <2>3, Zenon DEF AdminInv, Collected
    <3>2. /\ admin_pc'[d] = admin_pc[d] /\ list'[d] = list[d]
          /\ UNCHANGED <<version, known, stored, channel, popped>>
      BY <1>2, <1>3, <2>3, Zenon
    <3>3. QED BY <2>1, <2>3, <3>1, <3>2, Zenon
  <2>4. Collected!(c)'
    BY <1>3, <1>4, <2>2 DEF AdminOrphan
  <2> QED
    BY <2>3, <2>4, Zenon DEF Collected
<1>6. OneHolder'
  BY <1>2, <1>3, Zenon DEF trackAdmins, OneHolder, AdminRuns
<1>7. InTurn'
  BY <1>2, <1>3, <1>1, Zenon DEF AdminInv, InTurn, Held, AdminOrphan, Collected, AdminTypeOK
<1>8. NewestList' /\ NotLost'
  <2>1. \A d \in Call : admin_pc'[d] = "done" => admin_pc[d] = "done" /\ d # c
    BY <1>2, <1>3, Zenon
  <2>2. \A d \in Call : admin_pc[d] = "done" => d # c
    BY <1>3, Zenon
  <2>3. \A d \in Call : d # c => Rows(d)' = Rows(d)
    BY <1>2, Zenon DEF Rows
  <2>4. NewestList'
    BY <1>2, <1>3, <1>4, <2>1, Zenon DEF AdminInv, NewestList, AdminTypeOK
  <2>5. NotLost'
    <3>1. \A d \in Call : admin_pc[d] # "deleted"
      BY <1>2, <1>3, Zenon DEF Held
    <3> SUFFICES ASSUME admin_alive = AdminProc, stored = {}, NEW d \in Call,
                        admin_pc'[d] = "done", list'[d] # 0
                 PROVE  \E x \in Call : /\ admin_pc'[x] = "done" /\ list'[x] >= list'[d]
                                        /\ list'[x] # 0 /\ Rows(x)' = {}
      BY <1>3, Zenon DEF NotLost
    <3>2. PICK x \in Call : /\ admin_pc[x] = "done" /\ list[x] >= list[d]
                            /\ list[x] # 0 /\ Rows(x) = {}
      BY <1>2, <2>1, <3>1, Zenon DEF AdminInv, NotLost
    <3> QED
      BY <1>2, <2>1, <2>2, <2>3, <3>2, Zenon
  <2> QED
    BY <2>4, <2>5, Zenon
<1> QED
  BY <1>1, <1>5, <1>6, <1>7, <1>8, Zenon DEF AdminInv

\* so does an answer of the API without a list,
LEMMA NoResultAdmin ==
  ASSUME AdminInv, NEW c \in Call, noResult(c)
  PROVE  AdminInv'
<1>1. AdminTypeOK'
  BY Zenon DEF AdminInv, noResult, AdminTypeOK, AdminPC
<1>2. /\ \A d \in Call : d # c => admin_pc'[d] = admin_pc[d]
      /\ \A d \in Call : admin_pc[d] \notin Held
      /\ admin_pc[c] = "new" /\ admin_pc'[c] = "done" /\ list[c] = 0
      /\ UNCHANGED <<admin_alive, version, known, stored, list, channel, popped>>
  BY Zenon DEF AdminInv, noResult, AdminTypeOK, AdminsLocked, Held, Collected
<1>3. \A d \in Call : Rows(d)' = Rows(d)
  BY <1>2, Zenon DEF Rows
<1>4. Collected'
  BY <1>2, <1>3, Zenon DEF AdminInv, Collected, AdminOrphan
<1>5. OneHolder' /\ InTurn'
  BY <1>2, Zenon DEF AdminInv, OneHolder, InTurn, Held, AdminOrphan
<1>6. NewestList'
  BY <1>2 DEF AdminInv, NewestList, AdminTypeOK
<1>7. NotLost'
  BY <1>2, <1>3, Zenon DEF AdminInv, NotLost, Held
<1> QED
  BY <1>1, <1>4, <1>5, <1>6, <1>7, Zenon DEF AdminInv

\* a coroutine that pushes the administrator it resolved,
LEMMA PushAdmin ==
  ASSUME AdminInv, NEW c \in Call, NEW a \in Admin, pushAdmin(c, a)
  PROVE  AdminInv'
<1>1. AdminTypeOK'
  BY Zenon DEF AdminInv, pushAdmin, AdminTypeOK
<1>2. /\ \A d \in Call : d # c => channel'[d] = channel[d]
      /\ channel'[c] = channel[c] \cup {a} /\ a \in Rows(c) /\ known' = known \cup {a}
      /\ UNCHANGED <<admin_alive, version, stored, admin_pc, list, popped>>
  BY Zenon DEF AdminInv, pushAdmin, AdminTypeOK
<1>3. \A d \in Call : Rows(d)' = Rows(d)
  BY <1>2, Zenon DEF Rows
<1>4. Collected'
  BY <1>2, <1>3, Zenon DEF AdminInv, Collected
<1>5. OneHolder' /\ InTurn'
  BY <1>2, Zenon DEF AdminInv, OneHolder, AdminRuns, InTurn
<1>6. NewestList' /\ NotLost'
  BY <1>2, <1>3, Zenon DEF AdminInv, NewestList, NotLost
<1> QED
  BY <1>1, <1>4, <1>5, <1>6, Zenon DEF AdminInv

\* The loop that pops one row for each administrator ends with all of them.
LEMMA CompleteIsWhole ==
  ASSUME AdminTypeOK, NEW c \in Call, NEW S \in SUBSET Rows(c), Complete(c, S)
  PROVE  S = Rows(c)
<1>1. Rows(c) \in SUBSET Admin
  BY Zenon DEF AdminTypeOK, Rows
<1>2. IsFiniteSet(Rows(c))
  BY <1>1, FS_Subset, Zenon
<1>3. /\ Cardinality(S) \in Nat /\ Cardinality(Rows(c)) \in Nat
      /\ Cardinality(S) <= Cardinality(Rows(c))
      /\ Cardinality(S) = Cardinality(Rows(c)) => S = Rows(c)
  BY <1>2, FS_Subset, FS_CardinalityType, Zenon
<1> QED
  BY <1>3 DEF Complete

\* the pop() that collects it,
LEMMA PopAdmin ==
  ASSUME AdminInv, NEW c \in Call, NEW a \in Admin, popAdmin(c, a)
  PROVE  AdminInv'
<1>1. AdminTypeOK'
  BY Zenon DEF AdminInv, popAdmin, AdminTypeOK, AdminPC
<1>2. /\ \A d \in Call : d # c => /\ channel'[d] = channel[d] /\ popped'[d] = popped[d]
                                  /\ admin_pc'[d] = admin_pc[d]
      /\ channel'[c] = channel[c] \ {a} /\ popped'[c] = popped[c] \cup {a} /\ a \in channel[c]
      /\ admin_pc[c] = "collect" /\ admin_pc'[c] \in {"collect", "replace"}
      /\ admin_pc'[c] = "replace" => Complete(c, popped'[c])
      /\ UNCHANGED <<admin_alive, version, known, stored, list>>
  BY Zenon DEF AdminInv, popAdmin, AdminTypeOK
<1>3. \A d \in Call : Rows(d)' = Rows(d)
  BY <1>2, Zenon DEF Rows
<1>4. popped'[c] \subseteq Rows(c) \cap known
  BY <1>2, Zenon DEF AdminInv, Collected
<1>5. admin_pc'[c] = "replace" => popped'[c] = Rows(c) /\ list[c] # 0
  <2>1. Rows(c) # {} => list[c] # 0
    BY Zenon DEF Rows
  <2> QED
    BY <1>2, <1>4, <2>1, CompleteIsWhole, Zenon DEF AdminInv
<1>6. Collected'
  BY <1>2, <1>3, <1>4, <1>5, Zenon DEF AdminInv, Collected, AdminOrphan
<1>7. OneHolder' /\ InTurn'
  BY <1>2, Zenon DEF AdminInv, OneHolder, AdminRuns, InTurn, Held, AdminOrphan
<1>8. NewestList' /\ NotLost'
  BY <1>2, <1>3 DEF AdminInv, NewestList, NotLost
<1> QED
  BY <1>1, <1>6, <1>7, <1>8, Zenon DEF AdminInv

\* the DELETE of the old rows,
LEMMA DeleteAdmin ==
  ASSUME AdminInv, NEW c \in Call, deleteAdmins(c)
  PROVE  AdminInv'
<1>1. AdminTypeOK'
  BY Zenon DEF AdminInv, deleteAdmins, AdminTypeOK, AdminPC
<1>2. /\ \A d \in Call : d # c => admin_pc'[d] = admin_pc[d] /\ admin_pc[d] \notin Held
      /\ admin_pc[c] = "replace" /\ list[c] # 0 /\ popped[c] = Rows(c)
      /\ admin_pc'[c] = IF popped[c] = {} THEN "done" ELSE "deleted"
      /\ stored' = {}
      /\ UNCHANGED <<admin_alive, version, known, list, channel, popped>>
  BY Zenon DEF AdminInv, deleteAdmins, AdminTypeOK, Collected, OneHolder, Held
<1>3. \A d \in Call : Rows(d)' = Rows(d)
  BY <1>2, Zenon DEF Rows
<1>4. Collected'
  BY <1>2, <1>3, Zenon DEF AdminInv, Collected, AdminOrphan
<1>5. OneHolder'
  BY <1>2, Zenon DEF AdminInv, OneHolder, AdminRuns, Held
<1>6. InTurn'
  BY <1>2, Zenon DEF AdminInv, InTurn, Held, AdminOrphan
<1>7. NewestList'
  BY <1>2, Zenon DEF NewestList
<1>8. NotLost'
  <2>1. CASE popped[c] # {}
    BY <1>2, <2>1, Zenon DEF NotLost
  <2>2. CASE popped[c] = {}
    <3> SUFFICES ASSUME admin_alive = AdminProc, NEW d \in Call,
                        admin_pc'[d] = "done", list[d] # 0
                 PROVE  list[c] >= list[d]
      BY <1>2, <1>3, <2>2, Zenon DEF NotLost
    <3> QED
      BY <1>2 DEF AdminInv, InTurn, Held, AdminTypeOK
  <2> QED
    BY <2>1, <2>2, Zenon
<1> QED
  BY <1>1, <1>4, <1>5, <1>6, <1>7, <1>8, Zenon DEF AdminInv

\* the INSERT of the new ones,
LEMMA InsertAdmin ==
  ASSUME AdminInv, NEW c \in Call, insertAdmins(c)
  PROVE  AdminInv'
<1>1. AdminTypeOK'
  BY Zenon DEF AdminInv, insertAdmins, AdminTypeOK, AdminPC
<1>2. /\ \A d \in Call : d # c => admin_pc'[d] = admin_pc[d] /\ admin_pc[d] \notin Held
      /\ admin_pc[c] = "deleted" /\ admin_pc'[c] = "done" /\ stored' = stored \cup {c}
      /\ UNCHANGED <<admin_alive, version, known, list, channel, popped>>
  BY Zenon DEF AdminInv, insertAdmins, AdminTypeOK, OneHolder, Held
<1>3. \A d \in Call : Rows(d)' = Rows(d)
  BY <1>2, Zenon DEF Rows
<1>4. Collected'
  BY <1>2, <1>3, Zenon DEF AdminInv, Collected, AdminOrphan
<1>5. OneHolder'
  BY <1>2, Zenon DEF AdminInv, OneHolder, AdminRuns, Held
<1>6. admin_alive = AdminProc => stored' = {c}
  BY <1>2, Zenon DEF AdminInv, InTurn
<1>7. InTurn'
  BY <1>2, <1>6, Zenon DEF AdminInv, InTurn, Held, AdminOrphan
<1>8. NewestList'
  BY <1>2, <1>6 DEF AdminInv, InTurn, Held, NewestList, AdminTypeOK
<1>9. NotLost'
  BY <1>2, Zenon DEF NotLost
<1> QED
  BY <1>1, <1>4, <1>5, <1>7, <1>8, <1>9, Zenon DEF AdminInv

\* the death of a worker,
LEMMA ExitAdmin ==
  ASSUME AdminInv, NEW p \in AdminProc, admin_exit(p)
  PROVE  AdminInv'
<1>1. \A d \in Call :
        /\ callProc[d] # p => admin_pc'[d] = admin_pc[d]
        /\ callProc[d] = p =>
             /\ admin_pc'[d] \in AdminOrphan \cup {"dead"}
             /\ admin_pc'[d] \in AdminOrphan => admin_pc[d] \in {"replace", "deleted"}
  BY Zenon DEF AdminInv, admin_exit, AdminTypeOK, AdminPC, AdminLeaves, AdminOrphan
<1>2. AdminTypeOK'
  BY <1>1, Zenon DEF AdminInv, admin_exit, AdminTypeOK, AdminPC
<1>3. admin_alive' # AdminProc
  BY Zenon DEF admin_exit
<1>4. InTurn' /\ NewestList' /\ NotLost'
  BY <1>3, Zenon DEF InTurn, NewestList, NotLost
<1>5. OneHolder'
  BY <1>1, Zenon DEF AdminInv, OneHolder, AdminRuns, Held, AdminOrphan, admin_exit
<1>6. \A d \in Call : Rows(d)' = Rows(d)
  BY Zenon DEF Rows, admin_exit
<1>7. Collected'
  BY <1>1, <1>6, Zenon DEF AdminInv, Collected, AdminOrphan, admin_exit
<1> QED
  BY <1>2, <1>4, <1>5, <1>7, Zenon DEF AdminInv

\* a statement that the database executes for a dead worker,
LEMMA ServerAdmin ==
  ASSUME AdminInv, NEW c \in Call, adminExecutes(c) \/ adminDrops(c)
  PROVE  AdminInv'
<1>1. AdminTypeOK'
  BY Zenon DEF AdminInv, adminExecutes, adminDrops, AdminTypeOK, AdminPC
<1>2. /\ \A d \in Call : d # c => admin_pc'[d] = admin_pc[d]
      /\ admin_pc[c] \in AdminOrphan /\ admin_pc'[c] = "dead"
      /\ stored' \in {stored, {}, stored \cup {c}}
      /\ UNCHANGED <<admin_alive, version, known, list, channel, popped>>
  BY Zenon DEF AdminInv, adminExecutes, adminDrops, AdminTypeOK, AdminOrphan
<1>3. admin_alive # AdminProc
  BY <1>2, Zenon DEF AdminInv, InTurn
<1>4. InTurn' /\ NewestList' /\ NotLost'
  BY <1>2, <1>3, Zenon DEF InTurn, NewestList, NotLost
<1>5. OneHolder'
  BY <1>2, Zenon DEF AdminInv, OneHolder, AdminRuns, Held
<1>6. \A d \in Call : Rows(d)' = Rows(d)
  BY <1>2, Zenon DEF Rows
<1>7. Collected'
  BY <1>2, <1>6, Zenon DEF AdminInv, Collected, AdminOrphan
<1> QED
  BY <1>1, <1>4, <1>5, <1>7, Zenon DEF AdminInv

\* and a change of the list at Telegram.
LEMMA ChangeAdmin ==
  ASSUME AdminInv, changeAdmins
  PROVE  AdminInv'
<1>1. AdminTypeOK'
  BY DEF AdminInv, changeAdmins, AdminTypeOK
<1>2. \A d \in Call : Rows(d)' = Rows(d)
  BY Zenon DEF Rows, changeAdmins
<1>3. Collected'
  BY <1>2, SMTT(40) DEF AdminInv, Collected, changeAdmins, AdminTypeOK
<1>4. OneHolder' /\ InTurn' /\ NewestList' /\ NotLost'
  BY <1>2, Zenon DEF AdminInv, changeAdmins, OneHolder, AdminRuns, InTurn, NewestList, NotLost
<1> QED
  BY <1>1, <1>3, <1>4, Zenon DEF AdminInv

\* Every step keeps the invariant of the administrators.
LEMMA StepAdmin == AdminInv /\ [AdminNext]_adminVars => AdminInv'
<1> SUFFICES ASSUME AdminInv, [AdminNext]_adminVars
             PROVE  AdminInv'
  BY Zenon
<1>1. ASSUME NEW c \in Call, AdminStep(c) \/ adminExecutes(c) \/ adminDrops(c)
      PROVE  AdminInv'
  BY <1>1, TrackAdmin, NoResultAdmin, PushAdmin, PopAdmin, DeleteAdmin, InsertAdmin, ServerAdmin, Zenon
     DEF AdminStep
<1>2. CASE UNCHANGED adminVars
  BY <1>2, Zenon DEF adminVars, AdminInv, AdminTypeOK, Collected, OneHolder, AdminRuns, InTurn,
                     NewestList, NotLost, Rows
<1> QED
  BY <1>1, <1>2, ExitAdmin, ChangeAdmin, Zenon DEF AdminNext

\* tg_group_admins holds what trackAdmins() promises, for any number of workers, calls and
\* lists, whatever worker dies when.
THEOREM AdminsAreKept == AdminSpec => []AdminsKept
<1>1. AdminInv => AdminsKept
  <2> SUFFICES ASSUME AdminInv
               PROVE  OneList /\ WholeList
    BY Zenon DEF AdminInv, AdminsKept
  <2>1. WholeList
    BY Zenon DEF AdminInv, Collected, WholeList, AdminOrphan
  <2>2. ASSUME admin_alive = AdminProc
        PROVE  Cardinality(stored) <= 1
    <3>1. CASE stored = {}
      BY <3>1, FS_EmptySet
    <3>2. CASE stored # {}
      <4>1. PICK c \in stored : stored = {c}
        BY <2>2, <3>2 DEF AdminInv, InTurn
      <4>2. Cardinality({c}) = 1
        BY FS_Singleton, Zenon
      <4> QED
        BY <4>1, <4>2
    <3> QED
      BY <3>1, <3>2, Zenon
  <2> QED
    BY <2>1, <2>2, Zenon DEF OneList
<1> QED
  BY <1>1, InitAdmin, StepAdmin, PTL DEF AdminSpec
=============================================================================
