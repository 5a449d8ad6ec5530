----------------------------- MODULE FileStore -----------------------------
(***************************************************************************)
(* LoggerUtils/File.php: resolveFile() turns the id of a Telegram file     *)
(* into the id of a row of tg_files.  Under the Mutex                      *)
(* "tg_files/<md5 of the Telegram id>" it looks for the row and, without   *)
(* one, downloads the file to tmp_download/, moves it to files/ under the  *)
(* hash of its content and inserts the row.  tg_file_id has no UNIQUE key. *)
(*                                                                         *)
(* Hashes do not collide: a stored file is named by what it contains, the  *)
(* content of a Telegram file and whether all of it is there.              *)
(***************************************************************************)
EXTENDS Naturals, Sequences

CONSTANTS
  Proc,      \* logger worker processes
  Req,       \* calls of resolveFile()
  procOf,    \* the process of a call
  TgFile,    \* Telegram file ids
  fileOf,    \* the Telegram file id a call is for
  answered,  \* the file_id in Telegram's answer to getFile for an id
  Content,
  contentOf, \* the content of a Telegram file
  MaxTry,    \* $downTry after which a failure is final (5 in the code)
  NoFile

ASSUME FileAssumption ==
  /\ procOf \in [Req -> Proc]
  /\ fileOf \in [Req -> TgFile]
  /\ answered \in [TgFile -> TgFile]
  /\ contentOf \in [TgFile -> Content]
  /\ \A f \in TgFile : contentOf[answered[f]] = contentOf[f]
  /\ MaxTry \in Nat
  /\ NoFile \notin [content : Content, whole : BOOLEAN]

VARIABLES
  alive,     \* workers that have not died
  tmp,       \* tmp[f]: what is in the temporary file of f, or NoFile
  files,     \* contents in files/
  recovered, \* contents left in tmp_download/ under their hash
  tg_files,  \* the rows, by id
  pc,        \* pc[r]: how far the call has come
  downTry,   \* downTry[r]: downloads begun
  short,     \* calls that filesize() has told of a short file (PHP caches the answer)
  fullHash,  \* fullHash[r]: the name of what the call has downloaded, or NoFile
  result     \* result[r]: the row's id, 0: null or not yet

vars == <<alive, tmp, files, recovered, tg_files, pc, downTry, short, fullHash, result>>
storage == <<tmp, files, recovered>>

Stored == [content : Content, whole : BOOLEAN]
Active == {"asking", "trying", "receiving", "received", "moved"}
PC == {"new", "done", "dead", "orphan"} \cup Active

Init ==
  /\ alive = Proc
  /\ tmp = [f \in TgFile |-> NoFile]
  /\ files = {} /\ recovered = {}
  /\ tg_files = <<>>
  /\ pc = [r \in Req |-> "new"]
  /\ downTry = [r \in Req |-> 0]
  /\ short = {}
  /\ fullHash = [r \in Req |-> NoFile]
  /\ result = [r \in Req |-> 0]

Runs(r) == procOf[r] \in alive
Goes(r, from, to) == Runs(r) /\ pc[r] = from /\ pc' = [pc EXCEPT ![r] = to]

\* Somebody is between lock() and unlock() for the file.
FileLocked(f) == \E r \in Req : fileOf[r] = f /\ pc[r] \in Active

-----------------------------------------------------------------------------
\* SELECT id ... WHERE tg_file_id = ? LIMIT 1
Found(f) == {k \in 1..Len(tg_files) : tg_files[k].tg_file_id = f}

resolveKnown(r) ==
  /\ ~ FileLocked(fileOf[r])
  /\ Goes(r, "new", "done")
  /\ \E k \in Found(fileOf[r]) : result' = [result EXCEPT ![r] = k]
  /\ UNCHANGED <<alive, storage, tg_files, downTry, short, fullHash>>

resolveUnknown(r) ==
  /\ ~ FileLocked(fileOf[r])
  /\ Goes(r, "new", "asking")
  /\ Found(fileOf[r]) = {}
  /\ UNCHANGED <<alive, storage, tg_files, downTry, short, fullHash, result>>

\* getFile answers, or its answer lacks a field: return null.
getFile(r) ==
  /\ Goes(r, "asking", "trying")
  /\ UNCHANGED <<alive, storage, tg_files, downTry, short, fullHash, result>>

getFileFails(r) ==
  /\ Goes(r, "asking", "done")
  /\ UNCHANGED <<alive, storage, tg_files, downTry, short, fullHash, result>>

-----------------------------------------------------------------------------

tmpFile(r) == fileOf[r]

Part(r) == [content |-> contentOf[fileOf[r]], whole |-> FALSE]
Whole(r) == [content |-> contentOf[fileOf[r]], whole |-> TRUE]

\* Faulty variant: the counter is set after the label that a retry jumps to.
download_Resets(r) ==
  /\ Goes(r, "trying", "receiving")
  /\ downTry' = [downTry EXCEPT ![r] = 1]
  /\ tmp' = [tmp EXCEPT ![tmpFile(r)] = Part(r)]
  /\ UNCHANGED <<alive, files, recovered, tg_files, short, fullHash, result>>

\* SaberGM::download() opens the temporary file, empties it and fills it.
download(r) ==
  /\ Goes(r, "trying", "receiving")
  /\ downTry' = [downTry EXCEPT ![r] = @ + 1]
  /\ tmp' = [tmp EXCEPT ![tmpFile(r)] = Part(r)]
  /\ UNCHANGED <<alive, files, recovered, tg_files, short, fullHash, result>>

\* The transfer reports success, with all of the file or with less.
transferred(r) ==
  /\ Goes(r, "receiving", "received")
  /\ tmp' \in {[tmp EXCEPT ![tmpFile(r)] = x] : x \in {Part(r), Whole(r)}}
  /\ UNCHANGED <<alive, files, recovered, tg_files, downTry, short, fullHash, result>>

GivesUp(r) == downTry[r] > MaxTry

\* retry_download
retry_download(r, from) ==
  /\ \/ ~ GivesUp(r) /\ Goes(r, from, "trying")
     \/ GivesUp(r) /\ Goes(r, from, "done")
  /\ UNCHANGED <<alive, storage, tg_files, downTry, fullHash, result>>

transferFails(r) == retry_download(r, "receiving") /\ UNCHANGED short

\* Faulty variant: the size is not compared.
TooShort_Never(r) == FALSE

\* What is in the temporary file is less than $j["file_size"].
TooShort(r) == tmp[tmpFile(r)] \notin [content : Content, whole : {TRUE}]

\* filesize() repeats a cached answer unless another path was looked at since, so
\* that after one short download a complete one may be taken for short too.
sizeTooSmall(r) ==
  /\ TooShort(r) \/ r \in short
  /\ short' = short \cup {r}
  /\ retry_download(r, "received")

\* rename() to files/, or, if that fails, to the hash's name in tmp_download/.
move(r) ==
  /\ ~ TooShort(r)
  /\ Goes(r, "received", "moved")
  /\ fullHash' = [fullHash EXCEPT ![r] = tmp[tmpFile(r)]]
  /\ tmp' = [tmp EXCEPT ![tmpFile(r)] = NoFile]
  /\ \/ files' = files \cup {tmp[tmpFile(r)]} /\ UNCHANGED recovered
     \/ recovered' = recovered \cup {tmp[tmpFile(r)]} /\ UNCHANGED files
  /\ UNCHANGED <<alive, tg_files, downTry, short, result>>

\* Neither is possible: return null.
moveFails(r) ==
  /\ ~ TooShort(r)
  /\ Goes(r, "received", "done")
  /\ UNCHANGED <<alive, storage, tg_files, downTry, short, fullHash, result>>

-----------------------------------------------------------------------------
\* INSERT INTO tg_files, with the id that Telegram answered; unlock.
Insert(r) ==
  tg_files' = Append(tg_files, [tg_file_id |-> answered[fileOf[r]], hash |-> fullHash[r]])

insert(r) ==
  /\ Goes(r, "moved", "done")
  /\ Insert(r)
  /\ result' = [result EXCEPT ![r] = Len(tg_files')]
  /\ UNCHANGED <<alive, storage, downTry, short, fullHash>>

\* An uncaught Exception or Error ends the process; the kernel releases its Mutexes,
\* but an INSERT already sent may still be executed.
LeftBehind(s) == IF s = "moved" THEN "orphan" ELSE "dead"

exit(p) ==
  /\ p \in alive
  /\ alive' = alive \ {p}
  /\ pc' = [r \in Req |-> IF procOf[r] = p THEN LeftBehind(pc[r]) ELSE pc[r]]
  /\ UNCHANGED <<storage, tg_files, downTry, short, fullHash, result>>

serverExecutes(r) ==
  /\ pc[r] = "orphan"
  /\ pc' = [pc EXCEPT ![r] = "dead"]
  /\ Insert(r)
  /\ UNCHANGED <<alive, storage, downTry, short, fullHash, result>>

Resolve(r) == resolveKnown(r) \/ resolveUnknown(r)
Download(r) ==
  \/ getFile(r) \/ getFileFails(r)
  \/ download(r) \/ transferred(r) \/ transferFails(r) \/ sizeTooSmall(r)
  \/ move(r) \/ moveFails(r) \/ insert(r)

Next ==
  \/ \E r \in Req : Resolve(r) \/ Download(r) \/ serverExecutes(r)
  \/ \E p \in Proc : exit(p)

Spec == Init /\ [][Next]_vars

\* A live worker gets on with a call it has begun; every request to Telegram has a
\* timeout.
FairSpec == Spec /\ \A r \in Req : WF_vars(Download(r))

-----------------------------------------------------------------------------
\* Every variable has its type; a call downloads at most MaxTry + 1 times.
TypeOK ==
  /\ alive \in SUBSET Proc
  /\ tmp \in [TgFile -> Stored \cup {NoFile}]
  /\ files \in SUBSET Stored /\ recovered \in SUBSET Stored
  /\ tg_files \in Seq([tg_file_id : TgFile, hash : Stored])
  /\ pc \in [Req -> PC]
  /\ downTry \in [Req -> 0..(MaxTry + 1)]
  /\ short \in SUBSET Req
  /\ fullHash \in [Req -> Stored \cup {NoFile}]
  /\ result \in [Req -> Nat]
  /\ \A r \in Req : result[r] <= Len(tg_files)

\* Two rows have the same tg_file_id only if a worker died with its INSERT on the way,
\* or if Telegram answered a getFile for another id with this one: nothing but
\* resolveFile()'s Mutex, which is on the id asked for, keeps rows apart.
OneRow ==
  \A j, k \in 1..Len(tg_files) :
    /\ j # k
    /\ tg_files[j].tg_file_id = tg_files[k].tg_file_id
    => \/ alive # Proc
       \/ \E f \in TgFile : f # answered[f] /\ answered[f] = tg_files[k].tg_file_id

\* Every row names a file that is on disk and complete, through retries, failing
\* renames and workers that die half-way.
RowIsBacked ==
  \A k \in 1..Len(tg_files) :
    tg_files[k].hash \in files \cup recovered /\ tg_files[k].hash.whole

\* The id that resolveFile() returns is the id of a row for the content asked for.
ReturnsRequested ==
  \A r \in Req : result[r] # 0 => tg_files[result[r]].hash = Whole(r)

\* What resolveFile() leaves behind, through retries, failing renames and deaths: a row per
\* file, each backed by a whole file on disk, and the caller has the row it asked for.
FilesKept == TypeOK /\ OneRow /\ RowIsBacked /\ ReturnsRequested

\* resolveFile() returns, however often downloads fail, unless its worker dies.
ResolveEnds == \A r \in Req : pc[r] \in Active ~> pc[r] \in {"done", "dead", "orphan"}
=============================================================================
