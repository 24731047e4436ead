------------------------------ MODULE MUpload ------------------------------
(***************************************************************************)
(* The chunked upload server of day08/mupload.cc.                          *)
(*                                                                         *)
(* A client announces a file (init), sends its chunks (uppart) and asks    *)
(* whether all of them have arrived (complete).  The server keeps what it  *)
(* knows of an upload in a Redis hash, and the chunks in a directory named *)
(* after the file's hash.  Every request is a Workflow series of its own;  *)
(* the Redis tasks of the requests interleave.                             *)
(*                                                                         *)
(* The Redis hash that init fills is named "MP_" and the upload id, but    *)
(* the id that init tells the client has no "MP_", and uppart and complete *)
(* use what the client sends as it is: a client that does not put "MP_"    *)
(* before the id works on another hash, which nobody filled.               *)
(*                                                                         *)
(* A file is identified with its hash.  The data of a chunk is identified  *)
(* with the file it was cut from.                                          *)
(***************************************************************************)
EXTENDS Integers, FiniteSets

CONSTANTS
  Client,      \* uploads: a client announces one file
  Request,     \* requests the server works on at the same time
  Hash,        \* the files, by hash
  Idx,         \* chunk numbers a client may send
  Minutes,     \* minutes of a day, the resolution of an upload id
  FileSize,    \* size of every file, as the client announces it
  ChunkSize,   \* chunksize
  IntHalf,     \* an int holds -IntHalf .. IntHalf-1
  RetryMax,    \* retry_max of a Redis task
  Sends,       \* what clients put before the id that they were told
  Faults,      \* what may go wrong: "redis", "disk", "restart"
  Nil,         \* no value: a missing field, no upload
  Mixed        \* the content of a chunk file that is no chunk of any file

ASSUME ConstantsAssumption ==
  /\ Minutes \in Nat \ {0}
  /\ FileSize \in [Hash -> Nat]
  /\ ChunkSize \in Nat \ {0}
  /\ IntHalf \in Nat \ {0}
  /\ RetryMax \in Nat
  /\ Sends \subseteq {"bare", "MP_"}
  /\ Idx \subseteq Nat \ {0}
  \* A client may send every chunk its file has.
  /\ \A h \in Hash : FileSize[h] < IntHalf =>
       {i \in 1 .. FileSize[h] : (i - 1) * ChunkSize < FileSize[h]} \subseteq Idx
  /\ Nil \notin Int \cup Hash
  /\ Mixed \notin Hash \cup {Nil}

Minute == 0 .. Minutes-1
\* The names of Redis hashes: an upload id, as it was told ("bare") or with MP_
\* before it.
Key == {"bare", "MP_"} \X Minute
\* init also stores the field filesize, which nothing reads.
Field == {"chunkcount", "filehash"}

VARIABLES
  sid, sfile,  \* id that each client was told, and its file; Nil before its init
  left,        \* attempts left of the HSET tasks that init started, by field
  info,        \* Redis: what init stored, by hash
  parts,       \* Redis: the chkidx_* fields, by hash
  req,         \* each request: the task its series waits for, or its answer
  disk,        \* content of the chunk files, by directory and chunk number
  \* History, for the properties only.
  missed,      \* hashes in which an uppart found no filehash
  spoiled      \* files of which the write of a chunk failed

serverVars == <<sid, sfile, left, info, parts, req, disk>>
historyVars == <<missed, spoiled>>
vars == <<serverVars, historyVars>>

MayFail(what) == what \in Faults

(***************************************************************************)
(* The arithmetic of init.  The size arrives as a JSON number and is       *)
(* narrowed to an int; / and % truncate towards zero.                      *)
(***************************************************************************)
ToInt(n) == ((n + IntHalf) % (2 * IntHalf)) - IntHalf

CDiv(a, b) == IF a >= 0 THEN a \div b ELSE -((-a) \div b)

\* Mutant: the remainder is dropped.
ChunkCountFloor(h) == CDiv(ToInt(FileSize[h]), ChunkSize)

ChunkCount(h) ==
  LET filesize == ToInt(FileSize[h])
  IN  CDiv(filesize, ChunkSize) + (IF filesize % ChunkSize # 0 THEN 1 ELSE 0)

InitArgs(h) == [f \in Field |->
  CASE f = "chunkcount" -> ChunkCount(h)
    [] f = "filehash"   -> h]

-----------------------------------------------------------------------------

\* A request: what it waits for, and of whom it is; guess says, for the properties
\* only, that its answer compared an uninitialised chunkcount.
Waiting(op, c, k, i) == [op |-> op, client |-> c, key |-> k, idx |-> i, guess |-> FALSE]
Idle == Waiting("idle", Nil, Nil, Nil)

\* The answers of complete; the answer OK of uppart is the state Idle.
Answers == {"SUCCESS", "FAIL"}

Free(r) == req[r].op \in Answers \cup {"idle"}

Init ==
  /\ sid = [c \in Client |-> Nil]
  /\ sfile = [c \in Client |-> Nil]
  /\ left = [c \in Client |-> [f \in Field |-> 0]]
  /\ info = [k \in Key |-> [f \in Field |-> Nil]]
  /\ parts = [k \in Key |-> {}]
  /\ req = [r \in Request |-> Idle]
  /\ disk = [h \in Hash |-> [i \in Idx |-> Nil]]
  /\ missed = {}
  /\ spoiled = {}

(***************************************************************************)
(* POST /file/mupload/init.  The handler starts one HSET task per field,   *)
(* each in a series of its own, and answers without waiting for them.  All *)
(* that the upload id says of the time is the minute m of the day.  The    *)
(* client is told the id, the tasks store under StoredKey.                 *)
(***************************************************************************)
\* Mutant: the loop over the arguments starts at 1, chunkcount is not stored.
InitUploadNoCount(c, h, m) ==
  /\ sid[c] = Nil
  /\ sid' = [sid EXCEPT ![c] = m]
  /\ sfile' = [sfile EXCEPT ![c] = h]
  /\ left' = [left EXCEPT ![c]["filehash"] = RetryMax + 1]
  /\ UNCHANGED <<info, parts, req, disk, historyVars>>

InitUpload(c, h, m) ==
  /\ sid[c] = Nil
  /\ sid' = [sid EXCEPT ![c] = m]
  /\ sfile' = [sfile EXCEPT ![c] = h]
  /\ left' = [left EXCEPT ![c] = [f \in Field |-> RetryMax + 1]]
  /\ UNCHANGED <<info, parts, req, disk, historyVars>>

StoredKey(c) == <<"MP_", sid[c]>>

\* An attempt of such a task reaches Redis.  If the reply is lost the task
\* is tried again, although its effect is already there.
HsetLands(c, f) ==
  /\ left[c][f] > 0
  /\ info' = [info EXCEPT ![StoredKey(c)][f] = InitArgs(sfile[c])[f]]
  /\ \E n \in {0} \cup (IF MayFail("redis") THEN {left[c][f] - 1} ELSE {}) :
       left' = [left EXCEPT ![c][f] = n]
  /\ UNCHANGED <<sid, sfile, parts, req, disk, historyVars>>

\* Mutant: a failed attempt is counted even when none is left.
HsetFailsUnguarded(c, f) ==
  /\ MayFail("redis")
  /\ left' = [left EXCEPT ![c][f] = @ - 1]
  /\ UNCHANGED <<sid, sfile, info, parts, req, disk, historyVars>>

\* An attempt fails before it reaches Redis.  Nobody looks at the state of
\* the task: the callback is nullptr.
HsetFails(c, f) ==
  /\ MayFail("redis")
  /\ left[c][f] > 0
  /\ left' = [left EXCEPT ![c][f] = @ - 1]
  /\ UNCHANGED <<sid, sfile, info, parts, req, disk, historyVars>>

(***************************************************************************)
(* POST /file/mupload/uppart: HGET, then in its callback the write, then   *)
(* HSET, then the answer.  A client sends its own chunks under its own id, *)
(* as it was told or with the prefix.                                      *)
(***************************************************************************)
UppartStart(r, c, prefix, i) ==
  /\ Free(r)
  /\ sid[c] # Nil
  /\ req' = [req EXCEPT ![r] = Waiting("hget", c, <<prefix, sid[c]>>, i)]
  /\ UNCHANGED <<sid, sfile, left, info, parts, disk, historyVars>>

\* Mutant: the lookup ignores the upload id of the request.
HgetResultsAnyId(k) == {info[j]["filehash"] : j \in Key}

\* What filehash the callback of HGET gets: none if the field is not there
\* or the task failed.
HgetResults(k) ==
  {info[k]["filehash"]} \cup (IF MayFail("redis") THEN {Nil} ELSE {})

\* What a chunk file may hold after the chunk of file h was written over the
\* content old.  The file is not truncated, so the tail of a longer chunk of
\* another file stays.
Written(old, h) == IF old \in {Nil, h} THEN {h} ELSE {h, Mixed}

\* mkdir, open, write and close of chunk i of file h in the directory dir;
\* nothing looks at what they return.
WriteChunk(dir, i, h) ==
  \/ /\ \E content \in Written(disk[dir][i], h) :
          disk' = [disk EXCEPT ![dir][i] = content]
     /\ UNCHANGED spoiled
  \/ /\ MayFail("disk")
     /\ \E content \in {disk[dir][i], Mixed} :
          disk' = [disk EXCEPT ![dir][i] = content]
     /\ spoiled' = spoiled \cup {h}

\* Mutant: without a hash the request keeps asking for it.
HgetDoneWaits(r) ==
  LET c == req[r].client
      k == req[r].key
  IN  /\ req[r].op = "hget"
      /\ \E dir \in HgetResults(k) :
           dir # Nil /\ WriteChunk(dir, req[r].idx, sfile[c]) /\ UNCHANGED missed
      /\ req' = [req EXCEPT ![r].op = "hset"]
      /\ UNCHANGED <<sid, sfile, left, info, parts>>

\* With an empty filehash mkdir fails and the path is "/" + chkidx: the chunk
\* ends, if anywhere, in the root directory, which is not modelled.
HgetDone(r) ==
  LET c == req[r].client
      k == req[r].key
  IN  /\ req[r].op = "hget"
      /\ \E dir \in HgetResults(k) :
           \/ dir # Nil /\ WriteChunk(dir, req[r].idx, sfile[c]) /\ UNCHANGED missed
           \/ dir = Nil /\ missed' = missed \cup {k} /\ UNCHANGED <<disk, spoiled>>
      /\ req' = [req EXCEPT ![r].op = "hset"]
      /\ UNCHANGED <<sid, sfile, left, info, parts>>

\* The progress is stored and the answer OK is sent, whatever became of the
\* HGET, the write and the HSET.
HsetDone(r) ==
  /\ req[r].op = "hset"
  /\ \/ parts' = [parts EXCEPT ![req[r].key] = @ \cup {req[r].idx}]
     \/ MayFail("redis") /\ UNCHANGED parts
  /\ req' = [req EXCEPT ![r] = Idle]
  /\ UNCHANGED <<sid, sfile, left, info, disk, historyVars>>

(***************************************************************************)
(* GET /file/mupload/complete: HGETALL, and in its callback the count.     *)
(***************************************************************************)
CompleteStart(r, c, prefix) ==
  /\ Free(r)
  /\ sid[c] # Nil
  /\ req' = [req EXCEPT ![r] = Waiting("hgetall", c, <<prefix, sid[c]>>, Nil)]
  /\ UNCHANGED <<sid, sfile, left, info, parts, disk, historyVars>>

\* Mutant: the comparison lets an incomplete upload pass.
VerdictLenient(chunknow, chunkcount) ==
  IF chunkcount = Nil THEN Answers
  ELSE IF chunknow <= chunkcount THEN {"SUCCESS"} ELSE {"FAIL"}

\* What may be answered, given the number of chkidx_* fields and the field
\* chunkcount.  Without the field the local chunkcount is never initialised, and
\* the answer is either.
Verdict(chunknow, chunkcount) ==
  IF chunkcount = Nil THEN Answers
  ELSE IF chunknow = chunkcount THEN {"SUCCESS"} ELSE {"FAIL"}

\* What the callback of HGETALL finds: the number of chunks and the count, or
\* nothing if the task failed.
HgetallResults(k) ==
  {<<Cardinality(parts[k]), info[k]["chunkcount"]>>}
  \cup (IF MayFail("redis") THEN {<<0, Nil>>} ELSE {})

HgetallDone(r) ==
  /\ req[r].op = "hgetall"
  /\ \E found \in HgetallResults(req[r].key) :
       \E answer \in Verdict(found[1], found[2]) :
         req' = [req EXCEPT ![r].op = answer, ![r].guess = (found[2] = Nil)]
  /\ UNCHANGED <<sid, sfile, left, info, parts, disk, historyVars>>

\* The server stops and is started again: the requests and tasks in flight
\* are gone, Redis and the disk stay.
Restart ==
  /\ MayFail("restart")
  /\ req' = [r \in Request |-> Idle]
  /\ left' = [c \in Client |-> [f \in Field |-> 0]]
  /\ UNCHANGED <<sid, sfile, info, parts, disk, historyVars>>

Series(r) == HgetDone(r) \/ HsetDone(r) \/ HgetallDone(r)
InitTask(c, f) == HsetLands(c, f) \/ HsetFails(c, f)

Next ==
  \/ \E c \in Client, h \in Hash, m \in Minute : InitUpload(c, h, m)
  \/ \E c \in Client, f \in Field : InitTask(c, f)
  \/ \E r \in Request, c \in Client, prefix \in Sends, i \in Idx :
       UppartStart(r, c, prefix, i)
  \/ \E r \in Request, c \in Client, prefix \in Sends : CompleteStart(r, c, prefix)
  \/ \E r \in Request : Series(r)
  \/ Restart

Spec == Init /\ [][Next]_vars

\* Workflow ends every task it started: with a result, or with an error after
\* the last retry or a timeout.  Clients owe nothing.
Fairness ==
  /\ \A r \in Request : WF_vars(Series(r))
  /\ \A c \in Client, f \in Field : WF_vars(InitTask(c, f))

FairSpec == Spec /\ Fairness

-----------------------------------------------------------------------------
(***************************************************************************)
(* Properties.                                                             *)
(***************************************************************************)

\* Every variable holds what the code can store in it.
TypeOK ==
  /\ sid \in [Client -> Minute \cup {Nil}]
  /\ sfile \in [Client -> Hash \cup {Nil}]
  /\ \A c \in Client : sid[c] = Nil <=> sfile[c] = Nil
  /\ left \in [Client -> [Field -> 0 .. RetryMax+1]]
  /\ info \in [Key -> [Field -> Int \cup Hash \cup {Nil}]]
  /\ parts \in [Key -> SUBSET Idx]
  /\ req \in [Request -> [op : {"idle", "hget", "hset", "hgetall"} \cup Answers,
                          client : Client \cup {Nil}, key : Key \cup {Nil},
                          idx : Idx \cup {Nil}, guess : BOOLEAN]]
  /\ disk \in [Hash -> [Idx -> Hash \cup {Nil, Mixed}]]
  /\ missed \subseteq Key
  /\ spoiled \subseteq Hash

\* The chunks a file has, by the size of the file alone.
Chunks(h) == {i \in Idx : (i - 1) * ChunkSize < FileSize[h]}

Stored(h, i) == disk[h][i] = h

\* No two uploads announced in the same minute (of the same or of another
\* day) are of different files.
NoCollision ==
  \A c, d \in Client : sid[c] # Nil /\ sid[c] = sid[d] => sfile[c] = sfile[d]

\* Only chunks the file has were recorded where the request looked.
NoStray(r) == parts[req[r].key] \subseteq Chunks(sfile[req[r].client])

\* SUCCESS of complete means that every chunk of the file is on disk in the
\* file's directory, except in six cases, each of which the code leaves open:
\* a chunkcount that was not there and was compared uninitialised, two files under
\* one id, a chunk number the file does not have, a size beyond an int, an uppart
\* that came before the HSET of filehash (or whose HGET failed), and a write that
\* failed.
SuccessSound ==
  \A r \in Request :
    LET h == sfile[req[r].client]
    IN  /\ req[r].op = "SUCCESS"
        /\ ~req[r].guess
        /\ NoCollision
        /\ NoStray(r)
        /\ FileSize[h] < IntHalf
        /\ req[r].key \notin missed
        /\ h \notin spoiled
        => \A i \in Chunks(h) : Stored(h, i)

\* As long as no two files share an upload id, the directory of a file holds
\* no chunk of another file, whatever fails, and a damaged one only after a
\* write of that file failed: what HGET returns under an id is the hash of the
\* file announced under it.
NoForeignChunk ==
  NoCollision => \A h \in Hash, i \in Idx :
    disk[h][i] \in {Nil, h} \/ (disk[h][i] = Mixed /\ h \in spoiled)

\* As long as no two files share an upload id and sizes fit an int, an upload
\* whose chunkcount has arrived and of which exactly the file's chunks are recorded
\* is told SUCCESS by every complete that can read them: the chunkcount that init
\* computes is the number of chunks the file has.
AllRecordedMeansSuccess ==
  \A c \in Client :
    /\ NoCollision
    /\ sid[c] # Nil
    /\ FileSize[sfile[c]] < IntHalf
    /\ info[StoredKey(c)]["chunkcount"] # Nil
    /\ parts[StoredKey(c)] = Chunks(sfile[c])
    => Verdict(Cardinality(parts[StoredKey(c)]), info[StoredKey(c)]["chunkcount"])
         = {"SUCCESS"}

\* When nothing fails, complete decides on an uninitialised chunkcount only
\* while the HSET that init started for it is still on its way, or because the
\* client sent the id that it was told, which lacks the MP_ of the Redis hash.
GuessOnlyBeforeCount ==
  [][\A r \in Request :
       /\ Faults = {}
       /\ req[r].op = "hgetall"
       /\ req'[r].op \in Answers
       /\ req'[r].guess
       => \/ left[req[r].client]["chunkcount"] > 0
          \/ req[r].key[1] = "bare"]_vars

\* Every request is answered, or lost with the server, and the tasks that init
\* does not wait for come to an end.
RequestsEnd ==
  /\ \A r \in Request : ~Free(r) ~> Free(r)
  /\ \A c \in Client, f \in Field : left[c][f] > 0 ~> left[c][f] = 0

\* What the comment before the second task of uppart says: the progress of a
\* chunk is stored after the chunk has been written.
ProgressAfterWrite ==
  \A c \in Client :
    sid[c] # Nil => \A i \in parts[StoredKey(c)] : Stored(sfile[c], i)
=============================================================================
