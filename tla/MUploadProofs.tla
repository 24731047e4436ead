--------------------------- MODULE MUploadProofs ---------------------------
(***************************************************************************)
(* Proofs about MUpload, for any number of clients, requests, files, chunks *)
(* and minutes, any sizes and any set of faults.                            *)
(***************************************************************************)
EXTENDS MUpload, FiniteSetTheorems, TLAPS

(***************************************************************************)
(* The inductive invariant.                                                *)
(***************************************************************************)

\* What Redis holds under an id comes from an upload announced under that id.
InfoFromUpload ==
  \A k \in Key :
    /\ info[k]["filehash"] # Nil =>
         \E c \in Client : sid[c] = k[2] /\ sfile[c] = info[k]["filehash"]
    /\ info[k]["chunkcount"] # Nil =>
         \E c \in Client : sid[c] = k[2] /\ info[k]["chunkcount"] = ChunkCount(sfile[c])

\* Only an announced upload has tasks and requests, and a request names a hash
\* by the id of its client.
OnlyAnnounced ==
  /\ \A c \in Client, f \in Field : left[c][f] > 0 => sid[c] # Nil
  /\ \A r \in Request : req[r].op # "idle" =>
       /\ req[r].client \in Client
       /\ sid[req[r].client] # Nil
       /\ req[r].key \in Key /\ req[r].key[2] = sid[req[r].client]
       /\ req[r].op \in {"hget", "hset"} => req[r].idx \in Idx

\* The chunk is where it belongs, or something went wrong with this upload.
Kept(c, k, i) == k \in missed \/ sfile[c] \in spoiled \/ Stored(sfile[c], i)

\* A request that waits for its HSET has dealt with its chunk; so has the
\* request behind every recorded chunk.
KeptBeforeRecorded ==
  /\ \A r \in Request : req[r].op = "hset" =>
       Kept(req[r].client, req[r].key, req[r].idx)
  /\ \A k \in Key : \A i \in parts[k] :
       \E c \in Client : sid[c] = k[2] /\ Kept(c, k, i)

\* When nothing fails, the chunkcount of an announced upload is in Redis or on
\* its way there.
CountComes ==
  \A c \in Client : sid[c] # Nil =>
    left[c]["chunkcount"] > 0 \/ info[StoredKey(c)]["chunkcount"] # Nil

IInv ==
  /\ TypeOK
  /\ InfoFromUpload
  /\ OnlyAnnounced
  /\ NoForeignChunk
  /\ NoCollision => KeptBeforeRecorded
  /\ SuccessSound
  /\ Faults = {} => CountComes

-----------------------------------------------------------------------------

\* Quotient and remainder of a division by a positive number.
LEMMA DivMod ==
  ASSUME NEW n \in Nat, NEW d \in Nat \ {0}
  PROVE  /\ n \div d \in Nat
         /\ n % d \in 0 .. d-1
         /\ n = (n \div d) * d + (n % d)
<1>1. n \div d \in Int /\ n \div d >= 0
  OBVIOUS
<1>2. n % d \in 0 .. d-1
  OBVIOUS
<1>3. n = (n \div d) * d + (n % d)
  OBVIOUS
<1> QED BY <1>1, <1>2, <1>3

\* The chunks of a file whose size fits an int are among those init counts.
LEMMA ChunksCounted ==
  ASSUME NEW h \in Hash, FileSize[h] < IntHalf, NEW i \in Nat \ {0},
         (i - 1) * ChunkSize < FileSize[h]
  PROVE  /\ ChunkCount(h) \in Nat
         /\ i <= ChunkCount(h)
<1> DEFINE n == FileSize[h]
           q == n \div ChunkSize
           r == n % ChunkSize
<1>1. n \in Nat /\ ChunkSize \in Nat \ {0} /\ IntHalf \in Nat
  BY ConstantsAssumption
<1>2. ToInt(n) = n
  BY <1>1 DEF ToInt
<1>3. q \in Nat /\ r \in 0 .. ChunkSize-1 /\ n = q * ChunkSize + r
  BY <1>1, DivMod
<1>4. ChunkCount(h) = q + (IF r # 0 THEN 1 ELSE 0)
  BY <1>1, <1>2 DEF ChunkCount, CDiv
<1> HIDE DEF n, q, r
<1>5. ASSUME NEW a \in Nat, NEW b \in Nat, a >= b
      PROVE  a * ChunkSize >= b * ChunkSize
  BY <1>1, <1>5
<1>6. i - 1 \in Nat /\ (i - 1) * ChunkSize < n
  BY DEF n
<1>7. CASE r = 0
  <2>1. ~ (i - 1 >= q)
    BY <1>1, <1>3, <1>5, <1>7, <1>6
  <2> QED BY <1>3, <1>4, <1>7, <2>1
<1>8. CASE r # 0
  <2>1. (q + 1) * ChunkSize = q * ChunkSize + ChunkSize
    BY <1>1, <1>3
  <2>2. ~ (i - 1 >= q + 1)
    BY <1>1, <1>3, <1>5, <1>8, <1>6, <2>1
  <2> QED BY <1>3, <1>4, <1>8, <2>2
<1> QED BY <1>7, <1>8

\* Conversely, every number up to that count is a chunk of the file.
LEMMA CountedAreChunks ==
  ASSUME NEW h \in Hash, FileSize[h] < IntHalf, NEW i \in 1 .. ChunkCount(h)
  PROVE  ChunkCount(h) \in Nat /\ i \in Chunks(h)
<1> DEFINE n == FileSize[h]
           q == n \div ChunkSize
           r == n % ChunkSize
<1>1. n \in Nat /\ ChunkSize \in Nat \ {0} /\ IntHalf \in Nat
  BY ConstantsAssumption
<1>2. ToInt(n) = n
  BY <1>1 DEF ToInt
<1>3. q \in Nat /\ r \in 0 .. ChunkSize-1 /\ n = q * ChunkSize + r
  BY <1>1, DivMod
<1>4. ChunkCount(h) = q + (IF r # 0 THEN 1 ELSE 0)
  BY <1>1, <1>2 DEF ChunkCount, CDiv
<1> HIDE DEF n, q, r
<1>5. i \in Nat \ {0} /\ i - 1 \in Nat /\ ChunkCount(h) \in Nat
  BY <1>3, <1>4
<1>6. ASSUME NEW a \in Nat, NEW b \in Nat, a <= b
      PROVE  a * ChunkSize <= b * ChunkSize
  BY <1>1, <1>6
<1>7. (i - 1) * ChunkSize < n
  <2>1. CASE r = 0
    <3>1. q - 1 \in Nat /\ i - 1 <= q - 1
      BY <1>3, <1>4, <1>5, <2>1
    <3>2. (q - 1) * ChunkSize = q * ChunkSize - ChunkSize
      BY <1>1, <1>3
    <3>3. (i - 1) * ChunkSize <= (q - 1) * ChunkSize
      BY <1>5, <1>6, <3>1
    <3>4. (i - 1) * ChunkSize \in Int /\ q * ChunkSize \in Int
      BY <1>1, <1>3, <1>5
    <3> HIDE <1>6
    <3> QED BY <1>1, <1>3, <2>1, <3>2, <3>3, <3>4
  <2>2. CASE r # 0
    <3>1. i - 1 <= q
      BY <1>3, <1>4, <1>5, <2>2
    <3>2. (i - 1) * ChunkSize <= q * ChunkSize
      BY <1>3, <1>5, <1>6, <3>1
    <3>3. (i - 1) * ChunkSize \in Int /\ q * ChunkSize \in Int
      BY <1>1, <1>3, <1>5
    <3> QED BY <1>1, <1>3, <2>2, <3>2, <3>3
  <2> QED BY <2>1, <2>2
<1>8. i \in 1 .. n
  <2>1. (i - 1) * 1 <= (i - 1) * ChunkSize
    BY <1>1, <1>5
  <2>2. i - 1 < n
    BY <1>1, <1>5, <1>7, <2>1
  <2> QED BY <1>1, <1>5, <2>2
<1> QED BY <1>5, <1>7, <1>8, ConstantsAssumption DEF Chunks, n

\* init counts exactly the chunks the file has.
LEMMA CountIsNumberOfChunks ==
  ASSUME NEW h \in Hash, FileSize[h] < IntHalf
  PROVE  Cardinality(Chunks(h)) = ChunkCount(h)
<1> DEFINE n == ChunkCount(h)
<1>1. n \in Nat
  <2>1. FileSize[h] \in Nat /\ ChunkSize \in Nat \ {0} /\ IntHalf \in Nat
    BY ConstantsAssumption
  <2>2. ToInt(FileSize[h]) = FileSize[h]
    BY <2>1 DEF ToInt
  <2>3. FileSize[h] \div ChunkSize \in Nat
    BY <2>1, DivMod
  <2> QED BY <2>1, <2>2, <2>3 DEF ChunkCount, CDiv
<1>2. Chunks(h) \subseteq 1 .. n
  <2> SUFFICES ASSUME NEW i \in Chunks(h) PROVE i \in 1 .. n
    OBVIOUS
  <2>1. i \in Nat \ {0} /\ (i - 1) * ChunkSize < FileSize[h]
    BY ConstantsAssumption DEF Chunks
  <2>2. i <= n
    BY <2>1, ChunksCounted
  <2> QED BY <1>1, <2>1, <2>2
<1>3. 1 .. n \subseteq Chunks(h)
  BY CountedAreChunks
<1>4. Cardinality(1 .. n) = n
  BY <1>1, FS_Interval
<1> QED BY <1>2, <1>3, <1>4

\* A set of chunks of the file that has as many members as init counted has
\* every chunk of the file.
LEMMA CountedMeansAll ==
  ASSUME NEW h \in Hash, FileSize[h] < IntHalf,
         NEW P \in SUBSET Chunks(h), Cardinality(P) = ChunkCount(h)
  PROVE  Chunks(h) \subseteq P
<1>1. CASE Chunks(h) = {}
  BY <1>1
<1>2. CASE Chunks(h) # {}
  <2> DEFINE n == ChunkCount(h)
  <2>1. /\ n \in Nat
        /\ Chunks(h) \subseteq 1 .. n
    <3>1. \A i \in Chunks(h) : i \in Nat \ {0} /\ (i - 1) * ChunkSize < FileSize[h]
      BY ConstantsAssumption DEF Chunks
    <3>2. \A i \in Chunks(h) : n \in Nat /\ i <= n
      BY <3>1, ChunksCounted
    <3> QED BY <1>2, <3>1, <3>2
  <2>2. IsFiniteSet(1 .. n) /\ Cardinality(1 .. n) = n
    BY <2>1, FS_Interval
  <2>3. P = 1 .. n
    BY <2>1, <2>2, FS_Subset
  <2> QED BY <2>1, <2>3
<1> QED BY <1>1, <1>2

-----------------------------------------------------------------------------
(***************************************************************************)
(* The induction.                                                          *)
(***************************************************************************)

\* The name of a hash is an id with or without MP_ before it.
LEMMA Keys ==
  /\ \A k \in Key : k[2] \in Minute /\ k[2] # Nil /\ (k[1] # "bare" => k = <<"MP_", k[2]>>)
  /\ \A m \in Minute : <<"MP_", m>> \in Key /\ <<"MP_", m>>[2] = m
  /\ \A q \in Sends, m \in Minute : <<q, m>> \in Key /\ <<q, m>>[2] = m
<1>1. Nil \notin Minute /\ Sends \subseteq {"bare", "MP_"}
  BY ConstantsAssumption DEF Minute
<1> QED BY <1>1 DEF Key

LEMMA InitIInv == Init => IInv
<1> SUFFICES ASSUME Init PROVE IInv
  OBVIOUS
<1>1. TypeOK
  BY ConstantsAssumption DEF Init, TypeOK, Idle, Waiting, Field, Answers
<1>2. InfoFromUpload /\ OnlyAnnounced
  BY DEF Init, InfoFromUpload, OnlyAnnounced, Idle, Waiting, Field
<1>3. NoForeignChunk /\ KeptBeforeRecorded /\ SuccessSound /\ CountComes
  BY DEF Init, NoForeignChunk, KeptBeforeRecorded, SuccessSound, CountComes, Idle, Waiting
<1> QED BY <1>1, <1>2, <1>3 DEF IInv

\* The sizes and counts that init computes are integers.
LEMMA InitArgsType ==
  ASSUME NEW h \in Hash, NEW f \in Field
  PROVE  /\ InitArgs(h)[f] \in Int \cup Hash
         /\ InitArgs(h)["filehash"] = h
         /\ InitArgs(h)["chunkcount"] = ChunkCount(h)
<1>1. FileSize[h] \in Int /\ ChunkSize \in Nat \ {0} /\ IntHalf \in Nat \ {0}
  BY ConstantsAssumption
<1>2. ToInt(FileSize[h]) \in Int
  BY <1>1 DEF ToInt
<1>3. CDiv(ToInt(FileSize[h]), ChunkSize) \in Int
  BY <1>1, <1>2 DEF CDiv
<1>4. ChunkCount(h) \in Int
  BY <1>3 DEF ChunkCount
<1> QED BY <1>4 DEF InitArgs, Field

\* The callback of HGETALL gives one request an answer.
LEMMA HgetallAnswers ==
  ASSUME NEW r \in Request, HgetallDone(r)
  PROVE  \E v \in Answers, g \in BOOLEAN :
           req' = [req EXCEPT ![r].op = v, ![r].guess = g]
<1>1. PICK found \in HgetallResults(req[r].key) :
        \E v \in Verdict(found[1], found[2]) :
          req' = [req EXCEPT ![r].op = v, ![r].guess = (found[2] = Nil)]
  BY DEF HgetallDone
<1>2. PICK v \in Verdict(found[1], found[2]) :
        req' = [req EXCEPT ![r].op = v, ![r].guess = (found[2] = Nil)]
  BY <1>1
<1>3. v \in Answers
  BY <1>2 DEF Verdict, Answers
<1> QED BY <1>2, <1>3

\* The answer is SUCCESS without a guess only on a chunkcount that was read.
LEMMA HgetallDoneStep ==
  ASSUME TypeOK, NEW r \in Request, HgetallDone(r)
  PROVE  \E v \in Answers, g \in BOOLEAN :
           /\ req' = [req EXCEPT ![r].op = v, ![r].guess = g]
           /\ req'[r].op = v /\ req'[r].guess = g
           /\ req'[r].client = req[r].client /\ req'[r].key = req[r].key
           /\ g /\ Faults = {} => info[req[r].key]["chunkcount"] = Nil
           /\ v = "SUCCESS" /\ ~g =>
                /\ info[req[r].key]["chunkcount"] # Nil
                /\ Cardinality(parts[req[r].key]) = info[req[r].key]["chunkcount"]
<1>1. PICK found \in HgetallResults(req[r].key) :
        \E v \in Verdict(found[1], found[2]) :
          req' = [req EXCEPT ![r].op = v, ![r].guess = (found[2] = Nil)]
  BY DEF HgetallDone
<1>2. PICK v \in Verdict(found[1], found[2]) :
        req' = [req EXCEPT ![r].op = v, ![r].guess = (found[2] = Nil)]
  BY <1>1
<1>3. v \in Answers /\ (v = "SUCCESS" /\ found[2] # Nil => found[1] = found[2])
  BY <1>2 DEF Verdict, Answers
<1>4. \/ /\ found[1] = Cardinality(parts[req[r].key])
         /\ found[2] = info[req[r].key]["chunkcount"]
      \/ found[2] = Nil /\ Faults # {}
  BY <1>1 DEF HgetallResults, MayFail
<1>5. PICK g \in BOOLEAN : g = (found[2] = Nil)
  OBVIOUS
<1>6. req' = [req EXCEPT ![r].op = v, ![r].guess = g]
  BY <1>2, <1>5
<1>7. /\ req'[r].op = v /\ req'[r].guess = g
      /\ req'[r].client = req[r].client /\ req'[r].key = req[r].key
  BY <1>6 DEF TypeOK
<1>8. (g <=> found[2] = Nil)
  BY <1>5
<1> HIDE <1>5
<1>9. /\ g /\ Faults = {} => info[req[r].key]["chunkcount"] = Nil
      /\ v = "SUCCESS" /\ ~g =>
           /\ info[req[r].key]["chunkcount"] # Nil
           /\ Cardinality(parts[req[r].key]) = info[req[r].key]["chunkcount"]
  BY <1>3, <1>4, <1>8
<1> QED BY <1>3, <1>6, <1>7, <1>9

\* The callback of HGET: either there was no hash, or one chunk file in the
\* directory of an announced file got a new content.
LEMMA HgetDoneStep ==
  ASSUME TypeOK, InfoFromUpload, OnlyAnnounced, NEW r \in Request, HgetDone(r)
  PROVE  LET c == req[r].client
             k == req[r].key
             i == req[r].idx
         IN  /\ c \in Client /\ sid[c] \in Minute /\ k \in Key /\ k[2] = sid[c]
             /\ sfile[c] \in Hash /\ i \in Idx
             /\ \/ /\ missed' = missed \cup {k}
                   /\ UNCHANGED <<disk, spoiled>>
                \/ \E dir \in Hash, content \in Hash \cup {Nil, Mixed} :
                     /\ dir = info[k]["filehash"]
                     /\ disk' = [disk EXCEPT ![dir][i] = content]
                     /\ \/ content \in Written(disk[dir][i], sfile[c]) /\ UNCHANGED spoiled
                        \/ /\ content \in {disk[dir][i], Mixed}
                           /\ spoiled' = spoiled \cup {sfile[c]}
                     /\ UNCHANGED missed
             /\ disk' \in [Hash -> [Idx -> Hash \cup {Nil, Mixed}]]
             /\ missed' \subseteq Key
             /\ spoiled' \subseteq Hash
<1> DEFINE c == req[r].client
           k == req[r].key
           i == req[r].idx
<1>1. /\ c \in Client /\ sid[c] \in Minute /\ k \in Key /\ k[2] = sid[c]
      /\ sfile[c] \in Hash /\ i \in Idx
  BY DEF HgetDone, OnlyAnnounced, TypeOK
<1>2. PICK dir \in HgetResults(k) :
        \/ dir # Nil /\ WriteChunk(dir, i, sfile[c]) /\ UNCHANGED missed
        \/ dir = Nil /\ missed' = missed \cup {k} /\ UNCHANGED <<disk, spoiled>>
  BY DEF HgetDone
<1>3. CASE dir = Nil
  BY <1>1, <1>2, <1>3 DEF WriteChunk, TypeOK
<1>4. CASE dir # Nil
  <2>1. dir = info[k]["filehash"]
    BY <1>2, <1>4 DEF HgetResults
  <2>2. dir \in Hash
    BY <1>1, <1>4, <2>1 DEF InfoFromUpload, TypeOK
  <2>3. PICK content :
          /\ disk' = [disk EXCEPT ![dir][i] = content]
          /\ \/ content \in Written(disk[dir][i], sfile[c]) /\ UNCHANGED spoiled
             \/ /\ content \in {disk[dir][i], Mixed}
                /\ spoiled' = spoiled \cup {sfile[c]}
    BY <1>2, <1>4 DEF WriteChunk
  <2>4. content \in Hash \cup {Nil, Mixed}
    BY <1>1, <2>2, <2>3 DEF Written, TypeOK
  <2>5. disk' \in [Hash -> [Idx -> Hash \cup {Nil, Mixed}]]
    BY <1>1, <2>2, <2>3, <2>4 DEF TypeOK
  <2>6. UNCHANGED missed /\ missed' \subseteq Key /\ spoiled' \subseteq Hash
    BY <1>1, <1>2, <1>4, <2>3 DEF TypeOK
  <2> QED BY <1>1, <2>1, <2>2, <2>3, <2>4, <2>5, <2>6
<1> QED BY <1>3, <1>4

\* Every operation keeps the types.
LEMMA TypeStep == TypeOK /\ InfoFromUpload /\ OnlyAnnounced /\ [Next]_vars => TypeOK'
<1> SUFFICES ASSUME TypeOK, InfoFromUpload, OnlyAnnounced, [Next]_vars PROVE TypeOK'
  OBVIOUS
<1> USE DEF TypeOK
<1>1. ASSUME NEW c \in Client, NEW h \in Hash, NEW m \in Minute, InitUpload(c, h, m)
      PROVE  TypeOK'
  <2>1. Nil \notin Hash /\ Nil \notin Minute /\ RetryMax + 1 \in 0 .. RetryMax + 1
    BY ConstantsAssumption DEF Minute
  <2> QED BY <1>1, <2>1 DEF InitUpload, historyVars
<1>2. ASSUME NEW c \in Client, NEW f \in Field, InitTask(c, f)
      PROVE  TypeOK'
  <2>1. CASE HsetLands(c, f)
    <3>1. sid[c] \in Minute /\ sfile[c] \in Hash /\ StoredKey(c) \in Key
      BY <2>1, Keys DEF HsetLands, OnlyAnnounced, StoredKey
    <3>2. InitArgs(sfile[c])[f] \in Int \cup Hash
      BY <3>1, InitArgsType
    <3>3. info' \in [Key -> [Field -> Int \cup Hash \cup {Nil}]]
      BY <2>1, <3>1, <3>2 DEF HsetLands
    <3>4. left' \in [Client -> [Field -> 0 .. RetryMax+1]]
      BY <2>1, ConstantsAssumption DEF HsetLands
    <3> QED BY <2>1, <3>3, <3>4 DEF HsetLands, historyVars
  <2>2. CASE HsetFails(c, f)
    BY <2>2, ConstantsAssumption DEF HsetFails, historyVars
  <2> QED BY <1>2, <2>1, <2>2 DEF InitTask
<1>3. ASSUME NEW r \in Request, NEW c \in Client, NEW pre \in Sends, NEW i \in Idx,
             UppartStart(r, c, pre, i)
      PROVE  TypeOK'
  BY <1>3, Keys DEF UppartStart, Waiting, historyVars
<1>4. ASSUME NEW r \in Request, NEW c \in Client, NEW pre \in Sends,
             CompleteStart(r, c, pre)
      PROVE  TypeOK'
  BY <1>4, Keys DEF CompleteStart, Waiting, historyVars
<1>5. ASSUME NEW r \in Request, HgetDone(r)
      PROVE  TypeOK'
  <2>1. req' \in [Request -> [op : {"idle", "hget", "hset", "hgetall"} \cup Answers,
                              client : Client \cup {Nil}, key : Key \cup {Nil},
                              idx : Idx \cup {Nil}, guess : BOOLEAN]]
    BY <1>5, SMTT(20) DEF HgetDone
  <2>2. /\ disk' \in [Hash -> [Idx -> Hash \cup {Nil, Mixed}]]
        /\ missed' \subseteq Key
        /\ spoiled' \subseteq Hash
    BY <1>5, HgetDoneStep
  <2> QED BY <1>5, <2>1, <2>2 DEF HgetDone
<1>6. ASSUME NEW r \in Request, HsetDone(r)
      PROVE  TypeOK'
  BY <1>6, SMTT(20) DEF HsetDone, historyVars, Idle, Waiting, OnlyAnnounced
<1>7. ASSUME NEW r \in Request, HgetallDone(r)
      PROVE  TypeOK'
  <2>1. PICK v \in Answers, g \in BOOLEAN : req' = [req EXCEPT ![r].op = v, ![r].guess = g]
    BY <1>7, HgetallAnswers, Zenon
  <2>2. req' \in [Request -> [op : {"idle", "hget", "hset", "hgetall"} \cup Answers,
                              client : Client \cup {Nil}, key : Key \cup {Nil},
                              idx : Idx \cup {Nil}, guess : BOOLEAN]]
    BY <2>1, ZenonT(30)
  <2> QED BY <1>7, <2>2 DEF HgetallDone, historyVars
<1>8. ASSUME Restart
      PROVE  TypeOK'
  BY <1>8, ConstantsAssumption DEF Restart, historyVars, Idle, Waiting
<1>9. CASE UNCHANGED vars
  BY <1>9 DEF vars, serverVars, historyVars
<1> QED BY <1>1, <1>2, <1>3, <1>4, <1>5, <1>6, <1>7, <1>8, <1>9 DEF Next, Series

\* What no step takes back: an announced upload keeps its id and file, the
\* history and the recorded progress only grow.
LEMMA NothingTakenBack ==
  ASSUME TypeOK, InfoFromUpload, OnlyAnnounced, [Next]_vars
  PROVE  /\ \A c \in Client : sid[c] # Nil => sid'[c] = sid[c] /\ sfile'[c] = sfile[c]
         /\ \A k \in Key : parts[k] \subseteq parts'[k]
         /\ missed \subseteq missed'
         /\ spoiled \subseteq spoiled'
<1>1. ASSUME NEW c \in Client, NEW h \in Hash, NEW m \in Minute, InitUpload(c, h, m)
      PROVE  /\ \A d \in Client : sid[d] # Nil => sid'[d] = sid[d] /\ sfile'[d] = sfile[d]
             /\ UNCHANGED <<parts, missed, spoiled>>
  BY <1>1 DEF InitUpload, historyVars, TypeOK
<1>2. ASSUME NEW c \in Client, NEW f \in Field, InitTask(c, f)
      PROVE  UNCHANGED <<sid, sfile, parts, missed, spoiled>>
  BY <1>2 DEF InitTask, HsetLands, HsetFails, historyVars
<1>3. ASSUME NEW r \in Request, NEW c \in Client, NEW pre \in Sends, NEW i \in Idx,
             UppartStart(r, c, pre, i)
      PROVE  UNCHANGED <<sid, sfile, parts, missed, spoiled>>
  BY <1>3, Keys DEF UppartStart, Waiting, historyVars
<1>4. ASSUME NEW r \in Request, NEW c \in Client, NEW pre \in Sends,
             CompleteStart(r, c, pre)
      PROVE  UNCHANGED <<sid, sfile, parts, missed, spoiled>>
  BY <1>4, Keys DEF CompleteStart, Waiting, historyVars
<1>5. ASSUME NEW r \in Request, HgetDone(r)
      PROVE  /\ UNCHANGED <<sid, sfile, parts>>
             /\ missed \subseteq missed' /\ spoiled \subseteq spoiled'
  BY <1>5, HgetDoneStep DEF HgetDone
<1>6. ASSUME NEW r \in Request, HsetDone(r)
      PROVE  /\ UNCHANGED <<sid, sfile, missed, spoiled>>
             /\ \A k \in Key : parts[k] \subseteq parts'[k]
  BY <1>6 DEF HsetDone, historyVars, TypeOK
<1>7. ASSUME NEW r \in Request, HgetallDone(r)
      PROVE  UNCHANGED <<sid, sfile, parts, missed, spoiled>>
  BY <1>7 DEF HgetallDone, historyVars
<1>8. ASSUME Restart
      PROVE  UNCHANGED <<sid, sfile, parts, missed, spoiled>>
  BY <1>8 DEF Restart, historyVars
<1>9. ASSUME UNCHANGED vars
      PROVE  UNCHANGED <<sid, sfile, parts, missed, spoiled>>
  BY <1>9 DEF vars, serverVars, historyVars
<1> QED BY <1>1, <1>2, <1>3, <1>4, <1>5, <1>6, <1>7, <1>8, <1>9 DEF Next, Series

\* A collision is never undone.
LEMMA CollisionsStay ==
  ASSUME TypeOK, InfoFromUpload, OnlyAnnounced, [Next]_vars, NoCollision'
  PROVE  NoCollision
BY NothingTakenBack DEF NoCollision

\* Only the callback of HGET writes chunk files.  While no id is shared it
\* writes in the directory of its own file, so a stored chunk stays stored
\* unless a write of that file failed.
LEMMA DiskStep ==
  ASSUME TypeOK, InfoFromUpload, OnlyAnnounced, NoForeignChunk, NoCollision,
         [Next]_vars
  PROVE  \A h \in Hash, i \in Idx :
           /\ disk'[h][i] \in {Nil, h} \/ (disk'[h][i] = Mixed /\ h \in spoiled')
           /\ Stored(h, i) => Stored(h, i)' \/ h \in spoiled'
<1>1. ASSUME NEW r \in Request, HgetDone(r), NEW h \in Hash, NEW i \in Idx
      PROVE  /\ disk'[h][i] \in {Nil, h} \/ (disk'[h][i] = Mixed /\ h \in spoiled')
             /\ Stored(h, i) => Stored(h, i)' \/ h \in spoiled'
  <2> DEFINE c == req[r].client
             k == req[r].key
             j == req[r].idx
  <2>1. /\ c \in Client /\ sid[c] \in Minute /\ k \in Key /\ k[2] = sid[c]
        /\ sfile[c] \in Hash /\ j \in Idx
    BY <1>1, HgetDoneStep
  <2>2. CASE UNCHANGED <<disk, spoiled>>
    BY <2>2 DEF NoForeignChunk, Stored
  <2>3. ASSUME NEW dir \in Hash, NEW content \in Hash \cup {Nil, Mixed},
               dir = info[k]["filehash"],
               disk' = [disk EXCEPT ![dir][j] = content],
               \/ content \in Written(disk[dir][j], sfile[c]) /\ UNCHANGED spoiled
               \/ /\ content \in {disk[dir][j], Mixed}
                  /\ spoiled' = spoiled \cup {sfile[c]}
        PROVE  /\ disk'[h][i] \in {Nil, h} \/ (disk'[h][i] = Mixed /\ h \in spoiled')
               /\ Stored(h, i) => Stored(h, i)' \/ h \in spoiled'
    <3>1. dir # Nil
      BY <2>3, ConstantsAssumption
    <3>2. dir = sfile[c]
      <4>1. PICK d \in Client : sid[d] = k[2] /\ sfile[d] = dir
        BY <2>1, <2>3, <3>1 DEF InfoFromUpload
      <4> QED BY <2>1, <4>1, Keys DEF NoCollision
    <3>3. CASE h = dir /\ i = j
      <4>1. disk'[h][i] = content
        BY <2>1, <2>3, <3>3 DEF TypeOK
      <4>2. disk[h][i] \in {Nil, h} \/ (disk[h][i] = Mixed /\ h \in spoiled)
        BY DEF NoForeignChunk
      <4> QED BY <2>3, <3>2, <3>3, <4>1, <4>2 DEF Written, Stored
    <3>4. CASE ~(h = dir /\ i = j)
      <4>1. disk'[h][i] = disk[h][i]
        BY <2>1, <2>3, <3>4 DEF TypeOK
      <4> QED BY <2>3, <4>1 DEF NoForeignChunk, Stored
    <3> QED BY <3>3, <3>4
  <2> QED BY <1>1, <2>2, <2>3, HgetDoneStep
<1>2. CASE UNCHANGED <<disk, spoiled>>
  BY <1>2 DEF NoForeignChunk, Stored
<1>3. UNCHANGED <<disk, spoiled>> \/ \E r \in Request : HgetDone(r)
  BY DEF Next, vars, serverVars, historyVars, InitUpload, InitTask, HsetLands,
         HsetFails, UppartStart, CompleteStart, Series, HsetDone, HgetallDone, Restart
<1> QED BY <1>1, <1>2, <1>3

\* Redis holds under an id what an upload announced under it sent.
LEMMA InfoStep ==
  ASSUME TypeOK, InfoFromUpload, OnlyAnnounced, [Next]_vars
  PROVE  InfoFromUpload'
<1>1. \A c \in Client : sid[c] # Nil => sid'[c] = sid[c] /\ sfile'[c] = sfile[c]
  BY NothingTakenBack
<1>2. \A k \in Key : k[2] # Nil
  BY Keys
<1>3. CASE UNCHANGED info
  BY <1>1, <1>2, <1>3 DEF InfoFromUpload
<1>4. ASSUME NEW c \in Client, NEW f \in Field, HsetLands(c, f)
      PROVE  InfoFromUpload'
  <2>1. /\ sid[c] \in Minute /\ sfile[c] \in Hash
        /\ StoredKey(c) \in Key /\ StoredKey(c)[2] = sid[c]
    BY <1>4, Keys DEF HsetLands, OnlyAnnounced, TypeOK, StoredKey
  <2>2. /\ InitArgs(sfile[c])["filehash"] = sfile[c]
        /\ InitArgs(sfile[c])["chunkcount"] = ChunkCount(sfile[c])
    BY <2>1, InitArgsType
  <2>3. ASSUME NEW k \in Key, NEW g \in Field
        PROVE  info'[k][g] = IF k = StoredKey(c) /\ g = f THEN InitArgs(sfile[c])[f]
                             ELSE info[k][g]
    BY <1>4, <2>1 DEF HsetLands, TypeOK
  <2>4. UNCHANGED <<sid, sfile>>
    BY <1>4 DEF HsetLands
  <2> QED BY <2>1, <2>2, <2>3, <2>4 DEF InfoFromUpload, Field
<1>5. UNCHANGED info \/ \E c \in Client, f \in Field : HsetLands(c, f)
  BY DEF Next, vars, serverVars, InitUpload, InitTask, HsetFails, HgetDone,
         UppartStart, CompleteStart, Series, HsetDone, HgetallDone, Restart
<1> QED BY <1>3, <1>4, <1>5

\* Tasks and requests belong to announced uploads.
LEMMA AnnouncedStep ==
  ASSUME TypeOK, InfoFromUpload, OnlyAnnounced, [Next]_vars
  PROVE  OnlyAnnounced'
<1>0. \A r \in Request : HgetallDone(r) =>
        \E v \in Answers, g \in BOOLEAN : req' = [req EXCEPT ![r].op = v, ![r].guess = g]
  BY HgetallAnswers, Zenon
<1> USE DEF OnlyAnnounced, TypeOK
<1>1. ASSUME NEW c \in Client, NEW h \in Hash, NEW m \in Minute, InitUpload(c, h, m)
      PROVE  OnlyAnnounced'
  <2>1. m # Nil
    BY ConstantsAssumption DEF Minute
  <2> QED BY <1>1, <2>1 DEF InitUpload
<1>2. ASSUME NEW c \in Client, NEW f \in Field, InitTask(c, f)
      PROVE  OnlyAnnounced'
  <2>1. left[c][f] > 0 /\ \E n \in Int : left' = [left EXCEPT ![c][f] = n]
    BY <1>2, ConstantsAssumption DEF InitTask, HsetLands, HsetFails
  <2>2. \A d \in Client, g \in Field : left'[d][g] > 0 => left[d][g] > 0
    BY <2>1
  <2> QED BY <1>2, <2>2 DEF InitTask, HsetLands, HsetFails
<1>3. ASSUME NEW r \in Request, NEW c \in Client, NEW pre \in Sends, NEW i \in Idx,
             UppartStart(r, c, pre, i)
      PROVE  OnlyAnnounced'
  BY <1>3, Keys DEF UppartStart, Waiting
<1>4. ASSUME NEW r \in Request, NEW c \in Client, NEW pre \in Sends,
             CompleteStart(r, c, pre)
      PROVE  OnlyAnnounced'
  BY <1>4, Keys DEF CompleteStart, Waiting
<1>5. ASSUME NEW r \in Request, HgetDone(r)
      PROVE  OnlyAnnounced'
  BY <1>5 DEF HgetDone
<1>6. ASSUME NEW r \in Request, HsetDone(r)
      PROVE  OnlyAnnounced'
  BY <1>6 DEF HsetDone, Idle, Waiting
<1>7. ASSUME NEW r \in Request, HgetallDone(r)
      PROVE  OnlyAnnounced'
  <2>1. PICK v \in Answers, g \in BOOLEAN : req' = [req EXCEPT ![r].op = v, ![r].guess = g]
    BY <1>0, <1>7
  <2> QED BY <1>7, <2>1 DEF HgetallDone, Answers
<1>8. ASSUME Restart
      PROVE  OnlyAnnounced'
  BY <1>8 DEF Restart, Idle, Waiting
<1>9. CASE UNCHANGED vars
  BY <1>9 DEF vars, serverVars
<1> QED BY <1>1, <1>2, <1>3, <1>4, <1>5, <1>6, <1>7, <1>8, <1>9 DEF Next, Series

\* Kept in the next state.
KeptNext(c, k, i) ==
  k \in missed' \/ sfile'[c] \in spoiled' \/ disk'[sfile'[c]][i] = sfile'[c]

\* A chunk that is kept stays kept.
LEMMA KeptStays ==
  ASSUME IInv, NoCollision, [Next]_vars,
         NEW c \in Client, sid[c] # Nil, NEW k \in Key, NEW i \in Idx,
         Kept(c, k, i)
  PROVE  KeptNext(c, k, i)
<1>1. sid'[c] = sid[c] /\ sfile'[c] = sfile[c]
  BY NothingTakenBack DEF IInv
<1>2. missed \subseteq missed' /\ spoiled \subseteq spoiled'
  BY NothingTakenBack DEF IInv
<1>3. sfile[c] \in Hash
  BY DEF IInv, TypeOK
<1>4. disk[sfile[c]][i] = sfile[c] =>
        disk'[sfile[c]][i] = sfile[c] \/ sfile[c] \in spoiled'
  BY <1>3, DiskStep DEF IInv, Stored
<1> QED BY <1>1, <1>2, <1>3, <1>4 DEF Kept, Stored, KeptNext

\* The callback of HGET keeps its chunk: it is stored, or the upload missed
\* its hash, or the write failed.
LEMMA HgetKeeps ==
  ASSUME IInv, NoCollision, NEW r \in Request, HgetDone(r)
  PROVE  KeptNext(req[r].client, req[r].key, req[r].idx)
<1>1. PICK c \in Client, k \in Key, i \in Idx :
        c = req[r].client /\ k = req[r].key /\ i = req[r].idx
  BY HgetDoneStep DEF IInv
<1>2. /\ sid[c] \in Minute /\ k[2] = sid[c] /\ sfile[c] \in Hash
      /\ UNCHANGED <<sid, sfile>>
  BY <1>1, HgetDoneStep DEF IInv, HgetDone
<1>3. CASE missed' = missed \cup {k}
  BY <1>1, <1>2, <1>3 DEF KeptNext
<1>4. ASSUME NEW dir \in Hash, NEW content \in Hash \cup {Nil, Mixed},
             dir = info[k]["filehash"],
             disk' = [disk EXCEPT ![dir][i] = content],
             \/ content \in Written(disk[dir][i], sfile[c]) /\ UNCHANGED spoiled
             \/ spoiled' = spoiled \cup {sfile[c]}
      PROVE  KeptNext(c, k, i)
  <2>1. dir # Nil /\ sid[c] # Nil
    BY <1>2, ConstantsAssumption DEF Minute
  <2>2. PICK d \in Client : sid[d] = k[2] /\ sfile[d] = dir
    BY <1>2, <1>4, <2>1 DEF IInv, InfoFromUpload
  <2>3. dir = sfile[c]
    BY <1>2, <2>1, <2>2 DEF NoCollision
  <2>4. /\ disk'[dir][i] = content
        /\ disk[dir][i] \in {Nil, dir} \/ (disk[dir][i] = Mixed /\ dir \in spoiled)
    BY <1>4 DEF IInv, TypeOK, NoForeignChunk
  <2>5. content = dir \/ dir \in spoiled'
    BY <1>4, <2>3, <2>4 DEF Written
  <2> QED BY <1>2, <2>3, <2>4, <2>5 DEF KeptNext
<1> QED BY <1>1, <1>3, <1>4, HgetDoneStep DEF IInv

\* The order of the tasks in the series of uppart: what is recorded is kept.
LEMMA KeptStep ==
  ASSUME IInv, [Next]_vars, NoCollision'
  PROVE  KeptBeforeRecorded'
<1>1. NoCollision /\ KeptBeforeRecorded
  BY CollisionsStay DEF IInv
<1>2. SUFFICES
        /\ \A r \in Request : req'[r].op = "hset" =>
             KeptNext(req'[r].client, req'[r].key, req'[r].idx)
        /\ \A k \in Key : \A i \in parts'[k] :
             \E c \in Client : sid'[c] = k[2] /\ KeptNext(c, k, i)
  BY DEF KeptBeforeRecorded, Kept, KeptNext, Stored
<1>3. \A c \in Client, k \in Key, i \in Idx :
        sid[c] # Nil /\ Kept(c, k, i) => KeptNext(c, k, i)
  BY <1>1, KeptStays
<1>4. ASSUME NEW r \in Request, req[r].op = "hset"
      PROVE  /\ req[r].client \in Client /\ req[r].idx \in Idx
             /\ req[r].key \in Key /\ req[r].key[2] = sid[req[r].client]
             /\ KeptNext(req[r].client, req[r].key, req[r].idx)
  BY <1>1, <1>3, <1>4 DEF IInv, OnlyAnnounced, KeptBeforeRecorded, TypeOK
<1>5. ASSUME NEW k \in Key, NEW i \in parts[k]
      PROVE  \E c \in Client : sid'[c] = k[2] /\ KeptNext(c, k, i)
  <2>1. PICK c \in Client : sid[c] = k[2] /\ Kept(c, k, i)
    BY <1>1 DEF KeptBeforeRecorded
  <2>2. i \in Idx /\ sid[c] # Nil
    BY <2>1, Keys DEF IInv, TypeOK
  <2> QED BY <1>3, <2>1, <2>2, NothingTakenBack DEF IInv
<1>6. CASE /\ \A r \in Request : req'[r].op = "hset" => req'[r] = req[r]
           /\ UNCHANGED parts
  BY <1>4, <1>5, <1>6
<1>7. ASSUME NEW r \in Request, HgetDone(r)
      PROVE  /\ \A q \in Request : req'[q].op = "hset" =>
                  KeptNext(req'[q].client, req'[q].key, req'[q].idx)
             /\ UNCHANGED parts
  <2>1. KeptNext(req[r].client, req[r].key, req[r].idx)
    BY <1>1, <1>7, HgetKeeps
  <2>2. ASSUME NEW q \in Request, q # r
        PROVE  req'[q] = req[q]
    BY <1>7, <2>2 DEF HgetDone, IInv, TypeOK
  <2>3. req'[r].client = req[r].client /\ req'[r].key = req[r].key /\ req'[r].idx = req[r].idx
    BY <1>7 DEF HgetDone, IInv, TypeOK
  <2> QED BY <1>4, <1>7, <2>1, <2>2, <2>3 DEF HgetDone
<1>8. ASSUME NEW r \in Request, HsetDone(r)
      PROVE  /\ \A q \in Request : req'[q].op = "hset" => req'[q] = req[q]
             /\ \A k \in Key : \A i \in parts'[k] :
                  \E c \in Client : sid'[c] = k[2] /\ KeptNext(c, k, i)
  <2>1. PICK c \in Client, j \in Key, i \in Idx :
          /\ c = req[r].client /\ j = req[r].key /\ i = req[r].idx
          /\ sid[c] = j[2] /\ KeptNext(c, j, i)
    BY <1>4, <1>8 DEF HsetDone
  <2>2. sid'[c] = sid[c]
    BY <1>8 DEF HsetDone
  <2>3. \A k \in Key : parts'[k] \subseteq IF k = j THEN parts[k] \cup {i} ELSE parts[k]
    BY <1>8, <2>1 DEF HsetDone, IInv, TypeOK
  <2>4. \A q \in Request : req'[q].op = "hset" => req'[q] = req[q]
    BY <1>8 DEF HsetDone, Idle, Waiting, IInv, TypeOK
  <2> QED BY <1>5, <2>1, <2>2, <2>3, <2>4
<1>9. \/ /\ \A r \in Request : req'[r].op = "hset" => req'[r] = req[r]
         /\ UNCHANGED parts
      \/ \E r \in Request : HgetDone(r) \/ HsetDone(r)
  <2>1. ASSUME NEW c \in Client, NEW h \in Hash, NEW m \in Minute, InitUpload(c, h, m)
        PROVE  UNCHANGED <<req, parts>>
    BY <2>1 DEF InitUpload
  <2>2. ASSUME NEW c \in Client, NEW f \in Field, InitTask(c, f)
        PROVE  UNCHANGED <<req, parts>>
    BY <2>2 DEF InitTask, HsetLands, HsetFails
  <2>3. ASSUME NEW r \in Request, NEW c \in Client, NEW pre \in Sends, NEW i \in Idx,
             UppartStart(r, c, pre, i)
        PROVE  /\ \A q \in Request : req'[q].op = "hset" => req'[q] = req[q]
               /\ UNCHANGED parts
    BY <2>3, Keys DEF UppartStart, Waiting, IInv, TypeOK
  <2>4. ASSUME NEW r \in Request, NEW c \in Client, NEW pre \in Sends,
             CompleteStart(r, c, pre)
        PROVE  /\ \A q \in Request : req'[q].op = "hset" => req'[q] = req[q]
               /\ UNCHANGED parts
    BY <2>4, Keys DEF CompleteStart, Waiting, IInv, TypeOK
  <2>5. ASSUME NEW r \in Request, HgetallDone(r)
        PROVE  /\ \A q \in Request : req'[q].op = "hset" => req'[q] = req[q]
               /\ UNCHANGED parts
    <3>1. PICK v \in Answers, g \in BOOLEAN : req' = [req EXCEPT ![r].op = v, ![r].guess = g]
      BY <2>5, HgetallAnswers, Zenon
    <3> QED BY <2>5, <3>1 DEF HgetallDone, Answers, IInv, TypeOK
  <2>6. ASSUME Restart
        PROVE  /\ \A q \in Request : req'[q].op = "hset" => req'[q] = req[q]
               /\ UNCHANGED parts
    BY <2>6 DEF Restart, Idle, Waiting
  <2>7. CASE UNCHANGED vars
    BY <2>7 DEF vars, serverVars
  <2> QED BY <2>1, <2>2, <2>3, <2>4, <2>5, <2>6, <2>7 DEF Next, Series
<1>10. ASSUME NEW r \in Request, HgetDone(r)
       PROVE  \A k \in Key : \A i \in parts'[k] :
                \E c \in Client : sid'[c] = k[2] /\ KeptNext(c, k, i)
  BY <1>5, <1>7, <1>10
<1>11. ASSUME NEW r \in Request, HsetDone(r), NEW q \in Request, req'[q].op = "hset"
       PROVE  KeptNext(req'[q].client, req'[q].key, req'[q].idx)
  <2>1. req'[q] = req[q]
    BY <1>8, <1>11
  <2> QED BY <1>4, <1>11, <2>1
<1> QED BY <1>6, <1>7, <1>8, <1>9, <1>10, <1>11

\* Only the callback of HGETALL gives an answer of complete.
LEMMA AnswerStep ==
  ASSUME TypeOK, [Next]_vars, NEW r \in Request, req'[r].op \in Answers
  PROVE  req'[r] = req[r] \/ HgetallDone(r)
<1>1. ASSUME NEW q \in Request, NEW d \in Client, NEW pre \in Sends, NEW j \in Idx,
             UppartStart(q, d, pre, j)
      PROVE  req'[r] = req[r]
  BY <1>1, Keys DEF UppartStart, Waiting, TypeOK, Answers
<1>2. ASSUME NEW q \in Request, NEW d \in Client, NEW pre \in Sends,
             CompleteStart(q, d, pre)
      PROVE  req'[r] = req[r]
  BY <1>2, Keys DEF CompleteStart, Waiting, TypeOK, Answers
<1>3. ASSUME NEW q \in Request, HgetDone(q) \/ HsetDone(q) \/ HgetallDone(q)
      PROVE  req'[r] = req[r] \/ HgetallDone(r)
  <2>1. CASE HgetDone(q)
    BY <2>1 DEF HgetDone, TypeOK, Answers
  <2>2. CASE HsetDone(q)
    BY <2>2 DEF HsetDone, Idle, Waiting, TypeOK, Answers
  <2>3. CASE HgetallDone(q) /\ q # r
    BY <2>3 DEF HgetallDone, TypeOK
  <2> QED BY <1>3, <2>1, <2>2, <2>3
<1>4. ~Restart
  BY DEF Restart, Idle, Waiting, Answers
<1>5. ASSUME NEW d \in Client, NEW h \in Hash, NEW m \in Minute, InitUpload(d, h, m)
      PROVE  req'[r] = req[r]
  BY <1>5 DEF InitUpload
<1>6. ASSUME NEW d \in Client, NEW f \in Field, InitTask(d, f)
      PROVE  req'[r] = req[r]
  BY <1>6 DEF InitTask, HsetLands, HsetFails
<1>7. CASE UNCHANGED vars
  BY <1>7 DEF vars, serverVars
<1> QED BY <1>1, <1>2, <1>3, <1>4, <1>5, <1>6, <1>7 DEF Next, Series

\* An answer SUCCESS is justified when it is given, and stays so.
LEMMA SuccessStep ==
  ASSUME IInv, [Next]_vars
  PROVE  SuccessSound'
<1> SUFFICES ASSUME NEW r \in Request, req'[r].op = "SUCCESS", ~req'[r].guess, NoCollision',
                    NEW c, c = req'[r].client, NEW k, k = req'[r].key,
                    parts'[k] \subseteq Chunks(sfile'[c]),
                    FileSize[sfile'[c]] < IntHalf,
                    k \notin missed', sfile'[c] \notin spoiled',
                    NEW i \in Chunks(sfile'[c])
             PROVE  disk'[sfile'[c]][i] = sfile'[c]
  BY DEF SuccessSound, NoStray, Stored, Chunks
<1>1. NoCollision /\ KeptBeforeRecorded /\ i \in Idx
  BY CollisionsStay DEF IInv, Chunks
<1>2. CASE req'[r] = req[r]
  <2>1. /\ c \in Client /\ sid[c] \in Minute /\ sfile[c] \in Hash
        /\ req[r].op = "SUCCESS" /\ ~req[r].guess
        /\ c = req[r].client /\ k = req[r].key /\ k \in Key
    BY <1>2 DEF IInv, OnlyAnnounced, TypeOK
  <2>2. /\ sid'[c] = sid[c] /\ sfile'[c] = sfile[c]
        /\ parts[k] \subseteq parts'[k]
        /\ missed \subseteq missed' /\ spoiled \subseteq spoiled'
    BY <2>1, NothingTakenBack, ConstantsAssumption DEF IInv, Minute
  <2>3. Stored(sfile[c], i)
    BY <1>1, <2>1, <2>2 DEF IInv, SuccessSound, NoStray
  <2> QED BY <1>1, <2>1, <2>2, <2>3, DiskStep DEF IInv, Stored
<1>3. ASSUME HgetallDone(r)
      PROVE  disk'[sfile'[c]][i] = sfile'[c]
  <2>1. /\ c \in Client /\ sid[c] \in Minute /\ sfile[c] \in Hash
        /\ c = req[r].client /\ k = req[r].key /\ k \in Key /\ k[2] = sid[c]
        /\ UNCHANGED <<sid, sfile, parts, disk, missed, spoiled>>
    <3>1. TypeOK /\ OnlyAnnounced /\ req[r].op = "hgetall"
      BY <1>3 DEF IInv, HgetallDone
    <3>2. c = req[r].client /\ k = req[r].key
      BY <1>3, <3>1, HgetallDoneStep
    <3>3. UNCHANGED <<sid, sfile, parts, disk, missed, spoiled>>
      BY <1>3 DEF HgetallDone, historyVars
    <3> QED BY <3>1, <3>2, <3>3 DEF OnlyAnnounced, TypeOK
  <2>2. /\ info[k]["chunkcount"] # Nil
        /\ info[k]["chunkcount"] = Cardinality(parts[k])
    <3>1. TypeOK
      BY DEF IInv
    <3>2. PICK v \in Answers, g \in BOOLEAN :
             /\ req'[r].op = v /\ req'[r].guess = g
             /\ v = "SUCCESS" /\ ~g =>
                  /\ info[req[r].key]["chunkcount"] # Nil
                  /\ Cardinality(parts[req[r].key]) = info[req[r].key]["chunkcount"]
      BY <1>3, <3>1, HgetallDoneStep
    <3>3. v = "SUCCESS" /\ ~g
      BY <3>2
    <3> QED BY <2>1, <3>2, <3>3
  <2>3. Cardinality(parts[k]) = ChunkCount(sfile[c])
    <3>1. PICK d \in Client : /\ sid[d] = k[2]
                              /\ info[k]["chunkcount"] = ChunkCount(sfile[d])
      BY <2>1, <2>2 DEF IInv, InfoFromUpload
    <3>2. sfile[d] = sfile[c]
      BY <1>1, <2>1, <3>1, ConstantsAssumption DEF NoCollision, Minute
    <3> QED BY <2>2, <3>1, <3>2
  <2>4. i \in parts[k]
    BY <2>1, <2>3, CountedMeansAll
  <2>5. PICK d \in Client : sid[d] = k[2] /\ Kept(d, k, i)
    BY <1>1, <2>1, <2>4 DEF KeptBeforeRecorded
  <2>6. sfile[d] = sfile[c]
    BY <1>1, <2>1, <2>5, ConstantsAssumption DEF NoCollision, Minute
  <2> QED BY <2>1, <2>5, <2>6 DEF Kept, Stored
<1>4. req'[r] = req[r] \/ HgetallDone(r)
  BY AnswerStep DEF IInv, Answers
<1> QED BY <1>2, <1>3, <1>4

\* Without faults, init's HSET of chunkcount is pending until it has landed, and
\* what has landed stays.
LEMMA CountStep ==
  ASSUME TypeOK, OnlyAnnounced, Faults = {}, CountComes, [Next]_vars
  PROVE  CountComes'
<1> USE DEF CountComes
<1>1. ASSUME NEW c \in Client, NEW h \in Hash, NEW m \in Minute, InitUpload(c, h, m)
      PROVE  CountComes'
  <2>1. RetryMax + 1 > 0
    BY ConstantsAssumption
  <2> QED BY <1>1, <2>1 DEF InitUpload, TypeOK, Field, StoredKey
<1>2. ASSUME NEW c \in Client, NEW f \in Field, InitTask(c, f)
      PROVE  CountComes'
  <2>1. HsetLands(c, f)
    BY <1>2 DEF InitTask, HsetFails, MayFail
  <2>2. sid[c] \in Minute /\ sfile[c] \in Hash /\ StoredKey(c) \in Key
    BY <2>1, Keys DEF HsetLands, OnlyAnnounced, TypeOK, StoredKey
  <2>3. /\ info' = [info EXCEPT ![StoredKey(c)][f] = InitArgs(sfile[c])[f]]
        /\ left' = [left EXCEPT ![c][f] = 0]
        /\ UNCHANGED sid
    BY <2>1 DEF HsetLands, MayFail
  <2>4. InitArgs(sfile[c])[f] # Nil
    BY <2>2, InitArgsType, ConstantsAssumption
  <2>5. SUFFICES ASSUME NEW d \in Client, sid[d] # Nil
                 PROVE  left'[d]["chunkcount"] > 0 \/ info'[StoredKey(d)]["chunkcount"] # Nil
    BY <2>3 DEF StoredKey
  <2>6. StoredKey(d) \in Key /\ "chunkcount" \in Field
    BY <2>5, Keys DEF TypeOK, Field, StoredKey
  <2>7. CASE d = c /\ f = "chunkcount"
    BY <2>2, <2>3, <2>4, <2>6, <2>7 DEF TypeOK
  <2>8. CASE d # c \/ f # "chunkcount"
    <3>1. left'[d]["chunkcount"] = left[d]["chunkcount"]
      BY <2>3, <2>6, <2>8 DEF TypeOK
    <3>2. info[StoredKey(d)]["chunkcount"] # Nil => info'[StoredKey(d)]["chunkcount"] # Nil
      BY <2>2, <2>3, <2>4, <2>6 DEF TypeOK
    <3> QED BY <2>5, <3>1, <3>2 DEF StoredKey
  <2> QED BY <2>7, <2>8
<1>3. ASSUME UNCHANGED <<sid, left, info>>
      PROVE  CountComes'
  BY <1>3 DEF StoredKey
<1>4. ASSUME NEW r \in Request, NEW c \in Client, NEW pre \in Sends, NEW i \in Idx,
             UppartStart(r, c, pre, i)
      PROVE  UNCHANGED <<sid, left, info>>
  BY <1>4, Keys DEF UppartStart, Waiting
<1>5. ASSUME NEW r \in Request, NEW c \in Client, NEW pre \in Sends,
             CompleteStart(r, c, pre)
      PROVE  UNCHANGED <<sid, left, info>>
  BY <1>5, Keys DEF CompleteStart, Waiting
<1>6. ASSUME NEW r \in Request, Series(r)
      PROVE  UNCHANGED <<sid, left, info>>
  BY <1>6 DEF Series, HgetDone, HsetDone, HgetallDone
<1>7. ~Restart
  BY DEF Restart, MayFail
<1>8. CASE UNCHANGED vars
  BY <1>3, <1>8 DEF vars, serverVars
<1> QED BY <1>1, <1>2, <1>3, <1>4, <1>5, <1>6, <1>7, <1>8 DEF Next

-----------------------------------------------------------------------------

\* The invariant holds in every state the server reaches.
THEOREM Invariance == Spec => []IInv
<1>1. ASSUME IInv, [Next]_vars PROVE IInv'
  <2>1. TypeOK'
    BY <1>1, TypeStep DEF IInv
  <2>2. InfoFromUpload' /\ OnlyAnnounced'
    BY <1>1, InfoStep, AnnouncedStep DEF IInv
  <2>3. NoForeignChunk'
    <3>1. ASSUME NoCollision'
          PROVE  \A h \in Hash, i \in Idx :
                   disk'[h][i] \in {Nil, h} \/ (disk'[h][i] = Mixed /\ h \in spoiled')
      BY <1>1, <3>1, CollisionsStay, DiskStep DEF IInv
    <3> QED BY <3>1 DEF NoForeignChunk
  <2>4. NoCollision' => KeptBeforeRecorded'
    BY <1>1, KeptStep
  <2>5. SuccessSound'
    BY <1>1, SuccessStep
  <2>6. Faults = {} => CountComes'
    BY <1>1, CountStep DEF IInv
  <2> QED BY <2>1, <2>2, <2>3, <2>4, <2>5, <2>6 DEF IInv
<1> QED BY <1>1, InitIInv, PTL DEF Spec

\* Every variable of the server keeps its type.
THEOREM TypeCorrect == Spec => []TypeOK
BY Invariance, PTL DEF IInv

\* complete of mupload.cc answers SUCCESS only when every chunk is on disk,
\* outside the cases that SuccessSound names.
THEOREM SuccessCorrect == Spec => []SuccessSound
BY Invariance, PTL DEF IInv

\* uppart never mixes two files in a directory while no upload id is shared.
THEOREM DirectoriesSeparate == Spec => []NoForeignChunk
BY Invariance, PTL DEF IInv

\* What init counts is what the file has: once chunkcount has arrived, a complete
\* that reads exactly the chunks of the file answers SUCCESS, whatever state the
\* server is in.
THEOREM CompleteNotRefused == Spec => []AllRecordedMeansSuccess
<1>1. ASSUME IInv PROVE AllRecordedMeansSuccess
  <2> SUFFICES ASSUME NEW c \in Client, NoCollision, sid[c] # Nil,
                      FileSize[sfile[c]] < IntHalf,
                      parts[StoredKey(c)] = Chunks(sfile[c]),
                      info[StoredKey(c)]["chunkcount"] # Nil
               PROVE  Cardinality(parts[StoredKey(c)]) = info[StoredKey(c)]["chunkcount"]
    BY DEF AllRecordedMeansSuccess, Verdict
  <2>1. /\ sid[c] \in Minute /\ sfile[c] \in Hash
        /\ StoredKey(c) \in Key /\ StoredKey(c)[2] = sid[c]
    BY <1>1, Keys DEF IInv, TypeOK, StoredKey
  <2>2. PICK d \in Client : /\ sid[d] = sid[c]
                            /\ info[StoredKey(c)]["chunkcount"] = ChunkCount(sfile[d])
    BY <1>1, <2>1 DEF IInv, InfoFromUpload
  <2>3. sfile[d] = sfile[c]
    BY <2>1, <2>2 DEF NoCollision
  <2> QED BY <2>1, <2>2, <2>3, CountIsNumberOfChunks
<1> QED BY <1>1, Invariance, PTL

\* While nothing fails, complete decides on the uninitialised chunkcount of
\* mupload.cc only before init's HSET of that field has landed, or when the client
\* left out the MP_ that init does not tell it of.
THEOREM GuessesExplained == Spec => GuessOnlyBeforeCount
<1>1. ASSUME IInv, [Next]_vars, NEW r \in Request, Faults = {},
             req[r].op = "hgetall", req'[r].op \in Answers, req'[r].guess
      PROVE  left[req[r].client]["chunkcount"] > 0 \/ req[r].key[1] = "bare"
  <2>1. HgetallDone(r)
    BY <1>1, AnswerStep DEF IInv, Answers
  <2>2. /\ req[r].client \in Client /\ sid[req[r].client] # Nil
        /\ req[r].key \in Key /\ req[r].key[2] = sid[req[r].client]
    BY <1>1 DEF IInv, OnlyAnnounced
  <2>3. info[req[r].key]["chunkcount"] = Nil
    <3>1. TypeOK
      BY <1>1 DEF IInv
    <3>2. PICK g \in BOOLEAN :
             /\ req'[r].guess = g
             /\ g /\ Faults = {} => info[req[r].key]["chunkcount"] = Nil
      BY <2>1, <3>1, HgetallDoneStep
    <3> QED BY <1>1, <3>2
  <2>4. req[r].key[1] # "bare" => req[r].key = StoredKey(req[r].client)
    BY <2>2, Keys DEF StoredKey
  <2> QED BY <1>1, <2>2, <2>3, <2>4 DEF IInv, CountComes
<1> DEFINE A == \A r \in Request :
                  /\ Faults = {}
                  /\ req[r].op = "hgetall"
                  /\ req'[r].op \in Answers
                  /\ req'[r].guess
                  => \/ left[req[r].client]["chunkcount"] > 0
                     \/ req[r].key[1] = "bare"
<1>2. IInv /\ [Next]_vars => [A]_vars
  BY <1>1
<1> HIDE DEF A
<1>3. Spec => [][A]_vars
  BY <1>2, Invariance, PTL DEF Spec
<1> QED BY <1>3 DEF GuessOnlyBeforeCount, A
=============================================================================
