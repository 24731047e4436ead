-------------------------- MODULE CloudDiskProofs --------------------------
(***************************************************************************)
(* Proofs about CloudDisk, for any finite set of uploads, any names and    *)
(* contents, any limit of descriptors and any set of faults.               *)
(***************************************************************************)
EXTENDS CloudDisk, FiniteSetTheorems, TLAPS

(***************************************************************************)
(* The inductive invariant.                                                *)
(***************************************************************************)
Begun(u) == up[u].pc \notin {"new", "500"}

\* What an upload has done at each step of the handler.
Course(u) ==
  /\ ~ Begun(u) => up[u].name = None
  /\ Begun(u) => up[u].name \in Name /\ up[u].data \in Data /\ wrote[u] \in Content
  /\ up[u].pc \in {"new", "500", "hash file"} => up[u].hash["file"] = None
  /\ up[u].pc \in {"new", "500", "hash file", "hash user"} => up[u].hash["user"] = None
  /\ up[u].pc \in {"new", "500", "hash file", "hash user", "hash oss"} => up[u].hash["oss"] = None
  /\ up[u].pc \in {"new", "500", "hash file", "hash user", "hash oss", "transfer"} \/ ~ async
       => up[u].hash["msg"] = None
  /\ up[u].pc \in {"hash user", "hash oss", "transfer", "mysql", "302"}
       => up[u].hash["file"] # None
  /\ up[u].pc \in {"hash oss", "transfer", "mysql", "302"} => up[u].hash["user"] # None
  /\ up[u].pc \in {"transfer", "mysql", "302"} => up[u].hash["oss"] # None
  /\ up[u].pc \in {"mysql", "302"} /\ async => up[u].hash["msg"] # None

\* What the tables and the object store have of an upload.
Rows(u) ==
  /\ up[u].pc \notin {"302", "lost"} => fileRow[u] = None /\ userRow[u] = None
  /\ fileRow[u] # None => fileRow[u] = up[u].hash["file"]
  /\ userRow[u] # None => fileRow[u] # None /\ userRow[u] = up[u].hash["user"]
  /\ up[u].pc = "302" /\ <<u, "mysql">> \notin failed => userRow[u] # None
  /\ up[u].pc \in {"mysql", "302"} /\ ~ async /\ <<u, "oss">> \notin failed
       => up[u].hash["oss"] \in DOMAIN oss

\* An upload that was not disturbed hashed what it wrote, and the file is still
\* that as long as the handler needs it.
OwnFile(u) ==
  u \notin disturbed =>
    /\ \A k \in Hashes : up[u].hash[k] # None => up[u].hash[k] = wrote[u]
    /\ Working(u) => tmp[up[u].name] = wrote[u]

UploadOK(u) == Course(u) /\ Rows(u) /\ OwnFile(u)

\* A file that is not empty is that of an upload.
TmpNamed == \A n \in Name : tmp[n] # <<>> => \E u \in Upload : up[u].name = n

\* While no two uploads used one name, every file is as its upload wrote it.
NamesApart ==
  DistinctNames =>
    /\ disturbed = {}
    /\ \A u \in Upload : Begun(u) =>
         /\ tmp[up[u].name] = wrote[u]
         /\ <<u, "disk">> \notin failed => wrote[u] = Pure(u)

\* What the page shows is in the tables.
PageOK ==
  /\ page.pc = "listed" => page.sha # None /\ \E u \in Upload : userRow[u] = page.sha
  /\ page.pc = "no row" => disturbed # {}
  /\ page.pc = "answered" =>
       \E u \in Upload : /\ fileRow[u] # None /\ fileRow[u] = page.sha
                         /\ up[u].name = page.name

\* No upload has a message in both of two places, or two in one.
Apart(s, t) == \A i \in 1 .. Len(s), j \in 1 .. Len(t) : s[i].upload # t[j].upload
Once(s) == \A i, j \in 1 .. Len(s) : i # j => s[i].upload # s[j].upload

\* The messages are those of uploads that published them.
Published(s) == \A i \in 1 .. Len(s) : up[s[i].upload].hash["msg"] = s[i].filehash

QueueOK ==
  /\ Once(taken) /\ Once(consumer.got) /\ Once(mq)
  /\ Apart(taken, consumer.got) /\ Apart(taken, mq) /\ Apart(consumer.got, mq)
  /\ Published(taken) /\ Published(consumer.got) /\ Published(mq)

\* Every descriptor left open is that of one hash of one upload.
Hashed(key) == {u \in Upload : up[u].hash[key] # None}

FdsOK ==
  fds <= Cardinality(Hashed("file")) + Cardinality(Hashed("user"))
         + Cardinality(Hashed("oss")) + Cardinality(Hashed("msg"))

IInv ==
  /\ TypeOK
  /\ \A u \in Upload : UploadOK(u)
  /\ TmpNamed /\ NamesApart
  /\ OssContentAddressed
  /\ PageOK
  /\ QueueOK
  /\ FdsOK

-----------------------------------------------------------------------------
(***************************************************************************)
(* What the steps do to the uploads.                                       *)
(***************************************************************************)
Others(u) == \A v \in Upload \ {u} : up'[v] = up[v]

\* Only u changes: its position, and the hash under one of the keys.
Stays(u) == up'[u].name = up[u].name /\ up'[u].data = up[u].data

Moves(u, to) == Others(u) /\ Stays(u) /\ up'[u].pc = to /\ up'[u].hash = up[u].hash

HashesTo(u, key, to) ==
  /\ Others(u) /\ Stays(u) /\ up'[u].pc = to
  /\ up'[u].hash[key] = tmp[up[u].name]
  /\ \A k \in Hashes \ {key} : up'[u].hash[k] = up[u].hash[k]

\* The process ends; what the uploads have done stays.
Falls ==
  \A v \in Upload :
    /\ Stays(v) /\ up'[v].hash = up[v].hash
    /\ up'[v].pc = IF up[v].pc \in {"new", "302", "500"} THEN up[v].pc ELSE "lost"
    /\ fileRow'[v] # fileRow[v] \/ userRow'[v] # userRow[v] =>
         /\ up[v].pc = "mysql"
         /\ fileRow'[v] = up[v].hash["file"]
         /\ userRow'[v] = up[v].hash["user"]

LEMMA GotoEffect ==
  ASSUME TypeOK, NEW u \in Upload, NEW pc \in Pcs, Goto(u, pc)
  PROVE  Moves(u, pc) /\ up' \in [Upload -> Uploads]
<1>1. up \in [Upload -> Uploads]
  BY DEF TypeOK
<1> QED BY <1>1 DEF Goto, Uploads, Moves, Others, Stays

LEMMA WriteEffect ==
  ASSUME TypeOK, NEW u \in Upload, NEW n \in Name, NEW d \in Data, Write(u, n, d)
  PROVE  /\ Others(u) /\ up[u].pc = "new" /\ up'[u].pc = "hash file"
         /\ up'[u].name = n /\ up'[u].data = d /\ up'[u].hash = up[u].hash
         /\ up' \in [Upload -> Uploads]
<1>1. up \in [Upload -> Uploads]
  BY DEF TypeOK
<1>2. "hash file" \in Pcs /\ n \in Opt(Name) /\ d \in Opt(Data)
  BY DEF Pcs, Opt
<1>3. /\ up[u].pc = "new"
      /\ up' = [up EXCEPT ![u].pc = "hash file", ![u].name = n, ![u].data = d]
  BY DEF Write
<1> QED BY <1>1, <1>2, <1>3 DEF Uploads, Others

LEMMA HashEffect ==
  ASSUME TypeOK, NEW u \in Upload, NEW key \in Hashes, NEW to \in Pcs,
         up[u].name \in Name,
         up' = [up EXCEPT ![u].hash[key] = Sha1File(u), ![u].pc = to]
  PROVE  /\ HashesTo(u, key, to)
         /\ up' \in [Upload -> Uploads]
<1>1. up \in [Upload -> Uploads]
  BY DEF TypeOK
<1>2. Sha1File(u) \in Opt(Content) /\ Sha1File(u) = tmp[up[u].name]
  BY DEF TypeOK, Sha1File, Opt
<1>3. /\ up[u].hash \in [Hashes -> Opt(Content)]
      /\ [up[u].hash EXCEPT ![key] = Sha1File(u)] \in [Hashes -> Opt(Content)]
  BY <1>1, <1>2 DEF Uploads
<1>4. up' = [up EXCEPT ![u] = [up[u] EXCEPT !.hash = [up[u].hash EXCEPT ![key] = Sha1File(u)],
                                            !.pc = to]]
  BY <1>1 DEF Uploads
<1>5. up' \in [Upload -> Uploads]
  BY <1>1, <1>3, <1>4 DEF Uploads
<1>6. /\ Others(u) /\ Stays(u) /\ up'[u].pc = to
      /\ up'[u].hash = [up[u].hash EXCEPT ![key] = Sha1File(u)]
  BY <1>1, <1>4 DEF Uploads, Others, Stays
<1> QED BY <1>2, <1>3, <1>5, <1>6 DEF HashesTo

LEMMA EndsEffect ==
  ASSUME TypeOK, ProcessEnds
  PROVE  /\ Falls
         /\ fds' = 0 /\ up' \in [Upload -> Uploads]
         /\ fileRow' \in [Upload -> Opt(Content)] /\ userRow' \in [Upload -> Opt(Content)]
<1>1. up \in [Upload -> Uploads]
  BY DEF TypeOK
<1>2. up' = [v \in Upload |-> IF up[v].pc \in {"new", "302", "500"} THEN up[v]
                             ELSE [up[v] EXCEPT !.pc = "lost"]]
  BY DEF ProcessEnds
<1>3. "lost" \in Pcs
  BY DEF Pcs
<1>4. up' \in [Upload -> Uploads]
  BY <1>1, <1>2, <1>3 DEF Uploads
<1>5. \A v \in Upload :
        /\ Stays(v) /\ up'[v].hash = up[v].hash
        /\ up'[v].pc = IF up[v].pc \in {"new", "302", "500"} THEN up[v].pc ELSE "lost"
  BY <1>1, <1>2 DEF Uploads, Stays
<1>6. PICK landed \in SUBSET {v \in Upload : up[v].pc = "mysql"} :
        /\ fileRow' = [v \in Upload |-> IF v \in landed THEN up[v].hash["file"] ELSE fileRow[v]]
        /\ userRow' = [v \in Upload |-> IF v \in landed THEN up[v].hash["user"] ELSE userRow[v]]
  BY DEF ProcessEnds, Inserted
<1>7. \A v \in Upload : fileRow'[v] # fileRow[v] \/ userRow'[v] # userRow[v] =>
        /\ up[v].pc = "mysql"
        /\ fileRow'[v] = up[v].hash["file"]
        /\ userRow'[v] = up[v].hash["user"]
  BY <1>6
<1>8. \A v \in Upload : up[v].hash["file"] \in Opt(Content) /\ up[v].hash["user"] \in Opt(Content)
  <2>1. \A v \in Upload : up[v].hash \in [Hashes -> Opt(Content)]
    BY <1>1 DEF Uploads
  <2> QED BY <2>1 DEF Hashes
<1>9. fileRow' \in [Upload -> Opt(Content)] /\ userRow' \in [Upload -> Opt(Content)]
  BY <1>6, <1>8 DEF TypeOK
<1>10. fds' = 0
  BY DEF ProcessEnds
<1> QED BY <1>4, <1>5, <1>7, <1>9, <1>10 DEF Falls

-----------------------------------------------------------------------------
(***************************************************************************)
(* Type correctness.                                                       *)
(***************************************************************************)
LEMMA OverwriteType ==
  ASSUME NEW old \in Content, NEW d \in Data, NEW n \in Nat
  PROVE  Overwrite(old, d, n) \in Content
<1> DEFINE m == IF Len(old) > n THEN Len(old) ELSE n
<1>1. m \in Nat /\ Len(old) \in Nat
  BY DEF Content
<1>2. \A k \in 1 .. m : (IF k <= n THEN d ELSE old[k]) \in Data
  BY DEF Content
<1>3. Overwrite(old, d, n) \in [1 .. m -> Data]
  BY <1>1, <1>2 DEF Overwrite
<1> HIDE DEF m
<1> QED BY <1>1, <1>3 DEF Content

\* A complete write into an empty file.
LEMMA OverwriteEmpty ==
  ASSUME NEW d \in Data
  PROVE  Overwrite(<<>>, d, Size[d]) = [k \in 1 .. Size[d] |-> d]
BY ConstantsAssumption DEF Overwrite

LEMMA WriteLengthsType == ASSUME NEW d \in Data, NEW n \in WriteLengths(d) PROVE n \in Nat
BY ConstantsAssumption DEF WriteLengths

\* An upload that has begun has a name, and its file is hashed.
LEMMA HashStepEffect ==
  ASSUME TypeOK, NEW u \in Upload, UploadOK(u), NEW from \in {"hash file", "hash user", "hash oss"},
         NEW key \in Hashes, NEW to \in Pcs, HashStep(u, from, key, to)
  PROVE  /\ HashesTo(u, key, to) /\ up[u].pc = from
         /\ up' \in [Upload -> Uploads]
         /\ fds < maxFds /\ fds' = fds + 1
<1>1. up[u].name \in Name
  BY DEF HashStep, UploadOK, Course, Begun
<1>2. up' = [up EXCEPT ![u].hash[key] = Sha1File(u), ![u].pc = to]
  BY DEF HashStep
<1> QED BY <1>1, <1>2, HashEffect DEF HashStep

LEMMA PublishEffect ==
  ASSUME TypeOK, NEW u \in Upload, UploadOK(u), Publish(u)
  PROVE  /\ HashesTo(u, "msg", "mysql") /\ up[u].pc = "transfer"
         /\ up' \in [Upload -> Uploads]
         /\ async /\ fds < maxFds /\ fds' = fds + 1
         /\ \E m \in Message : /\ m.upload = u /\ m.filehash = tmp[up[u].name]
                               /\ mq' = Append(mq, m)
<1>1. up[u].name \in Name /\ up[u].hash["oss"] # None
  BY DEF Publish, UploadOK, Course, Begun
<1>2. up' = [up EXCEPT ![u].hash["msg"] = Sha1File(u), ![u].pc = "mysql"]
  BY DEF Publish
<1>3. HashesTo(u, "msg", "mysql") /\ up' \in [Upload -> Uploads]
  BY <1>1, <1>2, HashEffect DEF Hashes, Pcs
<1>4. up[u].hash["oss"] \in Content
  <2>1. up[u].hash \in [Hashes -> Opt(Content)]
    BY DEF TypeOK, Uploads
  <2> QED BY <1>1, <2>1 DEF Hashes, Opt
<1>5. Sha1File(u) = tmp[up[u].name] /\ Sha1File(u) \in Content
  BY <1>1 DEF Sha1File, TypeOK
<1>6. [upload |-> u, filehash |-> Sha1File(u), osspath |-> up[u].hash["oss"]] \in Message
  BY <1>4, <1>5 DEF Message
<1> QED BY <1>3, <1>5, <1>6 DEF Publish

LEMMA TypeStep == ASSUME TypeOK, \A u \in Upload : UploadOK(u), [Next]_vars PROVE TypeOK'
<1> USE DEF setup, fileVars, dbVars, mqVars
<1>a. /\ failed \subseteq Failures
      /\ \A u \in Upload, w \in {"disk", "mysql", "oss"} : <<u, w>> \in Failures
  BY DEF TypeOK, Failures
<1>b. mq \in Seq(Message) /\ taken \in Seq(Message)
  BY DEF TypeOK
<1>c. consumer \in Consumers /\ consumer.got \in Seq(Message)
  BY DEF TypeOK, Consumers
<1>d. page \in Pages
  BY DEF TypeOK
<1>e. fds \in 0 .. maxFds /\ maxFds \in Nat
  BY DEF TypeOK
<1>f. \A c \in DOMAIN oss : c \in Content /\ oss[c] \in Content
  BY DEF TypeOK
<1>g. fds < maxFds /\ fds' = fds + 1 => fds' \in 0 .. maxFds
  BY <1>e
<1>h. ASSUME NEW u \in Upload, NEW w \in {"disk", "mysql", "oss"},
             failed' = failed \cup {<<u, w>>} \/ failed' = failed
      PROVE  failed' \subseteq Failures
  <2>1. <<u, w>> \in Failures
    BY <1>a
  <2>2. failed \subseteq Failures
    BY <1>a
  <2> QED BY <1>h, <2>1, <2>2
<1>1. ASSUME NEW u \in Upload, NEW n \in Name, NEW d \in Data, Write(u, n, d) PROVE TypeOK'
  <2>1. up' \in [Upload -> Uploads]
    BY <1>1, WriteEffect
  <2>2. PICK len \in WriteLengths(d) :
          /\ tmp' = [tmp EXCEPT ![n] = Overwrite(tmp[n], d, len)]
          /\ failed' = IF len < Size[d] THEN failed \cup {<<u, "disk">>} ELSE failed
    BY <1>1 DEF Write
  <2>3. Overwrite(tmp[n], d, len) \in Content
    BY OverwriteType, WriteLengthsType DEF TypeOK
  <2>4. tmp' \in [Name -> Content]
    BY <2>2, <2>3 DEF TypeOK
  <2>5. wrote' \in [Upload -> Opt(Content)]
    BY <1>1, <2>4 DEF TypeOK, Write, Opt
  <2>6. failed' \subseteq Failures
    BY <1>a, <2>2
  <2>7. disturbed' \subseteq Upload
    BY <1>1 DEF TypeOK, Write
  <2> QED BY <1>1, <2>1, <2>4, <2>5, <2>6, <2>7 DEF TypeOK, Write
<1>2. ASSUME NEW u \in Upload, OpenFails(u) PROVE TypeOK'
  <2>1. up' \in [Upload -> Uploads]
    BY <1>2, GotoEffect DEF OpenFails, Pcs
  <2> QED BY <1>2, <2>1 DEF TypeOK, OpenFails
<1>3. ASSUME NEW u \in Upload, HashFile(u) \/ HashUser(u) \/ HashOss(u) PROVE TypeOK'
  <2>1. PICK from \in {"hash file", "hash user", "hash oss"}, key \in Hashes, to \in Pcs :
          HashStep(u, from, key, to)
    BY <1>3 DEF HashFile, HashUser, HashOss, Hashes, Pcs
  <2>2. up' \in [Upload -> Uploads] /\ fds < maxFds /\ fds' = fds + 1
    BY <2>1, HashStepEffect
  <2>3. fds' \in 0 .. maxFds
    BY <1>g, <2>2
  <2>4. UNCHANGED <<setup, fileVars, dbVars, oss, mqVars, failed, page>>
    BY <2>1 DEF HashStep
  <2> QED BY <2>2, <2>3, <2>4 DEF TypeOK
<1>4. ASSUME NEW u \in Upload, PutObject(u) PROVE TypeOK'
  <2>1. up' \in [Upload -> Uploads]
    BY <1>4, GotoEffect DEF PutObject, Pcs
  <2>2. up[u].hash["oss"] \in Content /\ Sha1File(u) \in Content
    <3>1. up[u].hash["oss"] # None /\ up[u].name \in Name
      BY <1>4 DEF UploadOK, Course, Begun, PutObject
    <3>2. up[u].hash \in [Hashes -> Opt(Content)]
      BY DEF TypeOK, Uploads
    <3> QED BY <3>1, <3>2 DEF Hashes, Opt, TypeOK, Sha1File
  <2>3. \A c \in DOMAIN oss' : c \in Content /\ oss'[c] \in Content
    BY <1>4, <1>f, <2>2 DEF PutObject
  <2>4. failed' \subseteq Failures
    <3>1. failed' = failed \cup {<<u, "oss">>} \/ failed' = failed
      BY <1>4 DEF PutObject
    <3> QED BY <1>h, <3>1
  <2> QED BY <1>4, <2>1, <2>3, <2>4 DEF TypeOK, PutObject
<1>5. ASSUME NEW u \in Upload, Publish(u) PROVE TypeOK'
  <2>1. up' \in [Upload -> Uploads] /\ fds < maxFds /\ fds' = fds + 1
    BY <1>5, PublishEffect
  <2>2. mq' \in Seq(Message)
    <3>1. PICK m \in Message : mq' = Append(mq, m)
      BY <1>5, PublishEffect
    <3> QED BY <1>b, <3>1
  <2>3. fds' \in 0 .. maxFds
    BY <1>g, <2>1
  <2>4. UNCHANGED <<setup, fileVars, dbVars, oss, consumer, taken, failed, page>>
    BY <1>5 DEF Publish
  <2> QED BY <2>1, <2>2, <2>3, <2>4 DEF TypeOK
<1>6. ASSUME ProcessEnds,
             page' \in Pages,
             UNCHANGED <<setup, fileVars, oss, mqVars, failed>>
      PROVE  TypeOK'
  <2>1. /\ fds' = 0 /\ up' \in [Upload -> Uploads]
        /\ fileRow' \in [Upload -> Opt(Content)] /\ userRow' \in [Upload -> Opt(Content)]
    BY <1>6, EndsEffect
  <2>2. fds' \in 0 .. maxFds
    BY <1>e, <2>1
  <2> QED BY <1>6, <2>1, <2>2 DEF TypeOK
<1>7. ASSUME NEW u \in Upload, PublishThrows(u) \/ Sha1Starves(u) PROVE TypeOK'
  BY <1>6, <1>7 DEF PublishThrows, Sha1Starves, TypeOK
<1>8. ASSUME NEW u \in Upload, MySQLDone(u) PROVE TypeOK'
  <2>1. up' \in [Upload -> Uploads]
    BY <1>8, GotoEffect DEF MySQLDone, Pcs
  <2>2. \A v \in Upload : up[v].hash["file"] \in Opt(Content) /\ up[v].hash["user"] \in Opt(Content)
    <3>1. \A v \in Upload : up[v].hash \in [Hashes -> Opt(Content)]
      BY DEF TypeOK, Uploads
    <3> QED BY <3>1 DEF Hashes
  <2>3. fileRow' \in [Upload -> Opt(Content)] /\ userRow' \in [Upload -> Opt(Content)]
    BY <1>8, <2>2 DEF TypeOK, MySQLDone, Inserted
  <2>4. failed' \subseteq Failures
    <3>1. failed' = failed \cup {<<u, "mysql">>} \/ failed' = failed
      BY <1>8 DEF MySQLDone
    <3> QED BY <1>h, <3>1
  <2> QED BY <1>8, <2>1, <2>3, <2>4 DEF TypeOK, MySQLDone
<1>9. CASE Query \/ DownloadUrl
  <2>1. page' \in Pages
    <3>1. CASE Query
      <4>1. \A u \in Upload : userRow[u] \in Opt(Content)
        BY DEF TypeOK
      <4> QED BY <1>d, <3>1, <4>1 DEF Query, Pages
    <3>2. CASE DownloadUrl
      <4>1. FileNames(page.sha) \subseteq Opt(Name)
        <5>1. \A u \in Upload : up[u].name \in Opt(Name)
          BY DEF TypeOK, Uploads
        <5> QED BY <5>1 DEF FileNames
      <4> QED BY <1>d, <3>2, <4>1 DEF DownloadUrl, Pages
    <3> QED BY <1>9, <3>1, <3>2
  <2> QED BY <1>9, <2>1 DEF TypeOK, Query, DownloadUrl
<1>10. CASE DownloadCrashes
  <2>1. page' \in Pages
    BY <1>10, <1>d DEF DownloadCrashes, Pages
  <2> QED BY <1>6, <1>10, <2>1 DEF DownloadCrashes
<1>11. CASE Consumer
  <2>1. /\ consumer' \in Consumers
        /\ mq' \in Seq(Message) /\ taken' \in Seq(Message)
    <3>1. CASE ConsumerStart \/ ConsumerTimeout \/ ConsumerExit
      <4>1. CASE ConsumerStart \/ ConsumerExit
        <5>1. /\ \/ consumer' = [pc |-> "waiting", got |-> <<>>]
                 \/ consumer' = [pc |-> "off", got |-> <<>>]
              /\ mq' = mq /\ taken' = taken
          BY <4>1 DEF ConsumerStart, ConsumerExit
        <5>2. <<>> \in Seq(Message)
          OBVIOUS
        <5>3. \A pc \in {"off", "waiting", "timeout"}, s \in Seq(Message) :
                [pc |-> pc, got |-> s] \in Consumers
          BY DEF Consumers
        <5> QED BY <1>b, <5>1, <5>2, <5>3
      <4>2. CASE ConsumerTimeout
        BY <1>b, <1>c, <4>2 DEF ConsumerTimeout, Consumers
      <4> QED BY <3>1, <4>1, <4>2
    <3>2. CASE Deliver
      <4>1. Head(mq) \in Message /\ Tail(mq) \in Seq(Message)
        BY <1>b, <3>2 DEF Deliver
      <4>2. Append(consumer.got, Head(mq)) \in Seq(Message)
        BY <1>c, <4>1
      <4> QED BY <1>b, <1>c, <3>2, <4>1, <4>2 DEF Deliver, Consumers
    <3>3. CASE ConsumerPrint
      <4>1. Head(consumer.got) \in Message
        BY <1>c, <3>3 DEF ConsumerPrint
      <4> QED BY <1>b, <3>3, <4>1 DEF ConsumerPrint, Consumers
    <3> QED BY <1>11, <3>1, <3>2, <3>3 DEF Consumer
  <2> QED BY <1>11, <2>1 DEF Consumer, ConsumerStart, Deliver, ConsumerTimeout, ConsumerPrint,
             ConsumerExit, TypeOK
<1>12. CASE UNCHANGED vars
  BY <1>12 DEF vars, TypeOK
<1> QED BY <1>1, <1>2, <1>3, <1>4, <1>5, <1>7, <1>8, <1>9, <1>10, <1>11, <1>12 DEF Next, Handler

-----------------------------------------------------------------------------
(***************************************************************************)
(* The uploads.                                                            *)
(***************************************************************************)

\* A hash of a file is never NULL.
LEMMA HashSome ==
  ASSUME TypeOK, NEW u \in Upload, up[u].name \in Name
  PROVE  tmp[up[u].name] # None /\ tmp[up[u].name] \in Content
BY ConstantsAssumption DEF TypeOK, Content

\* A step of another upload, of the consumer or of the page leaves an upload alone.
LEMMA Bystander ==
  ASSUME NEW v \in Upload, UploadOK(v), async' = async,
         up'[v] = up[v], wrote'[v] = wrote[v],
         fileRow'[v] = fileRow[v], userRow'[v] = userRow[v],
         \A w \in {"disk", "mysql", "oss"} : <<v, w>> \in failed' <=> <<v, w>> \in failed,
         DOMAIN oss \subseteq DOMAIN oss',
         disturbed \subseteq disturbed',
         v \notin disturbed' /\ Working(v) => tmp'[up[v].name] = tmp[up[v].name]
  PROVE  UploadOK(v)'
<1> USE DEF UploadOK
<1>1. Course(v)'
  BY DEF Course, Begun
<1>2. Rows(v)'
  BY DEF Rows
<1>3. OwnFile(v)'
  BY DEF OwnFile, Working
<1> QED BY <1>1, <1>2, <1>3

LEMMA OwnWrite ==
  ASSUME TypeOK, NEW u \in Upload, UploadOK(u), NEW n \in Name, NEW d \in Data, Write(u, n, d)
  PROVE  UploadOK(u)'
<1>1. /\ up[u].pc = "new" /\ up'[u].pc = "hash file"
      /\ up'[u].name = n /\ up'[u].data = d /\ up'[u].hash = up[u].hash
  BY WriteEffect, ZenonT(30)
<1>2. wrote'[u] = tmp'[n] /\ tmp'[n] \in Content
  <2>1. PICK len \in WriteLengths(d) : tmp' = [tmp EXCEPT ![n] = Overwrite(tmp[n], d, len)]
    BY DEF Write
  <2>2. Overwrite(tmp[n], d, len) \in Content
    BY OverwriteType, WriteLengthsType DEF TypeOK
  <2> QED BY <2>1, <2>2 DEF TypeOK, Write
<1>3. async' = async /\ fileRow' = fileRow /\ userRow' = userRow
  BY DEF Write, setup, dbVars
<1> USE DEF UploadOK, Course, Begun
<1>4. Course(u)'
  BY <1>1, <1>2, <1>3
<1>5. Rows(u)'
  BY <1>1, <1>3 DEF Rows
<1>6. \A k \in Hashes : up[u].hash[k] = None
  BY <1>1 DEF Hashes
<1>7. OwnFile(u)'
  BY <1>1, <1>2, <1>6 DEF OwnFile
<1> QED BY <1>4, <1>5, <1>7

LEMMA OwnMove ==
  ASSUME TypeOK, NEW u \in Upload, UploadOK(u),
         \/ OpenFails(u) \/ HashFile(u) \/ HashUser(u) \/ HashOss(u)
         \/ PutObject(u) \/ Publish(u) \/ MySQLDone(u)
  PROVE  UploadOK(u)'
<1> USE DEF UploadOK, Course, Begun, Rows, OwnFile, Working, Hashes, setup, fileVars, dbVars
<1>1. CASE OpenFails(u)
  <2>1. Moves(u, "500") /\ up[u].pc = "new"
    BY <1>1, GotoEffect DEF OpenFails, Pcs
  <2>2. /\ async' = async /\ fileRow' = fileRow /\ userRow' = userRow
        /\ wrote' = wrote /\ disturbed' = disturbed /\ tmp' = tmp
    BY <1>1 DEF OpenFails
  <2> QED BY <2>1, <2>2 DEF Moves, Stays
<1>2. CASE HashFile(u) \/ HashUser(u) \/ HashOss(u)
  <2>1. PICK from \in {"hash file", "hash user", "hash oss"}, key \in Hashes, to \in Pcs :
          /\ HashStep(u, from, key, to)
          /\ \/ from = "hash file" /\ key = "file" /\ to = "hash user"
             \/ from = "hash user" /\ key = "user" /\ to = "hash oss"
             \/ from = "hash oss" /\ key = "oss" /\ to = "transfer"
    BY <1>2 DEF HashFile, HashUser, HashOss, Pcs
  <2>2. HashesTo(u, key, to) /\ up[u].pc = from
    BY <2>1, HashStepEffect
  <2>3. /\ async' = async /\ fileRow' = fileRow /\ userRow' = userRow /\ failed' = failed
        /\ wrote' = wrote /\ disturbed' = disturbed /\ tmp' = tmp /\ oss' = oss
    BY <2>1 DEF HashStep
  <2>4. tmp[up[u].name] # None
    BY <2>2, HashSome
  <2> QED BY <2>1, <2>2, <2>3, <2>4 DEF HashesTo, Stays
<1>3. CASE PutObject(u)
  <2>1. Moves(u, "mysql") /\ up[u].pc = "transfer" /\ ~ async
    BY <1>3, GotoEffect DEF PutObject, Pcs
  <2>2. /\ async' = async /\ fileRow' = fileRow /\ userRow' = userRow
        /\ wrote' = wrote /\ disturbed' = disturbed /\ tmp' = tmp
    BY <1>3 DEF PutObject
  <2>3. \/ up[u].hash["oss"] \in DOMAIN oss'
        \/ <<u, "oss">> \in failed'
    BY <1>3 DEF PutObject
  <2> QED BY <2>1, <2>2, <2>3 DEF Moves, Stays
<1>4. CASE Publish(u)
  <2>1. HashesTo(u, "msg", "mysql") /\ up[u].pc = "transfer" /\ async
    BY <1>4, PublishEffect
  <2>2. /\ async' = async /\ fileRow' = fileRow /\ userRow' = userRow
        /\ wrote' = wrote /\ disturbed' = disturbed /\ tmp' = tmp /\ oss' = oss
    BY <1>4 DEF Publish
  <2>3. tmp[up[u].name] # None
    BY <2>1, HashSome
  <2> QED BY <2>1, <2>2, <2>3 DEF HashesTo, Stays
<1>5. CASE MySQLDone(u)
  <2>1. Moves(u, "302") /\ up[u].pc = "mysql"
    BY <1>5, GotoEffect DEF MySQLDone, Pcs
  <2>2. /\ async' = async /\ oss' = oss
        /\ wrote' = wrote /\ disturbed' = disturbed /\ tmp' = tmp
        /\ failed \subseteq failed'
    BY <1>5 DEF MySQLDone
  <2>3. \/ /\ fileRow'[u] = up[u].hash["file"] /\ userRow'[u] = up[u].hash["user"]
        \/ /\ fileRow'[u] \in {fileRow[u], up[u].hash["file"]} /\ userRow'[u] = userRow[u]
           /\ <<u, "mysql">> \in failed'
    BY <1>5 DEF MySQLDone, Inserted
  <2> QED BY <2>1, <2>2, <2>3 DEF Moves, Stays
<1> QED BY <1>1, <1>2, <1>3, <1>4, <1>5

\* What the end of the process leaves of an upload.
LEMMA EndsKeeps ==
  ASSUME TypeOK, ProcessEnds, UNCHANGED <<setup, fileVars, oss, failed>>,
         NEW v \in Upload, UploadOK(v)
  PROVE  UploadOK(v)'
<1>1. /\ Stays(v) /\ up'[v].hash = up[v].hash
      /\ up'[v].pc = IF up[v].pc \in {"new", "302", "500"} THEN up[v].pc ELSE "lost"
      /\ fileRow'[v] # fileRow[v] \/ userRow'[v] # userRow[v] =>
           /\ up[v].pc = "mysql"
           /\ fileRow'[v] = up[v].hash["file"]
           /\ userRow'[v] = up[v].hash["user"]
  BY EndsEffect DEF Falls
<1>2. /\ async' = async /\ oss' = oss /\ wrote' = wrote /\ disturbed' = disturbed
      /\ tmp' = tmp /\ failed' = failed
  BY DEF setup, fileVars
<1> USE <1>1, <1>2 DEF UploadOK, Course, Begun, Stays
<1>3. Course(v)'
  OBVIOUS
<1>4. Rows(v)'
  BY DEF Rows
<1>5. OwnFile(v)'
  BY DEF OwnFile, Working
<1> QED BY <1>3, <1>4, <1>5

\* A step of u concerns u only, unless it takes the process down.
LEMMA Alone ==
  ASSUME TypeOK, NEW u \in Upload, UploadOK(u), NEW v \in Upload \ {u},
         \/ OpenFails(u) \/ HashFile(u) \/ HashUser(u) \/ HashOss(u)
         \/ PutObject(u) \/ Publish(u) \/ MySQLDone(u)
  PROVE  /\ up'[v] = up[v] /\ UNCHANGED <<setup, fileVars>>
         /\ fileRow'[v] = fileRow[v] /\ userRow'[v] = userRow[v]
         /\ \A w \in {"disk", "mysql", "oss"} : <<v, w>> \in failed' <=> <<v, w>> \in failed
         /\ DOMAIN oss \subseteq DOMAIN oss'
<1> USE DEF setup, fileVars, dbVars
<1>1. CASE OpenFails(u)
  <2>1. Moves(u, "500")
    BY <1>1, GotoEffect DEF OpenFails, Pcs
  <2> QED BY <1>1, <2>1 DEF Moves, Others, OpenFails
<1>2. CASE HashFile(u) \/ HashUser(u) \/ HashOss(u)
  <2>1. PICK from \in {"hash file", "hash user", "hash oss"}, key \in Hashes, to \in Pcs :
          HashStep(u, from, key, to)
    BY <1>2 DEF HashFile, HashUser, HashOss, Hashes, Pcs
  <2>2. HashesTo(u, key, to)
    BY <2>1, HashStepEffect
  <2> QED BY <2>1, <2>2 DEF HashesTo, Others, HashStep
<1>3. CASE PutObject(u)
  <2>1. Moves(u, "mysql")
    BY <1>3, GotoEffect DEF PutObject, Pcs
  <2>2. failed' = failed \/ failed' = failed \cup {<<u, "oss">>}
    BY <1>3 DEF PutObject
  <2>3. DOMAIN oss \subseteq DOMAIN oss'
    BY <1>3 DEF PutObject
  <2>4. UNCHANGED <<setup, fileVars, dbVars>>
    BY <1>3 DEF PutObject
  <2> QED BY <2>1, <2>2, <2>3, <2>4 DEF Moves, Others
<1>4. CASE Publish(u)
  <2>1. HashesTo(u, "msg", "mysql")
    BY <1>4, PublishEffect
  <2> QED BY <1>4, <2>1 DEF HashesTo, Others, Publish
<1>5. CASE MySQLDone(u)
  <2>1. Moves(u, "302")
    BY <1>5, GotoEffect DEF MySQLDone, Pcs
  <2>2. failed' = failed \/ failed' = failed \cup {<<u, "mysql">>}
    BY <1>5 DEF MySQLDone
  <2>3. fileRow'[v] = fileRow[v] /\ userRow'[v] = userRow[v]
    BY <1>5 DEF MySQLDone, Inserted, TypeOK
  <2>4. UNCHANGED <<setup, fileVars, oss>>
    BY <1>5 DEF MySQLDone
  <2> QED BY <2>1, <2>2, <2>3, <2>4 DEF Moves, Others
<1> QED BY <1>1, <1>2, <1>3, <1>4, <1>5

\* The writes, the ways a process ends, and all the other steps.
LEMMA StepCases ==
  ASSUME [Next]_vars
  PROVE  \/ \E u \in Upload, n \in Name, d \in Data : Write(u, n, d)
         \/ \E u \in Upload : \/ OpenFails(u) \/ HashFile(u) \/ HashUser(u) \/ HashOss(u)
                              \/ PutObject(u) \/ Publish(u) \/ MySQLDone(u)
         \/ ProcessEnds /\ UNCHANGED <<setup, fileVars, oss, mqVars, failed>>
         \/ UNCHANGED <<setup, fds, fileVars, up, dbVars, oss, failed>>
<1>1. ASSUME NEW u \in Upload, PublishThrows(u) \/ Sha1Starves(u)
      PROVE  ProcessEnds /\ UNCHANGED <<setup, fileVars, oss, mqVars, failed>>
  BY <1>1 DEF PublishThrows, Sha1Starves
<1>2. CASE DownloadCrashes
  BY <1>2 DEF DownloadCrashes
<1>3. CASE Query \/ DownloadUrl \/ Consumer
  BY <1>3 DEF Query, DownloadUrl, Consumer, ConsumerStart, Deliver, ConsumerTimeout,
     ConsumerPrint, ConsumerExit
<1>4. CASE UNCHANGED vars
  BY <1>4 DEF vars
<1> QED BY <1>1, <1>2, <1>3, <1>4 DEF Next, Handler

LEMMA UploadStep ==
  ASSUME TypeOK, \A x \in Upload : UploadOK(x), [Next]_vars, NEW v \in Upload
  PROVE  UploadOK(v)'
<1>1. ASSUME NEW u \in Upload, NEW n \in Name, NEW d \in Data, Write(u, n, d) PROVE UploadOK(v)'
  <2>1. CASE v = u
    BY <1>1, <2>1, OwnWrite
  <2>2. CASE v # u
    <3>1. up'[v] = up[v]
      BY <1>1, <2>2, WriteEffect DEF Others
    <3>2. /\ wrote'[v] = wrote[v] /\ fileRow' = fileRow /\ userRow' = userRow /\ oss' = oss
          /\ async' = async
      BY <1>1, <2>2 DEF Write, dbVars, setup, TypeOK
    <3>3. \A w \in {"disk", "mysql", "oss"} : <<v, w>> \in failed' <=> <<v, w>> \in failed
      BY <1>1, <2>2 DEF Write
    <3>4. disturbed' = disturbed \cup {x \in Upload : Working(x) /\ up[x].name = n}
      BY <1>1 DEF Write
    <3>5. Working(v) /\ v \notin disturbed' => tmp'[up[v].name] = tmp[up[v].name]
      <4>1. SUFFICES ASSUME Working(v), v \notin disturbed'
                     PROVE  tmp'[up[v].name] = tmp[up[v].name]
        OBVIOUS
      <4>2. up[v].name # n /\ up[v].name \in Name
        BY <3>4, <4>1 DEF UploadOK, Course, Begun, Working
      <4>3. \E e : tmp' = [tmp EXCEPT ![n] = e]
        BY <1>1 DEF Write
      <4> QED BY <4>2, <4>3 DEF TypeOK
    <3> QED BY <3>1, <3>2, <3>3, <3>4, <3>5, Bystander
  <2> QED BY <2>1, <2>2
<1>2. ASSUME NEW u \in Upload, \/ OpenFails(u) \/ HashFile(u) \/ HashUser(u) \/ HashOss(u)
                               \/ PutObject(u) \/ Publish(u) \/ MySQLDone(u)
      PROVE  UploadOK(v)'
  <2>1. CASE v = u
    BY <1>2, <2>1, OwnMove
  <2>2. CASE v # u
    <3>1. /\ up'[v] = up[v] /\ UNCHANGED <<setup, fileVars>>
          /\ fileRow'[v] = fileRow[v] /\ userRow'[v] = userRow[v]
          /\ \A w \in {"disk", "mysql", "oss"} : <<v, w>> \in failed' <=> <<v, w>> \in failed
          /\ DOMAIN oss \subseteq DOMAIN oss'
      BY <1>2, <2>2, Alone
    <3> QED BY <3>1, Bystander DEF setup, fileVars
  <2> QED BY <2>1, <2>2
<1>3. CASE ProcessEnds /\ UNCHANGED <<setup, fileVars, oss, mqVars, failed>>
  BY <1>3, EndsKeeps
<1>4. CASE UNCHANGED <<setup, fds, fileVars, up, dbVars, oss, failed>>
  BY <1>4, Bystander DEF setup, fileVars, dbVars
<1> QED BY <1>1, <1>2, <1>3, <1>4, StepCases

LEMMA Grows ==
  ASSUME [Next]_vars
  PROVE  async' = async /\ disturbed \subseteq disturbed' /\ failed \subseteq failed'
<1> USE DEF setup, fileVars
<1>1. ASSUME NEW u \in Upload, NEW n \in Name, NEW d \in Data, Write(u, n, d)
      PROVE  async' = async /\ disturbed \subseteq disturbed' /\ failed \subseteq failed'
  BY <1>1 DEF Write
<1>2. ASSUME NEW u \in Upload, \/ OpenFails(u) \/ HashFile(u) \/ HashUser(u) \/ HashOss(u)
                               \/ PutObject(u) \/ Publish(u) \/ MySQLDone(u)
      PROVE  async' = async /\ disturbed \subseteq disturbed' /\ failed \subseteq failed'
  BY <1>2 DEF OpenFails, HashFile, HashUser, HashOss, HashStep, PutObject, Publish, MySQLDone
<1> QED BY <1>1, <1>2, StepCases

\* What no step takes back: the name, the data and the rows of an upload.
LEMMA Lasting ==
  ASSUME TypeOK, \A x \in Upload : UploadOK(x), [Next]_vars, NEW v \in Upload
  PROVE  /\ Begun(v) => Begun(v)' /\ Stays(v) /\ wrote'[v] = wrote[v]
         /\ fileRow[v] # None => fileRow'[v] = fileRow[v]
         /\ userRow[v] # None => userRow'[v] = userRow[v]
         /\ \A k \in Hashes : up[v].hash[k] # None => up'[v].hash[k] = up[v].hash[k]
         /\ up[v].name # None => up'[v].name = up[v].name
<1>0. UploadOK(v) /\ (~ Begun(v) => up[v].name = None)
  BY DEF UploadOK, Course
<1>1. ASSUME NEW u \in Upload, NEW n \in Name, NEW d \in Data, Write(u, n, d)
      PROVE  /\ Begun(v) => Begun(v)' /\ Stays(v) /\ wrote'[v] = wrote[v]
             /\ fileRow' = fileRow /\ userRow' = userRow
             /\ up'[v].hash = up[v].hash
  <2>1. fileRow' = fileRow /\ userRow' = userRow
    BY <1>1 DEF Write, dbVars
  <2>2. CASE v = u
    BY <1>1, <2>1, <2>2, WriteEffect DEF Begun
  <2>3. CASE v # u
    <3>1. up'[v] = up[v]
      BY <1>1, <2>3, WriteEffect DEF Others
    <3>2. wrote'[v] = wrote[v]
      BY <1>1, <2>3 DEF Write, TypeOK
    <3> QED BY <2>1, <3>1, <3>2 DEF Begun, Stays
  <2> QED BY <2>2, <2>3
<1>2. ASSUME NEW u \in Upload, \/ OpenFails(u) \/ HashFile(u) \/ HashUser(u) \/ HashOss(u)
                               \/ PutObject(u) \/ Publish(u) \/ MySQLDone(u)
      PROVE  /\ UNCHANGED fileVars
             /\ Begun(v) => Begun(v)' /\ Stays(v)
             /\ fileRow[v] # None => fileRow'[v] = fileRow[v]
             /\ userRow[v] # None => userRow'[v] = userRow[v]
             /\ \A k \in Hashes : up[v].hash[k] # None => up'[v].hash[k] = up[v].hash[k]
  <2>1. UNCHANGED fileVars
    BY <1>2 DEF OpenFails, HashFile, HashUser, HashOss, HashStep, PutObject, Publish, MySQLDone
  <2>2. CASE v # u
    BY <1>2, <2>1, <2>2, Alone DEF Begun, Stays
  <2>3. CASE v = u
    <3>1. CASE OpenFails(u)
      <4>1. Moves(u, "500") /\ up[u].pc = "new"
        BY <3>1, GotoEffect DEF OpenFails, Pcs
      <4> QED BY <2>1, <2>3, <3>1, <4>1 DEF Moves, Begun, OpenFails, dbVars
    <3>2. CASE HashFile(u) \/ HashUser(u) \/ HashOss(u)
      <4>1. PICK from \in {"hash file", "hash user", "hash oss"}, key \in Hashes, to \in Pcs :
              /\ HashStep(u, from, key, to)
              /\ \/ from = "hash file" /\ key = "file" /\ to = "hash user"
                 \/ from = "hash user" /\ key = "user" /\ to = "hash oss"
                 \/ from = "hash oss" /\ key = "oss" /\ to = "transfer"
        BY <3>2 DEF HashFile, HashUser, HashOss, Pcs, Hashes
      <4>2. HashesTo(u, key, to) /\ up[u].pc = from
        BY <4>1, HashStepEffect
      <4>3. up[u].hash[key] = None
        BY <4>1, <4>2 DEF UploadOK, Course
      <4>4. fileRow' = fileRow /\ userRow' = userRow
        BY <4>1 DEF HashStep, dbVars
      <4> QED BY <2>1, <2>3, <4>1, <4>2, <4>3, <4>4 DEF HashesTo, Begun
    <3>3. CASE PutObject(u)
      <4>1. Moves(u, "mysql") /\ up[u].pc = "transfer" /\ fileRow' = fileRow /\ userRow' = userRow
        BY <3>3, GotoEffect DEF PutObject, Pcs, dbVars
      <4> QED BY <2>1, <2>3, <4>1 DEF Moves, Begun
    <3>4. CASE Publish(u)
      <4>1. HashesTo(u, "msg", "mysql") /\ up[u].pc = "transfer"
        BY <3>4, PublishEffect
      <4>2. up[u].hash["msg"] = None
        BY <4>1 DEF UploadOK, Course
      <4>3. fileRow' = fileRow /\ userRow' = userRow
        BY <3>4 DEF Publish, dbVars
      <4> QED BY <2>1, <2>3, <4>1, <4>2, <4>3 DEF HashesTo, Begun
    <3>5. CASE MySQLDone(u)
      <4>1. Moves(u, "302") /\ up[u].pc = "mysql"
        BY <3>5, GotoEffect DEF MySQLDone, Pcs
      <4>2. fileRow[u] = None /\ userRow[u] = None
        BY <4>1 DEF UploadOK, Rows
      <4> QED BY <2>1, <2>3, <4>1, <4>2 DEF Moves, Begun
    <3> QED BY <1>2, <3>1, <3>2, <3>3, <3>4, <3>5
  <2> QED BY <2>2, <2>3
<1>3. ASSUME ProcessEnds, UNCHANGED <<setup, fileVars, oss, mqVars, failed>>
      PROVE  /\ Begun(v) => Begun(v)' /\ Stays(v)
             /\ fileRow[v] # None => fileRow'[v] = fileRow[v]
             /\ userRow[v] # None => userRow'[v] = userRow[v]
             /\ up'[v].hash = up[v].hash
  <2>1. /\ Stays(v) /\ up'[v].hash = up[v].hash
        /\ up'[v].pc = IF up[v].pc \in {"new", "302", "500"} THEN up[v].pc ELSE "lost"
        /\ fileRow'[v] # fileRow[v] \/ userRow'[v] # userRow[v] => up[v].pc = "mysql"
    BY <1>3, EndsEffect DEF Falls
  <2>2. up[v].pc = "mysql" => fileRow[v] = None /\ userRow[v] = None
    BY DEF UploadOK, Rows
  <2> QED BY <2>1, <2>2 DEF Begun
<1>4. CASE UNCHANGED <<setup, fds, fileVars, up, dbVars, oss, failed>>
  BY <1>4 DEF setup, fileVars, dbVars, Begun, Stays
<1> QED BY <1>0, <1>1, <1>2, <1>3, <1>4, StepCases DEF fileVars, Stays

-----------------------------------------------------------------------------
(***************************************************************************)
(* The files.                                                              *)
(***************************************************************************)

\* Only a write begins an upload or touches a file.
LEMMA Quiet ==
  ASSUME TypeOK, \A x \in Upload : UploadOK(x), [Next]_vars,
         ~ \E u \in Upload, n \in Name, d \in Data : Write(u, n, d)
  PROVE  /\ UNCHANGED fileVars
         /\ \A v \in Upload : (Begun(v)' <=> Begun(v)) /\ Stays(v)
<1>1. ASSUME NEW u \in Upload, \/ OpenFails(u) \/ HashFile(u) \/ HashUser(u) \/ HashOss(u)
                               \/ PutObject(u) \/ Publish(u) \/ MySQLDone(u)
      PROVE  /\ UNCHANGED fileVars
             /\ \A v \in Upload : (Begun(v)' <=> Begun(v)) /\ Stays(v)
  <2>1. UNCHANGED fileVars
    BY <1>1 DEF OpenFails, HashFile, HashUser, HashOss, HashStep, PutObject, Publish, MySQLDone
  <2>2. ASSUME NEW v \in Upload \ {u} PROVE (Begun(v)' <=> Begun(v)) /\ Stays(v)
    BY <1>1, Alone DEF Begun, Stays
  <2>3. (Begun(u)' <=> Begun(u)) /\ Stays(u)
    <3>1. CASE OpenFails(u)
      BY <3>1, GotoEffect DEF OpenFails, Pcs, Moves, Begun
    <3>2. CASE HashFile(u) \/ HashUser(u) \/ HashOss(u)
      <4>1. PICK from \in {"hash file", "hash user", "hash oss"}, key \in Hashes, to \in Pcs :
              /\ HashStep(u, from, key, to)
              /\ to \in {"hash user", "hash oss", "transfer"}
        BY <3>2 DEF HashFile, HashUser, HashOss, Pcs, Hashes
      <4>2. HashesTo(u, key, to) /\ up[u].pc = from
        BY <4>1, HashStepEffect
      <4> QED BY <4>1, <4>2 DEF HashesTo, Begun
    <3>3. CASE PutObject(u)
      <4>1. Moves(u, "mysql") /\ up[u].pc = "transfer"
        BY <3>3, GotoEffect DEF PutObject, Pcs
      <4> QED BY <4>1 DEF Moves, Begun
    <3>4. CASE Publish(u)
      BY <3>4, PublishEffect DEF HashesTo, Begun
    <3>5. CASE MySQLDone(u)
      BY <3>5, GotoEffect DEF MySQLDone, Pcs, Moves, Begun
    <3> QED BY <1>1, <3>1, <3>2, <3>3, <3>4, <3>5
  <2> QED BY <2>1, <2>2, <2>3
<1>2. CASE ProcessEnds /\ UNCHANGED <<setup, fileVars, oss, mqVars, failed>>
  <2>1. \A v \in Upload :
          /\ Stays(v)
          /\ up'[v].pc = IF up[v].pc \in {"new", "302", "500"} THEN up[v].pc ELSE "lost"
    BY <1>2, EndsEffect DEF Falls
  <2> QED BY <1>2, <2>1 DEF Begun
<1>3. CASE UNCHANGED <<setup, fds, fileVars, up, dbVars, oss, failed>>
  BY <1>3 DEF Begun, Stays
<1> QED BY <1>1, <1>2, <1>3, StepCases

LEMMA TmpNamedStep ==
  ASSUME TypeOK, \A x \in Upload : UploadOK(x), TmpNamed, [Next]_vars
  PROVE  TmpNamed'
<1>1. ASSUME NEW u \in Upload, NEW n \in Name, NEW d \in Data, Write(u, n, d) PROVE TmpNamed'
  <2>1. up'[u].name = n
    BY <1>1, WriteEffect
  <2>2. \A v \in Upload : up[v].name # None => up'[v].name = up[v].name
    BY Lasting
  <2>3. \A m \in Name \ {n} : tmp'[m] = tmp[m]
    <3>1. \E e : tmp' = [tmp EXCEPT ![n] = e]
      BY <1>1 DEF Write
    <3> QED BY <3>1 DEF TypeOK
  <2>4. None \notin Name
    BY ConstantsAssumption
  <2> QED BY <2>1, <2>2, <2>3, <2>4 DEF TmpNamed
<1>2. CASE ~ \E u \in Upload, n \in Name, d \in Data : Write(u, n, d)
  <2>1. tmp' = tmp /\ \A v \in Upload : up'[v].name = up[v].name
    BY <1>2, Quiet DEF fileVars, Stays
  <2> QED BY <2>1 DEF TmpNamed
<1> QED BY <1>1, <1>2

LEMMA NamesApartStep ==
  ASSUME TypeOK, \A x \in Upload : UploadOK(x), TmpNamed, NamesApart, [Next]_vars
  PROVE  NamesApart'
<1> SUFFICES ASSUME DistinctNames'
             PROVE  /\ disturbed' = {}
                    /\ \A v \in Upload : Begun(v)' =>
                         /\ tmp'[up'[v].name] = wrote'[v]
                         /\ <<v, "disk">> \notin failed' => wrote'[v] = Pure(v)'
  BY DEF NamesApart
<1>0. \A v \in Upload : Course(v) /\ (up[v].name # None => up'[v].name = up[v].name)
  BY Lasting DEF UploadOK
<1>1. DistinctNames
  BY <1>0 DEF DistinctNames
<1>2. /\ disturbed = {}
      /\ \A v \in Upload : Begun(v) =>
           /\ tmp[up[v].name] = wrote[v]
           /\ <<v, "disk">> \notin failed => wrote[v] = Pure(v)
  BY <1>1 DEF NamesApart
<1>3. failed \subseteq failed'
  BY Grows
<1>4. ASSUME NEW u \in Upload, NEW n \in Name, NEW d \in Data, Write(u, n, d)
      PROVE  /\ disturbed' = {}
             /\ \A v \in Upload : Begun(v)' =>
                  /\ tmp'[up'[v].name] = wrote'[v]
                  /\ <<v, "disk">> \notin failed' => wrote'[v] = Pure(v)'
  <2>1. /\ \A v \in Upload \ {u} : up'[v] = up[v]
        /\ up[u].pc = "new" /\ up'[u].name = n /\ up'[u].data = d
    BY <1>4, WriteEffect DEF Others
  <2>2. n # None
    BY ConstantsAssumption
  <2>3. \A v \in Upload : up[v].name # n
    <3>1. \A v \in Upload \ {u} : up[v].name # n
      BY <2>1, <2>2 DEF DistinctNames
    <3>2. up[u].name # n
      BY <1>0, <2>1, <2>2 DEF Course, Begun
    <3> QED BY <3>1, <3>2
  <2>4. tmp[n] = <<>>
    BY <2>3 DEF TmpNamed
  <2>5. PICK len \in WriteLengths(d) :
          /\ tmp' = [tmp EXCEPT ![n] = Overwrite(tmp[n], d, len)]
          /\ failed' = IF len < Size[d] THEN failed \cup {<<u, "disk">>} ELSE failed
    BY <1>4 DEF Write
  <2>6. disturbed' = {}
    <3>1. disturbed' = disturbed \cup {v \in Upload : Working(v) /\ up[v].name = n}
      BY <1>4 DEF Write
    <3> QED BY <1>2, <2>3, <3>1
  <2>7. wrote'[u] = tmp'[n] /\ \A v \in Upload \ {u} : wrote'[v] = wrote[v]
    BY <1>4 DEF Write, TypeOK
  <2>8. ASSUME <<u, "disk">> \notin failed' PROVE tmp'[n] = Pure(u)'
    <3>1. ~ (len < Size[d])
      BY <2>5, <2>8
    <3>2. len = Size[d]
      BY <3>1, ConstantsAssumption DEF WriteLengths
    <3>3. tmp'[n] = Overwrite(<<>>, d, Size[d])
      BY <2>4, <2>5, <3>2 DEF TypeOK
    <3> QED BY <2>1, <3>3, OverwriteEmpty DEF Pure
  <2>9. ASSUME NEW v \in Upload \ {u}, Begun(v)'
        PROVE  /\ tmp'[up'[v].name] = wrote'[v]
               /\ <<v, "disk">> \notin failed' => wrote'[v] = Pure(v)'
    <3>1. Begun(v) /\ Pure(v)' = Pure(v) /\ up'[v].name = up[v].name
      BY <2>1, <2>9 DEF Begun, Pure
    <3>2. up[v].name \in Name \ {n}
      BY <1>0, <2>3, <3>1 DEF Course
    <3>3. tmp'[up[v].name] = tmp[up[v].name]
      BY <2>5, <3>2 DEF TypeOK
    <3> QED BY <1>2, <1>3, <2>7, <3>1, <3>3
  <2> QED BY <2>1, <2>6, <2>7, <2>8, <2>9
<1>5. CASE ~ \E u \in Upload, n \in Name, d \in Data : Write(u, n, d)
  <2>1. /\ tmp' = tmp /\ wrote' = wrote /\ disturbed' = disturbed
        /\ \A v \in Upload : /\ Begun(v)' <=> Begun(v)
                             /\ up'[v].name = up[v].name /\ up'[v].data = up[v].data
    BY <1>5, Quiet DEF fileVars, Stays
  <2>2. \A v \in Upload : Pure(v)' = Pure(v)
    BY <2>1 DEF Pure
  <2> QED BY <1>2, <1>3, <2>1, <2>2
<1> QED BY <1>4, <1>5

\* The object store.
LEMMA OssStep ==
  ASSUME TypeOK, \A x \in Upload : UploadOK(x), OssContentAddressed, [Next]_vars
  PROVE  OssContentAddressed'
<1> SUFFICES ASSUME disturbed' = {} PROVE \A c \in DOMAIN oss' : oss'[c] = c
  BY DEF OssContentAddressed
<1>1. disturbed \subseteq disturbed'
  BY Grows
<1>2. disturbed = {} /\ \A c \in DOMAIN oss : oss[c] = c
  BY <1>1 DEF OssContentAddressed
<1>3. ASSUME NEW u \in Upload, PutObject(u) PROVE \A c \in DOMAIN oss' : oss'[c] = c
  <2>1. up[u].pc = "transfer" /\ UploadOK(u) /\ u \notin disturbed
    BY <1>2, <1>3 DEF PutObject
  <2>2. tmp[up[u].name] = up[u].hash["oss"]
    BY <2>1 DEF UploadOK, Course, OwnFile, Working, Hashes
  <2>3. \/ oss' = oss
        \/ oss' = [c \in DOMAIN oss \cup {up[u].hash["oss"]} |->
                     IF c = up[u].hash["oss"] THEN tmp[up[u].name] ELSE oss[c]]
    BY <1>3 DEF PutObject, Sha1File
  <2> QED BY <1>2, <2>2, <2>3
<1>4. CASE oss' = oss
  BY <1>2, <1>4
<1>5. oss' = oss \/ \E u \in Upload : PutObject(u)
  <2>1. ASSUME NEW u \in Upload, \/ OpenFails(u) \/ HashFile(u) \/ HashUser(u) \/ HashOss(u)
                                 \/ Publish(u) \/ MySQLDone(u)
        PROVE  oss' = oss
    BY <2>1 DEF OpenFails, HashFile, HashUser, HashOss, HashStep, Publish, MySQLDone
  <2>2. ASSUME NEW u \in Upload, NEW n \in Name, NEW d \in Data, Write(u, n, d)
        PROVE  oss' = oss
    BY <2>2 DEF Write
  <2> QED BY <2>1, <2>2, StepCases
<1> QED BY <1>3, <1>4, <1>5

-----------------------------------------------------------------------------
(***************************************************************************)
(* The page.                                                               *)
(***************************************************************************)

\* A row of tbl_user_file has a row of tbl_file with the same hash.
LEMMA ListedHasRow ==
  ASSUME NEW u \in Upload, UploadOK(u), u \notin disturbed, userRow[u] # None
  PROVE  fileRow[u] = userRow[u]
BY DEF UploadOK, Rows, OwnFile, Hashes

LEMMA PageStep ==
  ASSUME TypeOK, \A x \in Upload : UploadOK(x), PageOK, [Next]_vars
  PROVE  PageOK'
<1>0. page \in Pages
  BY DEF TypeOK
<1>1. ASSUME NEW v \in Upload
      PROVE  /\ fileRow[v] # None => fileRow'[v] = fileRow[v]
             /\ userRow[v] # None => userRow'[v] = userRow[v]
             /\ fileRow[v] # None => up'[v].name = up[v].name
  <2>1. fileRow[v] # None => Begun(v)
    BY DEF UploadOK, Rows, Begun
  <2> QED BY <2>1, Lasting DEF Stays
<1>2. disturbed # {} => disturbed' # {}
  BY Grows
<1>3. CASE Query
  <2>1. /\ page'.pc = "listed" /\ userRow' = userRow
        /\ \E u \in Upload : userRow[u] # None /\ page'.sha = userRow[u]
    BY <1>0, <1>3 DEF Query, Pages, dbVars
  <2> QED BY <2>1 DEF PageOK
<1>4. CASE DownloadUrl
  <2>1. /\ page.pc = "listed" /\ page'.pc = "answered" /\ page'.sha = page.sha
        /\ page'.name \in FileNames(page.sha)
        /\ fileRow' = fileRow /\ up' = up
    BY <1>0, <1>4 DEF DownloadUrl, Pages, dbVars
  <2>2. page.sha # None
    BY <2>1 DEF PageOK
  <2> QED BY <2>1, <2>2 DEF PageOK, FileNames
<1>5. CASE DownloadCrashes
  <2>1. /\ page.pc = "listed" /\ disturbed' = disturbed
        /\ page'.pc = IF FileNames(page.sha) = {} THEN "no row" ELSE "failed"
    BY <1>0, <1>5 DEF DownloadCrashes, Pages, fileVars
  <2>2. ASSUME disturbed = {} PROVE FileNames(page.sha) # {}
    <3>1. PICK u \in Upload : userRow[u] = page.sha /\ page.sha # None
      BY <2>1 DEF PageOK
    <3>2. fileRow[u] = page.sha
      BY <2>2, <3>1, ListedHasRow
    <3> QED BY <3>2 DEF FileNames
  <2> QED BY <2>1, <2>2 DEF PageOK
<1>6. CASE page' = page
  <2>1. page.pc = "listed" => page'.sha # None /\ \E u \in Upload : userRow'[u] = page'.sha
    BY <1>1, <1>6 DEF PageOK
  <2>2. page.pc = "no row" => disturbed' # {}
    BY <1>2 DEF PageOK
  <2>3. page.pc = "answered" =>
          \E u \in Upload : /\ fileRow'[u] # None /\ fileRow'[u] = page'.sha
                            /\ up'[u].name = page'.name
    BY <1>1, <1>6 DEF PageOK
  <2> QED BY <1>6, <2>1, <2>2, <2>3 DEF PageOK
<1>7. page' = page \/ Query \/ DownloadUrl \/ DownloadCrashes
  <2>1. ASSUME NEW u \in Upload, Handler(u) \/ PublishThrows(u) \/ OpenFails(u) PROVE page' = page
    BY <2>1 DEF Handler, HashFile, HashUser, HashOss, HashStep, PutObject, Publish, Sha1Starves,
       MySQLDone, PublishThrows, OpenFails
  <2>2. ASSUME NEW u \in Upload, NEW n \in Name, NEW d \in Data, Write(u, n, d)
        PROVE  page' = page
    BY <2>2 DEF Write
  <2>3. CASE Consumer
    BY <2>3 DEF Consumer, ConsumerStart, Deliver, ConsumerTimeout, ConsumerPrint, ConsumerExit
  <2> QED BY <2>1, <2>2, <2>3 DEF Next, vars
<1> QED BY <1>3, <1>4, <1>5, <1>6, <1>7

-----------------------------------------------------------------------------
(***************************************************************************)
(* The messages.                                                           *)
(***************************************************************************)
LEMMA AppendOnce ==
  ASSUME NEW s \in Seq(Message), NEW t \in Seq(Message), NEW m \in Message, Once(s),
         \A i \in 1 .. Len(s) : s[i].upload # m.upload,
         Apart(s, t), \A j \in 1 .. Len(t) : t[j].upload # m.upload
  PROVE  Once(Append(s, m)) /\ Apart(Append(s, m), t) /\ Apart(t, Append(s, m))
<1>1. /\ Len(Append(s, m)) = Len(s) + 1 /\ Len(s) \in Nat
      /\ \A i \in 1 .. Len(s) : Append(s, m)[i] = s[i]
      /\ Append(s, m)[Len(s) + 1] = m
  OBVIOUS
<1>2. \A i \in 1 .. Len(s) + 1 : i \in 1 .. Len(s) \/ i = Len(s) + 1
  BY <1>1
<1> QED BY <1>1, <1>2 DEF Once, Apart

LEMMA TailOnce ==
  ASSUME NEW s \in Seq(Message), NEW t \in Seq(Message), s # <<>>, Once(s), Apart(t, s)
  PROVE  /\ Head(s) \in Message /\ Tail(s) \in Seq(Message)
         /\ Once(Tail(s)) /\ Apart(t, Tail(s))
         /\ \A i \in 1 .. Len(Tail(s)) : Tail(s)[i].upload # Head(s).upload
         /\ \A j \in 1 .. Len(t) : t[j].upload # Head(s).upload
<1>1. /\ Len(s) \in Nat \ {0} /\ Len(Tail(s)) = Len(s) - 1 /\ Head(s) = s[1]
      /\ \A i \in 1 .. Len(Tail(s)) : Tail(s)[i] = s[i + 1]
      /\ Head(s) \in Message /\ Tail(s) \in Seq(Message)
  OBVIOUS
<1>2. \A i \in 1 .. Len(Tail(s)) : i + 1 \in 1 .. Len(s) /\ i + 1 # 1
  BY <1>1
<1>3. 1 \in 1 .. Len(s)
  BY <1>1
<1> QED BY <1>1, <1>2, <1>3 DEF Once, Apart

LEMMA QueueStep ==
  ASSUME TypeOK, \A x \in Upload : UploadOK(x), QueueOK, [Next]_vars
  PROVE  QueueOK'
<1>0. /\ mq \in Seq(Message) /\ taken \in Seq(Message)
      /\ consumer \in Consumers /\ consumer.got \in Seq(Message)
  BY DEF TypeOK, Consumers
<1>1. ASSUME NEW s \in Seq(Message), Published(s) PROVE Published(s)'
  <2>1. ASSUME NEW i \in 1 .. Len(s) PROVE up'[s[i].upload].hash["msg"] = s[i].filehash
    <3>0. s[i] \in Message
      OBVIOUS
    <3>1. s[i].upload \in Upload /\ s[i].filehash \in Content
      BY <3>0 DEF Message
    <3>2. up[s[i].upload].hash["msg"] = s[i].filehash
      BY <1>1 DEF Published
    <3>3. s[i].filehash # None
      BY <3>1, ConstantsAssumption DEF Content
    <3> QED BY <3>1, <3>2, <3>3, Lasting DEF Hashes
  <2> QED BY <2>1 DEF Published
<1>2. Once(<<>>) /\ \A s : Apart(s, <<>>) /\ Apart(<<>>, s)
  BY DEF Once, Apart
<1>3. Published(<<>>)'
  BY DEF Published
<1>4. CASE ConsumerStart \/ ConsumerExit
  <2>1. consumer'.got = <<>> /\ mq' = mq /\ taken' = taken
    BY <1>4 DEF ConsumerStart, ConsumerExit
  <2> QED BY <1>0, <1>1, <1>2, <1>3, <2>1 DEF QueueOK
<1>5. CASE Deliver
  <2>1. /\ mq # <<>> /\ mq' = Tail(mq) /\ taken' = taken
        /\ consumer'.got = Append(consumer.got, Head(mq))
    BY <1>0, <1>5 DEF Deliver, Consumers
  <2>2. /\ Head(mq) \in Message /\ Tail(mq) \in Seq(Message) /\ Once(Tail(mq))
        /\ Apart(consumer.got, Tail(mq)) /\ Apart(taken, Tail(mq))
        /\ \A i \in 1 .. Len(Tail(mq)) : Tail(mq)[i].upload # Head(mq).upload
        /\ \A i \in 1 .. Len(consumer.got) : consumer.got[i].upload # Head(mq).upload
        /\ \A i \in 1 .. Len(taken) : taken[i].upload # Head(mq).upload
    BY <1>0, <2>1, TailOnce DEF QueueOK
  <2>3. Apart(consumer.got, taken)
    BY DEF QueueOK, Apart
  <2>4. /\ Once(Append(consumer.got, Head(mq)))
        /\ Apart(Append(consumer.got, Head(mq)), Tail(mq))
        /\ Apart(taken, Append(consumer.got, Head(mq)))
    BY <1>0, <2>2, <2>3, AppendOnce DEF QueueOK
  <2>5. /\ Published(Tail(mq)) /\ Published(Append(consumer.got, Head(mq)))
    <3>1. /\ Len(mq) \in Nat \ {0} /\ Len(Tail(mq)) = Len(mq) - 1 /\ Head(mq) = mq[1]
          /\ \A i \in 1 .. Len(Tail(mq)) : Tail(mq)[i] = mq[i + 1]
      BY <1>0, <2>1
    <3>2. Published(Tail(mq)) /\ up[Head(mq).upload].hash["msg"] = Head(mq).filehash
      BY <3>1 DEF QueueOK, Published
    <3>3. \A i \in 1 .. Len(Append(consumer.got, Head(mq))) :
            \/ Append(consumer.got, Head(mq))[i] = Head(mq)
            \/ i \in 1 .. Len(consumer.got)
                 /\ Append(consumer.got, Head(mq))[i] = consumer.got[i]
      BY <1>0, <2>2
    <3>4. Published(Append(consumer.got, Head(mq)))
      BY <3>2, <3>3 DEF QueueOK, Published
    <3> QED BY <3>2, <3>4
  <2>6. Append(consumer.got, Head(mq)) \in Seq(Message)
    BY <1>0, <2>2
  <2> QED BY <1>0, <1>1, <2>1, <2>2, <2>4, <2>5, <2>6 DEF QueueOK
<1>6. CASE ConsumerTimeout
  <2>1. consumer'.got = consumer.got /\ mq' = mq /\ taken' = taken
    BY <1>0, <1>6 DEF ConsumerTimeout, Consumers
  <2> QED BY <1>0, <1>1, <2>1 DEF QueueOK
<1>7. CASE ConsumerPrint
  <2> DEFINE m == Head(consumer.got)
  <2>1. /\ consumer.got # <<>> /\ consumer'.got = <<>> /\ mq' = mq
        /\ taken' = Append(taken, m)
    BY <1>7 DEF ConsumerPrint
  <2>2. /\ m \in Message /\ m = consumer.got[1] /\ 1 \in 1 .. Len(consumer.got)
    BY <1>0, <2>1
  <2> HIDE DEF m
  <2>3. /\ \A i \in 1 .. Len(taken) : taken[i].upload # m.upload
        /\ \A i \in 1 .. Len(mq) : mq[i].upload # m.upload
        /\ up[m.upload].hash["msg"] = m.filehash
    BY <2>2 DEF QueueOK, Apart, Published
  <2>4. Once(Append(taken, m)) /\ Apart(Append(taken, m), mq)
    BY <1>0, <2>2, <2>3, AppendOnce DEF QueueOK
  <2>5. Append(taken, m) \in Seq(Message) /\ Published(Append(taken, m))
    <3>1. \A i \in 1 .. Len(Append(taken, m)) :
            \/ Append(taken, m)[i] = m
            \/ i \in 1 .. Len(taken) /\ Append(taken, m)[i] = taken[i]
      BY <1>0, <2>2
    <3>2. Published(Append(taken, m))
      BY <2>3, <3>1 DEF QueueOK, Published
    <3> QED BY <1>0, <2>2, <3>2
  <2> QED BY <1>0, <1>1, <1>2, <1>3, <2>1, <2>4, <2>5 DEF QueueOK
<1>8. ASSUME NEW u \in Upload, Publish(u) PROVE QueueOK'
  <2>1. PICK m \in Message : /\ m.upload = u /\ m.filehash = tmp[up[u].name]
                             /\ mq' = Append(mq, m)
    BY <1>8, PublishEffect
  <2>2. /\ HashesTo(u, "msg", "mysql") /\ up[u].pc = "transfer"
        /\ consumer' = consumer /\ taken' = taken
    BY <1>8, PublishEffect DEF Publish
  <2>3. up[u].hash["msg"] = None
    BY <2>2 DEF UploadOK, Course
  <2>4. ASSUME NEW s \in Seq(Message), Published(s), NEW i \in 1 .. Len(s)
        PROVE  s[i].upload # m.upload
    <3>1. s[i] \in Message
      OBVIOUS
    <3>2. s[i].filehash # None
      BY <3>1, ConstantsAssumption DEF Message, Content
    <3>3. up[s[i].upload].hash["msg"] = s[i].filehash
      BY <2>4 DEF Published
    <3> QED BY <2>1, <2>3, <3>2, <3>3
  <2>5. Apart(mq, taken) /\ Apart(mq, consumer.got)
    BY DEF QueueOK, Apart
  <2>6. /\ \A i \in 1 .. Len(mq) : mq[i].upload # m.upload
        /\ \A i \in 1 .. Len(taken) : taken[i].upload # m.upload
        /\ \A i \in 1 .. Len(consumer.got) : consumer.got[i].upload # m.upload
    BY <1>0, <2>4 DEF QueueOK
  <2>7. /\ Once(Append(mq, m)) /\ Apart(taken, Append(mq, m))
        /\ Apart(consumer.got, Append(mq, m))
    BY <1>0, <2>5, <2>6, AppendOnce DEF QueueOK
  <2>8. Published(mq)'
    <3>1. up'[m.upload].hash["msg"] = m.filehash
      BY <2>1, <2>2 DEF HashesTo
    <3>2. Published(mq) /\ mq \in Seq(Message)
      BY <1>0 DEF QueueOK
    <3>3. \A i \in 1 .. Len(mq) : up'[mq[i].upload].hash["msg"] = mq[i].filehash
      BY <1>1, <3>2 DEF Published
    <3>4. \A i \in 1 .. Len(Append(mq, m)) :
            \/ Append(mq, m)[i] = m
            \/ i \in 1 .. Len(mq) /\ Append(mq, m)[i] = mq[i]
      BY <1>0
    <3>5. \A i \in 1 .. Len(mq') : up'[mq'[i].upload].hash["msg"] = mq'[i].filehash
      BY <2>1, <3>1, <3>3, <3>4
    <3> QED BY <3>5 DEF Published
  <2> QED BY <1>0, <1>1, <2>1, <2>2, <2>7, <2>8 DEF QueueOK
<1>9. CASE mq' = mq /\ taken' = taken /\ consumer' = consumer
  BY <1>0, <1>1, <1>9 DEF QueueOK
<1>10. ASSUME ~ Consumer, ~ \E u \in Upload : Publish(u)
       PROVE  mq' = mq /\ taken' = taken /\ consumer' = consumer
  <2> USE DEF mqVars
  <2>1. ASSUME NEW u \in Upload, \/ Handler(u) /\ ~ Publish(u)
                                 \/ PublishThrows(u) \/ OpenFails(u)
        PROVE  mq' = mq /\ taken' = taken /\ consumer' = consumer
    BY <2>1 DEF Handler, HashFile, HashUser, HashOss, HashStep, PutObject, Sha1Starves,
       MySQLDone, PublishThrows, OpenFails
  <2>2. ASSUME NEW u \in Upload, NEW n \in Name, NEW d \in Data, Write(u, n, d)
        PROVE  mq' = mq /\ taken' = taken /\ consumer' = consumer
    BY <2>2 DEF Write
  <2>3. CASE Query \/ DownloadUrl \/ DownloadCrashes \/ UNCHANGED vars
    BY <2>3 DEF Query, DownloadUrl, DownloadCrashes, vars
  <2> QED BY <1>10, <2>1, <2>2, <2>3 DEF Next
<1> QED BY <1>4, <1>5, <1>6, <1>7, <1>8, <1>9, <1>10 DEF Consumer

-----------------------------------------------------------------------------
(***************************************************************************)
(* The descriptors.                                                        *)
(***************************************************************************)
LEMMA HashedFinite ==
  ASSUME NEW key PROVE IsFiniteSet(Hashed(key)) /\ Cardinality(Hashed(key)) \in Nat
<1>1. IsFiniteSet(Upload) /\ Hashed(key) \in SUBSET Upload
  BY ConstantsAssumption DEF Hashed
<1> QED BY <1>1, FS_Subset, FS_CardinalityType

\* A hash that is taken opens one descriptor for good.
LEMMA OneMore ==
  ASSUME TypeOK, FdsOK, NEW u \in Upload, NEW key \in Hashes, NEW to, HashesTo(u, key, to),
         up[u].hash[key] = None, tmp[up[u].name] # None, fds' = fds + 1
  PROVE  FdsOK'
<1>1. \A k \in Hashes \ {key} : Hashed(k)' = Hashed(k)
  <2>1. \A k \in Hashes \ {key} : up'[u].hash[k] = up[u].hash[k]
    BY DEF HashesTo
  <2>2. \A v \in Upload \ {u} : up'[v] = up[v]
    BY DEF HashesTo, Others
  <2> QED BY <2>1, <2>2 DEF Hashed
<1>2. Hashed(key)' = Hashed(key) \cup {u} /\ u \notin Hashed(key)
  <2>1. up'[u].hash[key] # None
    BY DEF HashesTo
  <2>2. \A v \in Upload \ {u} : up'[v] = up[v]
    BY DEF HashesTo, Others
  <2> QED BY <2>1, <2>2 DEF Hashed
<1>3. Cardinality(Hashed(key)') = Cardinality(Hashed(key)) + 1
  BY <1>2, HashedFinite, FS_AddElement
<1>4. \A k \in Hashes : Cardinality(Hashed(k)) \in Nat
  BY HashedFinite
<1>5. fds \in Nat
  BY DEF TypeOK
<1>6. /\ Cardinality(Hashed("file")) \in Nat /\ Cardinality(Hashed("user")) \in Nat
      /\ Cardinality(Hashed("oss")) \in Nat /\ Cardinality(Hashed("msg")) \in Nat
  BY <1>4 DEF Hashes
<1>7. CASE key = "file"
  BY <1>1, <1>3, <1>5, <1>6, <1>7 DEF FdsOK, Hashes
<1>8. CASE key = "user"
  BY <1>1, <1>3, <1>5, <1>6, <1>8 DEF FdsOK, Hashes
<1>9. CASE key = "oss"
  BY <1>1, <1>3, <1>5, <1>6, <1>9 DEF FdsOK, Hashes
<1>10. CASE key = "msg"
  BY <1>1, <1>3, <1>5, <1>6, <1>10 DEF FdsOK, Hashes
<1> QED BY <1>7, <1>8, <1>9, <1>10 DEF Hashes

LEMMA FdsStep ==
  ASSUME TypeOK, \A x \in Upload : UploadOK(x), FdsOK, [Next]_vars
  PROVE  FdsOK'
<1>1. ASSUME \A v \in Upload : up'[v].hash = up[v].hash, fds' = fds \/ fds' = 0 PROVE FdsOK'
  <2>1. \A k \in Hashes : Hashed(k)' = Hashed(k)
    BY <1>1 DEF Hashed
  <2>2. /\ Cardinality(Hashed("file")) \in Nat /\ Cardinality(Hashed("user")) \in Nat
        /\ Cardinality(Hashed("oss")) \in Nat /\ Cardinality(Hashed("msg")) \in Nat
    BY HashedFinite
  <2> QED BY <1>1, <2>1, <2>2 DEF FdsOK, Hashes
<1>2. ASSUME NEW u \in Upload, NEW n \in Name, NEW d \in Data, Write(u, n, d) PROVE FdsOK'
  <2>1. \A v \in Upload : up'[v].hash = up[v].hash
    BY <1>2, WriteEffect DEF Others
  <2> QED BY <1>1, <1>2, <2>1 DEF Write
<1>3. ASSUME NEW u \in Upload, OpenFails(u) \/ PutObject(u) \/ MySQLDone(u) PROVE FdsOK'
  <2>1. \E pc \in Pcs : Moves(u, pc)
    BY <1>3, GotoEffect DEF OpenFails, PutObject, MySQLDone, Pcs
  <2>2. \A v \in Upload : up'[v].hash = up[v].hash
    BY <2>1 DEF Moves, Others
  <2> QED BY <1>1, <1>3, <2>2 DEF OpenFails, PutObject, MySQLDone
<1>4. ASSUME NEW u \in Upload, HashFile(u) \/ HashUser(u) \/ HashOss(u) PROVE FdsOK'
  <2>1. PICK from \in {"hash file", "hash user", "hash oss"}, key \in Hashes, to \in Pcs :
          /\ HashStep(u, from, key, to)
          /\ \/ from = "hash file" /\ key = "file" /\ to = "hash user"
             \/ from = "hash user" /\ key = "user" /\ to = "hash oss"
             \/ from = "hash oss" /\ key = "oss" /\ to = "transfer"
    BY <1>4 DEF HashFile, HashUser, HashOss, Pcs, Hashes
  <2>2. HashesTo(u, key, to) /\ up[u].pc = from /\ fds' = fds + 1
    BY <2>1, HashStepEffect
  <2>3. up[u].hash[key] = None /\ up[u].name \in Name
    BY <2>1, <2>2 DEF UploadOK, Course, Begun
  <2> QED BY <2>2, <2>3, HashSome, OneMore
<1>5. ASSUME NEW u \in Upload, Publish(u) PROVE FdsOK'
  <2>1. HashesTo(u, "msg", "mysql") /\ up[u].pc = "transfer" /\ fds' = fds + 1
    BY <1>5, PublishEffect
  <2>2. up[u].hash["msg"] = None /\ up[u].name \in Name
    BY <2>1 DEF UploadOK, Course, Begun
  <2>3. "msg" \in Hashes
    BY DEF Hashes
  <2> QED BY <2>1, <2>2, <2>3, HashSome, OneMore
<1>6. CASE ProcessEnds
  BY <1>1, <1>6, EndsEffect DEF Falls
<1>7. CASE UNCHANGED <<fds, up>>
  BY <1>1, <1>7
<1> QED BY <1>2, <1>3, <1>4, <1>5, <1>6, <1>7, StepCases

-----------------------------------------------------------------------------
(***************************************************************************)
(* The theorems.                                                           *)
(***************************************************************************)
LEMMA InitOK == Init => IInv
<1> SUFFICES ASSUME Init PROVE IInv
  OBVIOUS
<1>1. TypeOK
  <2>1. Fresh \in Uploads
    BY DEF Fresh, Uploads, Pcs, Opt, Hashes
  <2>2. up \in [Upload -> Uploads]
    BY <2>1 DEF Init
  <2>3. <<>> \in Content /\ <<>> \in Seq(Message) /\ None \in Opt(Content)
    BY DEF Content, Opt
  <2>4. tmp \in [Name -> Content] /\ mq \in Seq(Message) /\ taken \in Seq(Message)
    BY <2>3 DEF Init
  <2>5. /\ fileRow \in [Upload -> Opt(Content)] /\ userRow \in [Upload -> Opt(Content)]
        /\ wrote \in [Upload -> Opt(Content)]
    BY <2>3 DEF Init
  <2>6. consumer \in Consumers
    <3>1. \A s \in Seq(Message) : [pc |-> "off", got |-> s] \in Consumers
      BY DEF Consumers
    <3> QED BY <2>3, <3>1 DEF Init
  <2>7. page \in Pages
    BY DEF Init, Blank, Pages, Opt
  <2>8. maxFds \in Nat /\ fds \in 0 .. maxFds /\ async \in BOOLEAN
    BY ConstantsAssumption DEF Init
  <2>9. /\ DOMAIN oss = {} /\ disturbed \subseteq Upload /\ failed \subseteq Failures
    BY DEF Init
  <2> QED BY <2>2, <2>4, <2>5, <2>6, <2>7, <2>8, <2>9 DEF TypeOK
<1>2. ASSUME NEW u \in Upload
      PROVE  /\ up[u].pc = "new" /\ up[u].name = None
             /\ \A k \in Hashes : up[u].hash[k] = None
             /\ fileRow[u] = None /\ userRow[u] = None
  BY DEF Init, Fresh
<1>3. ASSUME NEW u \in Upload PROVE UploadOK(u)
  BY <1>2 DEF UploadOK, Course, Rows, OwnFile, Begun, Working, Hashes
<1>4. TmpNamed
  BY DEF Init, TmpNamed
<1>5. NamesApart
  BY <1>2 DEF Init, NamesApart, Begun
<1>6. OssContentAddressed
  BY DEF Init, OssContentAddressed
<1>7. PageOK
  BY DEF Init, PageOK, Blank
<1>8. QueueOK
  BY DEF Init, QueueOK, Once, Apart, Published
<1>9. FdsOK
  <2>1. fds = 0
    BY DEF Init
  <2>2. /\ Cardinality(Hashed("file")) \in Nat /\ Cardinality(Hashed("user")) \in Nat
        /\ Cardinality(Hashed("oss")) \in Nat /\ Cardinality(Hashed("msg")) \in Nat
    BY HashedFinite
  <2> QED BY <2>1, <2>2 DEF FdsOK
<1> QED BY <1>1, <1>3, <1>4, <1>5, <1>6, <1>7, <1>8, <1>9 DEF IInv

\* The inductive invariant holds: what the uploads, the files, the tables, the
\* object store, the queue and the page say of each other survives every step of
\* every handler, of the consumer and of the page.
THEOREM Invariance == Spec => []IInv
<1>1. IInv /\ [Next]_vars => IInv'
  <2> SUFFICES ASSUME IInv, [Next]_vars PROVE IInv'
    OBVIOUS
  <2>1. /\ TypeOK /\ \A u \in Upload : UploadOK(u)
        /\ TmpNamed /\ NamesApart /\ OssContentAddressed /\ PageOK /\ QueueOK /\ FdsOK
    BY DEF IInv
  <2>2. TypeOK' /\ \A u \in Upload : UploadOK(u)'
    BY <2>1, TypeStep, UploadStep
  <2>3. TmpNamed' /\ NamesApart' /\ OssContentAddressed'
    BY <2>1, TmpNamedStep, NamesApartStep, OssStep
  <2>4. PageOK' /\ QueueOK' /\ FdsOK'
    BY <2>1, PageStep, QueueStep, FdsStep
  <2> QED BY <2>2, <2>3, <2>4 DEF IInv
<1> QED BY <1>1, InitOK, PTL DEF Spec

\* Every variable holds what the code can store in it; in particular no process
\* has more than maxFds descriptors open.
THEOREM AlwaysTypeOK == Spec => []TypeOK
<1>1. IInv => TypeOK
  BY DEF IInv
<1> QED BY <1>1, Invariance, PTL

\* The hashes of an upload that nobody disturbed are all the hash of the file as
\* this upload left it, although sha1File reads the file anew for each of them.
THEOREM AlwaysAgree == Spec => []AgreeUnlessDisturbed
<1>1. IInv => AgreeUnlessDisturbed
  BY DEF IInv, UploadOK, OwnFile, AgreeUnlessDisturbed
<1> QED BY <1>1, Invariance, PTL

\* A client that is redirected finds its file in both tables and in the object
\* store or the queue, under the hash of what it wrote.
THEOREM AlwaysRedirectMeansListed == Spec => []RedirectMeansListed
<1>1. IInv => RedirectMeansListed
  <2> SUFFICES ASSUME IInv, NEW u \in Upload, up[u].pc = "302", <<u, "mysql">> \notin failed
               PROVE  /\ fileRow[u] # None
                      /\ userRow[u] # None
                      /\ u \notin disturbed =>
                           /\ fileRow[u] = wrote[u]
                           /\ userRow[u] = wrote[u]
                           /\ IF async THEN up[u].hash["msg"] = wrote[u]
                              ELSE <<u, "oss">> \notin failed => wrote[u] \in DOMAIN oss
    BY DEF RedirectMeansListed
  <2>1. Course(u) /\ Rows(u) /\ OwnFile(u)
    BY DEF IInv, UploadOK
  <2>2. fileRow[u] # None /\ userRow[u] # None
    BY <2>1 DEF Rows
  <2>3. ASSUME u \notin disturbed
        PROVE  \A k \in Hashes : up[u].hash[k] # None => up[u].hash[k] = wrote[u]
    BY <2>1, <2>3 DEF OwnFile
  <2> QED BY <2>1, <2>2, <2>3 DEF Course, Rows, Hashes
<1> QED BY <1>1, Invariance, PTL

\* Uploads under different names do not see each other: every row, message and
\* object path is the hash of the bytes that the client sent.
THEOREM AlwaysUploadIsolated == Spec => []UploadIsolated
<1>1. IInv => UploadIsolated
  <2> SUFFICES ASSUME IInv, DistinctNames, NEW u \in Upload, <<u, "disk">> \notin failed
               PROVE  /\ \A k \in Hashes : up[u].hash[k] # None => up[u].hash[k] = Pure(u)
                      /\ fileRow[u] # None => fileRow[u] = Pure(u)
                      /\ userRow[u] # None => userRow[u] = Pure(u)
    BY DEF UploadIsolated
  <2>1. disturbed = {} /\ (Begun(u) => wrote[u] = Pure(u))
    BY DEF IInv, NamesApart
  <2>2. Course(u) /\ Rows(u) /\ OwnFile(u)
    BY DEF IInv, UploadOK
  <2>3. ASSUME NEW k \in Hashes, up[u].hash[k] # None PROVE up[u].hash[k] = Pure(u)
    <3>1. Begun(u)
      BY <2>2, <2>3 DEF Course, Begun, Hashes
    <3> QED BY <2>1, <2>2, <2>3, <3>1 DEF OwnFile
  <2>4. "file" \in Hashes /\ "user" \in Hashes
    BY DEF Hashes
  <2> QED BY <2>2, <2>3, <2>4 DEF Rows
<1> QED BY <1>1, Invariance, PTL

\* While no upload was disturbed the object disk/<sha1> has that hash.
THEOREM AlwaysOssContentAddressed == Spec => []OssContentAddressed
<1>1. IInv => OssContentAddressed
  BY DEF IInv
<1> QED BY <1>1, Invariance, PTL

\* The lookup of a file that was listed finds a row, and the name answered is
\* that of a file with this content.
THEOREM AlwaysListedIsFound == Spec => []ListedIsFound
<1>1. IInv => ListedIsFound
  <2> SUFFICES ASSUME IInv PROVE ListedIsFound
    OBVIOUS
  <2>1. page.pc = "no row" => disturbed # {}
    BY DEF IInv, PageOK
  <2>2. ASSUME DistinctNames, page.pc = "answered" PROVE tmp[page.name] = page.sha
    <3>1. PICK u \in Upload : /\ fileRow[u] # None /\ fileRow[u] = page.sha
                              /\ up[u].name = page.name
      BY <2>2 DEF IInv, PageOK
    <3>2. Rows(u) /\ OwnFile(u)
      BY DEF IInv, UploadOK
    <3>3. Begun(u)
      BY <3>1, <3>2 DEF Rows, Begun
    <3>4. u \notin disturbed /\ tmp[up[u].name] = wrote[u]
      BY <2>2, <3>3 DEF IInv, NamesApart
    <3> QED BY <3>1, <3>2, <3>4 DEF Rows, OwnFile, Hashes
  <2> QED BY <2>1, <2>2 DEF ListedIsFound
<1> QED BY <1>1, Invariance, PTL

\* A process keeps at most four descriptors per upload it began, three without
\* the message queue.
THEOREM AlwaysFourPerUpload == Spec => []FourPerUpload
<1>1. IInv => FourPerUpload
  <2> SUFFICES ASSUME IInv PROVE FourPerUpload
    OBVIOUS
  <2> DEFINE begun == {u \in Upload : up[u].pc \notin {"new", "500"}}
  <2>1. \A u \in Upload : Course(u)
    BY DEF IInv, UploadOK
  <2>2. IsFiniteSet(begun) /\ Cardinality(begun) \in Nat
    <3>1. IsFiniteSet(Upload) /\ begun \in SUBSET Upload
      BY ConstantsAssumption
    <3> QED BY <3>1, FS_Subset, FS_CardinalityType
  <2>3. /\ Hashed("file") \in SUBSET begun /\ Hashed("user") \in SUBSET begun
        /\ Hashed("oss") \in SUBSET begun /\ Hashed("msg") \in SUBSET begun
    BY <2>1 DEF Hashed, Course
  <2>4. ~ async => Hashed("msg") = {}
    BY <2>1 DEF Hashed, Course
  <2> HIDE DEF begun
  <2>5. /\ Cardinality(Hashed("file")) <= Cardinality(begun)
        /\ Cardinality(Hashed("user")) <= Cardinality(begun)
        /\ Cardinality(Hashed("oss")) <= Cardinality(begun)
        /\ Cardinality(Hashed("msg")) <= Cardinality(begun)
    BY <2>2, <2>3, FS_Subset
  <2>6. ~ async => Cardinality(Hashed("msg")) = 0
    BY <2>4, FS_EmptySet
  <2>7. /\ Cardinality(Hashed("file")) \in Nat /\ Cardinality(Hashed("user")) \in Nat
        /\ Cardinality(Hashed("oss")) \in Nat /\ Cardinality(Hashed("msg")) \in Nat
    BY HashedFinite
  <2>8. fds \in Nat /\ fds <= Cardinality(Hashed("file")) + Cardinality(Hashed("user"))
                              + Cardinality(Hashed("oss")) + Cardinality(Hashed("msg"))
    BY DEF IInv, FdsOK, TypeOK
  <2>9. fds <= (IF async THEN 4 ELSE 3) * Cardinality(begun)
    <3>1. fds <= 4 * Cardinality(begun)
      BY <2>2, <2>5, <2>7, <2>8
    <3>2. ~ async => fds <= 3 * Cardinality(begun)
      BY <2>2, <2>5, <2>6, <2>7, <2>8
    <3> QED BY <3>1, <3>2
  <2> USE DEF begun
  <2> QED BY <2>9 DEF FourPerUpload
<1> QED BY <1>1, Invariance, PTL

LEMMA ConcatOnce ==
  ASSUME NEW a \in Seq(Message), NEW b \in Seq(Message), Once(a), Once(b), Apart(a, b),
         Published(a), Published(b)
  PROVE  /\ a \o b \in Seq(Message) /\ Once(a \o b) /\ Published(a \o b)
         /\ \A c \in Seq(Message) : Apart(a, c) /\ Apart(b, c) => Apart(a \o b, c)
<1>1. /\ a \o b \in Seq(Message) /\ Len(a) \in Nat /\ Len(b) \in Nat
      /\ Len(a \o b) = Len(a) + Len(b)
      /\ \A i \in 1 .. Len(a) + Len(b) :
           (a \o b)[i] = IF i <= Len(a) THEN a[i] ELSE b[i - Len(a)]
  OBVIOUS
<1>2. \A i \in 1 .. Len(a) + Len(b) :
        i \in 1 .. Len(a) \/ (~ (i <= Len(a)) /\ i - Len(a) \in 1 .. Len(b))
  BY <1>1
<1>3. ASSUME NEW i \in 1 .. Len(a \o b), NEW j \in 1 .. Len(a \o b), i # j
      PROVE  (a \o b)[i].upload # (a \o b)[j].upload
  <2>1. CASE i <= Len(a) /\ j <= Len(a)
    BY <1>1, <1>2, <1>3, <2>1 DEF Once
  <2>2. CASE ~ (i <= Len(a)) /\ ~ (j <= Len(a))
    <3>1. i - Len(a) \in 1 .. Len(b) /\ j - Len(a) \in 1 .. Len(b) /\ i - Len(a) # j - Len(a)
      BY <1>1, <1>3, <2>2
    <3> QED BY <1>1, <1>3, <2>2, <3>1 DEF Once
  <2>3. CASE i <= Len(a) /\ ~ (j <= Len(a))
    BY <1>1, <1>2, <2>3 DEF Apart
  <2>4. CASE ~ (i <= Len(a)) /\ j <= Len(a)
    BY <1>1, <1>2, <2>4 DEF Apart
  <2> QED BY <2>1, <2>2, <2>3, <2>4
<1>4. Published(a \o b)
  <2>1. ASSUME NEW i \in 1 .. Len(a \o b)
        PROVE  up[(a \o b)[i].upload].hash["msg"] = (a \o b)[i].filehash
    <3>1. CASE i <= Len(a)
      <4>1. i \in 1 .. Len(a) /\ (a \o b)[i] = a[i]
        BY <1>1, <1>2, <3>1
      <4> QED BY <4>1 DEF Published
    <3>2. CASE ~ (i <= Len(a))
      <4>1. i - Len(a) \in 1 .. Len(b) /\ (a \o b)[i] = b[i - Len(a)]
        BY <1>1, <1>2, <3>2
      <4> QED BY <4>1 DEF Published
    <3> QED BY <3>1, <3>2
  <2> QED BY <2>1 DEF Published
<1>5. ASSUME NEW c \in Seq(Message), Apart(a, c), Apart(b, c) PROVE Apart(a \o b, c)
  <2>1. ASSUME NEW i \in 1 .. Len(a \o b), NEW j \in 1 .. Len(c)
        PROVE  (a \o b)[i].upload # c[j].upload
    <3>1. CASE i <= Len(a)
      <4>1. i \in 1 .. Len(a) /\ (a \o b)[i] = a[i]
        BY <1>1, <1>2, <3>1
      <4> QED BY <1>5, <4>1 DEF Apart
    <3>2. CASE ~ (i <= Len(a))
      <4>1. i - Len(a) \in 1 .. Len(b) /\ (a \o b)[i] = b[i - Len(a)]
        BY <1>1, <1>2, <3>2
      <4> QED BY <1>5, <4>1 DEF Apart
    <3> QED BY <3>1, <3>2
  <2> QED BY <2>1 DEF Apart
<1> QED BY <1>1, <1>3, <1>4, <1>5 DEF Once

\* No upload is handed to the consumer twice, and none before it is published.
THEOREM AlwaysTakenOnce == Spec => []TakenOnce
<1>1. IInv => TakenOnce
  <2> SUFFICES ASSUME IInv PROVE TakenOnce
    OBVIOUS
  <2>1. /\ taken \in Seq(Message) /\ consumer.got \in Seq(Message) /\ mq \in Seq(Message)
    BY DEF IInv, TypeOK, Consumers
  <2>2. QueueOK
    BY DEF IInv
  <2>3. /\ taken \o consumer.got \in Seq(Message)
        /\ Once(taken \o consumer.got) /\ Published(taken \o consumer.got)
        /\ Apart(taken \o consumer.got, mq)
    BY <2>1, <2>2, ConcatOnce DEF QueueOK
  <2>4. Once(Messages) /\ Published(Messages)
    BY <2>1, <2>2, <2>3, ConcatOnce DEF QueueOK, Messages
  <2> QED BY <2>4 DEF TakenOnce, Once, Published
<1> QED BY <1>1, Invariance, PTL
=============================================================================
