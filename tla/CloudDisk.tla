----------------------------- MODULE CloudDisk -----------------------------
(***************************************************************************)
(* The file side of the cloud disk, day12/project: POST /file/upload,      *)
(* /file/query and /file/downloadurl of main.cc, and the program           *)
(* consumer.cc at the other end of the message queue.                      *)
(*                                                                         *)
(* The handler of an upload runs in a thread of its own.  It writes the    *)
(* body to tmp/<filename>, hashes that file again every time it needs the  *)
(* hash, queues a MySQL task with two INSERTs in its series, and hands the *)
(* file over: to the object store, or to RabbitMQ.  The answer is sent     *)
(* when the series, and so the MySQL task, is through.                     *)
(*                                                                         *)
(* A file is a sequence of bytes, each identified with the upload data it  *)
(* comes from; the SHA-1 of a file is identified with its content.         *)
(***************************************************************************)
EXTENDS Naturals, Sequences, FiniteSets

CONSTANTS
  Upload,      \* upload requests
  Name,        \* file names
  Data,        \* what an upload may carry
  Size,        \* the number of bytes of each Data
  FdLimits,    \* how many descriptors a process may have for files, see maxFds
  Faults,      \* what may go wrong: "disk", "mysql", "mq", "oss"
  None

ASSUME ConstantsAssumption ==
  /\ Size \in [Data -> Nat]
  /\ FdLimits \subseteq Nat
  /\ None \notin Name
  /\ None \notin Seq(Data)
  /\ IsFiniteSet(Upload)

Content == Seq(Data)

VARIABLES
  async,       \* isAsyncTransferEnable
  maxFds,      \* descriptors the process may have open for files
  fds,         \* descriptors that sha1File left open
  tmp,         \* content of tmp/<filename>, empty if there is no such file
  up,          \* the upload requests
  fileRow,     \* tbl_file: the file_sha1 inserted for an upload
  userRow,     \* tbl_user_file: likewise
  oss,         \* objects of the store, by the hash in their path
  mq,          \* the queue of transfer messages
  consumer,    \* the consumer program
  taken,       \* messages the consumer printed
  page,        \* the home page of a user, where files are listed and downloaded
  \* History, for the properties only.
  wrote,       \* the content of the file right after the upload wrote it
  disturbed,   \* uploads whose file another upload wrote before they were through
  failed       \* <<upload, what>>: its "disk" write, "mysql" task or "oss" call failed

setup == <<async, maxFds>>
fileVars == <<tmp, wrote, disturbed>>
dbVars == <<fileRow, userRow>>
mqVars == <<mq, consumer, taken>>
vars == <<setup, fds, fileVars, up, dbVars, oss, mqVars, page, failed>>

MayFail(what) == what \in Faults

\* What the two INSERTs, the object path and the message carry.
Hashes == {"file", "user", "oss", "msg"}

Fresh == [pc |-> "new", name |-> None, data |-> None,
          hash |-> [k \in Hashes |-> None]]

\* What the page of a user shows: sha, the file the user picks; name, the answer.
Blank == [pc |-> "blank", sha |-> None, name |-> None]

Init ==
  /\ async \in BOOLEAN
  /\ maxFds \in FdLimits
  /\ fds = 0
  /\ page = Blank
  /\ tmp = [n \in Name |-> <<>>]
  /\ up = [u \in Upload |-> Fresh]
  /\ fileRow = [u \in Upload |-> None]
  /\ userRow = [u \in Upload |-> None]
  /\ oss = [c \in {} |-> None]
  /\ mq = <<>>
  /\ consumer = [pc |-> "off", got |-> <<>>]
  /\ taken = <<>>
  /\ wrote = [u \in Upload |-> None]
  /\ disturbed = {}
  /\ failed = {}

(***************************************************************************)
(* The handler of POST /file/upload.                                       *)
(***************************************************************************)
Goto(u, pc) == up' = [up EXCEPT ![u].pc = pc]

\* The upload still hashes or hands over its file.
Working(u) == up[u].pc \in {"hash file", "hash user", "hash oss", "transfer"}

\* Mutant: the terminating zero is written, too.
OverwriteOneMore(old, d, n) ==
  [k \in 1 .. (IF Len(old) > n THEN Len(old) ELSE n + 1) |-> IF k <= n + 1 THEN d ELSE old[k]]

\* write() of the first n bytes of d at offset 0 into a file that open() did
\* not truncate.
Overwrite(old, d, n) ==
  [k \in 1 .. (IF Len(old) > n THEN Len(old) ELSE n) |-> IF k <= n THEN d ELSE old[k]]

\* How many bytes of d one write may store; its result is not looked at.
WriteLengths(d) == IF MayFail("disk") THEN 0 .. Size[d] ELSE {Size[d]}

\* Mutant: close() is missing.
WriteOpen(u, n, d) ==
  /\ up[u].pc = "new"
  /\ fds < maxFds
  /\ fds' = fds + 1
  /\ tmp' = [tmp EXCEPT ![n] = Overwrite(tmp[n], d, Size[d])]
  /\ up' = [up EXCEPT ![u].pc = "hash file", ![u].name = n, ![u].data = d]
  /\ wrote' = [wrote EXCEPT ![u] = tmp'[n]]
  /\ disturbed' = disturbed \cup {v \in Upload : Working(v) /\ up[v].name = n}
  /\ UNCHANGED <<setup, failed, dbVars, oss, mqVars, page>>

\* open, write and close.
Write(u, n, d) ==
  /\ up[u].pc = "new"
  /\ fds < maxFds
  /\ \E len \in WriteLengths(d) :
       /\ tmp' = [tmp EXCEPT ![n] = Overwrite(tmp[n], d, len)]
       /\ failed' = IF len < Size[d] THEN failed \cup {<<u, "disk">>} ELSE failed
  /\ up' = [up EXCEPT ![u].pc = "hash file", ![u].name = n, ![u].data = d]
  /\ wrote' = [wrote EXCEPT ![u] = tmp'[n]]
  /\ disturbed' = disturbed \cup {v \in Upload : Working(v) /\ up[v].name = n}
  /\ UNCHANGED <<setup, fds, dbVars, oss, mqVars, page>>

\* open() fails, for a form without a file or for want of a descriptor: 500, and
\* nothing else happens.
OpenFails(u) ==
  /\ up[u].pc = "new"
  /\ Goto(u, "500")
  /\ UNCHANGED <<setup, fds, fileVars, dbVars, oss, mqVars, failed, page>>

\* A call of sha1File on the path of the upload.  It does not close the file.
Sha1File(u) == tmp[up[u].name]

\* Mutant: the hash stops after the first buffer.
HashStepFirstBuffer(u, from, key, to) ==
  /\ up[u].pc = from
  /\ fds < maxFds
  /\ fds' = fds + 1
  /\ up' = [up EXCEPT ![u].pc = to,
                      ![u].hash[key] = IF Len(Sha1File(u)) < 2 THEN Sha1File(u)
                                       ELSE SubSeq(Sha1File(u), 1, 1)]
  /\ UNCHANGED <<setup, fileVars, dbVars, oss, mqVars, failed, page>>

\* The hash for tbl_file, for tbl_user_file and for the object path are taken
\* one after the other.
HashStep(u, from, key, to) ==
  /\ up[u].pc = from
  /\ fds < maxFds
  /\ fds' = fds + 1
  /\ up' = [up EXCEPT ![u].hash[key] = Sha1File(u), ![u].pc = to]
  /\ UNCHANGED <<setup, fileVars, dbVars, oss, mqVars, failed, page>>

HashFile(u) == HashStep(u, "hash file", "file", "hash user")
HashUser(u) == HashStep(u, "hash user", "user", "hash oss")
HashOss(u)  == HashStep(u, "hash oss", "oss", "transfer")

\* Mutant: the file is appended to an object that is there already.
PutObjectAppends(u) ==
  /\ ~async
  /\ up[u].pc = "transfer"
  /\ LET path == up[u].hash["oss"]
     IN  oss' = [c \in DOMAIN oss \cup {path} |->
                  IF c # path THEN oss[c]
                  ELSE IF c \in DOMAIN oss THEN oss[c] \o Sha1File(u) ELSE Sha1File(u)]
  /\ Goto(u, "mysql")
  /\ UNCHANGED <<setup, fds, fileVars, dbVars, mqVars, failed, page>>

\* Synchronous transfer: PutObject reads the file again; its failure is only
\* logged.
PutObject(u) ==
  /\ ~async
  /\ up[u].pc = "transfer"
  /\ LET path == up[u].hash["oss"]
     IN  \/ /\ fds < maxFds
            /\ oss' = [c \in DOMAIN oss \cup {path} |->
                       IF c = path THEN Sha1File(u) ELSE oss[c]]
            /\ UNCHANGED failed
         \/ /\ MayFail("oss") \/ fds = maxFds
            /\ failed' = failed \cup {<<u, "oss">>}
            /\ UNCHANGED oss
  /\ Goto(u, "mysql")
  /\ UNCHANGED <<setup, fds, fileVars, dbVars, mqVars, page>>

\* Mutant: the path of the object is not filled in.
PublishNoPath(u) ==
  /\ async
  /\ up[u].pc = "transfer"
  /\ fds < maxFds
  /\ fds' = fds + 1
  /\ up' = [up EXCEPT ![u].hash["msg"] = Sha1File(u), ![u].pc = "mysql"]
  /\ mq' = Append(mq, [upload |-> u, filehash |-> Sha1File(u),
                       osspath |-> up[u].hash["msg"]])
  /\ UNCHANGED <<setup, fileVars, dbVars, oss, consumer, taken, failed, page>>

\* Mutant: the publisher waits until the queue is empty.
PublishWaits(u) ==
  /\ async
  /\ up[u].pc = "transfer"
  /\ mq = <<>>
  /\ fds < maxFds
  /\ fds' = fds + 1
  /\ up' = [up EXCEPT ![u].hash["msg"] = Sha1File(u), ![u].pc = "mysql"]
  /\ mq' = Append(mq, [upload |-> u, filehash |-> Sha1File(u),
                       osspath |-> up[u].hash["oss"]])
  /\ UNCHANGED <<setup, fileVars, dbVars, oss, consumer, taken, failed, page>>

\* Asynchronous transfer: the message carries a hash of its own.
Publish(u) ==
  /\ async
  /\ up[u].pc = "transfer"
  /\ fds < maxFds
  /\ fds' = fds + 1
  /\ up' = [up EXCEPT ![u].hash["msg"] = Sha1File(u), ![u].pc = "mysql"]
  /\ mq' = Append(mq, [upload |-> u, filehash |-> Sha1File(u),
                       osspath |-> up[u].hash["oss"]])
  /\ UNCHANGED <<setup, fileVars, dbVars, oss, consumer, taken, failed, page>>

\* What the INSERTs of the uploads in U put into a table.
Inserted(row, U, key) == [u \in Upload |-> IF u \in U THEN up[u].hash[key] ELSE row[u]]

\* The process ends with every request in it; a MySQL task that was under way may
\* still take effect.
ProcessEnds ==
  /\ \E landed \in SUBSET {v \in Upload : up[v].pc = "mysql"} :
       /\ fileRow' = Inserted(fileRow, landed, "file")
       /\ userRow' = Inserted(userRow, landed, "user")
  /\ up' = [v \in Upload |-> IF up[v].pc \in {"new", "302", "500"} THEN up[v]
                             ELSE [up[v] EXCEPT !.pc = "lost"]]
  /\ fds' = 0

\* The broker is not there: Channel::Create or BasicPublish throws, and nobody
\* catches.
PublishThrows(u) ==
  /\ async
  /\ MayFail("mq")
  /\ up[u].pc = "transfer"
  /\ ProcessEnds
  /\ UNCHANGED <<setup, fileVars, oss, mqVars, page, failed>>

\* No descriptor is left: in sha1File open() fails, read() returns -1, and
\* SHA1_Update runs over the end of memory with that as a size_t.
Sha1Starves(u) ==
  /\ fds = maxFds
  /\ up[u].pc \in {"hash file", "hash user", "hash oss"} \/ (up[u].pc = "transfer" /\ async)
  /\ ProcessEnds
  /\ UNCHANGED <<setup, fileVars, oss, mqVars, page, failed>>

\* Mutant: only the first of the two statements is sent.
MySQLDoneOneInsert(u) ==
  /\ up[u].pc = "mysql"
  /\ \/ fileRow' = Inserted(fileRow, {u}, "file") /\ UNCHANGED <<userRow, failed>>
     \/ MayFail("mysql") /\ failed' = failed \cup {<<u, "mysql">>} /\ UNCHANGED dbVars
  /\ Goto(u, "302")
  /\ UNCHANGED <<setup, fds, fileVars, oss, mqVars, page>>

\* The MySQL task: both INSERTs, the first alone, or none.  Its result is only
\* logged; the answer is 302 in every case.
MySQLDone(u) ==
  /\ up[u].pc = "mysql"
  /\ \/ /\ fileRow' = Inserted(fileRow, {u}, "file")
        /\ userRow' = Inserted(userRow, {u}, "user")
        /\ UNCHANGED failed
     \/ /\ MayFail("mysql")
        /\ fileRow' \in {fileRow, Inserted(fileRow, {u}, "file")}
        /\ failed' = failed \cup {<<u, "mysql">>}
        /\ UNCHANGED userRow
  /\ Goto(u, "302")
  /\ UNCHANGED <<setup, fds, fileVars, oss, mqVars, page>>

Handler(u) ==
  \/ HashFile(u) \/ HashUser(u) \/ HashOss(u)
  \/ PutObject(u) \/ Publish(u)
  \/ Sha1Starves(u)
  \/ MySQLDone(u)

(***************************************************************************)
(* The home page: POST /file/query lists the rows of tbl_user_file, and    *)
(* POST /file/downloadurl looks the hash of one up in tbl_file.            *)
(***************************************************************************)
\* The user picks one of the files listed.  A query that fails lists none.
Query ==
  /\ page.pc = "blank"
  /\ \E u \in Upload :
       /\ userRow[u] # None
       /\ page' = [page EXCEPT !.pc = "listed", !.sha = userRow[u]]
  /\ UNCHANGED <<setup, fds, fileVars, up, dbVars, oss, mqVars, failed>>

\* Mutant: the WHERE is lost.
FileNamesAny(sha) == {up[u].name : u \in {v \in Upload : fileRow[v] # None}}

\* The file_names of a hash, of which the first one found is answered.
FileNames(sha) == {up[u].name : u \in {v \in Upload : fileRow[v] = sha}}

DownloadUrl ==
  /\ page.pc = "listed"
  /\ \E n \in FileNames(page.sha) : page' = [page EXCEPT !.pc = "answered", !.name = n]
  /\ UNCHANGED <<setup, fds, fileVars, up, dbVars, oss, mqVars, failed>>

\* The callback takes rows[0] although there is none, or the query failed.
DownloadCrashes ==
  /\ page.pc = "listed"
  /\ FileNames(page.sha) = {} \/ MayFail("mysql")
  /\ page' = [page EXCEPT !.pc = IF FileNames(page.sha) = {} THEN "no row" ELSE "failed"]
  /\ ProcessEnds
  /\ UNCHANGED <<setup, fileVars, oss, mqVars, failed>>

(***************************************************************************)
(* consumer.cc: subscribe without acknowledgements, take one message or    *)
(* give up after five seconds, print it, exit.                             *)
(***************************************************************************)
\* Without asynchronous transfer there is never a message to wait for.
ConsumerStart ==
  /\ async
  /\ consumer.pc = "off"
  /\ consumer' = [pc |-> "waiting", got |-> <<>>]
  /\ UNCHANGED <<setup, fds, fileVars, up, dbVars, oss, mq, taken, failed, page>>

\* Mutant: the broker keeps the message and delivers it again.
DeliverAgain ==
  /\ consumer.pc \in {"waiting", "timeout"}
  /\ mq # <<>>
  /\ Len(consumer.got) < 2
  /\ consumer' = [consumer EXCEPT !.got = Append(@, Head(mq))]
  /\ UNCHANGED <<setup, fds, fileVars, up, dbVars, oss, mq, taken, failed, page>>

\* The broker pushes the messages to a subscribed consumer one after the other
\* and forgets them, without waiting for the consumer to take one, and also when
\* it has just given up.
Deliver ==
  /\ consumer.pc \in {"waiting", "timeout"}
  /\ mq # <<>>
  /\ consumer' = [consumer EXCEPT !.got = Append(@, Head(mq))]
  /\ mq' = Tail(mq)
  /\ UNCHANGED <<setup, fds, fileVars, up, dbVars, oss, taken, failed, page>>

ConsumerTimeout ==
  /\ consumer.pc = "waiting"
  /\ consumer.got = <<>>
  /\ consumer' = [consumer EXCEPT !.pc = "timeout"]
  /\ UNCHANGED <<setup, fds, fileVars, up, dbVars, oss, mq, taken, failed, page>>

\* Print the first message and exit; the others are lost with the process.
ConsumerPrint ==
  /\ consumer.pc = "waiting"
  /\ consumer.got # <<>>
  /\ taken' = Append(taken, Head(consumer.got))
  /\ consumer' = [pc |-> "off", got |-> <<>>]
  /\ UNCHANGED <<setup, fds, fileVars, up, dbVars, oss, mq, failed, page>>

ConsumerExit ==
  /\ consumer.pc = "timeout"
  /\ consumer' = [pc |-> "off", got |-> <<>>]
  /\ UNCHANGED <<setup, fds, fileVars, up, dbVars, oss, mq, taken, failed, page>>

Consumer ==
  ConsumerStart \/ Deliver \/ ConsumerTimeout \/ ConsumerPrint \/ ConsumerExit

Next ==
  \/ \E u \in Upload, n \in Name, d \in Data : Write(u, n, d)
  \/ \E u \in Upload : OpenFails(u)
  \/ \E u \in Upload : Handler(u) \/ PublishThrows(u)
  \/ Consumer
  \/ Query \/ DownloadUrl \/ DownloadCrashes

Spec == Init /\ [][Next]_vars

\* A thread that runs a handler, and the MySQL task it queued, get on; the broker
\* need not fail.
FairSpec == Spec /\ \A u \in Upload : WF_vars(Handler(u))

-----------------------------------------------------------------------------
(***************************************************************************)
(* Properties.                                                             *)
(***************************************************************************)

Opt(S) == {None} \cup S

Pcs == {"new", "hash file", "hash user", "hash oss", "transfer", "mysql", "302", "500", "lost"}

Uploads == [pc : Pcs, name : Opt(Name), data : Opt(Data), hash : [Hashes -> Opt(Content)]]

Message == [upload : Upload, filehash : Content, osspath : Content]

Consumers == [pc : {"off", "waiting", "timeout"}, got : Seq(Message)]

Pages == [pc : {"blank", "listed", "answered", "no row", "failed"},
          sha : Opt(Content), name : Opt(Name)]

Failures == Upload \X {"disk", "mysql", "oss"}

\* Every variable holds what the code can store in it.
TypeOK ==
  /\ async \in BOOLEAN /\ maxFds \in Nat
  /\ fds \in 0 .. maxFds
  /\ tmp \in [Name -> Content]
  /\ up \in [Upload -> Uploads]
  /\ fileRow \in [Upload -> Opt(Content)] /\ userRow \in [Upload -> Opt(Content)]
  /\ wrote \in [Upload -> Opt(Content)]
  /\ \A c \in DOMAIN oss : c \in Content /\ oss[c] \in Content
  /\ mq \in Seq(Message) /\ taken \in Seq(Message)
  /\ consumer \in Consumers
  /\ page \in Pages
  /\ disturbed \subseteq Upload
  /\ failed \subseteq Failures

\* The up to four hashes the handler takes of one upload, one after the other,
\* are all the hash of the file as this upload left it, unless another upload
\* of the same name wrote the file in between: tbl_file, tbl_user_file, the
\* object path and the message then name the same content.
AgreeUnlessDisturbed ==
  \A u \in Upload \ disturbed, k \in Hashes : up[u].hash[k] \in {None, wrote[u]}

\* The file an upload means to store, and nothing else.
Pure(u) == [k \in 1 .. Size[up[u].data] |-> up[u].data]

DistinctNames ==
  \A u, v \in Upload : u # v /\ up[u].name # None => up[u].name # up[v].name

\* Uploads of files with different names do not see each other: whatever the
\* interleaving, every row, message and object path is the hash of exactly the
\* bytes the client sent, if its write was complete.  (Under one name
\* neither the open without O_TRUNC nor the repeated hashing gives that.)
UploadIsolated ==
  DistinctNames =>
    \A u \in {v \in Upload : <<v, "disk">> \notin failed} :
      /\ \A k \in Hashes : up[u].hash[k] # None => up[u].hash[k] = Pure(u)
      /\ fileRow[u] # None => fileRow[u] = Pure(u)
      /\ userRow[u] # None => userRow[u] = Pure(u)

\* The object store is addressed by content: as long as no upload is disturbed,
\* the object disk/<sha1> has the hash that its path says.
OssContentAddressed ==
  disturbed = {} => \A c \in DOMAIN oss : oss[c] = c

\* The messages printed, delivered to the consumer and queued.
Messages == taken \o consumer.got \o mq

\* A client that is redirected to the success page finds its file in both
\* tables unless the MySQL task failed, and, unless another upload disturbed it,
\* both rows, the object or the message name the content that the upload wrote,
\* although every one of them was computed at another time.
RedirectMeansListed ==
  \A u \in Upload :
    up[u].pc = "302" /\ <<u, "mysql">> \notin failed =>
      /\ fileRow[u] # None
      /\ userRow[u] # None
      /\ u \notin disturbed =>
           /\ fileRow[u] = wrote[u]
           /\ userRow[u] = wrote[u]
           /\ IF async THEN up[u].hash["msg"] = wrote[u]
              ELSE <<u, "oss">> \notin failed => wrote[u] \in DOMAIN oss

\* A file that is listed can be downloaded: the lookup of its hash finds a row,
\* and so the server survives it, unless an upload was disturbed, when
\* the two tables may disagree on its hash.  And the name answered for the hash
\* is that of a file with this content, when no two uploads used one name.
ListedIsFound ==
  /\ page.pc = "no row" => disturbed # {}
  /\ DistinctNames /\ page.pc = "answered" => tmp[page.name] = page.sha

\* A process that has gone through k uploads keeps at most 4k descriptors, those
\* of the hashes: the ones for writing and for the object store are closed on
\* every way out.  So uploads are refused, or end the process, for want of one
\* only after maxFds / 4 uploads.
FourPerUpload ==
  LET begun == {u \in Upload : up[u].pc \notin {"new", "500"}}
  IN  fds <= (IF async THEN 4 ELSE 3) * Cardinality(begun)

\* No upload is handed to the consumer twice, and none before it is published.
TakenOnce ==
  /\ \A i, j \in 1 .. Len(Messages) :
       i # j => Messages[i].upload # Messages[j].upload
  /\ \A i \in 1 .. Len(Messages) :
       up[Messages[i].upload].hash["msg"] = Messages[i].filehash

\* Every upload that was accepted comes to an end, also when nobody consumes
\* the messages.
UploadsEnd ==
  \A u \in Upload : up[u].pc = "hash file" ~> up[u].pc \in {"302", "lost"}
=============================================================================
