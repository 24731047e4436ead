# Verification of the wd_http servers

This directory holds TLA+ models of the servers in this repository, the TLC
configurations that check them on small instances, and proofs that TLAPS checks.
`PROJECT.json` lists the runs, the properties, the source lines behind every definition,
the hazards and the theorems.

## 1. Inventory

The repository is the course work of one author on the Sogou Workflow library. It has
programs of the author (`dayNN/`, and `my_dayNN/`, which repeat them), the REST framework
`wfrest-main`, and a vendored nginx. In Workflow, a request is a *series* of tasks; the
callback of a task may push further tasks, and the reply is sent when the series is
through. Callbacks and handlers of different requests run in different threads.

| Component | State | Operations | Interacts through |
|---|---|---|---|
| Chunked upload server, `day08/mupload.cc` | Redis hash per upload id, chunk files | `init`, `uppart`, `complete` | Redis tasks, the file system |
| Cloud disk, upload, `day12/project/main.cc` | `tmp/<name>`, `tbl_file`, `tbl_user_file`, objects, message queue | `POST /file/upload` | MySQL task in the series, OSS client, RabbitMQ |
| Transfer consumer, `day12/project/consumer.cc` | one subscription | take one message, or time out | RabbitMQ |
| Cloud disk, accounts, `day12/project/main.cc`, `Token.h` | `tbl_user`, `tbl_user_token`, the static buffer of `crypt`, the context of a series | signup, signin, info | MySQL tasks, shared static memory |
| Cloud disk, reading routes | none | `/file/query`, `/file/downloadurl` | MySQL |
| wfrest routing, `RouteTable`, `Router`, `BluePrint` | tree of route pieces with handlers by verb | `handle`, `find`, `call`, `add_blueprint` | called by `HttpServer::process` |
| wfrest server task, aspects, compute handlers | callback list, series, aspect list | `process`, `handle`, before/after, go tasks | Workflow |
| wfrest messages | body, form, json caches; multipart encoder | `String`, `File`, `Http`, `MySQL`, `Redis`, ... | tasks added to the series |
| wfrest server push | chunk being sent, named conditional, close flag | `Push`, `sse_signal`, `stop` | timers and conditionals in the series |
| wfrest parsing, `HttpContent`, `MultiPartParser` | parser state | urlencoded and multipart bodies | called by `HttpReq::form` |
| wfrest files, `HttpFile` | none | send with ranges, save | pread and pwrite tasks |
| Lesson servers, `day06`, `day07`, `day08/webserver.cc` | context of a series | login through Redis or MySQL, reverse proxy, static files | Workflow |

What is hard in them:

* **Ordering and interleaving.** `init` starts its HSETs and does not wait; upload ids have
  the resolution of a minute; uploads of one name share one file, which is hashed up to
  four times; `crypt` has one buffer for all threads.
* **Failure of one step of several.** Almost no result is looked at: of `write`, of Redis and
  MySQL tasks, of PutObject; the client is told success. The AMQP client throws, and
  `rows[0]` of an empty result ends the process.
* **Retries, restarts, delivery.** A Redis task is sent again after a lost reply; the server
  may stop between any two tasks; the consumer subscribes without acknowledgements.
* **Ownership.** What an operation of `HttpResp` allocates is freed by callbacks that run after
  the reply, and the body only points to it; a proxy moves the request away and back.
* **Streams and parsers.** The rest of a chunk, the next conditional and a signal race for the
  series; an unsigned result hides a refused write; a parser takes back what it looked at.
* **Limits.** `sha1File` never closes its file; a size does not fit an int.
* **Search.** The route table returns early at leaves and exact children and never comes back
  to a second variable child; parameters of failed branches stay.

What makes them correct: `SUCCESS` of `complete` means that the file is there; all records of
one upload name one content; only the right password is let in and a name has one owner; a
context outlives its callbacks; every request ends; a route that was registered is the one
that is served; a body is sent whole and what it points to lives until then; pushed bodies
arrive in order and without gaps; a form is parsed as it was encoded. The sections below say how far the code keeps this.

## 2. Modules

### `MUpload`: the chunked upload server

Variables: `info` and `parts` are the Redis hashes (the fields `filehash` and `chunkcount`, and
the set of `chkidx_*` fields), by `Key`; `left` counts the attempts left of each HSET that `init`
started; `req` holds the requests, each at the task its series waits for; `disk` holds the chunk
files by directory and number; `sid` and `sfile` are the id each client was told and the file it
announced. `missed`, `spoiled` and the field `guess` of a request are history.

The id that a client is told is not the name of the Redis hash: `init` stores under `MP_` and the
id (`StoredKey`), tells the id alone, and `uppart` and `complete` use what the client sends
verbatim. The comment in `uppart` has a client that adds `MP_`; `Sends` says whether clients do,
and `Key` has both names of every id.

Actions: `InitUpload` answers and leaves one task per field behind; `HsetLands` and
`HsetFails` are the attempts of these tasks, with the reply possibly lost; `UppartStart`,
`HgetDone` (with the write in its callback) and `HsetDone` are the two tasks of `uppart`;
`CompleteStart` and `HgetallDone` those of `complete`; `Restart` drops requests and tasks and
keeps Redis and the disk. `ToInt` narrows a size to an `int`; `CDiv` is C's division. The
numbers a client may send (`Idx`) include those of the chunks of every file whose size fits an
int, which is what `init` tells it to send. An uninitialised `chunkcount` gives either answer
(`Verdict` is the set of possible ones); `guess` remembers that an answer came about this way.

### `CloudDisk`: upload, transfer, listing and download

The handler of an upload is a thread: `Write` (open without `O_TRUNC`, one `write`), then one
step for every call of `sha1File` (`HashFile`, `HashUser`, `HashOss`), then `PutObject` or
`Publish`, then the MySQL task, `MySQLDone`, after which the answer 302 is sent. A file is a
sequence of bytes that know which upload they come from, so that the tail which a longer file
leaves behind a shorter one is visible; a hash is identified with the content. `async` is the
setting `isAsyncTransferEnable`, either way. `PublishThrows` ends the process, and so does
`Sha1Starves`: `fds` counts the files that `sha1File` has left open, and at the limit
(`maxFds`) `read(-1)` returns -1, which `SHA1_Update` takes for a size. Sockets are not counted.
The consumer starts, is pushed messages (`Deliver`, external: the broker forgets what it
pushes), times out or prints one, and exits; what else it was given is lost. The page of a user
is listed (`Query`), one of its files is picked, and its hash is looked up in the other table
(`DownloadUrl`, `DownloadCrashes`). `wrote`, `disturbed` and `failed` are history: what an
upload left in its file, whose file was written by another one, and which of its calls
failed; the properties need them to say what is promised in spite of failures.

`sha1File` is one step: it reads buffers of 4096 bytes, and the model has files of at most one
buffer. Key constraints of the tables are not in the repository; a rejected INSERT is one of
the MySQL failures.

### `Account`: signup, signin, info

`crypt()` is two steps, `CryptBegin` and `CryptEnd`, and the use of its result a third
(`SignupSql`, `SigninCompare`). When computations overlap, the buffer ends up with any value;
so does a read while somebody computes. What the database does (`Insert`, `Select`, `Replace`,
external) and the callback that sees the result are separate steps, so that a result may be
stale when it is used. `Crash` is `rows[0][0]` of an empty result; INSERTs and REPLACEs under
way may still take effect. `known` and `culprits` are history. `Reply` ends the series and
deletes its context. Passwords with equal encrypted form exist in the model, because the
salt selects the traditional `crypt`, which looks at eight characters. `user_name` is assumed
to be a unique key, which the code supposes (a duplicate is answered FAIL, the token is
written with REPLACE).

### `Router`: route table, dispatch, blueprints

Nodes of the table are sequences of pieces. `Handle` and `AddBlueprint` change the tables, by
`Store` and `WithBlueprint`. `Find` is the search of `RouteTableNode::find`, early returns and the
shared map of parameters included: a recursive function of the number of pieces that are left,
the node and the parameters so far, with `FindEnd` where the path is over and `FindNext` for one
piece. `Call` is the dispatch by verb. `Covers` says without a search which paths a node stands
for: the reference that `Find` is compared with. Requests contain no `{`, `}` or `*`, because
`HttpServer::process` encodes them. Routes and prefixes have no empty piece (`RoutePiece`): nobody
registers `/a//b`; the empty piece that `add_blueprint` makes of the route `/` is there.

### `Push`, `ChunkStream`, `PushStream`: server push

`Push` sends the header and leaves a conditional in the series; `Signal` may come at any time
after that; `CondDone` hands over to `push_func` (`PushFunc`, or `PushFuncCloses` when the
connection or the server is to be closed), which makes a chunk, writes what the socket takes,
puts the retry (`PushRetry`) in front of the series and the next conditional at its end.
`Minus` is the subtraction in `size_t`. `wire` records for each byte which chunk and which
position it was read from; a position below 1 is memory in front of the buffer. The socket
(`PushResults`) takes any part of what it is given, or refuses.

`ChunkStream` is the abstract specification: bodies arrive one after the other, byte by byte in
order, and the stream ends only between two bodies. `PushStream` maps the wire to it: `Arrived`
are the bytes in the order in which they come first (`FirstBytes`), bytes sent again and bytes
of no body left out; `Outstanding` counts the bytes of the last body that were not sent yet; and
`StreamSpec` is `ChunkStream!Spec` under this mapping.

### `Reply`: one request in wfrest

`s` holds what the server task and its series own: the blocks on the heap, the pieces of the
body that point to them, the list of callbacks, the queue of tasks, context and encoder of the
series, whether the request is in place, and `user_data`. The operations of `HttpResp` and
`HttpFile` are functions of it (`String`, `File`, `Save`, `MultiPart`, `Http`, `Query`, ...). A
request goes through `process` (`BadRequest`, `RouteError`, `CallRoute`), `Before` of each
aspect (`local`, chosen in `Init`, is the number of aspects of the route; on a route without them, `Bare`, that is `BluePrint.cc`: nothing is copied,
what a global `before()` returns is ignored, and `AfterLater` registers `after()` only if there
are global aspects), the handler (`Operation`, in the server thread or as a go task after `Enter`), `Track`,
the tasks (`TaskDone`), the reply (`SendReply`), the callbacks in the order they were added
(`FreeCallback`, `AfterCallback`, `TrackCallback`, `CheckCallback`) and the callback of the
series. The steps of one request do not overlap, and requests share nothing of this: one
request is modelled. `undefined` is the state after the list of callbacks was changed while it
was walked.

### `MultiPart`: multipart bodies

The parser of `MultiPartParser.c` character by character, one action per state, with the
callbacks of `HttpContent.cc`; `Encode` is the format of `HttpResp::String(MultiPartEncoder)`,
built part by part (`Content`, `Piece`). Names and values of headers are one symbol each; what a
Content-Disposition says is a text (`DispositionText`), which `handle_header` splits at `;` and `=`
(`Settings`, with the keys matched at their beginning, the last setting of a key winning) and frees
of quotes (`TrimPairs`). A quote that stands alone leaves a length of -1, and `as_string` throws out
of the parser (`Throw`, the state "threw"; the form is gone). A part may have another header
before its Content-Disposition, as some clients send it, and one after it, as the encoder writes it
for files; either may be empty, the latter when the suffix of a file tells no type (`HeaderLine`).
`FormOf` says what form the parts make, without the ones that an empty header spoils (`Lost`, by a
header of the part itself or the last one of the part before, `Spoilt`); `Separable` says that no
data holds the delimiter, `Plain` that name and file name have no `;` and `=`, and `Agreeable` names
what else the encoder and the parser do not agree on.

`MCMUpload`, `MCCloudDisk`, `MCAccount`, `MCRouter` and `MCMultiPart` give the constants their
values.

### Proofs

`MUploadProofs`, `AccountProofs`, `CloudDiskProofs`, `RouterProofs`, `ReplyProofs` and
`MultiPartProofs` extend the module of that name, `PushProofs` extends `PushStream`.
`NatInduction` has induction over the natural numbers in the form in which the provers can use it.

## 3. Runs

| Run | Instance | Shows |
|---|---|---|
| `mupload_clean` | 2 uploads, files of 2 and 1 chunks, 2 ids, sent with and without `MP_`, nothing fails; the clients are symmetric | `SuccessSound`, `NoForeignChunk`, `AllRecordedMeansSuccess`, the action property `GuessOnlyBeforeCount` |
| `mupload_faults` | 1 upload of 2 chunks or of a size beyond the int, 2 concurrent requests, all faults (Redis, writes, restarts), 1 retry, fair tasks | `SuccessSound`, `RequestsEnd` |
| `mupload_comment` | one upload, nothing fails | violation: progress is recorded without the chunk |
| `clouddisk` | 2 uploads, 2 names, a long and a short file, both kinds of transfer, 3 or 8 descriptors, one page, every fault, fair handlers | `AgreeUnlessDisturbed`, `RedirectMeansListed`, `TakenOnce`, `UploadIsolated`, `OssContentAddressed`, `ListedIsFound`, `FourPerUpload`, `UploadsEnd` |
| `account` | 2 requests, 1 user who may be known, 3 passwords of which 2 encrypt alike, failing MySQL tasks, crashes | `SignupOwnsName`, `SigninVerdict`, `ContextAlive`, `KnownUserSafe`, `TokenKnown`, `RequestsEnd` |
| `router` | every 3 registrations of 7 routes of the server and 3 of a blueprint, 2 verbs, the blueprint registered up to twice, 28 paths | `FindIsRight`, `ExactServed`, `ParamsRight`, `BlueprintServed` |
| `router_doc` | routes as in `docs/param_in_path.md` | violation: an exact prefix does fall back to a parameter |
| `push` | 3 chunks of 1 or 3 bytes, 2 refused writes, a client that may leave | the refinement `StreamSpec`, `RefusalCostsAByte`, `SignalServed`, `StopEnds` |
| `push_comment` | the same | violation: a byte that is no data, or the same byte twice, is sent |
| `reply` | 2 operations in every order, routes with 2 aspects of their own and with none, 2 global aspects, 2 files, failing tasks and reply | `BodyAlive`, `FreedOnce`, `RequestBack`, `MultiPartSent`, `AfterOnce`, `RequestEnds` |
| `reply_userdata` | the same | violation: `user_data` does not survive a proxy |
| `multipart` | 1 part with any data of 3 characters or data that starts like the delimiter; 2 parts with no, an empty or another header before and after 9 kinds of Content-Disposition; 3 parts; bodies cut at 4 places | `RoundTrip`, `NothingMixed`, `ParserEnds` |

`mupload_faults`, `clouddisk` and `push` check the type invariant `TypeOK` of their modules as
well. All invariants, the refinement and the action property in these rows, of every passing
run, are also proved for every instance (section 5): `SuccessSound`, for example, is checked on two uploads without faults and on one with faults, and proved for any
number.

### Bounds

Every hazard needs few actors. A shared upload id, a race on one file or on the buffer of
`crypt` needs two; that the user may be in the table from the start stands for a signup
before them. Two bytes against one are enough for a tail to stay; two chunks for one to be
missing; sizes 2, 3 and 9 with chunks of 2 and an int of -4 .. 3 for rounding and for a size that
wraps to 1; one retry for an effect that happens twice. Two uploads take up to eight hashes:
with 8 descriptors both get through, with 3 not even one that is handed over to the queue does. `Seconds` is how soon the time in a token repeats: 2 makes tokens of one user
equal or different. In the router, two variable children with one literal at each of two
depths are enough for every early return; `MaxReg` and `MaxGraft` bound the number of
registrations. In `Push`, chunks of three bytes can be cut twice; `SizeT` is larger than any length
that occurs, which the assumption demands; `MaxBodies` bounds the signals before a stop and
`MaxRefused` the refused writes, both more than what one of them shows. In `Reply` two operations
are enough for one to disturb another (`MaxOps`), two files for one to be missing (`MaxFiles`),
two aspects of each kind for the first or the second to refuse (`Locals`, `Global`).
In `MultiPart` the delimiter has three characters and the data all combinations of three of its
characters, CR, LF and another one, and all that start with a line break and `--`, the delimiter
itself among them. The dispositions are plain ones, a nameless one, a name and a file name with a
`=`, a file name with a `;`, one that brings a name of its own, and two that leave a quote alone.
Two parts are enough for a header that spoils the next part, three for one that was not written
between them. Uploads and
requests are used once each, so nothing else is unbounded.

### Fairness

`FairSpec` asks that the tasks of a request and those that `init` started get on (`MUpload`),
that a handler thread and its MySQL task do (`CloudDisk`), that threads and tasks do
(`Account`), that the tasks of a pushed stream run and a client that reads makes room in the
socket (`Push`), that a handler returns and its tasks end (`Reply`), and that the parser takes
its next step: Workflow ends every task, with a result, with an error after the last retry, or
with a timeout, and its threads do not starve each other. Nothing is asked of clients, of the
consumer, of the clock, of the application that signals, or of failures. Deadlock is checked in
the runs of `MUpload` and `Account`; in the others the system comes to an end: all uploads
are through and the page is answered, routes are registered, a request, a stream or a body is
over.

## 4. What the runs show about the code

* `SUCCESS` of `complete` is right except in six cases, all of which the code leaves open: a
  `chunkcount` that was not there, so that an uninitialised variable was compared; two files under
  one id, a chunk number the file does not have, a size beyond an `int`, an `uppart` before the
  HSET of `filehash` has landed (or whose HGET failed), a failed write.
* Without failures the first of these happens only before the HSET of `chunkcount` has landed, and
  to every client that sends the id as it was told, without `MP_`.
* The comment in `uppart` that progress is stored after the chunk was written does not hold,
  even with one client and no failure.
* The rows, the object and the message of one upload agree unless an upload of the same name
  writes in between; uploads of different names never see each other.
* Signin decides as it should unless calls of `crypt` overlap; then nothing can be said.
* A signin or info for a name that was in the table when the request came does not end the
  process unless its own query fails; for other names it does.
* Lookup of routes is sound, and complete where no node has two variable children. It differs
  from `docs/param_in_path.md`: `/user/groups/...` falls back to `/user/{name}/...` when
  `/user/groups` has routes below it that do not match. `/` takes one registration only: for it
  `find_or_create` (`RouteTable.cc:22`) makes a new node at every call and the second one is not
  put into the table, so a second verb for `/` is listed and never served (`OutOfReach`).
* Of a blueprint, only routes that no other route goes on from arrive, and `/` only under an
  empty prefix.
* A file that is listed can be downloaded unless uploads of one name disturbed each other; then
  the lookup may find no row, and the server ends.
* Every upload costs three or four descriptors for good.
* A pushed stream is what it should be as long as no write is refused. `push()` then returns -1,
  which is stored in a `size_t`: each refused write makes the rest one byte longer, and that byte
  is sent again or is the one in front of the buffer. No byte of a body is ever lost or
  overtaken. `stop()` takes effect at the next signal; when the client has gone, the retries go on
  for ever.
* In wfrest the body of a response is intact when it is sent and everything is freed once,
  except: a second multipart body in one request takes the context of the series from the first;
  the aspects of a route are leaked when a `before()` refuses, the context of a proxy when its URL
  is bad; an
  undelivered proxied response changes the list of callbacks that is being walked; two proxies
  in one request lose it. A multipart body is not sent at all when one of its files is missing.
* On a route without aspects of its own a global `before()` cannot refuse: its result is ignored,
  and the handler and the `after()` of all global aspects run.
* `user_data` does not survive a proxied reply, although `docs/aop.md` deletes it in `after()`.
* Encoder and parser of multipart bodies agree for all data that does not hold the delimiter,
  which is fixed and which the encoder does not look for, with these exceptions. A part without a
  name is dropped. A part is lost if the header right before its Content-Disposition is empty
  (`HttpContent.cc:86` keeps that header and appends to it): a header of its own, or the
  Content-Type of the file before it. Of two files of which the first is called `README`, the
  encoder's own body brings only the first. If the first file could not be read and there are no
  parameters, the body starts with a line break and nothing is parsed. A `=` in a name or file name
  loses it, a `;` cuts it, a file name such as `x;name="a` stores its part under the name `a`, and
  a `;` next to a quote may leave that quote alone, at which the parser throws. In all these cases
  data is never split or joined with that of another part, and name and file name come from the
  header of that part.

## 5. Proofs

The theorems hold for every value of the constants that satisfies the `ConstantsAssumption` of
the module: any number of clients, requests, uploads, aspects and bodies, any sizes and any
set of faults. What is assumed is what the constants are for (sizes are numbers, `None` is no
value of the program, an upload is one of finitely many); in `Push` also that a `size_t` holds
every length that occurs, in `MUpload` that a client may send the chunks its file has, in
`Router` that routes have no empty piece and requests no parameters or wildcards, and in
`MultiPart` that the delimiter, which is given in a header, has no CR.

Each proof module has one inductive invariant `IInv`, a lemma per conjunct with a step per
action, and `Invariance`, which puts them together; the properties follow from it. TLC has
checked each `IInv` on the instance of the module's run; of those of the server push, the
conjuncts that it can evaluate (`SumOK` speaks of all functions, `NoHole` of all numbers), and
that of the router with the routes of the instance for all routes. All invariants and the
refinement that the passing runs check are proved.

### `MUploadProofs`

`TypeCorrect`, `SuccessCorrect` (`SuccessSound`), `DirectoriesSeparate` (`NoForeignChunk`),
`CompleteNotRefused` (`AllRecordedMeansSuccess`), and the action property `GuessesExplained`
(`GuessOnlyBeforeCount`).

`SuccessSound` speaks of an answer, which was computed from two numbers. It is not inductive:
one has to know what the numbers stand for. `IInv` adds that what Redis holds
in a hash was announced under its id (`InfoFromUpload`), that only announced uploads have
tasks and requests, and a request names a hash by the id of its client (`OnlyAnnounced`), and that, as long as no id is shared, a chunk is in its
directory, or its upload is one of the named cases, from the moment its request waits for the
HSET on (`KeptBeforeRecorded`). The step to the answer is arithmetic on sets: the recorded
numbers are chunks of the file (`NoStray`), there are as many as `chunkcount` says, and
`chunkcount` is the number of chunks of a file whose size fits an int (`ChunksCounted`,
`CountIsNumberOfChunks`), so all are recorded (`CountedMeansAll`), and when all are recorded,
the count is reached. For the latter, and for the guesses, the `chunkcount` has to come: when
nothing fails it is in Redis or its HSET is under way (`CountComes`).

### `AccountProofs`

`AlwaysTypeOK`, `AlwaysSignupOwnsName`, `AlwaysSigninVerdict`, `AlwaysContextAlive`,
`AlwaysKnownUserSafe`, `AlwaysTokenKnown`.

The properties are about answers, which the code computes from a cipher it read earlier and from
a buffer that another thread may write in between. `RequestOK` says for each request what it has
read and answered at each step (`Course`), how far its context is (`Context`), that what a signup
stored and what a signin read is still what the table has (`SignupKeeps`, `SigninKeeps`), and
that a user who was in the table still is (`KnownKeeps`): rows are never removed or overwritten,
so what was read is not stale. `CryptAlone` is the heart of the verdict: a call of `crypt` that
was not touched is the only one, and the buffer holds its result until it is read. `OneOwner` and
`TokenFromSignin` relate the requests for one name to each other.

### `CloudDiskProofs`

`AlwaysTypeOK`, `AlwaysAgree` (`AgreeUnlessDisturbed`), `AlwaysRedirectMeansListed`,
`AlwaysUploadIsolated`, `AlwaysOssContentAddressed`, `AlwaysListedIsFound`,
`AlwaysFourPerUpload`, `AlwaysTakenOnce`.

`UploadOK` has for each upload which of the hashes are computed (`Course`), what the tables and
the store have of it (`Rows`), and that, unless it was disturbed, every hash is of what it wrote
and the file is still that while the handler needs it (`OwnFile`). That uploads with names of
their own do not disturb each other needs `TmpNamed`: a file with content is that of an upload,
so the open without `O_TRUNC` finds nothing. `PageOK` relates what was listed to the tables at
the time of the lookup. `TakenOnce` is about one place only, and becomes inductive with the
other two a message passes: `QueueOK` says that queue, prefetched messages and taken messages
together have one of each upload. `FdsOK` counts a descriptor for each hash; that there are at
most four per upload is a fact about cardinalities, for which uploads have to be finitely many.

### `PushProofs`

`AlwaysTypeOK`, `AlwaysRefusalCostsAByte`, and two facts that the run sees only through the
refinement: `AlwaysNothingLost` (every byte that is due has been sent) and `AlwaysInOrder` (no
byte comes before one of an earlier body). `PushImplementsStream` is the refinement itself,
`Spec => StreamSpec`.

`IInv` says that a rest is kept only at a retry and is at most the body and a byte for each
refused write (`RestOK`), and that the bytes on the wire and the rest are what the bodies and
the refused writes add up to (`SumOK`). `size_t` enters through `MinusIs`: the -1 of a refused
write, taken modulo `SizeT`, adds one. For the refinement one has to compute `Arrived`
after a step, and that is a recursive function along the wire. The lemmas up to `FirstBytesIs`
show by induction on the wire that it exists, and that the bytes of a longer wire are those of
the shorter one and what is fresh in the rest. A write then adds an interval of one body
(`BlockFresh`), and because the positions sent of a body have no hole (`NoHole`, the part of the
invariant that is added here), the fresh ones among them are exactly those above what was reached
(`BlockArrives`): a step of `ChunkStream`, or a stutter when only bytes are repeated.

The induction theorems of the library take an operator for the predicate, which the
provers cannot instantiate. `SetInduction` and `BoundedInduction` in `NatInduction` have a set
instead, and follow from the fact that a set of numbers has a least member (`LeastMember`).

### `ReplyProofs`

`AlwaysBodyAlive`, `AlwaysFreedOnce`, `AlwaysRequestBack`,
`AlwaysMultiPartSent`, `AlwaysAfterOnce`.

A request has two phases. Until the reply nothing is freed, and what is built has to be
accounted for: every block has one owner, a callback, a task that will add one, or the
series itself (`OwnersOK`, `TasksOK`, `AccountedOK`). After the reply the callbacks are walked,
and those from `at` on own what is still alive (`LiveOK`). `TupleOK` and `AfterOK` follow the
aspects from `before()` to the callback that runs `after()`, `AftersOK` what it did, and
`RefusedOK`, an invariant of its own, what a `before()` that returned false leads to on the two
kinds of routes;
`RequestOK` says that what a proxy took of the request is in its task; `BodyOK` that no part is
appended to a content after the body points to it; `SentOK` that the last part, which hands over
the content, is queued or done. `CallsOK` and `CourseOK` tie all this to the operations called and
to where the request is. The operations are proved one by one to append only, and to append
what is owned; the steps use that and not their definitions.

### `RouterProofs`

`AlwaysFindIsRight`, `AlwaysParamsRight`, `AlwaysExactServed`, `AlwaysBlueprintServed`.

The search and the tables are separate arguments. `FindAt` shows that the recursive function of
the search exists and obeys its equation; `Ways` splits one step into the five ways it can go. Then,
for any table that is a tree (`TableOK`), by induction on the pieces that are left: the search
ends at a node that covers the path (`Sound`); it does not come back empty-handed from a node on
the way to one that does, if no node has two variable children (`Complete`); the parameters on the
way are bound to the pieces of this path, whatever a failed branch has put into the map, if a name
has one depth (`ParamsBound`); and it ends at the literal node when there is one (`ExactFound`,
which needs no condition on the other routes).

`IInv` says what the tables are: trees in which the node of `/` has no children (`TablesOK`), and
in a blueprint no empty piece. `Stored` says that without blueprints the handler at a route is the
least number of a call for it; `Landed`, that the leaves of a blueprint are at the server as they
were, unless a blueprint came to the same place later. Both survive a step because `handle` keeps
the first (`StoreIs`) and because no two leaves of a blueprint come to one node
(`OneComing`, by which `add_blueprint` overwrites a node with one leaf only; the route `/` of a
blueprint lands at an empty piece, which no route has).

### `MultiPartProofs`

`AlwaysNothingMixed`, `AlwaysRoundTrip`.

The parser sees one symbol at a time; that it reads what was written needs to know where it is.
`Layout`, `PartAt` and `LineIs` compute the encoded body, by induction on the parts: at which
place each header line, the data and the next delimiter of each part begins. `Located`, the heart
of `IInv`, says which symbol of which part the parser looks at, and what the callbacks have
gathered of the headers (`Seen`) and of the data so far (`InData`); every action is one lemma that
takes it to the next symbol. A part begins with the field in `u` that an empty header at the end of
the part before left there (`Left`); `LeftOver` shows that this is what that part leaves
(`Leaves`), whatever was not written between them, and `LostIs` that the part is lost in just the
cases of the specification. `ReadIs` is all that the rest uses of the text of a
Content-Disposition: what is read is held by the text, and is what was written if that is plain;
in particular the parser throws (`Threw`) only where `Agreeable` is false. The hard step is a delimiter that starts and does not go on:
`NearMiss` shows that what was looked at is data, and that the search may go on with the character
which did not fit. It rests on `NoOverlap`: what starts like the delimiter before the data is over
lies wholly in the data and does not reach into the true delimiter, because that has a single CR,
at its beginning; this is what the assumption on `Boundary` is for. Where a delimiter is complete,
`Separable` excludes that it is in the data (`AllData`). The form then grows by one part
(`PartAdded`), also where some were not written.

### Only model-checked

* Liveness (`RequestsEnd`, `UploadsEnd`, `SignalServed`, `StopEnds`, `RequestEnds`, `ParserEnds`):
  fairness and ENABLED are out of reach of the prover.
* What the runs that end in a violation show.

## 6. Not modelled

* Bytes of HTTP, JSON, SQL and URLs, except where a conversion decides something (the
  narrowing to `int`, the encoding of request paths, the eight characters of `crypt`).
* Files longer than one buffer of `sha1File`; sockets in the count of descriptors.
* `HttpFile::send_file` narrows the bounds of a range to `int` and reports an exclusive end in
  Content-Range; ranges are left out, and whether `File` ends in an error is a free choice.
* In wfrest: keep-alive and the header assembled in `message_out`, the lazily filled caches of
  `HttpReq`, cookies, urlencoded forms, JSON, compression, the other conversions in `util/`: code of
  one thread that computes a value from its argument.
* The earlier versions of the cloud disk (steps towards `day12/project`, the same handlers with
  less in them), `my_dayNN/` (copies), demos of single tasks, the login and proxy servers of the
  lessons (see the plan).
* nginx and `json.hpp`. They are vendored, unchanged, and more than nine tenths of the lines under
  `src/`; nothing of the repository's own depends on how they work inside. The share of all lines
  that the models cover is small for that reason.

## 7. Plan

Done: `MUpload`, `CloudDisk`, `Account`, `Router`, `Push` with its refinement, `Reply`,
`MultiPart`, and proofs for all of them.

1. Lesson servers of `day06` and `day08/webserver.cc`: contexts along a series, freed on every
   way out.
2. Abstract specification of an upload ledger (announced, received, complete) that `MUpload`
   implements when ids are not shared and nothing fails.
3. Routes with empty pieces (`/a//b`), and ranges of files beyond an `int`.
