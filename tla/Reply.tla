------------------------------- MODULE Reply -------------------------------
(***************************************************************************)
(* One request in wfrest: HttpServer::process, the aspects around the      *)
(* handler (BluePrint.inl and, for routes without aspects of their own,    *)
(* BluePrint.cc), the operations of HttpResp and HttpFile that build the   *)
(* response, the series of tasks they leave behind, the reply, the         *)
(* callbacks of the HttpServerTask and the callback of the series.         *)
(*                                                                         *)
(* What the operations allocate is freed by those callbacks, and most      *)
(* pieces of the body only point to it.  The steps of one request do not   *)
(* overlap; what varies is which operations a handler calls, in which      *)
(* order, and what fails.                                                  *)
(***************************************************************************)
EXTENDS Naturals, Sequences, FiniteSets

CONSTANTS
  Locals,    \* numbers of aspects that a route may have
  Global,    \* number of global aspects
  MaxFiles,  \* bound: files of a multipart response
  MaxOps,    \* bound: operations a handler calls
  Faults     \* what may fail: "task", "reply"

ASSUME ConstantsAssumption ==
  Locals \subseteq Nat /\ Global \in Nat /\ MaxFiles \in Nat /\ MaxOps \in Nat

VARIABLES
  pc,        \* where the request is
  local,     \* number of aspects of the route; 0 if it was registered without
  compute,   \* the route has a compute queue: the handler is a task
  step,      \* aspects whose before() is done with
  s,         \* what the server task and its series hold, see Init
  replied,   \* the state of the task after the reply: "no", "ok", "failed"
  at,        \* the callback whose turn it is
  \* History, for the properties only.
  ops,       \* operations called, in order
  refused,   \* a before() returned false
  afters,    \* aspects whose after() ran, in order
  again      \* blocks freed when they were already free

vars == <<pc, local, compute, step, s, replied, at, ops, refused, afters, again>>

MayFail(what) == what \in Faults
Outcome(what) == {TRUE} \cup (IF MayFail(what) THEN {FALSE} ELSE {})

\* No block: a piece of the body that was copied, is static or belongs to the
\* message itself.
NoBlock == 0

Init ==
  /\ pc = "process"
  /\ local \in Locals
  /\ compute \in BOOLEAN
  /\ step = 0
  /\ s = [heap |-> <<>>,      \* blocks: what they are for, live, times grown
          body |-> <<>>,      \* pieces: block, and times it had grown
          cbs |-> <<>>,       \* cb_list_
          queue |-> <<>>,     \* tasks of the series
          context |-> NoBlock, encoder |-> NoBlock,  \* set for the series
          request |-> "here", \* the parts of HttpReq that a proxy moves
          userData |-> "none"]
  /\ replied = "no"
  /\ at = 1
  /\ ops = <<>>
  /\ refused = FALSE
  /\ afters = <<>>
  /\ again = {}

(***************************************************************************)
(* The operations, as functions of s.                                      *)
(***************************************************************************)
Top(t) == Len(t.heap)
New(t, what) == [t EXCEPT !.heap = Append(@, [what |-> what, live |-> TRUE, grown |-> 0])]
AddCallback(t, f, b) == [t EXCEPT !.cbs = Append(@, [f |-> f, b |-> b])]
FreeLater(t) == AddCallback(t, "free", Top(t))
AddTask(t, kind, b, last) ==
  [t EXCEPT !.queue = Append(@, [kind |-> kind, b |-> b, last |-> last, holds |-> "none"])]
\* append_output_body_nocopy
Point(t, b) ==
  [t EXCEPT !.body = Append(@, [b |-> b, grown |-> IF b = NoBlock THEN 0 ELSE t.heap[b].grown])]
Grow(t, b) == [t EXCEPT !.heap[b].grown = @ + 1]

\* String, when the text is copied: the block is allocated, freed and not used.
StringCopy(t) == FreeLater(Point(New(t, "string"), NoBlock))

\* String, when the block holds the text: moved or compressed.  Json and Error
\* end here too.
String(t) == LET u == New(t, "string") IN FreeLater(Point(u, Top(u)))
Error(t) == String(t)

\* File: the range is invalid or the file is not there, or a pread is queued.
FileBad(t) == Error(t)
File(t) == LET u == FreeLater(New(t, "buffer")) IN AddTask(u, "pread", Top(u), FALSE)

Save(t) == LET u == New(t, "save") IN FreeLater(AddTask(u, "pwrite", Top(u), FALSE))

\* String(MultiPartEncoder) with n files, of which m are there.  The content is
\* the context of the series, and the task of the n-th file found is the last.
MultiPart(t, n, m) ==
  LET u == New(New(t, "content"), "encoder")
      content == Top(u) - 1
      v == [u EXCEPT !.context = content, !.encoder = Top(u)]
      each == 1 .. m
  IN  IF n = 0 THEN Point(Grow(v, content), content)
      ELSE [v EXCEPT
              !.heap = @ \o [i \in each |-> [what |-> "buffer", live |-> TRUE, grown |-> 0]],
              !.cbs = @ \o [i \in each |-> [f |-> "free", b |-> Top(u) + i]],
              !.queue = @ \o [i \in each |-> [kind |-> "part", b |-> Top(u) + i,
                                              last |-> i = n, holds |-> "none"]]]

\* Http: with a URL that cannot be parsed nobody owns the task and its context.
HttpBad(t) == New(t, "proxy")
Http(t) ==
  LET u == New(t, "proxy")
  IN  [u EXCEPT !.request = "moved",
                !.queue = Append(@, [kind |-> "http", b |-> Top(u), last |-> FALSE,
                                     holds |-> t.request])]

\* MySQL, Redis, Timer and Compute: a task whose callback answers.
Query(t) == AddTask(t, "query", NoBlock, FALSE)

Op == [op : {"copy", "string", "no file", "file", "save", "query", "http", "bad http"},
       n : {0}, m : {0}]
      \cup [op : {"multi"}, n : 0 .. MaxFiles, m : 0 .. MaxFiles]

Do(t, o) ==
  CASE o.op = "copy"     -> StringCopy(t)
    [] o.op = "string"   -> String(t)
    [] o.op = "no file"  -> FileBad(t)
    [] o.op = "file"     -> File(t)
    [] o.op = "save"     -> Save(t)
    [] o.op = "query"    -> Query(t)
    [] o.op = "http"     -> Http(t)
    [] o.op = "bad http" -> HttpBad(t)
    [] o.op = "multi"    -> MultiPart(t, o.n, o.m)

(***************************************************************************)
(* HttpServer::process, and the handler with its aspects.                  *)
(***************************************************************************)
\* No Host header or a URI that cannot be parsed: 400, and no track function.
BadRequest ==
  /\ pc = "process"
  /\ pc' = "series"
  /\ UNCHANGED <<local, compute, step, s, replied, at, ops, refused, afters, again>>

\* No route, or no handler for the verb.
RouteError ==
  /\ pc = "process"
  /\ s' = Error(s)
  /\ pc' = "track"
  /\ UNCHANGED <<local, compute, step, replied, at, ops, refused, afters, again>>

\* The route has no aspects of its own.
Bare == local = 0

\* The wrapped handler copies the aspects of the route.
CallRoute ==
  /\ pc = "process"
  /\ s' = IF Bare THEN s ELSE New(s, "tuple")
  /\ pc' = "before"
  /\ UNCHANGED <<local, compute, step, replied, at, ops, refused, afters, again>>

\* Mutant: a false of a global aspect stops every route.
BeforeStops(ok) ==
  /\ pc = "before"
  /\ step < local + Global
  /\ \E u \in {s.userData, "stored"} : s' = [s EXCEPT !.userData = u]
  /\ refused' = (refused \/ ~ok)
  /\ IF ok THEN step' = step + 1 /\ UNCHANGED pc
     ELSE pc' = "track" /\ UNCHANGED step
  /\ UNCHANGED <<local, compute, replied, at, ops, afters, again>>

\* before() of the next aspect, first those of the route.  One of them may keep
\* something in user_data.  What a global aspect returns is ignored on a route
\* that has no aspects of its own.
Before(ok) ==
  /\ pc = "before"
  /\ step < local + Global
  /\ \E u \in {s.userData, "stored"} : s' = [s EXCEPT !.userData = u]
  /\ refused' = (refused \/ ~ok)
  /\ IF ok \/ Bare THEN step' = step + 1 /\ UNCHANGED pc
     ELSE pc' = "track" /\ UNCHANGED step
  /\ UNCHANGED <<local, compute, replied, at, ops, afters, again>>

\* The tuple of aspects is the first block of a request that found its route.
Tuple == 1

\* after() of the aspects, if there are any.
AfterLater(t) ==
  IF ~Bare THEN AddCallback(t, "after", Tuple)
  ELSE IF Global # 0 THEN AddCallback(t, "after", NoBlock) ELSE t

\* A compute handler is a task, and after() is registered before it runs.
Enter ==
  /\ pc = "before"
  /\ step = local + Global
  /\ IF compute
     THEN /\ pc' = "track"
          /\ s' = AfterLater(AddTask(s, "go", NoBlock, FALSE))
     ELSE pc' = "handler" /\ UNCHANGED s
  /\ UNCHANGED <<local, compute, step, replied, at, ops, refused, afters, again>>

Operation(o) ==
  /\ pc = "handler"
  /\ Len(ops) < MaxOps
  /\ o.m <= o.n
  /\ s' = Do(s, o)
  /\ ops' = Append(ops, o)
  /\ UNCHANGED <<pc, local, compute, step, replied, at, refused, afters, again>>

HandlerReturns ==
  /\ pc = "handler"
  /\ IF compute THEN pc' = "series" /\ UNCHANGED s
     ELSE pc' = "track" /\ s' = AfterLater(s)
  /\ UNCHANGED <<local, compute, step, replied, at, ops, refused, afters, again>>

\* The end of process: the track function, if there is one.
Track ==
  /\ pc = "track"
  /\ s' \in {s, AddCallback(s, "track", NoBlock)}
  /\ pc' = "series"
  /\ UNCHANGED <<local, compute, step, replied, at, ops, refused, afters, again>>

(***************************************************************************)
(* The tasks of the series, one after the other, and their callbacks.      *)
(***************************************************************************)
\* Mutants: the callback frees the buffer; a read that failed is tried again.
PreadDoneFrees(t, task, ok) ==
  IF ok THEN [Point(t, task.b) EXCEPT !.heap[task.b].live = FALSE] ELSE Error(t)
PreadDoneRetries(t, task, ok) ==
  IF ok THEN Point(t, task.b) ELSE AddTask(t, "pread", task.b, FALSE)

PreadDone(t, task, ok) == IF ok THEN Point(t, task.b) ELSE Error(t)

\* The message is the caller's, kept in the context, or a literal.
PwriteDone(t, task, ok) ==
  IF ok THEN {Point(t, task.b), Point(t, NoBlock)} ELSE {Error(t)}

\* Mutant: a last part that could not be read does not send the content.
PartDoneOnlyRead(t, task, ok) ==
  IF ~ok THEN t
  ELSE LET u == Grow(t, t.context) IN IF task.last THEN Point(u, t.context) ELSE u

\* A part is appended to the content, and with the last one the content is sent.
PartDone(t, task, ok) ==
  LET u == IF ok THEN Grow(t, t.context) ELSE t
  IN  IF task.last THEN Point(Grow(u, t.context), t.context) ELSE u

\* Mutants: after a failure the request is not moved back; or the context is kept.
HttpDoneKeeps(t, task, ok) ==
  IF ok THEN [AddCallback(t, "free", task.b) EXCEPT !.request = task.holds]
  ELSE AddCallback(Error(t), "free", task.b)
HttpDoneLeaks(t, task, ok) ==
  IF ok THEN [AddCallback(t, "free", task.b) EXCEPT !.request = task.holds]
  ELSE [Error(t) EXCEPT !.request = task.holds]

\* proxy_http_callback: the response is replaced by the one that was fetched, and
\* its user_data by that of a HttpResp whose constructor did not set it.
HttpDone(t, task, ok) ==
  LET u == IF ok THEN [AddCallback(t, "check", task.b) EXCEPT
                         !.body = <<[b |-> NoBlock, grown |-> 0]>>,
                         !.userData = IF @ = "stored" THEN "lost" ELSE @]
           ELSE Error(t)
  IN  [AddCallback(u, "free", task.b) EXCEPT !.request = task.holds]

TaskDone(ok) ==
  /\ pc = "series"
  /\ s.queue # <<>>
  /\ LET task == Head(s.queue)
         t == [s EXCEPT !.queue = Tail(@)]
     IN  /\ s' \in CASE task.kind = "go"     -> {t}
                     [] task.kind = "pread"  -> {PreadDone(t, task, ok)}
                     [] task.kind = "pwrite" -> PwriteDone(t, task, ok)
                     [] task.kind = "part"   -> {PartDone(t, task, ok)}
                     [] task.kind = "http"   -> {HttpDone(t, task, ok)}
                     [] task.kind = "query"  -> {t, String(t)}
         /\ pc' = IF task.kind = "go" THEN "handler" ELSE "series"
  /\ UNCHANGED <<local, compute, step, replied, at, ops, refused, afters, again>>

\* The last task of the series is the server task: it sends the response.
SendReply(ok) ==
  /\ pc = "series"
  /\ s.queue = <<>>
  /\ replied' = IF ok THEN "ok" ELSE "failed"
  /\ pc' = "callbacks"
  /\ UNCHANGED <<local, compute, step, s, at, ops, refused, afters, again>>

(***************************************************************************)
(* The callbacks of the server task, in the order they were added, then    *)
(* that of the series.                                                     *)
(***************************************************************************)
Free(B) ==
  /\ s' = [s EXCEPT !.heap = [b \in DOMAIN s.heap |->
                               IF b \in B THEN [s.heap[b] EXCEPT !.live = FALSE]
                               ELSE s.heap[b]]]
  /\ again' = again \cup {b \in B : ~s.heap[b].live}

FreeCallback ==
  /\ s.cbs[at].f = "free"
  /\ Free({s.cbs[at].b})
  /\ at' = at + 1
  /\ UNCHANGED <<pc, afters>>

\* after() of the aspects of the route, up to the first that returns false, then
\* of the global ones.
AfterCallback ==
  /\ s.cbs[at].f = "after"
  /\ \E k \in IF Bare THEN {0} ELSE 1 .. local :
       afters' = afters \o [i \in 1 .. k |-> i] \o [i \in 1 .. Global |-> local + i]
  /\ Free({s.cbs[at].b} \ {NoBlock})
  /\ at' = at + 1
  /\ UNCHANGED pc

TrackCallback ==
  /\ s.cbs[at].f = "track"
  /\ at' = at + 1
  /\ UNCHANGED <<s, again, afters, pc>>

\* A proxy looks at what became of the reply; if it failed, Error adds a callback
\* to the vector that is being walked, and anything may happen.
CheckCallback ==
  /\ s.cbs[at].f = "check"
  /\ IF replied = "failed" THEN s' = Error(s) /\ pc' = "undefined" /\ UNCHANGED at
     ELSE at' = at + 1 /\ UNCHANGED <<s, pc>>
  /\ UNCHANGED <<afters, again>>

Callback ==
  /\ pc = "callbacks"
  /\ at <= Len(s.cbs)
  /\ FreeCallback \/ AfterCallback \/ TrackCallback \/ CheckCallback
  /\ UNCHANGED <<local, compute, step, replied, ops, refused>>

SeriesCallback ==
  /\ pc = "callbacks"
  /\ at > Len(s.cbs)
  /\ Free({s.context, s.encoder} \ {NoBlock})
  /\ pc' = "ended"
  /\ UNCHANGED <<local, compute, step, replied, at, ops, refused, afters>>

Proceed ==
  \/ BadRequest \/ RouteError \/ CallRoute
  \/ (\E ok \in BOOLEAN : Before(ok)) \/ Enter
  \/ HandlerReturns \/ Track
  \/ (\E ok \in Outcome("task") : TaskDone(ok))
  \/ (\E ok \in Outcome("reply") : SendReply(ok))
  \/ Callback \/ SeriesCallback

Next == Proceed \/ \E o \in Op : Operation(o)

Spec == Init /\ [][Next]_vars

\* The server thread and Workflow get on, and a handler returns.
FairSpec == Spec /\ WF_vars(Proceed)

-----------------------------------------------------------------------------
(***************************************************************************)
(* Properties.                                                             *)
(***************************************************************************)
Called(name) == {i \in DOMAIN ops : ops[i].op = name}
Once(name) == Cardinality(Called(name)) <= 1

\* Until the response has been sent every piece of its body points to memory that
\* is still there and has not moved, whatever the handler called and whatever
\* failed, if it sent at most one multipart body: the second takes the
\* context of the series from the first.
BodyAlive ==
  replied = "no" /\ Once("multi") =>
    \A i \in DOMAIN s.body :
      LET p == s.body[i]
      IN  p.b # NoBlock => s.heap[p.b].live /\ s.heap[p.b].grown = p.grown

\* What may still be allocated when a request is over: the aspects of a
\* request that was refused, the context of a proxy whose URL was bad, and what
\* a second multipart body made the series forget.
Leaks ==
  (IF refused THEN {"tuple"} ELSE {}) \cup
  (IF Called("bad http") # {} THEN {"proxy"} ELSE {}) \cup
  (IF Once("multi") THEN {} ELSE {"content", "encoder"})

\* Every block is freed exactly once, but for those leaks.
FreedOnce ==
  /\ again = {}
  /\ pc = "ended" => \A b \in DOMAIN s.heap : s.heap[b].live => s.heap[b].what \in Leaks

\* When the callbacks run, after() and the track function among them, the request
\* is complete again, if the handler called at most one proxy.
RequestBack == replied # "no" /\ Once("http") => s.request = "here"

\* A multipart body is sent, after whatever was read of its files, unless a file
\* was missing or a proxy replaced the response.
MultiPartSent ==
  \A i \in Called("multi") :
    /\ replied # "no"
    /\ Once("multi")
    /\ ops[i].m = ops[i].n
    /\ Called("http") = {}
    => \E j \in DOMAIN s.body : s.body[j].b # NoBlock /\ s.body[j].b = s.context

\* after() runs once per request, after the reply and when every before() was
\* called.  On a route with aspects of its own, a before() that returns false keeps
\* the request from the handler and from after(); on one without, the handler and
\* the after() of the global aspects run all the same.  The global aspects have
\* their turn although an aspect of the route returned false.
AfterOnce ==
  /\ afters # <<>> => replied # "no" /\ step = local + Global
  /\ \A i, j \in DOMAIN afters : i < j => afters[i] < afters[j]
  /\ ~Bare /\ refused => ops = <<>> /\ afters = <<>>
  /\ pc = "ended" /\ (step = local + Global \/ (Bare /\ refused)) =>
       \A g \in local + 1 .. local + Global : \E i \in DOMAIN afters : afters[i] = g

\* Every request comes to its end; only the reply of a proxy that could not be
\* delivered may end otherwise, in the list of callbacks that changed while it was
\* walked.
RequestEnds ==
  <>(pc = "ended" \/ (pc = "undefined" /\ replied = "failed" /\ Called("http") # {}))

\* What docs/aop.md says: what before() stored in user_data can be deleted in
\* after().
UserDataKept == replied # "no" => s.userData # "lost"
=============================================================================
