---------------------------- MODULE ReplyProofs ----------------------------
(***************************************************************************)
(* Proofs about Reply, for any number of aspects, files and operations.    *)
(*                                                                         *)
(* A request has two phases.  Until the reply nothing is freed, and what   *)
(* is built has to be accounted for: every block has exactly one owner, a  *)
(* callback, a task of the series that will add one, or the series itself. *)
(* After the reply the callbacks are walked, and those from `at' on own    *)
(* what is still alive.                                                    *)
(***************************************************************************)
EXTENDS Reply, Integers, FiniteSetTheorems, TLAPS

Kind == {"string", "buffer", "save", "content", "encoder", "proxy", "tuple"}
Temp == {"string", "buffer", "save", "proxy"}
Block == [what : Kind, live : BOOLEAN, grown : Nat]
Piece == [b : Nat, grown : Nat]
Cb == [f : {"free", "after", "track", "check"}, b : Nat]
TaskKind == {"go", "pread", "pwrite", "part", "http", "query"}
Task == [kind : TaskKind, b : Nat, last : BOOLEAN, holds : {"none", "here", "moved"}]
Where == {"here", "moved"}
Store == {"none", "stored", "lost"}
Heaps == Seq(Block)
Bodies == Seq(Piece)
Cbs == Seq(Cb)
Queues == Seq(Task)
Data == [heap : Heaps, body : Bodies, cbs : Cbs, queue : Queues, context : Nat,
         encoder : Nat, request : Where, userData : Store]

Unreplied == {"process", "before", "handler", "track", "series"}

TypeOK ==
  /\ pc \in Unreplied \cup {"callbacks", "ended", "undefined"}
  /\ local \in Nat /\ compute \in BOOLEAN /\ refused \in BOOLEAN
  /\ step \in 0 .. local + Global
  /\ s \in Data
  /\ replied \in {"no", "ok", "failed"}
  /\ at \in Nat \ {0}
  /\ ops \in Seq(Op)
  /\ afters \in Seq(Nat)

\* Where the request is says whether the reply was sent, and then no task is left.
CourseOK ==
  /\ replied = "no" <=> pc \in Unreplied
  /\ replied = "no" => at = 1
  /\ replied # "no" => s.queue = <<>>
  /\ pc = "process" => /\ s.heap = <<>> /\ s.cbs = <<>> /\ s.queue = <<>> /\ s.body = <<>>
                       /\ ops = <<>>
  /\ pc = "undefined" => replied = "failed" /\ Called("http") # {}
  /\ pc = "ended" => at > Len(s.cbs)

\* What is only there because an operation was called.
CallsOK(t) ==
  /\ \A i \in 1 .. Len(t.cbs) : t.cbs[i].f = "check" => Called("http") # {}
  /\ \A i \in 1 .. Len(t.queue) :
       t.queue[i].kind = "http" => Called("http") # {} /\ t.queue[i].holds \in Where
  /\ \A i \in 1 .. Len(t.queue) : t.queue[i].kind = "part" => Called("multi") # {}
  /\ Called("multi") = {} => t.context = NoBlock /\ t.encoder = NoBlock

\* The parts of the request that a proxy moved are in its task.
RequestOK(t) ==
  /\ Called("http") = {} => t.request = "here"
  /\ Once("http") =>
       /\ t.request = "moved" => \E i \in 1 .. Len(t.queue) : t.queue[i].kind = "http"
       /\ \A i \in 1 .. Len(t.queue) :
            t.queue[i].kind = "http" => t.queue[i].holds = "here"
       /\ \A i, j \in 1 .. Len(t.queue) :
            t.queue[i].kind = "http" /\ t.queue[j].kind = "http" => i = j

\* The aspects: after() is registered once, and only when every before() was called.
IsAfter(t, i) == t.cbs[i].f = "after"
Registered == pc \notin {"process", "before"} /\ (compute \/ pc # "handler")

AfterOK ==
  /\ pc = "process" => step = 0
  /\ pc = "handler" => step = local + Global
  /\ refused /\ local # 0 => step < local + Global
  /\ \A i \in 1 .. Len(s.queue) :
       s.queue[i].kind = "go" => compute /\ step = local + Global /\ Registered
  /\ \A i \in 1 .. Len(s.cbs) :
       IsAfter(s, i) => /\ Registered /\ step = local + Global
                        /\ s.cbs[i].b = IF local = 0 THEN NoBlock ELSE Tuple
  /\ \A i, j \in 1 .. Len(s.cbs) : IsAfter(s, i) /\ IsAfter(s, j) => i = j
  /\ Registered /\ step = local + Global /\ step > 0 =>
       \E i \in 1 .. Len(s.cbs) : IsAfter(s, i)

AftersOK ==
  /\ afters # <<>> => replied # "no" /\ \E i \in 1 .. Len(s.cbs) : i < at /\ IsAfter(s, i)
  /\ \A i, j \in 1 .. Len(afters) : i < j => afters[i] < afters[j]
  /\ \A i \in 1 .. Len(s.cbs) : i < at /\ IsAfter(s, i) =>
       \A g \in local + 1 .. local + Global : \E k \in 1 .. Len(afters) : afters[k] = g

\* Who frees what: after() has nothing to free on a route without own aspects.
Owns(t, i) == t.cbs[i].f = "free" \/ (t.cbs[i].f = "after" /\ local # 0)

OwnersOK(t) ==
  /\ \A i \in 1 .. Len(t.cbs) : Owns(t, i) =>
       /\ t.cbs[i].b \in 1 .. Len(t.heap)
       /\ t.heap[t.cbs[i].b].what \in IF IsAfter(t, i) THEN {"tuple"} ELSE Temp
  /\ \A i, j \in 1 .. Len(t.cbs) :
       Owns(t, i) /\ Owns(t, j) /\ t.cbs[i].b = t.cbs[j].b => i = j
  /\ t.context # NoBlock =>
       t.context \in 1 .. Len(t.heap) /\ t.heap[t.context].what = "content"
  /\ t.encoder # NoBlock =>
       t.encoder \in 1 .. Len(t.heap) /\ t.heap[t.encoder].what = "encoder"

\* What a task of the series points to.
PointsTo(kind) ==
  IF kind = "pread" THEN "buffer" ELSE IF kind = "pwrite" THEN "save" ELSE "proxy"

TasksOK(t) ==
  /\ \A i \in 1 .. Len(t.queue) : t.queue[i].kind \in {"pread", "pwrite", "http"} =>
       /\ t.queue[i].b \in 1 .. Len(t.heap)
       /\ t.heap[t.queue[i].b].what = PointsTo(t.queue[i].kind)
  /\ \A i \in 1 .. Len(t.queue) : t.queue[i].kind = "part" => t.context # NoBlock
  /\ \A i, j \in 1 .. Len(t.queue) :
       t.queue[i].kind = "http" /\ t.queue[j].kind = "http" /\ t.queue[i].b = t.queue[j].b
         => i = j
  /\ \A i \in 1 .. Len(t.queue), j \in 1 .. Len(t.cbs) :
       t.queue[i].kind = "http" /\ Owns(t, j) => t.queue[i].b # t.cbs[j].b

\* The tuple of aspects is the first block, and waits for its callback.
Going(t) == \E i \in 1 .. Len(t.queue) : t.queue[i].kind = "go"

TupleOK ==
  /\ \A b \in 1 .. Len(s.heap) : s.heap[b].what = "tuple" => b = Tuple /\ local # 0
  /\ local # 0 /\ (pc \in {"before", "handler"} \/ Going(s)) =>
       Len(s.heap) > 0 /\ s.heap[Tuple].what = "tuple"
  /\ pc = "process" \/ (pc = "before" /\ local # 0) => ~refused

Pending(t, b) == t.heap[b].what = "tuple" /\ ~Registered
ByCb(t, b) == \E i \in at .. Len(t.cbs) : Owns(t, i) /\ t.cbs[i].b = b
ByTask(t, b) == \E i \in 1 .. Len(t.queue) : t.queue[i].kind = "http" /\ t.queue[i].b = b

LiveOK ==
  /\ replied = "no" => \A b \in 1 .. Len(s.heap) : s.heap[b].live
  /\ \A i \in at .. Len(s.cbs) : Owns(s, i) => s.heap[s.cbs[i].b].live
  /\ pc # "ended" /\ s.context # NoBlock => s.heap[s.context].live
  /\ pc # "ended" /\ s.encoder # NoBlock => s.heap[s.encoder].live
  /\ again = {}

Accounted(t, b) ==
  \/ t.heap[b].what \in Leaks
  \/ ByCb(t, b)
  \/ ByTask(t, b)
  \/ Pending(t, b)
  \/ pc # "ended" /\ b \in {t.context, t.encoder}

AccountedOK == \A b \in 1 .. Len(s.heap) : s.heap[b].live => Accounted(s, b)

\* The pieces of the body, until the reply: no part is still to be appended to a
\* content that was sent.
BodyOK(t) ==
  Once("multi") =>
    /\ \A i \in 1 .. Len(t.body) : t.body[i].b # NoBlock =>
         /\ t.body[i].b \in 1 .. Len(t.heap)
         /\ t.heap[t.body[i].b].grown = t.body[i].grown
         /\ t.body[i].b = t.context =>
              \A j \in 1 .. Len(t.queue) : t.queue[j].kind # "part"
    /\ \A i, j \in 1 .. Len(t.queue) :
         i < j /\ t.queue[i].kind = "part" /\ t.queue[j].kind = "part" => ~t.queue[i].last

SentOK(t) ==
  \A i \in Called("multi") :
    Once("multi") /\ ops[i].m = ops[i].n /\ Called("http") = {} =>
      \/ \E j \in 1 .. Len(t.body) : t.body[j].b # NoBlock /\ t.body[j].b = t.context
      \/ \E j \in 1 .. Len(t.queue) : t.queue[j].kind = "part" /\ t.queue[j].last

IInv ==
  /\ TypeOK /\ CourseOK /\ CallsOK(s) /\ RequestOK(s) /\ AfterOK /\ AftersOK
  /\ OwnersOK(s) /\ TasksOK(s) /\ TupleOK /\ LiveOK /\ AccountedOK
  /\ (replied = "no" => BodyOK(s)) /\ SentOK(s)

-----------------------------------------------------------------------------
(***************************************************************************)
(* The operations, by what they do to each field.                          *)
(***************************************************************************)
NewBlock(w) == [what |-> w, live |-> TRUE, grown |-> 0]

LEMMA NewIs ==
  ASSUME NEW t \in Data, NEW w \in Kind
  PROVE  /\ New(t, w) \in Data
         /\ New(t, w).heap = Append(t.heap, NewBlock(w))
         /\ New(t, w).body = t.body /\ New(t, w).cbs = t.cbs /\ New(t, w).queue = t.queue
         /\ New(t, w).context = t.context /\ New(t, w).encoder = t.encoder
         /\ New(t, w).request = t.request
<1>1. NewBlock(w) \in Block
  BY DEF NewBlock, Block
<1>2. t.heap \in Heaps
  BY DEF Data
<1>3. Append(t.heap, NewBlock(w)) \in Heaps
  BY <1>1, <1>2 DEF Heaps
<1>4. New(t, w) = [t EXCEPT !.heap = Append(t.heap, NewBlock(w))]
  BY DEF New, NewBlock
<1> QED BY <1>3, <1>4 DEF Data

LEMMA AddCallbackIs ==
  ASSUME NEW t \in Data, NEW f \in {"free", "after", "track", "check"}, NEW b \in Nat
  PROVE  /\ AddCallback(t, f, b) \in Data
         /\ AddCallback(t, f, b).cbs = Append(t.cbs, [f |-> f, b |-> b])
         /\ AddCallback(t, f, b).heap = t.heap /\ AddCallback(t, f, b).body = t.body
         /\ AddCallback(t, f, b).queue = t.queue /\ AddCallback(t, f, b).context = t.context
         /\ AddCallback(t, f, b).encoder = t.encoder
         /\ AddCallback(t, f, b).request = t.request
<1>1. [f |-> f, b |-> b] \in Cb
  BY DEF Cb
<1>2. t.cbs \in Cbs
  BY DEF Data
<1>3. Append(t.cbs, [f |-> f, b |-> b]) \in Cbs
  BY <1>1, <1>2 DEF Cbs
<1> QED BY <1>3 DEF Data, AddCallback

LEMMA AddTaskIs ==
  ASSUME NEW t \in Data, NEW kind \in TaskKind, NEW b \in Nat, NEW last \in BOOLEAN
  PROVE  LET task == [kind |-> kind, b |-> b, last |-> last, holds |-> "none"]
             u == AddTask(t, kind, b, last)
         IN  /\ u \in Data /\ u.queue = Append(t.queue, task)
             /\ u.heap = t.heap /\ u.body = t.body /\ u.cbs = t.cbs
             /\ u.context = t.context /\ u.encoder = t.encoder /\ u.request = t.request
<1> DEFINE task == [kind |-> kind, b |-> b, last |-> last, holds |-> "none"]
<1>1. task \in Task
  BY DEF Task
<1>2. t.queue \in Queues
  BY DEF Data
<1>3. Append(t.queue, task) \in Queues
  BY <1>1, <1>2 DEF Queues
<1>4. AddTask(t, kind, b, last) = [t EXCEPT !.queue = Append(t.queue, task)]
  BY DEF AddTask
<1> HIDE DEF task
<1>5. LET u == AddTask(t, kind, b, last)
      IN  /\ u \in Data /\ u.queue = Append(t.queue, task)
          /\ u.heap = t.heap /\ u.body = t.body /\ u.cbs = t.cbs
          /\ u.context = t.context /\ u.encoder = t.encoder /\ u.request = t.request
  BY <1>3, <1>4 DEF Data
<1> QED BY <1>5 DEF task

LEMMA PointIs ==
  ASSUME NEW t \in Data, NEW b \in {NoBlock} \cup 1 .. Len(t.heap)
  PROVE  \E g \in Nat :
           /\ Point(t, b) \in Data
           /\ Point(t, b).body = Append(t.body, [b |-> b, grown |-> g])
           /\ b # NoBlock => g = t.heap[b].grown
           /\ Point(t, b).heap = t.heap /\ Point(t, b).cbs = t.cbs
           /\ Point(t, b).queue = t.queue /\ Point(t, b).context = t.context
           /\ Point(t, b).encoder = t.encoder /\ Point(t, b).request = t.request
<1> DEFINE g == IF b = NoBlock THEN 0 ELSE t.heap[b].grown
<1>1. g \in Nat
  <2>1. t.heap \in Heaps
    BY DEF Data
  <2>2. b # NoBlock => t.heap[b] \in Block
    BY <2>1 DEF Heaps
  <2> QED BY <2>2 DEF Block
<1>2. b # NoBlock => g = t.heap[b].grown
  OBVIOUS
<1>3. Point(t, b) = [t EXCEPT !.body = Append(t.body, [b |-> b, grown |-> g])]
  BY DEF Point
<1> HIDE DEF g
<1>4. [b |-> b, grown |-> g] \in Piece
  BY <1>1 DEF Piece, NoBlock
<1>5. Append(t.body, [b |-> b, grown |-> g]) \in Bodies
  <2>1. t.body \in Bodies
    BY DEF Data
  <2> QED BY <1>4, <2>1 DEF Bodies
<1> QED BY <1>1, <1>2, <1>3, <1>5 DEF Data

\* Only the times that a block has grown change.
Grown(h, g, b) ==
  /\ g \in Heaps /\ Len(g) = Len(h)
  /\ \A c \in 1 .. Len(h) : /\ g[c].what = h[c].what /\ g[c].live = h[c].live
                            /\ c # b => g[c] = h[c]

LEMMA GrowIs ==
  ASSUME NEW t \in Data, NEW b \in 1 .. Len(t.heap)
  PROVE  /\ Grow(t, b) \in Data /\ Grown(t.heap, Grow(t, b).heap, b)
         /\ Grow(t, b).body = t.body /\ Grow(t, b).cbs = t.cbs
         /\ Grow(t, b).queue = t.queue /\ Grow(t, b).context = t.context
         /\ Grow(t, b).encoder = t.encoder /\ Grow(t, b).request = t.request
<1> DEFINE x == [t.heap[b] EXCEPT !.grown = @ + 1]
           h == [t.heap EXCEPT ![b] = x]
<1>1. t.heap \in Seq(Block)
  BY DEF Data, Heaps
<1>2. t.heap[b] \in Block
  BY <1>1
<1>3. x \in Block /\ x.what = t.heap[b].what /\ x.live = t.heap[b].live
  BY <1>2 DEF Block
<1>4. Grow(t, b) = [t EXCEPT !.heap = h]
  BY DEF Grow
<1> HIDE DEF x
<1>5. /\ h \in Seq(Block) /\ Len(h) = Len(t.heap)
      /\ \A c \in 1 .. Len(t.heap) : h[c] = IF c = b THEN x ELSE t.heap[c]
  BY <1>1, <1>3
<1> HIDE DEF h
<1>6. Grown(t.heap, h, b)
  BY <1>3, <1>5 DEF Grown, Heaps
<1> QED BY <1>4, <1>5, <1>6 DEF Data, Heaps

-----------------------------------------------------------------------------
(***************************************************************************)
(* What every operation has in common: it appends, and what it appends is  *)
(* owned, in any state t it is called in.                                  *)
(***************************************************************************)
Prefix(a, b) == Len(a) <= Len(b) /\ \A i \in 1 .. Len(a) : b[i] = a[i]
Added(a, b, x) == Len(b) = Len(a) + 1 /\ Prefix(a, b) /\ b[Len(a) + 1] = x

LEMMA Appended ==
  ASSUME NEW S, NEW a \in Seq(S), NEW x \in S
  PROVE  Added(a, Append(a, x), x)
BY DEF Added, Prefix

LEMMA PrefixSelf ==
  ASSUME NEW S, NEW a \in Seq(S)
  PROVE  Prefix(a, a)
BY DEF Prefix

Fresh(t, u) == Len(t.heap) + 1 .. Len(u.heap)
NewCb(t, u) == Len(t.cbs) + 1 .. Len(u.cbs)
NewTask(t, u) == Len(t.queue) + 1 .. Len(u.queue)
NewPiece(t, u) == Len(t.body) + 1 .. Len(u.body)

NewHeap(t, u) ==
  /\ Prefix(t.heap, u.heap)
  /\ \A b \in Fresh(t, u) : u.heap[b].live /\ u.heap[b].what # "tuple"

NewCbs(t, u) ==
  /\ Prefix(t.cbs, u.cbs)
  /\ \A i \in NewCb(t, u) :
       u.cbs[i].f = "free" /\ u.cbs[i].b \in Fresh(t, u) /\ u.heap[u.cbs[i].b].what \in Temp
  /\ \A i, j \in NewCb(t, u) : u.cbs[i].b = u.cbs[j].b => i = j

NewQueue(t, u) ==
  /\ Prefix(t.queue, u.queue)
  /\ \A i \in NewTask(t, u) :
       /\ u.queue[i].kind \in TaskKind \ {"go"}
       /\ u.queue[i].kind \in {"pread", "pwrite", "http"} =>
            /\ u.queue[i].b \in Fresh(t, u)
            /\ u.heap[u.queue[i].b].what = PointsTo(u.queue[i].kind)
       /\ u.queue[i].kind = "http" => Len(u.queue) = Len(t.queue) + 1 /\ u.cbs = t.cbs
       /\ u.queue[i].kind = "part" => u.context # NoBlock

NewBody(t, u) ==
  /\ Prefix(t.body, u.body)
  /\ \A i \in NewPiece(t, u) : u.body[i].b # NoBlock =>
       u.body[i].b \in Fresh(t, u) /\ u.heap[u.body[i].b].grown = u.body[i].grown

NewContext(t, u) ==
  \/ u.context = t.context /\ u.encoder = t.encoder
  \/ /\ u.context \in Fresh(t, u) /\ u.heap[u.context].what = "content"
     /\ u.encoder \in Fresh(t, u) /\ u.heap[u.encoder].what = "encoder"

NewOwned(t, u, lost) ==
  \A b \in Fresh(t, u) :
    \/ u.heap[b].what \in lost
    \/ \E i \in NewCb(t, u) : u.cbs[i].b = b
    \/ \E i \in NewTask(t, u) : u.queue[i].kind = "http" /\ u.queue[i].b = b
    \/ b \in {u.context, u.encoder}

Extends(t, u, lost) ==
  /\ u \in Data
  /\ NewHeap(t, u) /\ NewCbs(t, u) /\ NewQueue(t, u) /\ NewBody(t, u)
  /\ NewContext(t, u) /\ NewOwned(t, u, lost)

\* Neither a proxy nor a multipart body.
Plain(t, u) ==
  /\ u.request = t.request /\ u.context = t.context /\ u.encoder = t.encoder
  /\ \A i \in NewTask(t, u) : u.queue[i].kind \notin {"http", "part"}

LEMMA FieldsOf ==
  ASSUME NEW t \in Data
  PROVE  /\ t.heap \in Seq(Block) /\ t.cbs \in Seq(Cb) /\ t.queue \in Seq(Task)
         /\ t.body \in Seq(Piece) /\ Len(t.heap) \in Nat /\ Len(t.cbs) \in Nat
         /\ Len(t.queue) \in Nat /\ Len(t.body) \in Nat
         /\ t.context \in Nat /\ t.encoder \in Nat /\ t.request \in Where
BY DEF Data, Heaps, Cbs, Queues, Bodies

\* String, Json and Error: a block that holds the text or is not used.
StringLike(t, u) ==
  /\ u \in Data
  /\ Added(t.heap, u.heap, NewBlock("string"))
  /\ Added(t.cbs, u.cbs, [f |-> "free", b |-> Len(t.heap) + 1])
  /\ \E b \in {NoBlock, Len(t.heap) + 1}, g \in Nat :
       Added(t.body, u.body, [b |-> b, grown |-> g]) /\ (b # NoBlock => g = 0)
  /\ u.queue = t.queue /\ u.context = t.context /\ u.encoder = t.encoder
  /\ u.request = t.request

LEMMA StringEffect ==
  ASSUME NEW t \in Data, NEW where \in {NoBlock, Len(t.heap) + 1}
  PROVE  StringLike(t, FreeLater(Point(New(t, "string"), where)))
<1> DEFINE u == New(t, "string")
           v == Point(u, where)
           w == FreeLater(v)
<1>0. "string" \in Kind /\ NewBlock("string") \in Block /\ NewBlock("string").grown = 0
  BY DEF Kind, NewBlock, Block
<1>1. /\ u \in Data /\ u.heap = Append(t.heap, NewBlock("string"))
      /\ u.body = t.body /\ u.cbs = t.cbs /\ u.queue = t.queue
      /\ u.context = t.context /\ u.encoder = t.encoder /\ u.request = t.request
  BY <1>0, NewIs
<1>2. Added(t.heap, u.heap, NewBlock("string"))
  BY <1>0, <1>1, FieldsOf, Appended
<1> HIDE DEF u
<1>3. Len(u.heap) = Len(t.heap) + 1 /\ u.heap[Len(u.heap)] = NewBlock("string")
  BY <1>2 DEF Added
<1>4. Len(t.heap) \in Nat
  BY FieldsOf
<1>5. where \in {NoBlock} \cup 1 .. Len(u.heap) /\ (where # NoBlock => where = Len(u.heap))
  BY <1>3, <1>4
<1>6. PICK g \in Nat :
        /\ v \in Data /\ v.body = Append(u.body, [b |-> where, grown |-> g])
        /\ where # NoBlock => g = u.heap[where].grown
        /\ v.heap = u.heap /\ v.cbs = u.cbs /\ v.queue = u.queue
        /\ v.context = u.context /\ v.encoder = u.encoder /\ v.request = u.request
  BY <1>1, <1>5, PointIs, SMTT(60)
<1>7. where # NoBlock => g = 0
  BY <1>0, <1>3, <1>5, <1>6
<1>8. Added(t.body, v.body, [b |-> where, grown |-> g])
  <2>1. [b |-> where, grown |-> g] \in Piece
    BY <1>4 DEF Piece, NoBlock
  <2> QED BY <1>1, <1>6, <2>1, FieldsOf, Appended
<1> HIDE DEF v
<1>9. w = AddCallback(v, "free", Len(u.heap)) /\ Len(u.heap) \in Nat
  BY <1>3, <1>4, <1>6 DEF FreeLater, Top
<1> HIDE DEF w
<1>10. /\ w \in Data /\ w.cbs = Append(v.cbs, [f |-> "free", b |-> Len(u.heap)])
       /\ w.heap = v.heap /\ w.body = v.body /\ w.queue = v.queue
       /\ w.context = v.context /\ w.encoder = v.encoder /\ w.request = v.request
  BY <1>6, <1>9, AddCallbackIs
<1>11. Added(t.cbs, w.cbs, [f |-> "free", b |-> Len(t.heap) + 1])
  <2>1. [f |-> "free", b |-> Len(t.heap) + 1] \in Cb
    BY <1>4 DEF Cb
  <2> QED BY <1>1, <1>3, <1>6, <1>10, <2>1, FieldsOf, Appended
<1>12. StringLike(t, w)
  BY <1>1, <1>2, <1>6, <1>7, <1>8, <1>10, <1>11 DEF StringLike
<1> QED BY <1>12 DEF u, v, w

LEMMA StringExtends ==
  ASSUME NEW t \in Data, NEW u, StringLike(t, u)
  PROVE  Extends(t, u, {}) /\ Plain(t, u)
<1> DEFINE L == Len(t.heap)
<1>0. /\ t.queue \in Seq(Task) /\ L \in Nat /\ Len(t.cbs) \in Nat /\ Len(t.body) \in Nat
      /\ Len(t.queue) \in Nat
  BY FieldsOf
<1>1. /\ u \in Data /\ u.queue = t.queue /\ u.context = t.context /\ u.encoder = t.encoder
  BY DEF StringLike
<1>2. /\ Len(u.heap) = L + 1 /\ Prefix(t.heap, u.heap) /\ u.heap[L + 1] = NewBlock("string")
      /\ Len(u.cbs) = Len(t.cbs) + 1 /\ Prefix(t.cbs, u.cbs)
      /\ u.cbs[Len(t.cbs) + 1] = [f |-> "free", b |-> L + 1]
  BY DEF StringLike, Added
<1>3. PICK b \in {NoBlock, L + 1}, g \in Nat :
        Added(t.body, u.body, [b |-> b, grown |-> g]) /\ (b # NoBlock => g = 0)
  BY DEF StringLike
<1> HIDE DEF L
<1>4. Fresh(t, u) = {L + 1} /\ NewCb(t, u) = {Len(t.cbs) + 1} /\ NewTask(t, u) = {}
  BY <1>0, <1>1, <1>2 DEF Fresh, NewCb, NewTask, L
<1>5. NewHeap(t, u)
  BY <1>2, <1>4 DEF NewHeap, NewBlock
<1>6. NewCbs(t, u)
  BY <1>2, <1>4 DEF NewCbs, NewBlock, Temp
<1>7. NewQueue(t, u)
  BY <1>0, <1>1, <1>4, PrefixSelf DEF NewQueue
<1>8. NewBody(t, u)
  <2>1. /\ Len(u.body) = Len(t.body) + 1 /\ Prefix(t.body, u.body)
        /\ u.body[Len(t.body) + 1].b = b /\ u.body[Len(t.body) + 1].grown = g
    BY <1>3 DEF Added
  <2>2. NewPiece(t, u) = {Len(t.body) + 1}
    BY <1>0, <2>1 DEF NewPiece
  <2> QED BY <1>2, <1>3, <1>4, <2>1, <2>2 DEF NewBody, NewBlock
<1>9. NewContext(t, u)
  BY <1>1 DEF NewContext
<1>10. NewOwned(t, u, {})
  BY <1>2, <1>4 DEF NewOwned
<1>11. Plain(t, u)
  BY <1>4 DEF Plain, StringLike
<1> QED BY <1>1, <1>5, <1>6, <1>7, <1>8, <1>9, <1>10, <1>11 DEF Extends

\* File and Save: a block with a callback that frees it and a task that uses it.
TaskLike(t, u, kind) ==
  /\ u \in Data
  /\ Added(t.heap, u.heap, NewBlock(PointsTo(kind)))
  /\ Added(t.cbs, u.cbs, [f |-> "free", b |-> Len(t.heap) + 1])
  /\ Added(t.queue, u.queue,
           [kind |-> kind, b |-> Len(t.heap) + 1, last |-> FALSE, holds |-> "none"])
  /\ u.body = t.body /\ u.context = t.context /\ u.encoder = t.encoder
  /\ u.request = t.request

LEMMA FileEffect ==
  ASSUME NEW t \in Data
  PROVE  TaskLike(t, File(t), "pread")
<1> DEFINE u == New(t, "buffer")
           v == FreeLater(u)
           w == File(t)
<1>0. /\ "buffer" \in Kind /\ NewBlock("buffer") \in Block /\ PointsTo("pread") = "buffer"
      /\ "pread" \in TaskKind
  BY DEF Kind, NewBlock, Block, PointsTo, TaskKind
<1>1. /\ u \in Data /\ u.heap = Append(t.heap, NewBlock("buffer"))
      /\ u.body = t.body /\ u.cbs = t.cbs /\ u.queue = t.queue
      /\ u.context = t.context /\ u.encoder = t.encoder /\ u.request = t.request
  BY <1>0, NewIs
<1> HIDE DEF u
<1>2. Added(t.heap, u.heap, NewBlock("buffer"))
  BY <1>0, <1>1, FieldsOf, Appended
<1>3. Len(u.heap) = Len(t.heap) + 1 /\ Len(t.heap) \in Nat /\ Len(u.heap) \in Nat
  BY <1>2, FieldsOf DEF Added
<1>4. v = AddCallback(u, "free", Len(u.heap))
  BY DEF FreeLater, Top
<1> HIDE DEF v
<1>5. /\ v \in Data /\ v.cbs = Append(u.cbs, [f |-> "free", b |-> Len(u.heap)])
      /\ v.heap = u.heap /\ v.body = u.body /\ v.queue = u.queue
      /\ v.context = u.context /\ v.encoder = u.encoder /\ v.request = u.request
  BY <1>1, <1>3, <1>4, AddCallbackIs
<1>6. w = AddTask(v, "pread", Len(u.heap), FALSE)
  BY <1>5 DEF File, Top, u, v
<1> DEFINE task == [kind |-> "pread", b |-> Len(u.heap), last |-> FALSE, holds |-> "none"]
<1> HIDE DEF w
<1>7. /\ w \in Data /\ w.queue = Append(v.queue, task)
      /\ w.heap = v.heap /\ w.body = v.body /\ w.cbs = v.cbs
      /\ w.context = v.context /\ w.encoder = v.encoder /\ w.request = v.request
  BY <1>0, <1>3, <1>5, <1>6, AddTaskIs
<1>8. [f |-> "free", b |-> Len(u.heap)] \in Cb /\ task \in Task
  BY <1>3 DEF Cb, Task, TaskKind
<1>9. Added(t.cbs, w.cbs, [f |-> "free", b |-> Len(u.heap)])
  BY <1>1, <1>5, <1>7, <1>8, FieldsOf, Appended
<1>10. Added(t.queue, w.queue, task)
  BY <1>1, <1>5, <1>7, <1>8, FieldsOf, Appended
<1>11. TaskLike(t, w, "pread")
  BY <1>0, <1>1, <1>2, <1>3, <1>5, <1>7, <1>9, <1>10 DEF TaskLike
<1> QED BY <1>11 DEF w

LEMMA SaveEffect ==
  ASSUME NEW t \in Data
  PROVE  TaskLike(t, Save(t), "pwrite")
<1> DEFINE u == New(t, "save")
           v == AddTask(u, "pwrite", Len(u.heap), FALSE)
           w == Save(t)
<1>0. /\ "save" \in Kind /\ NewBlock("save") \in Block /\ PointsTo("pwrite") = "save"
      /\ "pwrite" \in TaskKind
  BY DEF Kind, NewBlock, Block, PointsTo, TaskKind
<1>1. /\ u \in Data /\ u.heap = Append(t.heap, NewBlock("save"))
      /\ u.body = t.body /\ u.cbs = t.cbs /\ u.queue = t.queue
      /\ u.context = t.context /\ u.encoder = t.encoder /\ u.request = t.request
  BY <1>0, NewIs
<1> HIDE DEF u
<1>2. Added(t.heap, u.heap, NewBlock("save"))
  BY <1>0, <1>1, FieldsOf, Appended
<1>3. Len(u.heap) = Len(t.heap) + 1 /\ Len(t.heap) \in Nat /\ Len(u.heap) \in Nat
  BY <1>2, FieldsOf DEF Added
<1> DEFINE task == [kind |-> "pwrite", b |-> Len(u.heap), last |-> FALSE, holds |-> "none"]
<1>5. /\ v \in Data /\ v.queue = Append(u.queue, task)
      /\ v.heap = u.heap /\ v.body = u.body /\ v.cbs = u.cbs
      /\ v.context = u.context /\ v.encoder = u.encoder /\ v.request = u.request
  BY <1>0, <1>1, <1>3, AddTaskIs
<1>6. w = AddCallback(v, "free", Len(u.heap))
  BY <1>5 DEF Save, FreeLater, Top, u
<1> HIDE DEF v, w
<1>7. /\ w \in Data /\ w.cbs = Append(v.cbs, [f |-> "free", b |-> Len(u.heap)])
      /\ w.heap = v.heap /\ w.body = v.body /\ w.queue = v.queue
      /\ w.context = v.context /\ w.encoder = v.encoder /\ w.request = v.request
  BY <1>3, <1>5, <1>6, AddCallbackIs
<1>8. [f |-> "free", b |-> Len(u.heap)] \in Cb /\ task \in Task
  BY <1>3 DEF Cb, Task, TaskKind
<1>9. Added(t.cbs, w.cbs, [f |-> "free", b |-> Len(u.heap)])
  BY <1>1, <1>5, <1>7, <1>8, FieldsOf, Appended
<1>10. Added(t.queue, w.queue, task)
  BY <1>1, <1>5, <1>7, <1>8, FieldsOf, Appended
<1>11. TaskLike(t, w, "pwrite")
  BY <1>0, <1>1, <1>2, <1>3, <1>5, <1>7, <1>9, <1>10 DEF TaskLike
<1> QED BY <1>11 DEF w

LEMMA TaskExtends ==
  ASSUME NEW t \in Data, NEW kind \in {"pread", "pwrite"}, NEW u, TaskLike(t, u, kind)
  PROVE  Extends(t, u, {}) /\ Plain(t, u)
<1> DEFINE L == Len(t.heap)
<1>0. /\ t.body \in Seq(Piece) /\ L \in Nat /\ Len(t.cbs) \in Nat /\ Len(t.body) \in Nat
      /\ Len(t.queue) \in Nat
  BY FieldsOf
<1>1. u \in Data /\ u.body = t.body /\ u.context = t.context /\ u.encoder = t.encoder
  BY DEF TaskLike
<1>2. /\ Len(u.heap) = L + 1 /\ Prefix(t.heap, u.heap)
      /\ u.heap[L + 1] = NewBlock(PointsTo(kind))
      /\ Len(u.cbs) = Len(t.cbs) + 1 /\ Prefix(t.cbs, u.cbs)
      /\ u.cbs[Len(t.cbs) + 1] = [f |-> "free", b |-> L + 1]
  BY DEF TaskLike, Added
<1>3. /\ Len(u.queue) = Len(t.queue) + 1 /\ Prefix(t.queue, u.queue)
      /\ u.queue[Len(t.queue) + 1].kind = kind /\ u.queue[Len(t.queue) + 1].b = L + 1
  BY DEF TaskLike, Added
<1>4. /\ Fresh(t, u) = {L + 1} /\ NewCb(t, u) = {Len(t.cbs) + 1}
      /\ NewTask(t, u) = {Len(t.queue) + 1} /\ NewPiece(t, u) = {}
  BY <1>0, <1>1, <1>2, <1>3 DEF Fresh, NewCb, NewTask, NewPiece
<1> HIDE DEF L
<1>5. NewHeap(t, u)
  BY <1>2, <1>4 DEF NewHeap, NewBlock, PointsTo
<1>6. NewCbs(t, u)
  BY <1>2, <1>4 DEF NewCbs, NewBlock, Temp, PointsTo
<1>7. NewQueue(t, u)
  BY <1>2, <1>3, <1>4 DEF NewQueue, NewBlock, TaskKind
<1>8. NewBody(t, u)
  BY <1>0, <1>1, <1>4, PrefixSelf DEF NewBody
<1>9. NewContext(t, u)
  BY <1>1 DEF NewContext
<1>10. NewOwned(t, u, {})
  BY <1>2, <1>4 DEF NewOwned
<1>11. Plain(t, u)
  BY <1>3, <1>4 DEF Plain, TaskLike
<1> QED BY <1>1, <1>5, <1>6, <1>7, <1>8, <1>9, <1>10, <1>11 DEF Extends

LEMMA QueryExtends ==
  ASSUME NEW t \in Data
  PROVE  Extends(t, Query(t), {}) /\ Plain(t, Query(t))
<1> DEFINE u == Query(t)
           task == [kind |-> "query", b |-> 0, last |-> FALSE, holds |-> "none"]
<1>0. /\ t.body \in Seq(Piece) /\ t.heap \in Seq(Block) /\ t.cbs \in Seq(Cb)
      /\ Len(t.heap) \in Nat /\ Len(t.cbs) \in Nat /\ Len(t.body) \in Nat
      /\ Len(t.queue) \in Nat
  BY FieldsOf
<1>1. /\ u \in Data /\ u.queue = Append(t.queue, task)
      /\ u.heap = t.heap /\ u.body = t.body /\ u.cbs = t.cbs
      /\ u.context = t.context /\ u.encoder = t.encoder /\ u.request = t.request
  BY AddTaskIs DEF Query, NoBlock, TaskKind
<1> HIDE DEF u
<1>2. Added(t.queue, u.queue, task)
  <2>1. task \in Task
    BY DEF Task, TaskKind
  <2> QED BY <1>1, <2>1, FieldsOf, Appended
<1>3. /\ Len(u.queue) = Len(t.queue) + 1 /\ Prefix(t.queue, u.queue)
      /\ u.queue[Len(t.queue) + 1].kind = "query"
  BY <1>2 DEF Added
<1>4. /\ Fresh(t, u) = {} /\ NewCb(t, u) = {}
      /\ NewTask(t, u) = {Len(t.queue) + 1} /\ NewPiece(t, u) = {}
  BY <1>0, <1>1, <1>3 DEF Fresh, NewCb, NewTask, NewPiece
<1>5. NewHeap(t, u) /\ NewCbs(t, u) /\ NewBody(t, u)
  BY <1>0, <1>1, <1>4, PrefixSelf DEF NewHeap, NewCbs, NewBody
<1>7. NewQueue(t, u)
  BY <1>3, <1>4 DEF NewQueue, TaskKind
<1>9. NewContext(t, u) /\ NewOwned(t, u, {})
  BY <1>1, <1>4 DEF NewContext, NewOwned
<1>11. Plain(t, u)
  BY <1>1, <1>3, <1>4 DEF Plain
<1>12. Extends(t, u, {}) /\ Plain(t, u)
  BY <1>1, <1>5, <1>7, <1>9, <1>11 DEF Extends
<1> QED BY <1>12 DEF u

LEMMA HttpBadExtends ==
  ASSUME NEW t \in Data
  PROVE  Extends(t, HttpBad(t), {"proxy"}) /\ Plain(t, HttpBad(t))
<1> DEFINE u == HttpBad(t)
           L == Len(t.heap)
<1>0. /\ t.body \in Seq(Piece) /\ t.queue \in Seq(Task) /\ t.cbs \in Seq(Cb)
      /\ L \in Nat /\ Len(t.cbs) \in Nat /\ Len(t.body) \in Nat /\ Len(t.queue) \in Nat
  BY FieldsOf
<1>1. /\ u \in Data /\ u.heap = Append(t.heap, NewBlock("proxy"))
      /\ u.queue = t.queue /\ u.body = t.body /\ u.cbs = t.cbs
      /\ u.context = t.context /\ u.encoder = t.encoder /\ u.request = t.request
  BY NewIs DEF HttpBad, Kind
<1> HIDE DEF u
<1>2. Added(t.heap, u.heap, NewBlock("proxy"))
  <2>1. NewBlock("proxy") \in Block
    BY DEF NewBlock, Block, Kind
  <2> QED BY <1>1, <2>1, FieldsOf, Appended
<1>3. Len(u.heap) = L + 1 /\ Prefix(t.heap, u.heap) /\ u.heap[L + 1] = NewBlock("proxy")
  BY <1>2 DEF Added
<1>4. /\ Fresh(t, u) = {L + 1} /\ NewCb(t, u) = {}
      /\ NewTask(t, u) = {} /\ NewPiece(t, u) = {}
  BY <1>0, <1>1, <1>3 DEF Fresh, NewCb, NewTask, NewPiece
<1>5. NewCbs(t, u) /\ NewBody(t, u) /\ NewQueue(t, u)
  BY <1>0, <1>1, <1>4, PrefixSelf DEF NewCbs, NewBody, NewQueue
<1>6. NewHeap(t, u)
  BY <1>3, <1>4 DEF NewHeap, NewBlock
<1>7. NewContext(t, u) /\ NewOwned(t, u, {"proxy"})
  BY <1>1, <1>3, <1>4 DEF NewContext, NewOwned, NewBlock
<1>8. Plain(t, u)
  BY <1>1, <1>4 DEF Plain
<1>9. Extends(t, u, {"proxy"}) /\ Plain(t, u)
  BY <1>1, <1>5, <1>6, <1>7, <1>8 DEF Extends
<1> QED BY <1>9 DEF u

ProxyTask(t) == [kind |-> "http", b |-> Len(t.heap) + 1, last |-> FALSE, holds |-> t.request]

LEMMA HttpExtends ==
  ASSUME NEW t \in Data
  PROVE  /\ Extends(t, Http(t), {}) /\ Http(t).request = "moved"
         /\ Http(t).context = t.context /\ Http(t).encoder = t.encoder
         /\ Added(t.queue, Http(t).queue, ProxyTask(t))
<1> DEFINE u == New(t, "proxy")
           w == Http(t)
           L == Len(t.heap)
<1>0. /\ t.body \in Seq(Piece) /\ t.queue \in Seq(Task) /\ t.cbs \in Seq(Cb)
      /\ L \in Nat /\ Len(t.cbs) \in Nat /\ Len(t.body) \in Nat /\ Len(t.queue) \in Nat
      /\ t.request \in Where
  BY FieldsOf
<1>1. /\ u \in Data /\ u.heap = Append(t.heap, NewBlock("proxy"))
      /\ u.queue = t.queue /\ u.body = t.body /\ u.cbs = t.cbs
      /\ u.context = t.context /\ u.encoder = t.encoder /\ u.request = t.request
  BY NewIs DEF Kind
<1>2. Added(t.heap, u.heap, NewBlock("proxy"))
  <2>1. NewBlock("proxy") \in Block
    BY DEF NewBlock, Block, Kind
  <2> QED BY <1>1, <2>1, FieldsOf, Appended
<1>3. Len(u.heap) = L + 1 /\ Prefix(t.heap, u.heap) /\ u.heap[L + 1] = NewBlock("proxy")
  BY <1>2 DEF Added
<1>4. ProxyTask(t) \in Task
  BY <1>0 DEF ProxyTask, Task, TaskKind, Where
<1>5. w = [u EXCEPT !.request = "moved", !.queue = Append(u.queue, ProxyTask(t))]
  <2>1. [kind |-> "http", b |-> Top(u), last |-> FALSE, holds |-> t.request] = ProxyTask(t)
    BY <1>3 DEF Top, ProxyTask
  <2> QED BY <2>1 DEF Http
<1> HIDE DEF u, w
<1>6. Append(u.queue, ProxyTask(t)) \in Queues /\ "moved" \in Where
  BY <1>0, <1>1, <1>4 DEF Queues, Where
<1>7. /\ w \in Data /\ w.queue = Append(t.queue, ProxyTask(t)) /\ w.request = "moved"
      /\ w.heap = u.heap /\ w.body = t.body /\ w.cbs = t.cbs
      /\ w.context = t.context /\ w.encoder = t.encoder
  BY <1>1, <1>5, <1>6 DEF Data
<1>8. Added(t.queue, w.queue, ProxyTask(t))
  BY <1>0, <1>4, <1>7, Appended
<1>9. /\ Len(w.queue) = Len(t.queue) + 1 /\ Prefix(t.queue, w.queue)
      /\ w.queue[Len(t.queue) + 1].kind = "http" /\ w.queue[Len(t.queue) + 1].b = L + 1
  BY <1>8 DEF Added, ProxyTask
<1>10. /\ Fresh(t, w) = {L + 1} /\ NewCb(t, w) = {}
       /\ NewTask(t, w) = {Len(t.queue) + 1} /\ NewPiece(t, w) = {}
  BY <1>0, <1>3, <1>7, <1>9, SMTT(20) DEF Fresh, NewCb, NewTask, NewPiece
<1>11. NewCbs(t, w) /\ NewBody(t, w)
  BY <1>0, <1>7, <1>10, PrefixSelf DEF NewCbs, NewBody
<1>12. NewHeap(t, w)
  BY <1>3, <1>7, <1>10 DEF NewHeap, NewBlock
<1>13. NewQueue(t, w)
  BY <1>3, <1>7, <1>9, <1>10 DEF NewQueue, NewBlock, TaskKind, PointsTo
<1>14. NewContext(t, w) /\ NewOwned(t, w, {})
  BY <1>7, <1>9, <1>10 DEF NewContext, NewOwned
<1>15. Extends(t, w, {})
  BY <1>7, <1>11, <1>12, <1>13, <1>14 DEF Extends
<1> QED BY <1>7, <1>8, <1>15 DEF w

\* The content and the encoder of a multipart body, set for the series.
Multi(t) ==
  LET u == New(New(t, "content"), "encoder")
  IN  [u EXCEPT !.context = Top(u) - 1, !.encoder = Top(u)]

LEMMA MultiIs ==
  ASSUME NEW t \in Data
  PROVE  LET v == Multi(t)
             L == Len(t.heap)
         IN  /\ v \in Data /\ Prefix(t.heap, v.heap) /\ Len(v.heap) = L + 2
             /\ v.heap[L + 1] = NewBlock("content") /\ v.heap[L + 2] = NewBlock("encoder")
             /\ v.context = L + 1 /\ v.encoder = L + 2
             /\ v.body = t.body /\ v.cbs = t.cbs /\ v.queue = t.queue
             /\ v.request = t.request
<1> DEFINE L == Len(t.heap)
           u1 == New(t, "content")
           u == New(u1, "encoder")
           v == Multi(t)
<1>0. /\ NewBlock("content") \in Block /\ NewBlock("encoder") \in Block /\ L \in Nat
      /\ "content" \in Kind /\ "encoder" \in Kind
  BY FieldsOf DEF NewBlock, Block, Kind
<1>1. /\ u1 \in Data /\ u1.heap = Append(t.heap, NewBlock("content"))
      /\ u1.body = t.body /\ u1.cbs = t.cbs /\ u1.queue = t.queue
      /\ u1.context = t.context /\ u1.encoder = t.encoder /\ u1.request = t.request
  BY <1>0, NewIs
<1> HIDE DEF u1
<1>2. /\ u \in Data /\ u.heap = Append(u1.heap, NewBlock("encoder"))
      /\ u.body = t.body /\ u.cbs = t.cbs /\ u.queue = t.queue
      /\ u.context = t.context /\ u.encoder = t.encoder /\ u.request = t.request
  BY <1>0, <1>1, NewIs
<1>3. Added(t.heap, u1.heap, NewBlock("content"))
  BY <1>0, <1>1, FieldsOf, Appended
<1>4. Added(u1.heap, u.heap, NewBlock("encoder"))
  BY <1>0, <1>1, <1>2, FieldsOf, Appended
<1>5. /\ Len(u.heap) = L + 2 /\ Prefix(t.heap, u.heap)
      /\ u.heap[L + 1] = NewBlock("content") /\ u.heap[L + 2] = NewBlock("encoder")
  <2>1. Len(u1.heap) = L + 1 /\ Len(u.heap) = L + 2
    BY <1>0, <1>3, <1>4 DEF Added
  <2>2. \A i \in 1 .. L + 1 : u.heap[i] = u1.heap[i]
    BY <1>4, <2>1 DEF Added, Prefix
  <2>3. \A i \in 1 .. L : u1.heap[i] = t.heap[i]
    BY <1>3 DEF Added, Prefix
  <2>4. u1.heap[L + 1] = NewBlock("content") /\ u.heap[L + 2] = NewBlock("encoder")
    <3>1. u.heap[Len(u1.heap) + 1] = NewBlock("encoder")
      BY <1>4 DEF Added
    <3> QED BY <1>0, <1>3, <2>1, <3>1 DEF Added
  <2>5. L <= L + 2 /\ L + 1 \in 1 .. L + 1 /\ \A i \in 1 .. L : i \in 1 .. L + 1
    BY <1>0
  <2> QED BY <2>1, <2>2, <2>3, <2>4, <2>5 DEF Prefix
<1>6. v = [u EXCEPT !.context = L + 1, !.encoder = L + 2]
  <2>1. Top(u) = L + 2 /\ Top(u) - 1 = L + 1
    BY <1>0, <1>5 DEF Top
  <2> QED BY <2>1 DEF Multi, u, u1
<1> HIDE DEF u, v
<1>7. L + 1 \in Nat /\ L + 2 \in Nat
  BY <1>0
<1>8. /\ v \in Data /\ v.heap = u.heap /\ v.body = u.body /\ v.cbs = u.cbs
      /\ v.queue = u.queue /\ v.request = u.request
      /\ v.context = L + 1 /\ v.encoder = L + 2
  BY <1>2, <1>6, <1>7 DEF Data
<1> QED BY <1>2, <1>5, <1>8 DEF v

MultiFacts(t, u, n, m) ==
  /\ u.request = t.request /\ u.context \in Fresh(t, u)
  /\ n = 0 => /\ u.queue = t.queue
              /\ \E j \in NewPiece(t, u) : u.body[j].b = u.context
  /\ n # 0 => /\ u.body = t.body /\ Len(u.queue) = Len(t.queue) + m
              /\ \A i \in NewTask(t, u) : /\ u.queue[i].kind = "part"
                                          /\ u.queue[i].last = (i = Len(t.queue) + n)

LEMMA EmptyMultiExtends ==
  ASSUME NEW t \in Data
  PROVE  Extends(t, MultiPart(t, 0, 0), {}) /\ MultiFacts(t, MultiPart(t, 0, 0), 0, 0)
<1> DEFINE L == Len(t.heap)
           v == Multi(t)
           g == Grow(v, L + 1)
           u == MultiPart(t, 0, 0)
<1>0. /\ L \in Nat /\ L + 1 \in Nat /\ Len(t.body) \in Nat /\ t.body \in Seq(Piece)
      /\ Len(t.queue) \in Nat /\ Len(t.cbs) \in Nat /\ t.queue \in Seq(Task)
      /\ t.cbs \in Seq(Cb) /\ L + 1 # 0
  BY FieldsOf
<1>1. /\ v \in Data /\ Prefix(t.heap, v.heap) /\ Len(v.heap) = L + 2
      /\ v.heap[L + 1] = NewBlock("content") /\ v.heap[L + 2] = NewBlock("encoder")
      /\ v.context = L + 1 /\ v.encoder = L + 2
      /\ v.body = t.body /\ v.cbs = t.cbs /\ v.queue = t.queue /\ v.request = t.request
  BY MultiIs
<1>2. L + 1 \in 1 .. Len(v.heap)
  BY <1>0, <1>1
<1>3. u = Point(g, L + 1)
  <2>1. v.context = Top(New(New(t, "content"), "encoder")) - 1
    <3>1. New(New(t, "content"), "encoder") \in Data
      BY NewIs DEF Kind
    <3>2. Top(New(New(t, "content"), "encoder")) = L + 2
      <4>1. Multi(t).heap = New(New(t, "content"), "encoder").heap
        BY <3>1 DEF Multi, Data
      <4> QED BY <1>1, <4>1 DEF Top
    <3> QED BY <1>0, <1>1, <3>2
  <2> QED BY <1>1, <2>1 DEF MultiPart, Multi
<1> HIDE DEF v
<1>4. /\ g \in Data /\ Grown(v.heap, g.heap, L + 1)
      /\ g.body = v.body /\ g.cbs = v.cbs /\ g.queue = v.queue /\ g.context = v.context
      /\ g.encoder = v.encoder /\ g.request = v.request
  BY <1>1, <1>2, GrowIs
<1> HIDE DEF g, u
<1>5. /\ Len(g.heap) = L + 2
      /\ \A c \in 1 .. L + 2 : g.heap[c].what = v.heap[c].what /\ g.heap[c].live = v.heap[c].live
      /\ \A c \in 1 .. L : g.heap[c] = t.heap[c]
  <2>1. /\ Len(g.heap) = Len(v.heap)
        /\ \A c \in 1 .. L + 2 :
             /\ g.heap[c].what = v.heap[c].what /\ g.heap[c].live = v.heap[c].live
             /\ c # L + 1 => g.heap[c] = v.heap[c]
    BY <1>1, <1>4 DEF Grown
  <2>2. \A c \in 1 .. L : c \in 1 .. L + 2 /\ c # L + 1
    BY <1>0
  <2>3. \A c \in 1 .. L : v.heap[c] = t.heap[c]
    BY <1>1 DEF Prefix
  <2> QED BY <1>1, <2>1, <2>2, <2>3
<1>6. L + 1 \in {NoBlock} \cup 1 .. Len(g.heap)
  BY <1>0, <1>5
<1>7. PICK x \in Nat :
        /\ u \in Data /\ u.body = Append(g.body, [b |-> L + 1, grown |-> x])
        /\ L + 1 # NoBlock => x = g.heap[L + 1].grown
        /\ u.heap = g.heap /\ u.cbs = g.cbs /\ u.queue = g.queue
        /\ u.context = g.context /\ u.encoder = g.encoder /\ u.request = g.request
  BY <1>3, <1>4, <1>6, PointIs
<1>8. Added(t.body, u.body, [b |-> L + 1, grown |-> x])
  <2>1. [b |-> L + 1, grown |-> x] \in Piece
    BY <1>0 DEF Piece
  <2> QED BY <1>0, <1>1, <1>4, <1>7, <2>1, Appended
<1>9. /\ Len(u.body) = Len(t.body) + 1 /\ Prefix(t.body, u.body)
      /\ u.body[Len(t.body) + 1].b = L + 1 /\ u.body[Len(t.body) + 1].grown = x
  BY <1>8 DEF Added
<1>10. x = u.heap[L + 1].grown
  BY <1>0, <1>7 DEF NoBlock
<1>11. /\ u.context = L + 1 /\ u.encoder = L + 2 /\ u.cbs = t.cbs /\ u.queue = t.queue
       /\ u.request = t.request /\ Len(u.heap) = L + 2 /\ u \in Data
  BY <1>1, <1>4, <1>5, <1>7
<1>12. /\ Fresh(t, u) = {L + 1, L + 2} /\ NewCb(t, u) = {} /\ NewTask(t, u) = {}
       /\ NewPiece(t, u) = {Len(t.body) + 1}
  <2>1. L + 1 .. L + 2 = {L + 1, L + 2} /\ Len(t.cbs) + 1 .. Len(t.cbs) = {}
    BY <1>0
  <2>2. /\ Len(t.queue) + 1 .. Len(t.queue) = {}
        /\ Len(t.body) + 1 .. Len(t.body) + 1 = {Len(t.body) + 1}
    BY <1>0
  <2> QED BY <1>9, <1>11, <2>1, <2>2 DEF Fresh, NewCb, NewTask, NewPiece
<1>13. /\ u.heap[L + 1].what = "content" /\ u.heap[L + 2].what = "encoder"
       /\ u.heap[L + 1].live /\ u.heap[L + 2].live
  <2>1. L + 1 \in 1 .. L + 2 /\ L + 2 \in 1 .. L + 2
    BY <1>0
  <2>2. /\ u.heap[L + 1].what = v.heap[L + 1].what /\ u.heap[L + 1].live = v.heap[L + 1].live
        /\ u.heap[L + 2].what = v.heap[L + 2].what /\ u.heap[L + 2].live = v.heap[L + 2].live
    BY <1>5, <1>7, <2>1
  <2> QED BY <1>1, <2>2 DEF NewBlock
<1>14. NewHeap(t, u)
  <2>1. Prefix(t.heap, u.heap)
    BY <1>0, <1>5, <1>7 DEF Prefix
  <2> QED BY <1>12, <1>13, <2>1 DEF NewHeap
<1>15. NewCbs(t, u) /\ NewQueue(t, u)
  BY <1>0, <1>11, <1>12, PrefixSelf DEF NewCbs, NewQueue
<1>16. NewBody(t, u)
  BY <1>9, <1>10, <1>12 DEF NewBody
<1>17. NewContext(t, u) /\ NewOwned(t, u, {})
  BY <1>11, <1>12, <1>13 DEF NewContext, NewOwned
<1>18. MultiFacts(t, u, 0, 0)
  BY <1>9, <1>11, <1>12 DEF MultiFacts
<1>19. Extends(t, u, {}) /\ MultiFacts(t, u, 0, 0)
  BY <1>11, <1>14, <1>15, <1>16, <1>17, <1>18 DEF Extends
<1> QED BY <1>19 DEF u

LEMMA Concat ==
  ASSUME NEW S, NEW a \in Seq(S), NEW f \in Seq(S)
  PROVE  /\ a \o f \in Seq(S) /\ Len(a \o f) = Len(a) + Len(f) /\ Prefix(a, a \o f)
         /\ \A i \in 1 .. Len(f) : (a \o f)[Len(a) + i] = f[i]
BY DEF Prefix

\* A new element is the i-th of those that were appended.
LEMMA Nth ==
  ASSUME NEW l \in Nat, NEW m \in Nat, NEW i \in l + 1 .. l + m
  PROVE  i - l \in 1 .. m /\ l + (i - l) = i
OBVIOUS

LEMMA FilledMultiExtends ==
  ASSUME NEW t \in Data, NEW n \in Nat \ {0}, NEW m \in 0 .. n
  PROVE  Extends(t, MultiPart(t, n, m), {}) /\ MultiFacts(t, MultiPart(t, n, m), n, m)
<1> DEFINE L == Len(t.heap)
           C == Len(t.cbs)
           Q == Len(t.queue)
           v == Multi(t)
           H == [i \in 1 .. m |-> NewBlock("buffer")]
           F == [i \in 1 .. m |-> [f |-> "free", b |-> L + 2 + i]]
           T == [i \in 1 .. m |-> [kind |-> "part", b |-> L + 2 + i,
                                   last |-> i = n, holds |-> "none"]]
           u == MultiPart(t, n, m)
<1>0. /\ L \in Nat /\ C \in Nat /\ Q \in Nat /\ m \in Nat /\ Len(t.body) \in Nat
      /\ t.body \in Seq(Piece) /\ t.queue \in Seq(Task) /\ t.cbs \in Seq(Cb)
  BY FieldsOf
<1>1. /\ v \in Data /\ Prefix(t.heap, v.heap) /\ Len(v.heap) = L + 2
      /\ v.heap[L + 1] = NewBlock("content") /\ v.heap[L + 2] = NewBlock("encoder")
      /\ v.context = L + 1 /\ v.encoder = L + 2
      /\ v.body = t.body /\ v.cbs = t.cbs /\ v.queue = t.queue /\ v.request = t.request
  BY MultiIs
<1>2. Top(New(New(t, "content"), "encoder")) = L + 2
  <2>1. New(New(t, "content"), "encoder") \in Data
    BY NewIs DEF Kind
  <2>2. Multi(t).heap = New(New(t, "content"), "encoder").heap
    BY <2>1 DEF Multi, Data
  <2> QED BY <1>1, <2>2 DEF Top
<1>3. u = [v EXCEPT !.heap = v.heap \o H, !.cbs = v.cbs \o F, !.queue = v.queue \o T]
  BY <1>2 DEF MultiPart, Multi, NewBlock
<1>4. /\ H \in Seq(Block) /\ F \in Seq(Cb) /\ T \in Seq(Task)
      /\ Len(H) = m /\ Len(F) = m /\ Len(T) = m
  <2>1. NewBlock("buffer") \in Block
    BY DEF NewBlock, Block, Kind
  <2>2. \A i \in 1 .. m : [f |-> "free", b |-> L + 2 + i] \in Cb
    BY <1>0 DEF Cb
  <2>3. \A i \in 1 .. m : [kind |-> "part", b |-> L + 2 + i,
                           last |-> i = n, holds |-> "none"] \in Task
    <3>1. \A i \in 1 .. m : (i = n) \in BOOLEAN
      OBVIOUS
    <3> QED BY <1>0, <3>1 DEF Task, TaskKind
  <2>4. m \in Nat
    BY <1>0
  <2> HIDE DEF L
  <2>5. H \in Seq(Block) /\ Len(H) = m
    BY <2>1, <2>4
  <2>6. F \in Seq(Cb) /\ Len(F) = m
    BY <2>2, <2>4
  <2>7. T \in Seq(Task) /\ Len(T) = m
    BY <2>3, <2>4
  <2> QED BY <2>5, <2>6, <2>7
<1>5. /\ \A i \in 1 .. m : H[i] = NewBlock("buffer")
      /\ \A i \in 1 .. m : F[i].f = "free" /\ F[i].b = L + 2 + i
      /\ \A i \in 1 .. m : T[i].kind = "part" /\ T[i].last = (i = n)
  OBVIOUS
<1> HIDE DEF H, F, T, v, u, L, C, Q
<1>6. /\ v.heap \o H \in Seq(Block) /\ Len(v.heap \o H) = L + 2 + m
      /\ Prefix(v.heap, v.heap \o H)
      /\ \A i \in 1 .. m : (v.heap \o H)[L + 2 + i] = NewBlock("buffer")
  <2>1. v.heap \in Seq(Block)
    BY <1>1, FieldsOf
  <2>2. H \in Seq(Block)
    BY <1>4
  <2>3. /\ v.heap \o H \in Seq(Block) /\ Len(v.heap \o H) = Len(v.heap) + Len(H)
        /\ Prefix(v.heap, v.heap \o H)
        /\ \A i \in 1 .. Len(H) : (v.heap \o H)[Len(v.heap) + i] = H[i]
    BY <2>1, <2>2, Concat
  <2>4. Len(v.heap) = L + 2 /\ Len(H) = m
    BY <1>1, <1>4
  <2>5. \A i \in 1 .. m : (v.heap \o H)[L + 2 + i] = H[i]
    BY <2>3, <2>4
  <2>6. \A i \in 1 .. m : (v.heap \o H)[L + 2 + i] = NewBlock("buffer")
    BY <1>5, <2>5
  <2> QED BY <2>3, <2>4, <2>6
<1>7. /\ t.cbs \o F \in Seq(Cb) /\ Len(t.cbs \o F) = C + m /\ Prefix(t.cbs, t.cbs \o F)
      /\ \A i \in 1 .. m : (t.cbs \o F)[C + i] = F[i]
  <2>1. t.cbs \in Seq(Cb) /\ F \in Seq(Cb)
    BY <1>0, <1>4
  <2>2. /\ t.cbs \o F \in Seq(Cb) /\ Len(t.cbs \o F) = Len(t.cbs) + Len(F)
        /\ Prefix(t.cbs, t.cbs \o F)
        /\ \A i \in 1 .. Len(F) : (t.cbs \o F)[Len(t.cbs) + i] = F[i]
    BY <2>1, Concat
  <2> QED BY <1>4, <2>2 DEF C
<1>8. /\ t.queue \o T \in Seq(Task) /\ Len(t.queue \o T) = Q + m
      /\ Prefix(t.queue, t.queue \o T)
      /\ \A i \in 1 .. m : (t.queue \o T)[Q + i] = T[i]
  <2>1. t.queue \in Seq(Task) /\ T \in Seq(Task)
    BY <1>0, <1>4
  <2>2. /\ t.queue \o T \in Seq(Task) /\ Len(t.queue \o T) = Len(t.queue) + Len(T)
        /\ Prefix(t.queue, t.queue \o T)
        /\ \A i \in 1 .. Len(T) : (t.queue \o T)[Len(t.queue) + i] = T[i]
    BY <2>1, Concat
  <2> QED BY <1>4, <2>2 DEF Q
<1>9. /\ u \in Data /\ u.heap = v.heap \o H /\ u.cbs = t.cbs \o F /\ u.queue = t.queue \o T
      /\ u.body = t.body /\ u.context = L + 1 /\ u.encoder = L + 2
      /\ u.request = t.request
  BY <1>1, <1>3, <1>6, <1>7, <1>8 DEF Data, Heaps, Cbs, Queues
<1>10. /\ Fresh(t, u) = L + 1 .. L + 2 + m /\ NewCb(t, u) = C + 1 .. C + m
       /\ NewTask(t, u) = Q + 1 .. Q + m /\ NewPiece(t, u) = {}
  <2>1. Len(t.body) + 1 .. Len(t.body) = {}
    BY <1>0
  <2> QED BY <1>6, <1>7, <1>8, <1>9, <2>1 DEF Fresh, NewCb, NewTask, NewPiece, L, C, Q
<1>11. /\ u.heap[L + 1] = NewBlock("content") /\ u.heap[L + 2] = NewBlock("encoder")
       /\ \A i \in 1 .. m : u.heap[L + 2 + i] = NewBlock("buffer")
  <2>1. L + 1 \in 1 .. L + 2 /\ L + 2 \in 1 .. L + 2
    BY <1>0
  <2> QED BY <1>1, <1>6, <1>9, <2>1 DEF Prefix
<1>12. ASSUME NEW b \in Fresh(t, u)
       PROVE  \/ b = L + 1 /\ u.heap[b] = NewBlock("content")
              \/ b = L + 2 /\ u.heap[b] = NewBlock("encoder")
              \/ b - (L + 2) \in 1 .. m /\ u.heap[b] = NewBlock("buffer")
  <2>1. b = L + 1 \/ b = L + 2 \/ b \in (L + 2) + 1 .. (L + 2) + m
    BY <1>0, <1>10, SMTT(20)
  <2>2. CASE b \in (L + 2) + 1 .. (L + 2) + m
    <3>1. b - (L + 2) \in 1 .. m /\ (L + 2) + (b - (L + 2)) = b
      BY <1>0, <2>2, Nth
    <3> QED BY <1>11, <3>1
  <2> QED BY <1>11, <2>1, <2>2
<1>13. ASSUME NEW i \in NewCb(t, u)
       PROVE  /\ u.cbs[i].f = "free" /\ u.cbs[i].b = L + 2 + (i - C) /\ i - C \in 1 .. m
              /\ u.cbs[i].b \in Fresh(t, u) /\ u.heap[u.cbs[i].b].what = "buffer"
  <2>1. i - C \in 1 .. m /\ C + (i - C) = i
    BY <1>0, <1>10, Nth
  <2>2. u.cbs[i] = F[i - C]
    BY <1>7, <1>9, <2>1
  <2>3. L + 2 + (i - C) \in L + 1 .. L + 2 + m
    BY <1>0, <2>1
  <2> QED BY <1>5, <1>10, <1>11, <2>1, <2>2, <2>3 DEF NewBlock
<1>14. ASSUME NEW i \in NewTask(t, u)
       PROVE  u.queue[i].kind = "part" /\ u.queue[i].last = (i = Q + n)
  <2>1. i - Q \in 1 .. m /\ Q + (i - Q) = i
    BY <1>0, <1>10, Nth
  <2>2. u.queue[i] = T[i - Q]
    BY <1>8, <1>9, <2>1
  <2>3. (i - Q = n) <=> (i = Q + n)
    <3>1. i \in Q + 1 .. Q + m
      BY <1>10
    <3> QED BY <1>0, <3>1
  <2> QED BY <1>5, <2>1, <2>2, <2>3
<1>15. NewHeap(t, u)
  <2>1. Prefix(t.heap, u.heap)
    <3>1. \A i \in 1 .. L : i \in 1 .. L + 2
      BY <1>0
    <3>2. L <= L + 2 + m
      BY <1>0
    <3> QED BY <1>1, <1>6, <1>9, <3>1, <3>2 DEF Prefix, L
  <2> QED BY <1>12, <2>1 DEF NewHeap, NewBlock
<1>16. NewCbs(t, u)
  <2>1. \A i, j \in NewCb(t, u) : u.cbs[i].b = u.cbs[j].b => i = j
    <3>1. \A i, j \in C + 1 .. C + m : L + 2 + (i - C) = L + 2 + (j - C) => i = j
      BY <1>0
    <3> QED BY <1>10, <1>13, <3>1
  <2> QED BY <1>7, <1>9, <1>13, <2>1 DEF NewCbs, Temp
<1>17. NewQueue(t, u)
  <2>1. u.context # NoBlock
    BY <1>0, <1>9 DEF NoBlock
  <2> QED BY <1>8, <1>9, <1>14, <2>1 DEF NewQueue, TaskKind
<1>18. NewBody(t, u)
  BY <1>0, <1>9, <1>10, PrefixSelf DEF NewBody
<1>19. NewContext(t, u)
  <2>1. L + 1 \in L + 1 .. L + 2 + m /\ L + 2 \in L + 1 .. L + 2 + m
    BY <1>0
  <2> QED BY <1>9, <1>10, <1>11, <2>1 DEF NewContext, NewBlock
<1>20. NewOwned(t, u, {})
  <2> SUFFICES ASSUME NEW b \in Fresh(t, u)
               PROVE  (\E i \in NewCb(t, u) : u.cbs[i].b = b) \/ b \in {u.context, u.encoder}
    BY DEF NewOwned
  <2>1. CASE b - (L + 2) \in 1 .. m
    <3>1. /\ C + (b - (L + 2)) \in C + 1 .. C + m
          /\ L + 2 + ((C + (b - (L + 2))) - C) = b
      <4>1. b \in Int
        BY <1>0, <1>10
      <4> QED BY <1>0, <2>1, <4>1
    <3> QED BY <1>10, <1>13, <3>1
  <2> QED BY <1>9, <1>12, <2>1
<1>21. MultiFacts(t, u, n, m)
  <2>1. L + 1 \in L + 1 .. L + 2 + m
    BY <1>0
  <2>2. /\ u.request = t.request /\ u.context \in Fresh(t, u)
        /\ u.body = t.body /\ Len(u.queue) = Q + m
    BY <1>8, <1>9, <1>10, <2>1
  <2> QED BY <1>14, <2>2 DEF MultiFacts, Q
<1>22. Extends(t, u, {}) /\ MultiFacts(t, u, n, m)
  BY <1>9, <1>15, <1>16, <1>17, <1>18, <1>19, <1>20, <1>21 DEF Extends
<1> QED BY <1>22 DEF u

Lost(o) == IF o.op = "bad http" THEN {"proxy"} ELSE {}

LEMMA OpNumbers ==
  ASSUME NEW o \in Op
  PROVE  /\ o.op \in {"copy", "string", "no file", "file", "save", "query", "http",
                      "bad http", "multi"}
         /\ o.n \in Nat /\ o.m \in Nat
<1> DEFINE A == [op : {"copy", "string", "no file", "file", "save", "query", "http",
                       "bad http"}, n : {0}, m : {0}]
           N == 0 .. MaxFiles
           B == [op : {"multi"}, n : N, m : N]
<1>1. N \subseteq Nat
  BY ConstantsAssumption
<1>2. o \in A \/ o \in B
  BY DEF Op
<1> HIDE DEF N
<1>3. CASE o \in A
  <2>1. o.n = 0 /\ o.m = 0
    BY <1>3
  <2>2. o.op \in {"copy", "string", "no file", "file", "save", "query", "http", "bad http"}
    BY <1>3
  <2>3. 0 \in Nat
    OBVIOUS
  <2>4. o.n \in Nat /\ o.m \in Nat
    BY <2>1, <2>3, Zenon
  <2> QED BY <2>2, <2>4
<1>4. CASE o \in B
  BY <1>1, <1>4
<1> QED BY <1>2, <1>3, <1>4

LEMMA DoExtends ==
  ASSUME NEW t \in Data, NEW o \in Op, o.m <= o.n
  PROVE  /\ Extends(t, Do(t, o), Lost(o))
         /\ o.op \notin {"http", "multi"} => Plain(t, Do(t, o))
         /\ o.op = "http" => /\ Do(t, o).request = "moved"
                             /\ Do(t, o).context = t.context /\ Do(t, o).encoder = t.encoder
                             /\ Added(t.queue, Do(t, o).queue, ProxyTask(t))
         /\ o.op = "multi" => MultiFacts(t, Do(t, o), o.n, o.m)
<1>0. /\ o.op \in {"copy", "string", "no file", "file", "save", "query", "http", "bad http",
                   "multi"}
      /\ o.n \in Nat /\ o.m \in Nat
  BY OpNumbers
<1>1. NoBlock \in {NoBlock, Len(t.heap) + 1} /\ Len(t.heap) + 1 \in {NoBlock, Len(t.heap) + 1}
  OBVIOUS
<1>2. CASE o.op = "copy"
  <2>1. Do(t, o) = FreeLater(Point(New(t, "string"), NoBlock))
    BY <1>2 DEF Do, StringCopy
  <2> QED BY <1>1, <1>2, <2>1, StringEffect, StringExtends DEF Lost
<1>3. String(t) = FreeLater(Point(New(t, "string"), Len(t.heap) + 1))
  <2>1. New(t, "string").heap = Append(t.heap, NewBlock("string"))
    BY NewIs DEF Kind
  <2>2. Len(New(t, "string").heap) = Len(t.heap) + 1
    BY <2>1, FieldsOf
  <2> QED BY <2>2 DEF String, Top
<1>4. CASE o.op \in {"string", "no file"}
  <2>1. Do(t, o) = String(t)
    BY <1>4 DEF Do, FileBad, Error
  <2> QED BY <1>1, <1>3, <1>4, <2>1, StringEffect, StringExtends DEF Lost
<1>5. CASE o.op = "file"
  <2>1. Do(t, o) = File(t)
    BY <1>5 DEF Do
  <2> QED BY <1>5, <2>1, FileEffect, TaskExtends DEF Lost
<1>6. CASE o.op = "save"
  <2>1. Do(t, o) = Save(t)
    BY <1>6 DEF Do
  <2> QED BY <1>6, <2>1, SaveEffect, TaskExtends DEF Lost
<1>7. CASE o.op = "query"
  <2>1. Do(t, o) = Query(t)
    BY <1>7 DEF Do
  <2> QED BY <1>7, <2>1, QueryExtends DEF Lost
<1>8. CASE o.op = "http"
  <2>1. Do(t, o) = Http(t)
    BY <1>8 DEF Do
  <2> QED BY <1>8, <2>1, HttpExtends DEF Lost
<1>9. CASE o.op = "bad http"
  <2>1. Do(t, o) = HttpBad(t)
    BY <1>9 DEF Do
  <2> QED BY <1>9, <2>1, HttpBadExtends DEF Lost
<1>10. CASE o.op = "multi"
  <2>1. Do(t, o) = MultiPart(t, o.n, o.m)
    BY <1>10 DEF Do
  <2>2. CASE o.n = 0
    <3>1. o.m = 0
      <4>1. PICK m \in Nat : m = o.m
        BY <1>0
      <4>2. m <= 0
        BY <2>2, <4>1
      <4> QED BY <4>1, <4>2
    <3> QED BY <1>10, <2>1, <2>2, <3>1, EmptyMultiExtends DEF Lost
  <2>3. CASE o.n # 0
    <3>1. o.n \in Nat \ {0} /\ o.m \in 0 .. o.n
      <4>1. PICK n \in Nat, m \in Nat : n = o.n /\ m = o.m
        BY <1>0
      <4>2. n # 0 /\ m <= n
        BY <2>3, <4>1
      <4> QED BY <4>1, <4>2
    <3> QED BY <1>10, <2>1, <3>1, FilledMultiExtends DEF Lost
  <2> QED BY <2>2, <2>3
<1> QED BY <1>0, <1>2, <1>4, <1>5, <1>6, <1>7, <1>8, <1>9, <1>10

LEMMA ErrorExtends ==
  ASSUME NEW t \in Data
  PROVE  Extends(t, String(t), {}) /\ Plain(t, String(t)) /\ Error(t) = String(t)
         /\ StringLike(t, String(t))
<1>1. String(t) = FreeLater(Point(New(t, "string"), Len(t.heap) + 1))
  <2>1. New(t, "string").heap = Append(t.heap, NewBlock("string"))
    BY NewIs DEF Kind
  <2>2. Len(New(t, "string").heap) = Len(t.heap) + 1
    BY <2>1, FieldsOf
  <2> QED BY <2>2 DEF String, Top
<1>2. Len(t.heap) + 1 \in {NoBlock, Len(t.heap) + 1}
  OBVIOUS
<1> QED BY <1>1, <1>2, StringEffect, StringExtends DEF Error

-----------------------------------------------------------------------------
(***************************************************************************)
(* What such a step preserves.                                             *)
(***************************************************************************)
LEMMA ExtHeap ==
  ASSUME NEW t \in Data, NEW lost, NEW u, Extends(t, u, lost)
  PROVE  /\ Len(t.heap) \in Nat /\ Len(u.heap) \in Nat /\ Len(t.heap) <= Len(u.heap)
         /\ \A i \in 1 .. Len(t.heap) : u.heap[i] = t.heap[i] /\ i \in 1 .. Len(u.heap)
                                       /\ i \notin Fresh(t, u)
         /\ \A i \in 1 .. Len(u.heap) : i \in 1 .. Len(t.heap) \/ i \in Fresh(t, u)
         /\ \A i \in Fresh(t, u) : i \in 1 .. Len(u.heap) /\ i # NoBlock
<1>1. u \in Data /\ Prefix(t.heap, u.heap)
  BY DEF Extends, NewHeap
<1>2. Len(t.heap) \in Nat /\ Len(u.heap) \in Nat
  BY <1>1, FieldsOf
<1>3. Len(t.heap) <= Len(u.heap) /\ \A i \in 1 .. Len(t.heap) : u.heap[i] = t.heap[i]
  BY <1>1 DEF Prefix
<1>4. /\ \A i \in 1 .. Len(t.heap) : i \in 1 .. Len(u.heap) /\ i \notin Fresh(t, u)
      /\ \A i \in 1 .. Len(u.heap) : i \in 1 .. Len(t.heap) \/ i \in Fresh(t, u)
      /\ \A i \in Fresh(t, u) : i \in 1 .. Len(u.heap) /\ i # NoBlock
  BY <1>2, <1>3 DEF Fresh, NoBlock
<1> QED BY <1>2, <1>3, <1>4

LEMMA ExtCbs ==
  ASSUME NEW t \in Data, NEW lost, NEW u, Extends(t, u, lost)
  PROVE  /\ Len(t.cbs) \in Nat /\ Len(u.cbs) \in Nat /\ Len(t.cbs) <= Len(u.cbs)
         /\ \A i \in 1 .. Len(t.cbs) : u.cbs[i] = t.cbs[i] /\ i \in 1 .. Len(u.cbs)
                                       /\ i \notin NewCb(t, u)
         /\ \A i \in 1 .. Len(u.cbs) : i \in 1 .. Len(t.cbs) \/ i \in NewCb(t, u)
         /\ \A i \in NewCb(t, u) : i \in 1 .. Len(u.cbs) /\ i # NoBlock
<1>1. u \in Data /\ Prefix(t.cbs, u.cbs)
  BY DEF Extends, NewCbs
<1>2. Len(t.cbs) \in Nat /\ Len(u.cbs) \in Nat
  BY <1>1, FieldsOf
<1>3. Len(t.cbs) <= Len(u.cbs) /\ \A i \in 1 .. Len(t.cbs) : u.cbs[i] = t.cbs[i]
  BY <1>1 DEF Prefix
<1>4. /\ \A i \in 1 .. Len(t.cbs) : i \in 1 .. Len(u.cbs) /\ i \notin NewCb(t, u)
      /\ \A i \in 1 .. Len(u.cbs) : i \in 1 .. Len(t.cbs) \/ i \in NewCb(t, u)
      /\ \A i \in NewCb(t, u) : i \in 1 .. Len(u.cbs) /\ i # NoBlock
  BY <1>2, <1>3 DEF NewCb, NoBlock
<1> QED BY <1>2, <1>3, <1>4

LEMMA ExtQueue ==
  ASSUME NEW t \in Data, NEW lost, NEW u, Extends(t, u, lost)
  PROVE  /\ Len(t.queue) \in Nat /\ Len(u.queue) \in Nat /\ Len(t.queue) <= Len(u.queue)
         /\ \A i \in 1 .. Len(t.queue) : u.queue[i] = t.queue[i] /\ i \in 1 .. Len(u.queue)
                                       /\ i \notin NewTask(t, u)
         /\ \A i \in 1 .. Len(u.queue) : i \in 1 .. Len(t.queue) \/ i \in NewTask(t, u)
         /\ \A i \in NewTask(t, u) : i \in 1 .. Len(u.queue) /\ i # NoBlock
<1>1. u \in Data /\ Prefix(t.queue, u.queue)
  BY DEF Extends, NewQueue
<1>2. Len(t.queue) \in Nat /\ Len(u.queue) \in Nat
  BY <1>1, FieldsOf
<1>3. Len(t.queue) <= Len(u.queue) /\ \A i \in 1 .. Len(t.queue) : u.queue[i] = t.queue[i]
  BY <1>1 DEF Prefix
<1>4. /\ \A i \in 1 .. Len(t.queue) : i \in 1 .. Len(u.queue) /\ i \notin NewTask(t, u)
      /\ \A i \in 1 .. Len(u.queue) : i \in 1 .. Len(t.queue) \/ i \in NewTask(t, u)
      /\ \A i \in NewTask(t, u) : i \in 1 .. Len(u.queue) /\ i # NoBlock
  BY <1>2, <1>3 DEF NewTask, NoBlock
<1> QED BY <1>2, <1>3, <1>4

LEMMA ExtBody ==
  ASSUME NEW t \in Data, NEW lost, NEW u, Extends(t, u, lost)
  PROVE  /\ Len(t.body) \in Nat /\ Len(u.body) \in Nat /\ Len(t.body) <= Len(u.body)
         /\ \A i \in 1 .. Len(t.body) : u.body[i] = t.body[i] /\ i \in 1 .. Len(u.body)
                                       /\ i \notin NewPiece(t, u)
         /\ \A i \in 1 .. Len(u.body) : i \in 1 .. Len(t.body) \/ i \in NewPiece(t, u)
         /\ \A i \in NewPiece(t, u) : i \in 1 .. Len(u.body) /\ i # NoBlock
<1>1. u \in Data /\ Prefix(t.body, u.body)
  BY DEF Extends, NewBody
<1>2. Len(t.body) \in Nat /\ Len(u.body) \in Nat
  BY <1>1, FieldsOf
<1>3. Len(t.body) <= Len(u.body) /\ \A i \in 1 .. Len(t.body) : u.body[i] = t.body[i]
  BY <1>1 DEF Prefix
<1>4. /\ \A i \in 1 .. Len(t.body) : i \in 1 .. Len(u.body) /\ i \notin NewPiece(t, u)
      /\ \A i \in 1 .. Len(u.body) : i \in 1 .. Len(t.body) \/ i \in NewPiece(t, u)
      /\ \A i \in NewPiece(t, u) : i \in 1 .. Len(u.body) /\ i # NoBlock
  BY <1>2, <1>3 DEF NewPiece, NoBlock
<1> QED BY <1>2, <1>3, <1>4

LEMMA ExtOwners ==
  ASSUME NEW t \in Data, NEW lost, NEW u, Extends(t, u, lost), OwnersOK(t)
  PROVE  OwnersOK(u)
<1>1. /\ \A b \in 1 .. Len(t.heap) : u.heap[b] = t.heap[b] /\ b \notin Fresh(t, u)
                                     /\ b \in 1 .. Len(u.heap)
      /\ \A i \in 1 .. Len(t.cbs) : u.cbs[i] = t.cbs[i]
      /\ \A b \in Fresh(t, u) : b \in 1 .. Len(u.heap) /\ b # NoBlock
      /\ \A b \in 1 .. Len(u.cbs) : b \in 1 .. Len(t.cbs) \/ b \in NewCb(t, u)
  <2>1. /\ \A b \in 1 .. Len(t.heap) : u.heap[b] = t.heap[b] /\ b \notin Fresh(t, u)
                                       /\ b \in 1 .. Len(u.heap)
        /\ \A b \in Fresh(t, u) : b \in 1 .. Len(u.heap) /\ b # NoBlock
    BY ExtHeap
  <2>2. /\ \A i \in 1 .. Len(t.cbs) : u.cbs[i] = t.cbs[i]
        /\ \A b \in 1 .. Len(u.cbs) : b \in 1 .. Len(t.cbs) \/ b \in NewCb(t, u)
    BY ExtCbs
  <2> QED BY <2>1, <2>2
<1>2. /\ \A i \in NewCb(t, u) : /\ u.cbs[i].f = "free" /\ u.cbs[i].b \in Fresh(t, u)
                                /\ u.heap[u.cbs[i].b].what \in Temp
      /\ \A i, j \in NewCb(t, u) : u.cbs[i].b = u.cbs[j].b => i = j
  BY DEF Extends, NewCbs
<1>3. \A i \in 1 .. Len(t.cbs) : Owns(t, i) =>
        /\ t.cbs[i].b \in 1 .. Len(t.heap)
        /\ t.heap[t.cbs[i].b].what \in IF IsAfter(t, i) THEN {"tuple"} ELSE Temp
  BY DEF OwnersOK
<1>4. ASSUME NEW i \in 1 .. Len(u.cbs), Owns(u, i)
      PROVE  /\ u.cbs[i].b \in 1 .. Len(u.heap)
             /\ u.heap[u.cbs[i].b].what \in IF IsAfter(u, i) THEN {"tuple"} ELSE Temp
  <2>1. CASE i \in 1 .. Len(t.cbs)
    BY <1>1, <1>3, <1>4, <2>1 DEF Owns, IsAfter
  <2>2. CASE i \in NewCb(t, u)
    BY <1>1, <1>2, <2>2 DEF IsAfter
  <2> QED BY <1>1, <2>1, <2>2
<1>5. ASSUME NEW i \in 1 .. Len(u.cbs), NEW j \in 1 .. Len(u.cbs), Owns(u, i), Owns(u, j),
             u.cbs[i].b = u.cbs[j].b
      PROVE  i = j
  <2>1. CASE i \in 1 .. Len(t.cbs) /\ j \in 1 .. Len(t.cbs)
    BY <1>1, <1>5, <2>1 DEF Owns, OwnersOK
  <2>2. CASE i \in 1 .. Len(t.cbs) /\ j \in NewCb(t, u)
    BY <1>1, <1>2, <1>3, <1>5, <2>2, SMTT(30) DEF Owns
  <2>3. CASE i \in NewCb(t, u) /\ j \in 1 .. Len(t.cbs)
    BY <1>1, <1>2, <1>3, <1>5, <2>3 DEF Owns
  <2>4. CASE i \in NewCb(t, u) /\ j \in NewCb(t, u)
    BY <1>2, <1>5, <2>4
  <2> QED BY <1>1, <2>1, <2>2, <2>3, <2>4
<1>6. u.context # NoBlock =>
        u.context \in 1 .. Len(u.heap) /\ u.heap[u.context].what = "content"
  BY <1>1 DEF Extends, NewContext, OwnersOK
<1>7. u.encoder # NoBlock =>
        u.encoder \in 1 .. Len(u.heap) /\ u.heap[u.encoder].what = "encoder"
  BY <1>1 DEF Extends, NewContext, OwnersOK
<1> QED BY <1>4, <1>5, <1>6, <1>7 DEF OwnersOK

LEMMA ExtTasks ==
  ASSUME NEW t \in Data, NEW lost, NEW u, Extends(t, u, lost), OwnersOK(t), TasksOK(t)
  PROVE  TasksOK(u)
<1>1. /\ \A b \in 1 .. Len(t.heap) : u.heap[b] = t.heap[b] /\ b \notin Fresh(t, u)
                                     /\ b \in 1 .. Len(u.heap)
      /\ \A i \in 1 .. Len(t.cbs) : u.cbs[i] = t.cbs[i]
      /\ \A i \in 1 .. Len(t.queue) : u.queue[i] = t.queue[i]
      /\ \A b \in Fresh(t, u) : b \in 1 .. Len(u.heap) /\ b # NoBlock
      /\ \A b \in 1 .. Len(u.cbs) : b \in 1 .. Len(t.cbs) \/ b \in NewCb(t, u)
      /\ \A b \in 1 .. Len(u.queue) : b \in 1 .. Len(t.queue) \/ b \in NewTask(t, u)
  <2>1. /\ \A b \in 1 .. Len(t.heap) : u.heap[b] = t.heap[b] /\ b \notin Fresh(t, u)
                                       /\ b \in 1 .. Len(u.heap)
        /\ \A b \in Fresh(t, u) : b \in 1 .. Len(u.heap) /\ b # NoBlock
    BY ExtHeap
  <2>2. /\ \A i \in 1 .. Len(t.cbs) : u.cbs[i] = t.cbs[i]
        /\ \A b \in 1 .. Len(u.cbs) : b \in 1 .. Len(t.cbs) \/ b \in NewCb(t, u)
    BY ExtCbs
  <2>3. /\ \A i \in 1 .. Len(t.queue) : u.queue[i] = t.queue[i]
        /\ \A b \in 1 .. Len(u.queue) : b \in 1 .. Len(t.queue) \/ b \in NewTask(t, u)
    BY ExtQueue
  <2> QED BY <2>1, <2>2, <2>3
<1>2. \A i \in NewTask(t, u) :
        /\ u.queue[i].kind \in {"pread", "pwrite", "http"} =>
             /\ u.queue[i].b \in Fresh(t, u)
             /\ u.heap[u.queue[i].b].what = PointsTo(u.queue[i].kind)
        /\ u.queue[i].kind = "http" => Len(u.queue) = Len(t.queue) + 1 /\ u.cbs = t.cbs
        /\ u.queue[i].kind = "part" => u.context # NoBlock
  BY DEF Extends, NewQueue
<1>3. \A i \in 1 .. Len(t.queue) : t.queue[i].kind \in {"pread", "pwrite", "http"} =>
        /\ t.queue[i].b \in 1 .. Len(t.heap)
        /\ t.heap[t.queue[i].b].what = PointsTo(t.queue[i].kind)
  BY DEF TasksOK
<1>4. ASSUME NEW i \in 1 .. Len(u.queue), u.queue[i].kind \in {"pread", "pwrite", "http"}
      PROVE  /\ u.queue[i].b \in 1 .. Len(u.heap)
             /\ u.heap[u.queue[i].b].what = PointsTo(u.queue[i].kind)
  <2>1. CASE i \in 1 .. Len(t.queue)
    BY <1>1, <1>3, <1>4, <2>1
  <2>2. CASE i \in NewTask(t, u)
    BY <1>1, <1>2, <1>4, <2>2
  <2> QED BY <1>1, <2>1, <2>2
<1>5. ASSUME NEW i \in 1 .. Len(u.queue), u.queue[i].kind = "part"
      PROVE  u.context # NoBlock
  <2>1. CASE i \in 1 .. Len(t.queue)
    <3>1. t.context # NoBlock
      BY <1>1, <1>5, <2>1 DEF TasksOK
    <3> QED BY <1>1, <3>1 DEF Extends, NewContext
  <2>2. CASE i \in NewTask(t, u)
    BY <1>2, <1>5, <2>2
  <2> QED BY <1>1, <2>1, <2>2
<1>6. ASSUME NEW i \in 1 .. Len(u.queue), NEW j \in 1 .. Len(u.queue),
             u.queue[i].kind = "http", u.queue[j].kind = "http", u.queue[i].b = u.queue[j].b
      PROVE  i = j
  <2>1. CASE i \in 1 .. Len(t.queue) /\ j \in 1 .. Len(t.queue)
    BY <1>1, <1>6, <2>1 DEF TasksOK
  <2>2. CASE i \in 1 .. Len(t.queue) /\ j \in NewTask(t, u)
    BY <1>1, <1>2, <1>3, <1>6, <2>2, SMTT(20)
  <2>3. CASE i \in NewTask(t, u) /\ j \in 1 .. Len(t.queue)
    BY <1>1, <1>2, <1>3, <1>6, <2>3, SMTT(20)
  <2>4. CASE i \in NewTask(t, u) /\ j \in NewTask(t, u)
    <3>1. Len(u.queue) = Len(t.queue) + 1 /\ Len(t.queue) \in Nat
      BY <1>2, <1>6, <2>4, FieldsOf
    <3> QED BY <2>4, <3>1 DEF NewTask
  <2> QED BY <1>1, <2>1, <2>2, <2>3, <2>4
<1>7. ASSUME NEW i \in 1 .. Len(u.queue), NEW j \in 1 .. Len(u.cbs),
             u.queue[i].kind = "http", Owns(u, j)
      PROVE  u.queue[i].b # u.cbs[j].b
  <2>1. CASE j \in 1 .. Len(t.cbs)
    <3>1. Owns(t, j) /\ u.cbs[j] = t.cbs[j]
      BY <1>1, <1>7, <2>1 DEF Owns
    <3>2. t.cbs[j].b \in 1 .. Len(t.heap)
      BY <2>1, <3>1 DEF OwnersOK
    <3>3. CASE i \in 1 .. Len(t.queue)
      BY <1>1, <1>7, <2>1, <3>1, <3>3 DEF TasksOK
    <3>4. CASE i \in NewTask(t, u)
      BY <1>1, <1>2, <1>7, <3>1, <3>2, <3>4
    <3> QED BY <1>1, <3>3, <3>4
  <2>2. CASE j \in NewCb(t, u)
    <3>1. u.cbs[j].b \in Fresh(t, u)
      BY <2>2 DEF Extends, NewCbs
    <3>2. CASE i \in 1 .. Len(t.queue)
      BY <1>1, <1>3, <1>7, <3>1, <3>2
    <3>3. CASE i \in NewTask(t, u)
      <4>1. u.cbs = t.cbs /\ Len(t.cbs) \in Nat
        BY <1>2, <1>7, <3>3, FieldsOf
      <4> QED BY <2>2, <4>1 DEF NewCb
    <3> QED BY <1>1, <3>2, <3>3
  <2> QED BY <1>1, <2>1, <2>2
<1> QED BY <1>4, <1>5, <1>6, <1>7 DEF TasksOK

-----------------------------------------------------------------------------
(***************************************************************************)
(* The operations called, and what depends on them.                        *)
(***************************************************************************)
LEMMA CalledFinite ==
  ASSUME ops \in Seq(Op), NEW name
  PROVE  /\ Called(name) \subseteq 1 .. Len(ops) /\ IsFiniteSet(Called(name))
         /\ Called(name) = {} => Once(name)
<1>1. Len(ops) \in Nat /\ DOMAIN ops = 1 .. Len(ops)
  OBVIOUS
<1>2. Called(name) \subseteq 1 .. Len(ops)
  BY <1>1 DEF Called
<1>3. IsFiniteSet(1 .. Len(ops))
  BY <1>1, FS_Interval
<1>4. IsFiniteSet(Called(name))
  BY <1>2, <1>3, FS_Subset
<1>5. Called(name) = {} => Once(name)
  BY FS_EmptySet DEF Once
<1> QED BY <1>2, <1>4, <1>5

LEMMA CalledGrows ==
  ASSUME ops \in Seq(Op), NEW o \in Op, ops' = Append(ops, o), NEW name
  PROVE  /\ o.op # name => Called(name)' = Called(name)
         /\ o.op = name => Called(name)' = Called(name) \cup {Len(ops) + 1}
         /\ \A i \in Called(name) : ops'[i] = ops[i]
         /\ ops'[Len(ops) + 1] = o
         /\ Once(name)' => Once(name) /\ (o.op = name => Called(name) = {})
<1>1. /\ Len(ops) \in Nat /\ DOMAIN ops = 1 .. Len(ops) /\ DOMAIN ops' = 1 .. Len(ops) + 1
      /\ \A i \in 1 .. Len(ops) : ops'[i] = ops[i]
      /\ ops'[Len(ops) + 1] = o
  OBVIOUS
<1>2. Called(name) \subseteq 1 .. Len(ops) /\ IsFiniteSet(Called(name))
  BY CalledFinite
<1>3. Called(name)' = {i \in 1 .. Len(ops) + 1 : ops'[i].op = name}
  BY <1>1 DEF Called
<1>4. Called(name) = {i \in 1 .. Len(ops) : ops[i].op = name}
  BY <1>1 DEF Called
<1>5. \A i : i \in 1 .. Len(ops) + 1 <=> i \in 1 .. Len(ops) \/ i = Len(ops) + 1
  BY <1>1
<1>6. o.op # name => Called(name)' = Called(name)
  BY <1>1, <1>3, <1>4, <1>5
<1>7. o.op = name => Called(name)' = Called(name) \cup {Len(ops) + 1}
  BY <1>1, <1>3, <1>4, <1>5
<1>8. ASSUME Once(name)', o.op = name
      PROVE  Called(name) = {}
  <2>1. Len(ops) + 1 \notin Called(name)
    BY <1>1, <1>2
  <2>2. Cardinality(Called(name) \cup {Len(ops) + 1}) = Cardinality(Called(name)) + 1
    BY <1>2, <2>1, FS_AddElement
  <2>3. Cardinality(Called(name) \cup {Len(ops) + 1}) <= 1
    BY <1>7, <1>8 DEF Once
  <2>4. Cardinality(Called(name)) \in Nat
    BY <1>2, FS_CardinalityType
  <2>5. Cardinality(Called(name)) = 0
    BY <2>2, <2>3, <2>4
  <2> QED BY <1>2, <2>5, FS_EmptySet
<1>9. Once(name)' => Once(name)
  <2>1. CASE o.op = name
    BY <1>8, <2>1, CalledFinite
  <2>2. CASE o.op # name
    BY <1>6, <2>2 DEF Once
  <2> QED BY <2>1, <2>2
<1> QED BY <1>1, <1>2, <1>6, <1>7, <1>8, <1>9

CalledOK(t) == CallsOK(t) /\ RequestOK(t) /\ BodyOK(t) /\ SentOK(t)

\* No multipart body is added.
NoMulti(t, u) ==
  /\ u.context = t.context /\ u.encoder = t.encoder
  /\ \A i \in NewTask(t, u) : u.queue[i].kind # "part"

LEMMA NoMultiBody ==
  ASSUME NEW t \in Data, NEW lost, NEW u, Extends(t, u, lost), NoMulti(t, u), OwnersOK(t),
         BodyOK(t)
  PROVE  BodyOK(u)
<1> SUFFICES ASSUME Once("multi")
             PROVE  /\ \A i \in 1 .. Len(u.body) : u.body[i].b # NoBlock =>
                         /\ u.body[i].b \in 1 .. Len(u.heap)
                         /\ u.heap[u.body[i].b].grown = u.body[i].grown
                         /\ u.body[i].b = u.context =>
                              \A j \in 1 .. Len(u.queue) : u.queue[j].kind # "part"
                    /\ \A i, j \in 1 .. Len(u.queue) :
                         i < j /\ u.queue[i].kind = "part" /\ u.queue[j].kind = "part"
                           => ~u.queue[i].last
  BY DEF BodyOK
<1>1. /\ \A b \in 1 .. Len(t.heap) : u.heap[b] = t.heap[b] /\ b \notin Fresh(t, u)
                                     /\ b \in 1 .. Len(u.heap)
      /\ \A i \in 1 .. Len(t.queue) : u.queue[i] = t.queue[i]
      /\ \A i \in 1 .. Len(t.body) : u.body[i] = t.body[i]
      /\ \A b \in Fresh(t, u) : b \in 1 .. Len(u.heap) /\ b # NoBlock
      /\ \A b \in 1 .. Len(u.body) : b \in 1 .. Len(t.body) \/ b \in NewPiece(t, u)
      /\ \A b \in 1 .. Len(u.queue) : b \in 1 .. Len(t.queue) \/ b \in NewTask(t, u)
  <2>1. /\ \A b \in 1 .. Len(t.heap) : u.heap[b] = t.heap[b] /\ b \notin Fresh(t, u)
                                       /\ b \in 1 .. Len(u.heap)
        /\ \A b \in Fresh(t, u) : b \in 1 .. Len(u.heap) /\ b # NoBlock
    BY ExtHeap
  <2>2. /\ \A i \in 1 .. Len(t.queue) : u.queue[i] = t.queue[i]
        /\ \A b \in 1 .. Len(u.queue) : b \in 1 .. Len(t.queue) \/ b \in NewTask(t, u)
    BY ExtQueue
  <2>3. /\ \A i \in 1 .. Len(t.body) : u.body[i] = t.body[i]
        /\ \A b \in 1 .. Len(u.body) : b \in 1 .. Len(t.body) \/ b \in NewPiece(t, u)
    BY ExtBody
  <2> QED BY <2>1, <2>2, <2>3
<1>2. \A i \in NewPiece(t, u) : u.body[i].b # NoBlock =>
        u.body[i].b \in Fresh(t, u) /\ u.heap[u.body[i].b].grown = u.body[i].grown
  BY DEF Extends, NewBody
<1>3. \A i \in 1 .. Len(t.body) : t.body[i].b # NoBlock =>
        /\ t.body[i].b \in 1 .. Len(t.heap)
        /\ t.heap[t.body[i].b].grown = t.body[i].grown
        /\ t.body[i].b = t.context =>
             \A j \in 1 .. Len(t.queue) : t.queue[j].kind # "part"
  BY DEF BodyOK
<1>4. \A i, j \in 1 .. Len(t.queue) :
        i < j /\ t.queue[i].kind = "part" /\ t.queue[j].kind = "part" => ~t.queue[i].last
  BY DEF BodyOK
<1>5. u.context = t.context /\ \A i \in NewTask(t, u) : u.queue[i].kind # "part"
  BY DEF NoMulti
<1>6. t.context # NoBlock => t.context \notin Fresh(t, u)
  BY <1>1 DEF OwnersOK
<1>7. ASSUME NEW i \in 1 .. Len(u.body), u.body[i].b # NoBlock
      PROVE  /\ u.body[i].b \in 1 .. Len(u.heap)
             /\ u.heap[u.body[i].b].grown = u.body[i].grown
             /\ u.body[i].b = u.context =>
                  \A j \in 1 .. Len(u.queue) : u.queue[j].kind # "part"
  <2>1. CASE i \in 1 .. Len(t.body)
    BY <1>1, <1>3, <1>5, <1>7, <2>1, ZenonT(30)
  <2>2. CASE i \in NewPiece(t, u)
    BY <1>1, <1>2, <1>5, <1>6, <1>7, <2>2
  <2> QED BY <1>1, <2>1, <2>2
<1> QED BY <1>1, <1>4, <1>5, <1>7

LEMMA NoMultiSent ==
  ASSUME NEW t \in Data, NEW lost, NEW u, Extends(t, u, lost), NoMulti(t, u), SentOK(t)
  PROVE  SentOK(u)
<1>1. /\ \A i \in 1 .. Len(t.queue) : u.queue[i] = t.queue[i] /\ i \in 1 .. Len(u.queue)
      /\ \A i \in 1 .. Len(t.body) : u.body[i] = t.body[i] /\ i \in 1 .. Len(u.body)
  <2>1. /\ \A i \in 1 .. Len(t.queue) : u.queue[i] = t.queue[i] /\ i \in 1 .. Len(u.queue)
    BY ExtQueue
  <2>2. /\ \A i \in 1 .. Len(t.body) : u.body[i] = t.body[i] /\ i \in 1 .. Len(u.body)
    BY ExtBody
  <2> QED BY <2>1, <2>2
<1>2. u.context = t.context
  BY DEF NoMulti
<1> QED BY <1>1, <1>2 DEF SentOK

LEMMA PlainCalls ==
  ASSUME NEW t \in Data, NEW lost, NEW u, Extends(t, u, lost), Plain(t, u), CallsOK(t)
  PROVE  CallsOK(u)
<1>1. /\ \A i \in 1 .. Len(t.queue) : u.queue[i] = t.queue[i]
      /\ \A b \in 1 .. Len(u.queue) : b \in 1 .. Len(t.queue) \/ b \in NewTask(t, u)
  BY ExtQueue
<1>2. /\ \A i \in 1 .. Len(t.cbs) : u.cbs[i] = t.cbs[i]
      /\ \A b \in 1 .. Len(u.cbs) : b \in 1 .. Len(t.cbs) \/ b \in NewCb(t, u)
  BY ExtCbs
<1>3. /\ u.context = t.context /\ u.encoder = t.encoder
      /\ \A i \in NewTask(t, u) : u.queue[i].kind # "http" /\ u.queue[i].kind # "part"
  BY DEF Plain
<1>4. \A i \in NewCb(t, u) : u.cbs[i].f = "free"
  BY DEF Extends, NewCbs
<1> QED BY <1>1, <1>2, <1>3, <1>4 DEF CallsOK

LEMMA PlainCalled ==
  ASSUME NEW t \in Data, NEW lost, NEW u, Extends(t, u, lost), Plain(t, u), OwnersOK(t),
         CalledOK(t)
  PROVE  CalledOK(u)
<1>1. /\ \A i \in 1 .. Len(t.queue) : u.queue[i] = t.queue[i] /\ i \in 1 .. Len(u.queue)
      /\ \A b \in 1 .. Len(u.queue) : b \in 1 .. Len(t.queue) \/ b \in NewTask(t, u)
  BY ExtQueue
<1>2. /\ u.request = t.request /\ u.context = t.context /\ u.encoder = t.encoder
      /\ \A i \in NewTask(t, u) : u.queue[i].kind # "http" /\ u.queue[i].kind # "part"
  BY DEF Plain
<1>3. NoMulti(t, u)
  BY <1>2 DEF NoMulti
<1>4. BodyOK(u) /\ SentOK(u)
  BY <1>3, NoMultiBody, NoMultiSent DEF CalledOK
<1>5. CallsOK(u)
  BY PlainCalls DEF CalledOK
<1>6. RequestOK(u)
  <2>1. RequestOK(t)
    BY DEF CalledOK
  <2> QED BY <1>1, <1>2, <2>1 DEF RequestOK
<1> QED BY <1>4, <1>5, <1>6 DEF CalledOK

\* Carried over to a step that calls neither a proxy nor a multipart body.
LEMMA SameCalls ==
  ASSUME NEW u, s' = u, CalledOK(u), Called("http")' = Called("http"),
         Called("multi")' = Called("multi"), \A i \in Called("multi") : ops'[i] = ops[i]
  PROVE  CalledOK(s)'
<1>1. (Once("http")' <=> Once("http")) /\ (Once("multi")' <=> Once("multi"))
  BY DEF Once
<1>2. CallsOK(s)'
  BY DEF CalledOK, CallsOK
<1>3. RequestOK(s)'
  BY <1>1 DEF CalledOK, RequestOK
<1>4. BodyOK(s)'
  BY <1>1 DEF CalledOK, BodyOK
<1>5. SentOK(s)'
  BY <1>1 DEF CalledOK, SentOK
<1> QED BY <1>2, <1>3, <1>4, <1>5 DEF CalledOK

\* What IInv says of s, as the lemmas above need it.
LEMMA IInvFacts ==
  ASSUME IInv
  PROVE  /\ s \in Data /\ ops \in Seq(Op) /\ at \in Nat \ {0}
         /\ OwnersOK(s) /\ TasksOK(s) /\ (replied = "no" => CalledOK(s))
         /\ CallsOK(s) /\ RequestOK(s) /\ SentOK(s)
BY DEF IInv, TypeOK, CalledOK

LEMMA HttpCalled ==
  ASSUME NEW t \in Data, NEW u, Extends(t, u, {}), u.request = "moved", s' = u,
         u.context = t.context, u.encoder = t.encoder, Added(t.queue, u.queue, ProxyTask(t)),
         OwnersOK(t), CalledOK(t), ops \in Seq(Op), NEW o \in Op, o.op = "http",
         ops' = Append(ops, o)
  PROVE  CalledOK(s)'
<1>1. /\ \A i \in 1 .. Len(t.queue) : u.queue[i] = t.queue[i] /\ i \in 1 .. Len(u.queue)
      /\ \A i \in 1 .. Len(t.cbs) : u.cbs[i] = t.cbs[i]
      /\ \A b \in 1 .. Len(u.cbs) : b \in 1 .. Len(t.cbs) \/ b \in NewCb(t, u)
      /\ \A b \in 1 .. Len(u.queue) : b \in 1 .. Len(t.queue) \/ b \in NewTask(t, u)
  <2>1. /\ \A i \in 1 .. Len(t.queue) : u.queue[i] = t.queue[i] /\ i \in 1 .. Len(u.queue)
        /\ \A b \in 1 .. Len(u.queue) : b \in 1 .. Len(t.queue) \/ b \in NewTask(t, u)
    BY ExtQueue
  <2>2. /\ \A i \in 1 .. Len(t.cbs) : u.cbs[i] = t.cbs[i]
        /\ \A b \in 1 .. Len(u.cbs) : b \in 1 .. Len(t.cbs) \/ b \in NewCb(t, u)
    BY ExtCbs
  <2> QED BY <2>1, <2>2
<1>2. /\ Called("http")' # {}
      /\ Once("http")' => Once("http") /\ Called("http") = {}
  BY CalledGrows
<1>3. /\ Called("multi")' = Called("multi") /\ (Once("multi")' <=> Once("multi"))
      /\ \A i \in Called("multi") : ops'[i] = ops[i]
  <2>1. Called("multi")' = Called("multi") /\ \A i \in Called("multi") : ops'[i] = ops[i]
    BY CalledGrows
  <2> QED BY <2>1 DEF Once
<1>4. /\ Len(t.queue) \in Nat /\ Len(u.queue) = Len(t.queue) + 1
      /\ u.queue[Len(t.queue) + 1].kind = "http"
      /\ u.queue[Len(t.queue) + 1].holds = t.request /\ t.request \in Where
  BY FieldsOf DEF Added, ProxyTask
<1>5. NewTask(t, u) = {Len(t.queue) + 1} /\ Len(t.queue) + 1 \in 1 .. Len(u.queue)
  BY <1>4 DEF NewTask
<1>6. NoMulti(t, u)
  BY <1>4, <1>5 DEF NoMulti
<1>7. BodyOK(u)
  BY <1>6, NoMultiBody DEF CalledOK
<1>8. BodyOK(s)'
  BY <1>3, <1>7 DEF BodyOK
<1>9. SentOK(s)'
  BY <1>2 DEF SentOK
<1>10. \A i \in NewCb(t, u) : u.cbs[i].f = "free"
  BY DEF Extends, NewCbs
<1>11. CallsOK(s)'
  <2>1. CallsOK(t)
    BY DEF CalledOK
  <2> QED BY <1>1, <1>2, <1>3, <1>4, <1>5, <2>1 DEF CallsOK
<1>12. RequestOK(s)'
  <2>1. CASE ~Once("http")'
    BY <1>2, <2>1 DEF RequestOK
  <2>2. CASE Once("http")'
    <3>1. t.request = "here" /\ \A i \in 1 .. Len(t.queue) : t.queue[i].kind # "http"
      BY <1>2, <2>2 DEF CalledOK, CallsOK, RequestOK
    <3>2. \A i \in 1 .. Len(u.queue) : u.queue[i].kind = "http" => i = Len(t.queue) + 1
      BY <1>1, <1>5, <3>1
    <3> QED BY <1>2, <1>4, <1>5, <3>1, <3>2 DEF RequestOK
  <2> QED BY <2>1, <2>2
<1> QED BY <1>8, <1>9, <1>11, <1>12 DEF CalledOK

LEMMA MultiCalled ==
  ASSUME NEW t \in Data, NEW u, Extends(t, u, {}), s' = u,
         OwnersOK(t), CalledOK(t), ops \in Seq(Op), NEW o \in Op, o.op = "multi",
         NEW n \in Nat, NEW m \in 0 .. n, o.n = n, o.m = m,
         MultiFacts(t, u, n, m), ops' = Append(ops, o)
  PROVE  CalledOK(s)'
<1>1. /\ \A b \in 1 .. Len(t.heap) : u.heap[b] = t.heap[b] /\ b \notin Fresh(t, u)
                                     /\ b \in 1 .. Len(u.heap)
      /\ \A i \in 1 .. Len(t.queue) : u.queue[i] = t.queue[i] /\ i \in 1 .. Len(u.queue)
      /\ \A i \in 1 .. Len(t.cbs) : u.cbs[i] = t.cbs[i]
      /\ \A i \in 1 .. Len(t.body) : u.body[i] = t.body[i]
      /\ \A b \in Fresh(t, u) : b \in 1 .. Len(u.heap) /\ b # NoBlock
      /\ \A b \in 1 .. Len(u.cbs) : b \in 1 .. Len(t.cbs) \/ b \in NewCb(t, u)
      /\ \A b \in 1 .. Len(u.queue) : b \in 1 .. Len(t.queue) \/ b \in NewTask(t, u)
      /\ \A b \in 1 .. Len(u.body) : b \in 1 .. Len(t.body) \/ b \in NewPiece(t, u)
  <2>1. /\ \A b \in 1 .. Len(t.heap) : u.heap[b] = t.heap[b] /\ b \notin Fresh(t, u)
                                       /\ b \in 1 .. Len(u.heap)
        /\ \A b \in Fresh(t, u) : b \in 1 .. Len(u.heap) /\ b # NoBlock
    BY ExtHeap
  <2>2. /\ \A i \in 1 .. Len(t.queue) : u.queue[i] = t.queue[i] /\ i \in 1 .. Len(u.queue)
        /\ \A b \in 1 .. Len(u.queue) : b \in 1 .. Len(t.queue) \/ b \in NewTask(t, u)
    BY ExtQueue
  <2>3. /\ \A i \in 1 .. Len(t.cbs) : u.cbs[i] = t.cbs[i]
        /\ \A b \in 1 .. Len(u.cbs) : b \in 1 .. Len(t.cbs) \/ b \in NewCb(t, u)
    BY ExtCbs
  <2>4. /\ \A i \in 1 .. Len(t.body) : u.body[i] = t.body[i]
        /\ \A b \in 1 .. Len(u.body) : b \in 1 .. Len(t.body) \/ b \in NewPiece(t, u)
    BY ExtBody
  <2> QED BY <2>1, <2>2, <2>3, <2>4
<1>2. /\ Called("multi")' = Called("multi") \cup {Len(ops) + 1}
      /\ ops'[Len(ops) + 1] = o
      /\ Once("multi")' => Once("multi") /\ Called("multi") = {}
  BY CalledGrows
<1>3. Called("http")' = Called("http") /\ (Once("http")' <=> Once("http"))
  <2>1. Called("http")' = Called("http")
    BY CalledGrows
  <2> QED BY <2>1 DEF Once
<1>4. u.request = t.request /\ u.context \in Fresh(t, u)
  BY DEF MultiFacts
<1>5. /\ Len(t.queue) \in Nat /\ Len(t.body) \in Nat /\ Len(u.queue) \in Nat
      /\ Len(u.body) \in Nat /\ t.queue \in Seq(Task)
  BY FieldsOf DEF Extends
<1>6. /\ n = 0 => u.queue = t.queue
      /\ n # 0 => Len(u.queue) = Len(t.queue) + m
      /\ \A i \in NewTask(t, u) : /\ u.queue[i].kind = "part"
                                  /\ u.queue[i].last = (i = Len(t.queue) + n)
  <2>1. CASE n = 0
    <3>1. NewTask(t, u) = {}
      BY <1>5, <2>1 DEF MultiFacts, NewTask
    <3> QED BY <2>1, <3>1 DEF MultiFacts
  <2>2. CASE n # 0
    BY <2>2 DEF MultiFacts
  <2> QED BY <2>1, <2>2
<1>7. \A i \in NewCb(t, u) : u.cbs[i].f = "free"
  BY DEF Extends, NewCbs
<1>8. CallsOK(s)'
  <2>1. CallsOK(t)
    BY DEF CalledOK
  <2> QED BY <1>1, <1>2, <1>3, <1>6, <1>7, <2>1, ZenonT(30) DEF CallsOK
<1>9. RequestOK(s)'
  <2>1. RequestOK(t)
    BY DEF CalledOK
  <2>2. \A i \in 1 .. Len(u.queue) :
          u.queue[i].kind = "http" => i \in 1 .. Len(t.queue) /\ u.queue[i] = t.queue[i]
    BY <1>1, <1>6
  <2>3. \A i \in 1 .. Len(t.queue) : u.queue[i] = t.queue[i] /\ i \in 1 .. Len(u.queue)
    BY <1>1
  <2>4. u.request = t.request
    BY <1>4
  <2> QED BY <1>3, <2>1, <2>2, <2>3, <2>4, SMTT(60) DEF RequestOK
<1>10. ASSUME Once("multi")'
       PROVE  \A i \in 1 .. Len(t.queue) : t.queue[i].kind # "part"
  BY <1>2, <1>10 DEF CalledOK, CallsOK
<1>11. BodyOK(s)'
  <2> SUFFICES ASSUME Once("multi")'
               PROVE  /\ \A i \in 1 .. Len(u.body) : u.body[i].b # NoBlock =>
                           /\ u.body[i].b \in 1 .. Len(u.heap)
                           /\ u.heap[u.body[i].b].grown = u.body[i].grown
                           /\ u.body[i].b = u.context =>
                                \A j \in 1 .. Len(u.queue) : u.queue[j].kind # "part"
                      /\ \A i, j \in 1 .. Len(u.queue) :
                           i < j /\ u.queue[i].kind = "part" /\ u.queue[j].kind = "part"
                             => ~u.queue[i].last
    BY DEF BodyOK
  <2>1. \A i \in 1 .. Len(t.queue) : t.queue[i].kind # "part"
    BY <1>10
  <2>2. \A i \in 1 .. Len(t.body) : t.body[i].b # NoBlock =>
          /\ t.body[i].b \in 1 .. Len(t.heap)
          /\ t.heap[t.body[i].b].grown = t.body[i].grown
    BY <1>2 DEF CalledOK, BodyOK
  <2>3. \A i \in NewPiece(t, u) : u.body[i].b # NoBlock =>
          u.body[i].b \in Fresh(t, u) /\ u.heap[u.body[i].b].grown = u.body[i].grown
    BY DEF Extends, NewBody
  <2>4. ASSUME NEW i \in 1 .. Len(u.body), u.body[i].b # NoBlock
        PROVE  /\ u.body[i].b \in 1 .. Len(u.heap)
               /\ u.heap[u.body[i].b].grown = u.body[i].grown
               /\ u.body[i].b = u.context =>
                    \A j \in 1 .. Len(u.queue) : u.queue[j].kind # "part"
    <3>1. CASE i \in 1 .. Len(t.body)
      BY <1>1, <1>4, <2>2, <2>4, <3>1, ZenonT(30)
    <3>2. CASE i \in NewPiece(t, u)
      <4>1. n = 0
        <5> SUFFICES ASSUME n # 0 PROVE FALSE
          OBVIOUS
        <5>1. u.body = t.body
          BY DEF MultiFacts
        <5> QED BY <1>5, <3>2, <5>1 DEF NewPiece
      <4> QED BY <1>1, <1>6, <2>1, <2>3, <2>4, <3>2, <4>1
    <3> QED BY <1>1, <3>1, <3>2
  <2>5. ASSUME NEW i \in 1 .. Len(u.queue), NEW j \in 1 .. Len(u.queue), i < j,
               u.queue[i].kind = "part", u.queue[j].kind = "part"
        PROVE  ~u.queue[i].last
    <3>1. i \in NewTask(t, u)
      BY <1>1, <2>1, <2>5
    <3>2. n # 0
      BY <1>1, <1>6, <2>1, <2>5
    <3>3. Len(u.queue) = Len(t.queue) + m
      BY <1>6, <3>2
    <3>4. i # Len(t.queue) + n
      BY <1>5, <2>5, <3>3
    <3> QED BY <1>6, <3>1, <3>4
  <2> QED BY <2>4, <2>5
<1>12. SentOK(s)'
  <2> SUFFICES ASSUME NEW i \in Called("multi")', Once("multi")', ops'[i].m = ops'[i].n
               PROVE  \/ \E j \in 1 .. Len(u.body) :
                           u.body[j].b # NoBlock /\ u.body[j].b = u.context
                      \/ \E j \in 1 .. Len(u.queue) :
                           u.queue[j].kind = "part" /\ u.queue[j].last
    BY DEF SentOK
  <2>1. i = Len(ops) + 1 /\ ops'[i] = o
    BY <1>2
  <2>2. m = n
    BY <2>1
  <2>3. CASE n = 0
    <3>1. PICK j \in NewPiece(t, u) : u.body[j].b = u.context
      BY <2>3 DEF MultiFacts
    <3>2. j \in 1 .. Len(u.body)
      BY <1>5, <3>1 DEF NewPiece
    <3>3. u.context # NoBlock
      BY <1>1, <1>4
    <3> QED BY <3>1, <3>2, <3>3
  <2>4. CASE n # 0
    <3>1. Len(u.queue) = Len(t.queue) + n
      BY <1>6, <2>2, <2>4
    <3>2. Len(t.queue) + n \in NewTask(t, u) /\ Len(t.queue) + n \in 1 .. Len(u.queue)
      BY <1>5, <2>4, <3>1 DEF NewTask
    <3> QED BY <1>6, <3>2
  <2> QED BY <2>3, <2>4
<1> QED BY <1>8, <1>9, <1>11, <1>12 DEF CalledOK

LEMMA OperationData ==
  ASSUME IInv, NEW o \in Op, Operation(o)
  PROVE  /\ CalledOK(s)' /\ OwnersOK(s)' /\ TasksOK(s)' /\ Extends(s, s', Lost(o))
         /\ (o.op # "multi" => s'.context = s.context /\ s'.encoder = s.encoder)
<1>1. pc = "handler" /\ o.m <= o.n /\ s' = Do(s, o) /\ ops' = Append(ops, o)
  BY DEF Operation
<1>2. replied = "no"
  BY <1>1 DEF IInv, CourseOK, Unreplied
<1>3. s \in Data /\ ops \in Seq(Op) /\ OwnersOK(s) /\ TasksOK(s) /\ CalledOK(s)
  BY <1>2, IInvFacts
<1>4. PICK u : u = Do(s, o)
  OBVIOUS
<1>5. s' = u /\ local' = local
  BY <1>1, <1>4 DEF Operation
<1>6. /\ Extends(s, u, Lost(o))
      /\ o.op \notin {"http", "multi"} => Plain(s, u)
      /\ o.op = "http" => /\ u.request = "moved"
                          /\ u.context = s.context /\ u.encoder = s.encoder
                          /\ Added(s.queue, u.queue, ProxyTask(s))
      /\ o.op = "multi" => MultiFacts(s, u, o.n, o.m)
  BY <1>1, <1>3, <1>4, DoExtends
<1>12. o.op # "multi" => s'.context = s.context /\ s'.encoder = s.encoder
  BY <1>5, <1>6 DEF Plain
<1>7. OwnersOK(u) /\ TasksOK(u)
  BY <1>3, <1>6, ExtOwners, ExtTasks
<1>8. OwnersOK(s)' /\ TasksOK(s)'
  BY <1>5, <1>7, SMTT(30) DEF OwnersOK, TasksOK, Owns, IsAfter
<1>9. CASE o.op \notin {"http", "multi"}
  <2>1. CalledOK(u)
    BY <1>3, <1>6, <1>9, PlainCalled
  <2>2. /\ Called("http")' = Called("http") /\ Called("multi")' = Called("multi")
        /\ \A i \in Called("multi") : ops'[i] = ops[i]
    BY <1>1, <1>3, <1>9, CalledGrows
  <2>3. CalledOK(s)'
    BY <1>5, <2>1, <2>2, SameCalls
  <2> QED BY <1>5, <1>6, <1>8, <1>12, <2>3
<1>10. CASE o.op = "http"
  <2>1. Extends(s, u, {})
    BY <1>6, <1>10 DEF Lost
  <2>2. CalledOK(s)'
    BY <1>1, <1>3, <1>5, <1>6, <1>10, <2>1, HttpCalled
  <2> QED BY <1>5, <1>6, <1>8, <1>12, <2>2
<1>11. CASE o.op = "multi"
  <2>1. Extends(s, u, {})
    BY <1>6, <1>11 DEF Lost
  <2>2. PICK n \in Nat, m \in Nat : n = o.n /\ m = o.m
    BY <1>11, OpNumbers
  <2>3. m \in 0 .. n
    BY <1>1, <2>2
  <2>4. MultiFacts(s, u, n, m)
    BY <1>6, <1>11, <2>2
  <2>5. CalledOK(s)'
    BY <1>1, <1>3, <1>5, <1>11, <2>1, <2>2, <2>3, <2>4, MultiCalled
  <2> QED BY <1>5, <1>6, <1>8, <1>12, <2>5
<1> QED BY <1>9, <1>10, <1>11

-----------------------------------------------------------------------------
(***************************************************************************)
(* The rest of the invariant, for steps before the reply.                  *)
(***************************************************************************)
\* Nothing but user_data changes.
SameData(t, u) ==
  /\ u \in Data /\ u.heap = t.heap /\ u.body = t.body /\ u.cbs = t.cbs /\ u.queue = t.queue
  /\ u.context = t.context /\ u.encoder = t.encoder /\ u.request = t.request

LEMMA SameExtends ==
  ASSUME NEW t \in Data, NEW u, SameData(t, u)
  PROVE  Extends(t, u, {}) /\ Plain(t, u)
<1>1. /\ t.heap \in Seq(Block) /\ t.cbs \in Seq(Cb) /\ t.queue \in Seq(Task)
      /\ t.body \in Seq(Piece)
      /\ Len(t.heap) \in Nat /\ Len(t.cbs) \in Nat /\ Len(t.queue) \in Nat
      /\ Len(t.body) \in Nat
  BY FieldsOf
<1>2. /\ Prefix(t.heap, t.heap) /\ Prefix(t.cbs, t.cbs) /\ Prefix(t.queue, t.queue)
      /\ Prefix(t.body, t.body)
  BY <1>1, PrefixSelf
<1>3. /\ u \in Data /\ u.heap = t.heap /\ u.body = t.body /\ u.cbs = t.cbs
      /\ u.queue = t.queue /\ u.context = t.context /\ u.encoder = t.encoder
      /\ u.request = t.request
  BY DEF SameData
<1>4. /\ Fresh(t, u) = {} /\ NewCb(t, u) = {} /\ NewTask(t, u) = {} /\ NewPiece(t, u) = {}
  BY <1>1, <1>3 DEF Fresh, NewCb, NewTask, NewPiece
<1>5. NewHeap(t, u) /\ NewCbs(t, u) /\ NewQueue(t, u) /\ NewBody(t, u)
  BY <1>2, <1>3, <1>4 DEF NewHeap, NewCbs, NewQueue, NewBody
<1>6. NewContext(t, u) /\ NewOwned(t, u, {}) /\ Plain(t, u)
  BY <1>3, <1>4 DEF NewContext, NewOwned, Plain
<1> QED BY <1>3, <1>5, <1>6 DEF Extends

\* The same blocks, which may have grown.
SameBlocks(h, g) ==
  /\ Len(g) = Len(h)
  /\ \A b \in 1 .. Len(h) : g[b].what = h[b].what /\ g[b].live = h[b].live

LEMMA PreAfters ==
  ASSUME IInv, replied = "no", at' = 1, afters' = afters, s' \in Data
  PROVE  AftersOK'
<1>1. afters = <<>>
  BY DEF IInv, AftersOK
<1>2. Len(s'.cbs) \in Nat /\ \A i \in 1 .. Len(s'.cbs) : ~(i < 1)
  BY FieldsOf
<1> QED BY <1>1, <1>2 DEF AftersOK

LEMMA PreCourse ==
  ASSUME at' = 1, replied' = "no", pc' \in Unreplied \ {"process"}
  PROVE  CourseOK'
BY DEF CourseOK, Unreplied

LEMMA PreLive ==
  ASSUME OwnersOK(s)', local' = local,
         at' = 1, again' = {}, \A b \in 1 .. Len(s'.heap) : s'.heap[b].live
  PROVE  LiveOK'
<1>1. /\ \A i \in 1 .. Len(s'.cbs) : Owns(s', i) => s'.cbs[i].b \in 1 .. Len(s'.heap)
      /\ s'.context # NoBlock => s'.context \in 1 .. Len(s'.heap)
      /\ s'.encoder # NoBlock => s'.encoder \in 1 .. Len(s'.heap)
  BY DEF OwnersOK, Owns
<1> QED BY <1>1 DEF LiveOK, Owns

LEMMA ExtLive ==
  ASSUME IInv, replied = "no", NEW t \in Data, NEW lost, Extends(t, s', lost),
         SameBlocks(s.heap, t.heap), OwnersOK(s)', local' = local, at' = 1, again' = again
  PROVE  LiveOK'
<1>1. again = {} /\ \A b \in 1 .. Len(t.heap) : t.heap[b].live
  BY DEF IInv, LiveOK, SameBlocks
<1>2. /\ \A i \in 1 .. Len(t.heap) : s'.heap[i] = t.heap[i]
      /\ \A i \in 1 .. Len(s'.heap) : i \in 1 .. Len(t.heap) \/ i \in Fresh(t, s')
  BY ExtHeap
<1>3. \A b \in Fresh(t, s') : s'.heap[b].live
  BY DEF Extends, NewHeap
<1>4. \A b \in 1 .. Len(s'.heap) : s'.heap[b].live
  BY <1>1, <1>2, <1>3
<1> QED BY <1>1, <1>4, PreLive

LEMMA ExtTuple ==
  ASSUME IInv, NEW t \in Data, NEW lost, Extends(t, s', lost), SameBlocks(s.heap, t.heap),
         local' = local,
         pc' \in {"before", "handler"} => pc \in {"before", "handler"} \/ Going(s),
         Going(t) => Going(s) \/ pc \in {"before", "handler"},
         pc' = "process" \/ (pc' = "before" /\ local # 0) => ~refused'
  PROVE  TupleOK'
<1>1. /\ \A i \in 1 .. Len(t.heap) : s'.heap[i] = t.heap[i] /\ i \in 1 .. Len(s'.heap)
      /\ \A i \in 1 .. Len(s'.heap) : i \in 1 .. Len(t.heap) \/ i \in Fresh(t, s')
      /\ Len(t.heap) \in Nat /\ Len(s'.heap) \in Nat
  BY ExtHeap
<1>2. /\ \A i \in 1 .. Len(t.queue) : s'.queue[i] = t.queue[i]
      /\ \A i \in 1 .. Len(s'.queue) : i \in 1 .. Len(t.queue) \/ i \in NewTask(t, s')
  BY ExtQueue
<1>3. Going(s)' => Going(t)
  <2>1. \A i \in NewTask(t, s') : s'.queue[i].kind # "go"
    BY DEF Extends, NewQueue
  <2> QED BY <1>2, <2>1 DEF Going
<1>4. \A b \in 1 .. Len(s'.heap) : s'.heap[b].what = "tuple" => b = Tuple /\ local # 0
  <2>1. \A b \in Fresh(t, s') : s'.heap[b].what # "tuple"
    BY DEF Extends, NewHeap
  <2>2. \A b \in 1 .. Len(t.heap) : t.heap[b].what = "tuple" => b = Tuple /\ local # 0
    BY DEF IInv, TupleOK, SameBlocks
  <2> QED BY <1>1, <2>1, <2>2
<1>5. ASSUME local # 0, pc' \in {"before", "handler"} \/ Going(s)'
      PROVE  Len(s'.heap) > 0 /\ s'.heap[Tuple].what = "tuple"
  <2>1. Len(s.heap) > 0 /\ s.heap[Tuple].what = "tuple"
    BY <1>3, <1>5 DEF IInv, TupleOK
  <2>2. Len(t.heap) = Len(s.heap) /\ \A b \in 1 .. Len(s.heap) : t.heap[b].what = s.heap[b].what
    BY DEF SameBlocks
  <2>3. Tuple \in 1 .. Len(t.heap)
    BY <1>1, <2>1, <2>2 DEF Tuple
  <2> QED BY <1>1, <2>1, <2>2, <2>3
<1> QED BY <1>4, <1>5 DEF TupleOK

LEMMA ExtAfter ==
  ASSUME IInv, NEW t \in Data, NEW lost, Extends(t, s', lost), t.cbs = s.cbs,
         Going(t) => Going(s), step' = step, compute' = compute, local' = local,
         refused' = refused,
         Registered => Registered', Registered' => Registered \/ step = 0,
         pc' # "process", pc' = "handler" => step = local + Global
  PROVE  AfterOK'
<1>1. /\ \A i \in 1 .. Len(t.cbs) : s'.cbs[i] = t.cbs[i] /\ i \in 1 .. Len(s'.cbs)
      /\ \A i \in 1 .. Len(s'.cbs) : i \in 1 .. Len(t.cbs) \/ i \in NewCb(t, s')
  BY ExtCbs
<1>2. /\ \A i \in 1 .. Len(t.queue) : s'.queue[i] = t.queue[i]
      /\ \A i \in 1 .. Len(s'.queue) : i \in 1 .. Len(t.queue) \/ i \in NewTask(t, s')
  BY ExtQueue
<1>3. \A i \in NewTask(t, s') : s'.queue[i].kind # "go"
  BY DEF Extends, NewQueue
<1>4. \A i \in NewCb(t, s') : s'.cbs[i].f = "free"
  BY DEF Extends, NewCbs
<1>5. ASSUME NEW i \in 1 .. Len(s'.queue), s'.queue[i].kind = "go"
      PROVE  compute' /\ step' = local + Global /\ Registered'
  <2>1. Going(t)
    BY <1>2, <1>3, <1>5 DEF Going
  <2>2. compute /\ step = local + Global /\ Registered
    BY <2>1 DEF IInv, AfterOK, Going
  <2> QED BY <2>2
<1>6. \A i \in 1 .. Len(s'.cbs) :
        s'.cbs[i].f = "after" => i \in 1 .. Len(s.cbs) /\ s'.cbs[i] = s.cbs[i]
  BY <1>1, <1>4
<1>7. ASSUME NEW i \in 1 .. Len(s'.cbs), s'.cbs[i].f = "after"
      PROVE  /\ Registered' /\ step' = local + Global
             /\ s'.cbs[i].b = IF local = 0 THEN NoBlock ELSE Tuple
  BY <1>6, <1>7 DEF IInv, AfterOK, IsAfter
<1>8. ASSUME NEW i \in 1 .. Len(s'.cbs), NEW j \in 1 .. Len(s'.cbs),
             s'.cbs[i].f = "after", s'.cbs[j].f = "after"
      PROVE  i = j
  BY <1>6, <1>8 DEF IInv, AfterOK, IsAfter
<1>9. ASSUME Registered', step' = local + Global, step' > 0
      PROVE  \E i \in 1 .. Len(s'.cbs) : s'.cbs[i].f = "after"
  <2>1. step # 0
    BY <1>9
  <2>2. \E i \in 1 .. Len(s.cbs) : s.cbs[i].f = "after"
    BY <1>9, <2>1 DEF IInv, AfterOK, IsAfter
  <2> QED BY <1>1, <2>2
<1>10. refused' /\ local # 0 => step' < local + Global
  BY DEF IInv, AfterOK
<1> QED BY <1>5, <1>7, <1>8, <1>9, <1>10 DEF AfterOK, IsAfter

LEMMA ExtAccounted ==
  ASSUME NEW t \in Data, NEW lost, NEW u, Extends(t, u, lost), s' = u, at' = 1,
         local' = local, pc' # "ended", lost \subseteq Leaks',
         \A b \in 1 .. Len(t.heap) :
           \/ t.heap[b].what \in Leaks'
           \/ \E i \in 1 .. Len(t.cbs) : Owns(t, i) /\ t.cbs[i].b = b
           \/ ByTask(t, b)
           \/ t.heap[b].what = "tuple" /\ ~Registered'
           \/ b \in {u.context, u.encoder}
  PROVE  AccountedOK'
<1>1. /\ \A i \in 1 .. Len(t.cbs) : u.cbs[i] = t.cbs[i] /\ i \in 1 .. Len(u.cbs)
      /\ \A i \in NewCb(t, u) : i \in 1 .. Len(u.cbs)
  BY ExtCbs
<1>2. /\ \A i \in 1 .. Len(t.queue) : u.queue[i] = t.queue[i] /\ i \in 1 .. Len(u.queue)
      /\ \A i \in NewTask(t, u) : i \in 1 .. Len(u.queue)
  BY ExtQueue
<1>3. /\ \A i \in 1 .. Len(t.heap) : u.heap[i] = t.heap[i]
      /\ \A i \in 1 .. Len(u.heap) : i \in 1 .. Len(t.heap) \/ i \in Fresh(t, u)
  BY ExtHeap
<1> SUFFICES ASSUME NEW b \in 1 .. Len(u.heap)
             PROVE  \/ u.heap[b].what \in Leaks'
                    \/ \E i \in 1 .. Len(u.cbs) : Owns(u, i) /\ u.cbs[i].b = b
                    \/ ByTask(u, b)
                    \/ u.heap[b].what = "tuple" /\ ~Registered'
                    \/ b \in {u.context, u.encoder}
  BY DEF AccountedOK, Accounted, ByCb, ByTask, Pending, Owns
<1>4. CASE b \in 1 .. Len(t.heap)
  <2>1. CASE \E i \in 1 .. Len(t.cbs) : Owns(t, i) /\ t.cbs[i].b = b
    BY <1>1, <2>1 DEF Owns
  <2>2. CASE ByTask(t, b)
    BY <1>2, <2>2 DEF ByTask
  <2>3. u.heap[b] = t.heap[b]
    BY <1>3, <1>4
  <2> QED BY <1>4, <2>1, <2>2, <2>3
<1>5. CASE b \in Fresh(t, u)
  <2>1. \/ u.heap[b].what \in lost
        \/ \E i \in NewCb(t, u) : u.cbs[i].b = b
        \/ \E i \in NewTask(t, u) : u.queue[i].kind = "http" /\ u.queue[i].b = b
        \/ b \in {u.context, u.encoder}
    BY <1>5 DEF Extends, NewOwned
  <2>2. CASE \E i \in NewCb(t, u) : u.cbs[i].b = b
    <3>1. \A i \in NewCb(t, u) : u.cbs[i].f = "free"
      BY DEF Extends, NewCbs
    <3> QED BY <1>1, <2>2, <3>1 DEF Owns
  <2>3. CASE \E i \in NewTask(t, u) : u.queue[i].kind = "http" /\ u.queue[i].b = b
    BY <1>2, <2>3 DEF ByTask
  <2> QED BY <2>1, <2>2, <2>3
<1> QED BY <1>3, <1>4, <1>5

LEMMA PreStep ==
  ASSUME IInv, replied = "no", NEW t \in Data, NEW lost, NEW u, s' = u, Extends(t, u, lost),
         SameBlocks(s.heap, t.heap), Going(t) => Going(s) \/ pc \in {"before", "handler"},
         OwnersOK(s)', TasksOK(s)', CalledOK(s)', AfterOK',
         compute' = compute, local' = local,
         replied' = replied, at' = at, afters' = afters, again' = again,
         ops' \in Seq(Op), refused' \in BOOLEAN, step' \in 0 .. local + Global,
         pc' \in Unreplied \ {"process"}, pc' = "before" /\ local # 0 => ~refused',
         pc' \in {"before", "handler"} => pc \in {"before", "handler"} \/ Going(s),
         lost \subseteq Leaks',
         \A b \in 1 .. Len(t.heap) :
           \/ t.heap[b].what \in Leaks'
           \/ \E i \in 1 .. Len(t.cbs) : Owns(t, i) /\ t.cbs[i].b = b
           \/ ByTask(t, b)
           \/ t.heap[b].what = "tuple" /\ ~Registered'
           \/ b \in {u.context, u.encoder}
  PROVE  IInv'
<1>1. s' \in Data /\ Extends(t, s', lost)
  BY DEF Extends
<1>2. at' = 1
  BY DEF IInv, CourseOK
<1>3. TypeOK'
  <2>1. TypeOK
    BY DEF IInv
  <2> QED BY <1>1, <2>1 DEF TypeOK
<1>4. CourseOK'
  BY <1>2, PreCourse
<1>5. AftersOK'
  BY <1>1, <1>2, PreAfters
<1>6. LiveOK'
  BY <1>1, <1>2, ExtLive
<1>7. TupleOK'
  <2>1. pc' = "process" \/ (pc' = "before" /\ local # 0) => ~refused'
    OBVIOUS
  <2> QED BY <1>1, <2>1, ExtTuple
<1>8. pc' # "ended"
  BY DEF Unreplied
<1>9. AccountedOK'
  BY <1>2, <1>8, ExtAccounted
<1> QED BY <1>3, <1>4, <1>5, <1>6, <1>7, <1>9 DEF IInv, CalledOK

LEMMA LeaksKept ==
  ASSUME ops' = ops, refused => refused'
  PROVE  Leaks \subseteq Leaks'
BY DEF Leaks, Called, Once

\* A step in which the handler calls nothing.
LEMMA QuietStep ==
  ASSUME IInv, replied = "no", NEW t \in Data, NEW u, s' = u, Extends(t, u, {}), Plain(t, u),
         SameBlocks(s.heap, t.heap), Going(t) => Going(s) \/ pc \in {"before", "handler"},
         OwnersOK(t), TasksOK(t), CalledOK(t), AfterOK',
         compute' = compute, local' = local,
         replied' = replied, at' = at, afters' = afters, again' = again,
         ops' = ops, refused' \in BOOLEAN, step' \in 0 .. local + Global,
         pc' \in Unreplied \ {"process"}, pc' = "before" /\ local # 0 => ~refused',
         pc' \in {"before", "handler"} => pc \in {"before", "handler"} \/ Going(s),
         \A b \in 1 .. Len(t.heap) :
           \/ t.heap[b].what \in Leaks'
           \/ \E i \in 1 .. Len(t.cbs) : Owns(t, i) /\ t.cbs[i].b = b
           \/ ByTask(t, b)
           \/ t.heap[b].what = "tuple" /\ ~Registered'
           \/ b \in {t.context, t.encoder}
  PROVE  IInv'
<1>1. OwnersOK(u) /\ TasksOK(u) /\ CalledOK(u)
  BY ExtOwners, ExtTasks, PlainCalled
<1>2. OwnersOK(s)' /\ TasksOK(s)'
  BY <1>1 DEF OwnersOK, TasksOK, Owns, IsAfter
<1>3. CalledOK(s)'
  <2>1. /\ Called("http")' = Called("http") /\ Called("multi")' = Called("multi")
        /\ \A i \in Called("multi") : ops'[i] = ops[i]
    BY DEF Called
  <2> QED BY <1>1, <2>1, SameCalls
<1>4. ops' \in Seq(Op) /\ {} \subseteq Leaks'
  BY IInvFacts
<1>5. u.context = t.context /\ u.encoder = t.encoder
  BY DEF Plain
<1> QED BY <1>2, <1>3, <1>4, <1>5, PreStep

\* Until the reply, every block is accounted for.
LEMMA Accounts ==
  ASSUME IInv, replied = "no", NEW b \in 1 .. Len(s.heap)
  PROVE  \/ s.heap[b].what \in Leaks
         \/ \E i \in 1 .. Len(s.cbs) : Owns(s, i) /\ s.cbs[i].b = b
         \/ ByTask(s, b)
         \/ s.heap[b].what = "tuple" /\ ~Registered
         \/ b \in {s.context, s.encoder}
<1>1. at = 1 /\ s.heap[b].live
  BY DEF IInv, CourseOK, LiveOK
<1> QED BY <1>1 DEF IInv, AccountedOK, Accounted, ByCb, Pending

-----------------------------------------------------------------------------
(***************************************************************************)
(* The steps before the reply.                                             *)
(***************************************************************************)
LEMMA SelfBlocks ==
  ASSUME NEW t \in Data, NEW u, u.heap = t.heap
  PROVE  SameBlocks(t.heap, u.heap)
BY DEF SameBlocks

\* Nothing is added, but for what a failing route adds.
LEMMA FromS ==
  ASSUME IInv, replied = "no", NEW u, s' = u, Extends(s, u, {}), Plain(s, u), AfterOK',
         compute' = compute, local' = local,
         replied' = replied, at' = at, afters' = afters, again' = again,
         ops' = ops, refused' \in BOOLEAN, refused => refused', step' \in 0 .. local + Global,
         pc' \in Unreplied \ {"process"}, pc' = "before" /\ local # 0 => ~refused',
         pc' \in {"before", "handler"} => pc \in {"before", "handler"},
         \A b \in 1 .. Len(s.heap) :
           s.heap[b].what = "tuple" /\ ~Registered => ~Registered' \/ "tuple" \in Leaks'
  PROVE  IInv'
<1>1. s \in Data /\ OwnersOK(s) /\ TasksOK(s) /\ CalledOK(s)
  BY IInvFacts
<1>2. SameBlocks(s.heap, s.heap)
  BY <1>1, SelfBlocks
<1>3. Leaks \subseteq Leaks'
  BY LeaksKept
<1>4. ASSUME NEW b \in 1 .. Len(s.heap)
      PROVE  \/ s.heap[b].what \in Leaks'
             \/ \E i \in 1 .. Len(s.cbs) : Owns(s, i) /\ s.cbs[i].b = b
             \/ ByTask(s, b)
             \/ s.heap[b].what = "tuple" /\ ~Registered'
             \/ b \in {s.context, s.encoder}
  BY <1>3, Accounts
<1> QED BY <1>1, <1>2, <1>4, QuietStep

LEMMA SelfData ==
  ASSUME NEW t \in Data
  PROVE  SameData(t, t) /\ Extends(t, t, {}) /\ Plain(t, t)
<1>1. SameData(t, t)
  BY DEF SameData
<1> QED BY <1>1, SameExtends

LEMMA BadRequestStep ==
  ASSUME IInv, BadRequest
  PROVE  IInv'
<1>1. /\ pc = "process" /\ pc' = "series" /\ s' = s /\ compute' = compute /\ local' = local
      /\ step' = step
      /\ replied' = replied /\ at' = at /\ ops' = ops /\ refused' = refused
      /\ afters' = afters /\ again' = again
  BY DEF BadRequest
<1>2. replied = "no" /\ s.heap = <<>> /\ step = 0
  BY <1>1 DEF IInv, CourseOK, AfterOK, Unreplied
<1>3. s \in Data /\ Extends(s, s, {}) /\ Plain(s, s) /\ Extends(s, s', {})
  BY <1>1, IInvFacts, SelfData
<1>4. ~Registered
  BY <1>1 DEF Registered
<1>5. AfterOK'
  BY <1>1, <1>2, <1>3, <1>4, ExtAfter
<1>6. refused \in BOOLEAN /\ step \in 0 .. local + Global
  BY DEF IInv, TypeOK
<1>7. 1 .. Len(s.heap) = {}
  BY <1>2
<1>8. pc' \in Unreplied \ {"process"} /\ pc' \notin {"before", "handler"}
  BY <1>1 DEF Unreplied
<1> QED BY <1>1, <1>2, <1>3, <1>5, <1>6, <1>7, <1>8, FromS

LEMMA RouteErrorStep ==
  ASSUME IInv, RouteError
  PROVE  IInv'
<1>1. /\ pc = "process" /\ pc' = "track" /\ s' = Error(s) /\ compute' = compute /\ local' = local
      /\ step' = step /\ replied' = replied /\ at' = at /\ ops' = ops
      /\ refused' = refused /\ afters' = afters /\ again' = again
  BY DEF RouteError
<1>2. replied = "no" /\ s.heap = <<>> /\ step = 0
  BY <1>1 DEF IInv, CourseOK, AfterOK, Unreplied
<1>3. s \in Data /\ Extends(s, s', {}) /\ Plain(s, s')
  BY <1>1, IInvFacts, ErrorExtends
<1>4. ~Registered
  BY <1>1 DEF Registered
<1>5. Going(s) => Going(s)
  OBVIOUS
<1>6. AfterOK'
  BY <1>1, <1>2, <1>3, <1>4, <1>5, ExtAfter
<1>7. refused \in BOOLEAN /\ step \in 0 .. local + Global
  BY DEF IInv, TypeOK
<1>8. 1 .. Len(s.heap) = {}
  BY <1>2
<1>9. pc' \in Unreplied \ {"process"} /\ pc' \notin {"before", "handler"}
  BY <1>1 DEF Unreplied
<1> QED BY <1>1, <1>2, <1>3, <1>6, <1>7, <1>8, <1>9, FromS

LEMMA BeforeStep ==
  ASSUME IInv, NEW ok \in BOOLEAN, Before(ok)
  PROVE  IInv'
<1>1. /\ pc = "before" /\ step < local + Global
      /\ compute' = compute /\ local' = local /\ replied' = replied /\ at' = at /\ ops' = ops
      /\ afters' = afters /\ again' = again
  BY DEF Before
<1>2. PICK x \in {s.userData, "stored"} : s' = [s EXCEPT !.userData = x]
  BY DEF Before
<1>3. \/ ok /\ step' = step + 1 /\ pc' = pc /\ refused' = refused
      \/ ~ok /\ local = 0 /\ step' = step + 1 /\ pc' = pc /\ refused' = TRUE
      \/ ~ok /\ local # 0 /\ pc' = "track" /\ refused' = TRUE /\ step' = step
  <2>1. /\ refused' = (refused \/ ~ok) /\ refused \in BOOLEAN
        /\ ok \/ local = 0 => step' = step + 1 /\ pc' = pc
        /\ ~(ok \/ local = 0) => pc' = "track" /\ step' = step
    BY DEF Before, Bare, IInv, TypeOK
  <2> QED BY <2>1, Zenon
<1>4. replied = "no" /\ (local # 0 => ~refused)
  BY <1>1 DEF IInv, CourseOK, TupleOK, Unreplied
<1>5. s \in Data
  BY IInvFacts
<1>6. SameData(s, s')
  <2>1. x \in Store
    BY <1>2, <1>5 DEF Data, Store
  <2> QED BY <1>2, <1>5, <2>1 DEF SameData, Data
<1>7. Extends(s, s', {}) /\ Plain(s, s')
  BY <1>5, <1>6, SameExtends
<1>8. ~Registered /\ (ok \/ local = 0 => ~Registered')
  BY <1>1, <1>3 DEF Registered
<1>9. step \in Nat /\ step' \in 0 .. local + Global
  <2>1. step \in 0 .. local + Global /\ local \in Nat /\ Global \in Nat
    BY ConstantsAssumption DEF IInv, TypeOK
  <2> QED BY <1>1, <1>3, <2>1
<1>10. AfterOK'
  <2>1. \A i \in 1 .. Len(s.queue) : s.queue[i].kind # "go"
    BY <1>8 DEF IInv, AfterOK
  <2>2. \A i \in 1 .. Len(s.cbs) : s.cbs[i].f # "after"
    BY <1>8 DEF IInv, AfterOK, IsAfter
  <2>3. s'.queue = s.queue /\ s'.cbs = s.cbs
    BY <1>6 DEF SameData
  <2>4. /\ \A i \in 1 .. Len(s'.queue) : s'.queue[i].kind # "go"
        /\ \A i \in 1 .. Len(s'.cbs) : s'.cbs[i].f # "after"
    BY <2>1, <2>2, <2>3
  <2>5. pc' # "process" /\ pc' # "handler"
    BY <1>1, <1>3
  <2>6. refused' /\ local # 0 => step' < local + Global
    BY <1>1, <1>3, <1>4
  <2>7. Registered' => step' # local + Global
    <3> SUFFICES ASSUME ~ok, local # 0 PROVE step' # local + Global
      BY <1>8
    <3>1. step' = step
      BY <1>3
    <3> QED BY <1>1, <1>9, <3>1, ConstantsAssumption
  <2> QED BY <1>1, <2>4, <2>5, <2>6, <2>7 DEF AfterOK, IsAfter
<1>11. ~ok => "tuple" \in Leaks'
  BY <1>3 DEF Leaks
<1>12. pc' \in Unreplied \ {"process"} /\ (pc' = "before" /\ local # 0 => ~refused')
  BY <1>1, <1>3, <1>4 DEF Unreplied
<1>13. refused' \in BOOLEAN
  <2>1. refused \in BOOLEAN
    BY DEF IInv, TypeOK
  <2> QED BY <1>3, <2>1
<1>14. refused => refused'
  BY <1>3
<1>15. pc' \in {"before", "handler"} => pc \in {"before", "handler"}
  BY <1>1
<1>16. \A b \in 1 .. Len(s.heap) :
         s.heap[b].what = "tuple" /\ ~Registered => ~Registered' \/ "tuple" \in Leaks'
  BY <1>8, <1>11
<1> QED BY <1>1, <1>4, <1>7, <1>9, <1>10, <1>12, <1>13, <1>14, <1>15, <1>16, FromS

\* The handler starts or ends, or there is no track function.
LEMMA MoveStep ==
  ASSUME IInv, s' = s, compute' = compute, local' = local,
         step' = step, replied' = replied, at' = at,
         ops' = ops, refused' = refused, afters' = afters, again' = again,
         \/ pc = "before" /\ pc' = "handler" /\ ~compute /\ step = local + Global
         \/ pc = "handler" /\ pc' = "series" /\ compute
         \/ pc = "track" /\ pc' = "series"
  PROVE  IInv'
<1>1. replied = "no"
  BY DEF IInv, CourseOK, Unreplied
<1>2. s \in Data /\ Extends(s, s, {}) /\ Plain(s, s) /\ Extends(s, s', {})
  BY IInvFacts, SelfData
<1>3. Registered' <=> Registered
  BY DEF Registered
<1>4. pc' # "process" /\ (pc' = "handler" => step = local + Global)
  OBVIOUS
<1>5. Going(s) => Going(s)
  OBVIOUS
<1>6. AfterOK'
  BY <1>2, <1>3, <1>4, <1>5, ExtAfter
<1>7. refused \in BOOLEAN /\ step \in 0 .. local + Global
  BY DEF IInv, TypeOK
<1>8. /\ pc' \in Unreplied \ {"process"} /\ pc' # "before"
      /\ pc' \in {"before", "handler"} => pc \in {"before", "handler"}
  BY DEF Unreplied
<1> QED BY <1>1, <1>2, <1>3, <1>6, <1>7, <1>8, FromS

LEMMA CallRouteStep ==
  ASSUME IInv, CallRoute
  PROVE  IInv'
<1>1. /\ pc = "process" /\ pc' = "before" /\ compute' = compute /\ local' = local
      /\ step' = step /\ replied' = replied /\ at' = at /\ ops' = ops
      /\ refused' = refused /\ afters' = afters /\ again' = again
      /\ s' = IF local = 0 THEN s ELSE New(s, "tuple")
  BY DEF CallRoute, Bare
<1>2. /\ replied = "no" /\ s.heap = <<>> /\ s.cbs = <<>> /\ s.queue = <<>> /\ s.body = <<>>
      /\ ops = <<>> /\ step = 0 /\ at = 1
  BY <1>1 DEF IInv, CourseOK, AfterOK, Unreplied
<1>3. s \in Data /\ TypeOK /\ CallsOK(s) /\ RequestOK(s) /\ again = {}
  BY DEF IInv, TypeOK, LiveOK
<1>4. /\ s' \in Data
      /\ s'.heap = IF local = 0 THEN s.heap ELSE Append(s.heap, NewBlock("tuple"))
      /\ s'.body = s.body /\ s'.cbs = s.cbs /\ s'.queue = s.queue
      /\ s'.context = s.context /\ s'.encoder = s.encoder /\ s'.request = s.request
  <2>1. CASE local = 0
    BY <1>1, <1>3, <2>1
  <2>2. CASE local # 0
    BY <1>1, <1>3, <2>2, NewIs DEF Kind
  <2> QED BY <2>1, <2>2
<1>5. /\ local = 0 => 1 .. Len(s'.heap) = {}
      /\ local # 0 => Len(s'.heap) = 1 /\ s'.heap[1] = NewBlock("tuple")
  <2>1. NewBlock("tuple") \in Block
    BY DEF NewBlock, Block, Kind
  <2> QED BY <1>2, <1>4, <2>1
<1>6. \A b \in 1 .. Len(s'.heap) : /\ b = 1 /\ local # 0
                                   /\ s'.heap[b].what = "tuple" /\ s'.heap[b].live
  <2>1. NewBlock("tuple").what = "tuple" /\ NewBlock("tuple").live = TRUE
    BY DEF NewBlock
  <2>2. CASE local = 0
    BY <1>5, <2>2
  <2>3. CASE local # 0
    <3>1. \A b \in 1 .. Len(s'.heap) : b = 1
      <4>1. Len(s'.heap) = 1
        BY <1>5, <2>3
      <4>2. \A b \in 1 .. 1 : b = 1
        OBVIOUS
      <4> QED BY <4>1, <4>2, Zenon
    <3>2. s'.heap[1].what = "tuple" /\ s'.heap[1].live
      <4>1. s'.heap[1] = NewBlock("tuple")
        BY <1>5, <2>3
      <4> QED BY <2>1, <4>1, Zenon
    <3> QED BY <2>3, <3>1, <3>2, Zenon
  <2> QED BY <2>2, <2>3
<1>7. 1 .. Len(s'.cbs) = {} /\ 1 .. Len(s'.queue) = {} /\ 1 .. Len(s'.body) = {}
  BY <1>2, <1>4
<1>8. Called("http")' = {} /\ Called("multi")' = {} /\ Called("multi") = {}
      /\ Called("http") = {}
  BY <1>1, <1>2 DEF Called
<1>9. s'.context = NoBlock /\ s'.encoder = NoBlock /\ s'.request = "here"
  BY <1>3, <1>4, <1>8 DEF CallsOK, RequestOK
<1>10. TypeOK'
  BY <1>1, <1>3, <1>4 DEF TypeOK, Unreplied
<1>11. CourseOK'
  BY <1>1, <1>2, PreCourse DEF Unreplied
<1>12. AftersOK'
  BY <1>1, <1>2, <1>4, PreAfters
<1>13. CallsOK(s)' /\ RequestOK(s)' /\ SentOK(s)' /\ BodyOK(s)'
  BY <1>7, <1>8, <1>9 DEF CallsOK, RequestOK, SentOK, BodyOK
<1>14. OwnersOK(s)' /\ TasksOK(s)'
  BY <1>7, <1>9 DEF OwnersOK, TasksOK
<1>15. LiveOK'
  BY <1>1, <1>2, <1>3, <1>6, <1>14, PreLive
<1>16. AfterOK'
  <2>1. refused /\ local # 0 => step < local + Global
    BY DEF IInv, AfterOK
  <2>2. ~Registered'
    BY <1>1 DEF Registered
  <2> QED BY <1>1, <1>7, <2>1, <2>2 DEF AfterOK
<1>17. TupleOK'
  <2>1. ~refused
    BY <1>1 DEF IInv, TupleOK
  <2> QED BY <1>1, <1>5, <1>6, <2>1 DEF TupleOK, Tuple, NewBlock
<1>18. AccountedOK'
  BY <1>1, <1>6 DEF AccountedOK, Accounted, Pending, Registered
<1> QED BY <1>10, <1>11, <1>12, <1>13, <1>14, <1>15, <1>16, <1>17, <1>18 DEF IInv

LEMMA LeaksGrow ==
  ASSUME ops \in Seq(Op), NEW o \in Op, ops' = Append(ops, o), refused' = refused
  PROVE  Leaks \subseteq Leaks' /\ Lost(o) \subseteq Leaks'
<1>1. /\ Called("bad http") # {} => Called("bad http")' # {}
      /\ o.op = "bad http" => Called("bad http")' # {}
      /\ Once("multi")' => Once("multi")
  <2>1. /\ o.op # "bad http" => Called("bad http")' = Called("bad http")
        /\ o.op = "bad http" => Called("bad http")' = Called("bad http") \cup {Len(ops) + 1}
        /\ Once("multi")' => Once("multi")
    BY CalledGrows
  <2> QED BY <2>1
<1> QED BY <1>1 DEF Leaks, Lost

LEMMA OperationStep ==
  ASSUME IInv, NEW o \in Op, Operation(o)
  PROVE  IInv'
<1>1. /\ pc = "handler" /\ ops' = Append(ops, o) /\ pc' = pc /\ compute' = compute /\ local' = local
      /\ step' = step /\ replied' = replied /\ at' = at /\ refused' = refused
      /\ afters' = afters /\ again' = again
  BY DEF Operation
<1>2. replied = "no" /\ step = local + Global
  BY <1>1 DEF IInv, CourseOK, AfterOK, Unreplied
<1>3. /\ CalledOK(s)' /\ OwnersOK(s)' /\ TasksOK(s)' /\ Extends(s, s', Lost(o))
      /\ o.op # "multi" => s'.context = s.context /\ s'.encoder = s.encoder
  BY OperationData
<1>4. s \in Data /\ ops \in Seq(Op) /\ OwnersOK(s) /\ CallsOK(s)
  BY IInvFacts
<1>5. Registered' <=> Registered
  BY <1>1 DEF Registered
<1>6. Going(s) => Going(s)
  OBVIOUS
<1>7. AfterOK'
  BY <1>1, <1>2, <1>3, <1>4, <1>5, <1>6, ExtAfter
<1>8. Leaks \subseteq Leaks' /\ Lost(o) \subseteq Leaks'
  BY <1>1, <1>4, LeaksGrow
<1>9. ops' \in Seq(Op) /\ refused \in BOOLEAN /\ step \in 0 .. local + Global
  BY <1>1, <1>4 DEF IInv, TypeOK
<1>10. ASSUME NEW b \in 1 .. Len(s.heap), b \in {s.context, s.encoder}
       PROVE  s.heap[b].what \in Leaks' \/ b \in {s'.context, s'.encoder}
  <2>1. CASE o.op # "multi"
    BY <1>3, <1>10, <2>1
  <2>2. CASE o.op = "multi"
    <3>1. b # NoBlock
      BY <1>4, FieldsOf DEF NoBlock
    <3>2. Called("multi") # {}
      BY <1>4, <1>10, <3>1 DEF CallsOK
    <3>3. ~Once("multi")'
      BY <1>1, <1>4, <2>2, <3>2, CalledGrows
    <3>4. s.heap[b].what \in {"content", "encoder"}
      BY <1>4, <1>10, <3>1 DEF OwnersOK
    <3> QED BY <3>3, <3>4 DEF Leaks
  <2> QED BY <2>1, <2>2
<1>11. ASSUME NEW b \in 1 .. Len(s.heap)
       PROVE  \/ s.heap[b].what \in Leaks'
              \/ \E i \in 1 .. Len(s.cbs) : Owns(s, i) /\ s.cbs[i].b = b
              \/ ByTask(s, b)
              \/ s.heap[b].what = "tuple" /\ ~Registered'
              \/ b \in {s'.context, s'.encoder}
  BY <1>2, <1>5, <1>8, <1>10, Accounts
<1>12. SameBlocks(s.heap, s.heap)
  BY <1>4, SelfBlocks
<1>13. pc' \in Unreplied \ {"process"} /\ pc' # "before" /\ pc \in {"before", "handler"}
  BY <1>1 DEF Unreplied
<1>14. PICK u : s' = u
  OBVIOUS
<1> HIDE DEF Operation
<1>15. Extends(s, u, Lost(o))
  BY <1>3, <1>14
<1>16. ASSUME NEW b \in 1 .. Len(s.heap)
       PROVE  \/ s.heap[b].what \in Leaks'
              \/ \E i \in 1 .. Len(s.cbs) : Owns(s, i) /\ s.cbs[i].b = b
              \/ ByTask(s, b)
              \/ s.heap[b].what = "tuple" /\ ~Registered'
              \/ b \in {u.context, u.encoder}
  BY <1>11, <1>14
<1>17. refused' \in BOOLEAN /\ step' \in 0 .. local + Global
  BY <1>1, <1>9
<1> QED BY <1>1, <1>2, <1>3, <1>4, <1>6, <1>7, <1>8, <1>9, <1>12, <1>13, <1>14, <1>15,
           <1>16, <1>17, PreStep

-----------------------------------------------------------------------------
(***************************************************************************)
(* A callback is added.                                                    *)
(***************************************************************************)
WithCb(u, v, f, b) ==
  /\ v \in Data /\ Added(u.cbs, v.cbs, [f |-> f, b |-> b])
  /\ v.heap = u.heap /\ v.queue = u.queue /\ v.context = u.context /\ v.encoder = u.encoder

LEMMA WithCbIs ==
  ASSUME NEW u \in Data, NEW v, NEW f, NEW b, WithCb(u, v, f, b)
  PROVE  /\ Len(u.cbs) \in Nat /\ Len(u.cbs) + 1 \in 1 .. Len(v.cbs)
         /\ \A i \in 1 .. Len(u.cbs) : i \in 1 .. Len(v.cbs) /\ v.cbs[i] = u.cbs[i]
         /\ \A i \in 1 .. Len(v.cbs) : i \in 1 .. Len(u.cbs) \/ i = Len(u.cbs) + 1
         /\ v.cbs[Len(u.cbs) + 1].f = f /\ v.cbs[Len(u.cbs) + 1].b = b
<1>1. /\ Len(v.cbs) = Len(u.cbs) + 1 /\ Len(u.cbs) \in Nat
      /\ v.cbs[Len(u.cbs) + 1] = [f |-> f, b |-> b]
      /\ \A i \in 1 .. Len(u.cbs) : v.cbs[i] = u.cbs[i]
  BY FieldsOf DEF WithCb, Added, Prefix
<1> QED BY <1>1

LEMMA CbOwners ==
  ASSUME NEW u \in Data, NEW v, NEW f, NEW b, WithCb(u, v, f, b), OwnersOK(u),
         \/ f \in {"track", "check"} \/ (f = "after" /\ local = 0)
         \/ /\ f \in {"free", "after"} /\ b \in 1 .. Len(u.heap)
            /\ u.heap[b].what \in IF f = "after" THEN {"tuple"} ELSE Temp
            /\ \A i \in 1 .. Len(u.cbs) : Owns(u, i) => u.cbs[i].b # b
  PROVE  OwnersOK(v)
<1>1. /\ Len(u.cbs) \in Nat
      /\ \A i \in 1 .. Len(u.cbs) : v.cbs[i] = u.cbs[i]
      /\ \A i \in 1 .. Len(v.cbs) : i \in 1 .. Len(u.cbs) \/ i = Len(u.cbs) + 1
      /\ v.cbs[Len(u.cbs) + 1].f = f /\ v.cbs[Len(u.cbs) + 1].b = b
  BY WithCbIs
<1>2. v.heap = u.heap /\ v.context = u.context /\ v.encoder = u.encoder
  BY DEF WithCb
<1>3. ASSUME NEW i \in 1 .. Len(v.cbs), Owns(v, i)
      PROVE  /\ v.cbs[i].b \in 1 .. Len(v.heap)
             /\ v.heap[v.cbs[i].b].what \in IF IsAfter(v, i) THEN {"tuple"} ELSE Temp
  <2>1. CASE i \in 1 .. Len(u.cbs)
    BY <1>1, <1>2, <1>3, <2>1 DEF OwnersOK, Owns, IsAfter
  <2>2. CASE i = Len(u.cbs) + 1
    BY <1>1, <1>2, <1>3, <2>2 DEF Owns, IsAfter
  <2> QED BY <1>1, <2>1, <2>2
<1>4. ASSUME NEW i \in 1 .. Len(v.cbs), NEW j \in 1 .. Len(v.cbs), Owns(v, i), Owns(v, j),
             v.cbs[i].b = v.cbs[j].b
      PROVE  i = j
  <2>1. CASE i \in 1 .. Len(u.cbs) /\ j \in 1 .. Len(u.cbs)
    BY <1>1, <1>4, <2>1 DEF OwnersOK, Owns
  <2>2. CASE i \in 1 .. Len(u.cbs) /\ j = Len(u.cbs) + 1
    BY <1>1, <1>4, <2>2 DEF Owns
  <2>3. CASE i = Len(u.cbs) + 1 /\ j \in 1 .. Len(u.cbs)
    BY <1>1, <1>4, <2>3 DEF Owns
  <2> QED BY <1>1, <2>1, <2>2, <2>3
<1> QED BY <1>2, <1>3, <1>4 DEF OwnersOK

LEMMA CbTasks ==
  ASSUME NEW u \in Data, NEW v, NEW f, NEW b, WithCb(u, v, f, b), TasksOK(u),
         f \in {"track", "check"} \/ (f = "after" /\ local = 0) \/ ~ByTask(u, b)
  PROVE  TasksOK(v)
<1>1. /\ \A i \in 1 .. Len(u.cbs) : v.cbs[i] = u.cbs[i]
      /\ \A i \in 1 .. Len(v.cbs) : i \in 1 .. Len(u.cbs) \/ i = Len(u.cbs) + 1
      /\ v.cbs[Len(u.cbs) + 1].f = f /\ v.cbs[Len(u.cbs) + 1].b = b
  BY WithCbIs
<1>2. v.heap = u.heap /\ v.queue = u.queue /\ v.context = u.context
  BY DEF WithCb
<1>3. ASSUME NEW i \in 1 .. Len(v.queue), NEW j \in 1 .. Len(v.cbs),
             v.queue[i].kind = "http", Owns(v, j)
      PROVE  v.queue[i].b # v.cbs[j].b
  <2>1. CASE j \in 1 .. Len(u.cbs)
    BY <1>1, <1>2, <1>3, <2>1 DEF TasksOK, Owns
  <2>2. CASE j = Len(u.cbs) + 1
    BY <1>1, <1>2, <1>3, <2>2 DEF Owns, ByTask
  <2> QED BY <1>1, <2>1, <2>2
<1> QED BY <1>2, <1>3 DEF TasksOK

LEMMA CbCalled ==
  ASSUME NEW u \in Data, NEW v, NEW f, NEW b, WithCb(u, v, f, b), CalledOK(u),
         v.body = u.body, v.request = u.request, f = "check" => Called("http") # {}
  PROVE  CalledOK(v)
<1>1. /\ \A i \in 1 .. Len(u.cbs) : v.cbs[i] = u.cbs[i]
      /\ \A i \in 1 .. Len(v.cbs) : i \in 1 .. Len(u.cbs) \/ i = Len(u.cbs) + 1
      /\ v.cbs[Len(u.cbs) + 1].f = f
  BY WithCbIs
<1>2. v.heap = u.heap /\ v.queue = u.queue /\ v.context = u.context /\ v.encoder = u.encoder
  BY DEF WithCb
<1>3. CallsOK(v)
  <2>1. \A i \in 1 .. Len(v.cbs) : v.cbs[i].f = "check" => Called("http") # {}
    BY <1>1 DEF CalledOK, CallsOK
  <2> QED BY <1>2, <2>1 DEF CalledOK, CallsOK
<1>4. RequestOK(v) /\ BodyOK(v) /\ SentOK(v)
  BY <1>2 DEF CalledOK, RequestOK, BodyOK, SentOK
<1> QED BY <1>3, <1>4 DEF CalledOK

LEMMA AddCallbackWith ==
  ASSUME NEW t \in Data, NEW f \in {"free", "after", "track", "check"}, NEW b \in Nat
  PROVE  /\ WithCb(t, AddCallback(t, f, b), f, b)
         /\ AddCallback(t, f, b).body = t.body /\ AddCallback(t, f, b).request = t.request
<1>1. [f |-> f, b |-> b] \in Cb /\ t.cbs \in Seq(Cb)
  BY FieldsOf DEF Cb
<1>2. Added(t.cbs, Append(t.cbs, [f |-> f, b |-> b]), [f |-> f, b |-> b])
  BY <1>1, Appended
<1> QED BY <1>2, AddCallbackIs DEF WithCb

LEMMA TrackStep ==
  ASSUME IInv, Track
  PROVE  IInv'
<1>1. /\ pc = "track" /\ pc' = "series" /\ compute' = compute /\ local' = local /\ step' = step
      /\ replied' = replied /\ at' = at /\ ops' = ops /\ refused' = refused
      /\ afters' = afters /\ again' = again
  BY DEF Track
<1>2. s' = s \/ s' = AddCallback(s, "track", NoBlock)
  BY DEF Track
<1>3. CASE s' = s
  BY <1>1, <1>3, MoveStep
<1>4. CASE s' = AddCallback(s, "track", NoBlock)
  <2> DEFINE t == AddCallback(s, "track", NoBlock)
  <2>1. replied = "no"
    BY <1>1 DEF IInv, CourseOK, Unreplied
  <2>2. s \in Data /\ OwnersOK(s) /\ TasksOK(s) /\ CalledOK(s)
    BY <2>1, IInvFacts
  <2>3. WithCb(s, t, "track", NoBlock) /\ t.body = s.body /\ t.request = s.request
    BY <2>2, AddCallbackWith DEF NoBlock
  <2>4. t \in Data /\ t.heap = s.heap /\ t.queue = s.queue /\ t.context = s.context
        /\ t.encoder = s.encoder
    BY <2>3 DEF WithCb
  <2> HIDE DEF t
  <2>5. OwnersOK(t) /\ TasksOK(t) /\ CalledOK(t)
    BY <2>2, <2>3, CbOwners, CbTasks, CbCalled
  <2>6. Extends(t, t, {}) /\ Plain(t, t) /\ SameBlocks(s.heap, t.heap)
    BY <2>2, <2>4, SelfData, SelfBlocks
  <2>7. Going(t) => Going(s)
    BY <2>4 DEF Going
  <2>8. /\ \A i \in 1 .. Len(s.cbs) : i \in 1 .. Len(t.cbs) /\ t.cbs[i] = s.cbs[i]
        /\ \A i \in 1 .. Len(t.cbs) : i \in 1 .. Len(s.cbs) \/ i = Len(s.cbs) + 1
        /\ t.cbs[Len(s.cbs) + 1].f = "track"
    BY <2>2, <2>3, WithCbIs
  <2>9. s' = t
    BY <1>4 DEF t
  <2>10. Registered /\ Registered'
    BY <1>1 DEF Registered
  <2>11. AfterOK'
    <3>1. \A i \in 1 .. Len(s'.cbs) :
            s'.cbs[i].f = "after" => i \in 1 .. Len(s.cbs) /\ s'.cbs[i] = s.cbs[i]
      BY <2>8, <2>9
    <3>2. /\ \A i \in 1 .. Len(s.cbs) : i \in 1 .. Len(s'.cbs) /\ s'.cbs[i] = s.cbs[i]
          /\ s'.queue = s.queue
      BY <2>4, <2>8, <2>9
    <3>3. AfterOK
      BY DEF IInv
    <3> QED BY <1>1, <2>10, <3>1, <3>2, <3>3 DEF AfterOK, IsAfter
  <2>12. Leaks \subseteq Leaks'
    BY <1>1, LeaksKept
  <2>13. ASSUME NEW b \in 1 .. Len(t.heap)
         PROVE  \/ t.heap[b].what \in Leaks'
                \/ \E i \in 1 .. Len(t.cbs) : Owns(t, i) /\ t.cbs[i].b = b
                \/ ByTask(t, b)
                \/ t.heap[b].what = "tuple" /\ ~Registered'
                \/ b \in {t.context, t.encoder}
    <3>1. \/ s.heap[b].what \in Leaks
          \/ \E i \in 1 .. Len(s.cbs) : Owns(s, i) /\ s.cbs[i].b = b
          \/ ByTask(s, b)
          \/ b \in {s.context, s.encoder}
      BY <2>1, <2>4, <2>10, Accounts
    <3> QED BY <2>4, <2>8, <2>12, <3>1 DEF Owns, ByTask
  <2>14. /\ refused' \in BOOLEAN /\ step' \in 0 .. local + Global
         /\ pc' \in Unreplied \ {"process"} /\ pc' \notin {"before", "handler"}
    BY <1>1 DEF IInv, TypeOK, Unreplied
  <2> QED BY <1>1, <2>1, <2>4, <2>5, <2>6, <2>7, <2>9, <2>11, <2>13, <2>14, QuietStep
<1> QED BY <1>2, <1>3, <1>4

\* What s holds, and at most the task of a compute handler.
Ready(t, u) ==
  /\ u \in Data /\ u.heap = t.heap /\ u.body = t.body /\ u.cbs = t.cbs
  /\ u.context = t.context /\ u.encoder = t.encoder /\ u.request = t.request
  /\ \A i \in 1 .. Len(t.queue) : i \in 1 .. Len(u.queue) /\ u.queue[i] = t.queue[i]
  /\ \A i \in 1 .. Len(u.queue) : i \in 1 .. Len(t.queue) \/ u.queue[i].kind = "go"

LEMMA ReadyOK ==
  ASSUME NEW t \in Data, NEW u, Ready(t, u), OwnersOK(t), TasksOK(t), CalledOK(t)
  PROVE  OwnersOK(u) /\ TasksOK(u) /\ CalledOK(u)
<1>1. /\ u.heap = t.heap /\ u.body = t.body /\ u.cbs = t.cbs
      /\ u.context = t.context /\ u.encoder = t.encoder /\ u.request = t.request
      /\ \A i \in 1 .. Len(t.queue) : i \in 1 .. Len(u.queue) /\ u.queue[i] = t.queue[i]
      /\ \A i \in 1 .. Len(u.queue) : i \in 1 .. Len(t.queue) \/ u.queue[i].kind = "go"
  BY DEF Ready
<1>2. OwnersOK(u)
  BY <1>1 DEF OwnersOK, Owns, IsAfter
<1>3. \A i \in 1 .. Len(u.queue) : u.queue[i].kind # "go" =>
        i \in 1 .. Len(t.queue) /\ u.queue[i] = t.queue[i]
  BY <1>1
<1>4. TasksOK(u)
  <2>1. ASSUME NEW i \in 1 .. Len(u.queue), u.queue[i].kind \in {"pread", "pwrite", "http"}
        PROVE  /\ u.queue[i].b \in 1 .. Len(u.heap)
               /\ u.heap[u.queue[i].b].what = PointsTo(u.queue[i].kind)
    <3>1. i \in 1 .. Len(t.queue) /\ u.queue[i] = t.queue[i]
      BY <1>3, <2>1
    <3> QED BY <1>1, <2>1, <3>1 DEF TasksOK
  <2>2. \A i \in 1 .. Len(u.queue) : u.queue[i].kind = "part" => u.context # NoBlock
    BY <1>1, <1>3 DEF TasksOK
  <2>3. ASSUME NEW i \in 1 .. Len(u.queue), NEW j \in 1 .. Len(u.queue),
               u.queue[i].kind = "http", u.queue[j].kind = "http",
               u.queue[i].b = u.queue[j].b
        PROVE  i = j
    BY <1>3, <2>3 DEF TasksOK
  <2>4. ASSUME NEW i \in 1 .. Len(u.queue), NEW j \in 1 .. Len(u.cbs),
               u.queue[i].kind = "http", Owns(u, j)
        PROVE  u.queue[i].b # u.cbs[j].b
    BY <1>1, <1>3, <2>4 DEF TasksOK, Owns
  <2> QED BY <2>1, <2>2, <2>3, <2>4 DEF TasksOK
<1>5. CallsOK(u) /\ RequestOK(u)
  BY <1>1, <1>3, SMTT(60) DEF CalledOK, CallsOK, RequestOK
<1>6. BodyOK(u)
  BY <1>1, <1>3 DEF CalledOK, BodyOK
<1>7. SentOK(u)
  BY <1>1 DEF CalledOK, SentOK
<1> QED BY <1>2, <1>4, <1>5, <1>6, <1>7 DEF CalledOK

\* after() is registered, for a compute handler together with its task.
LEMMA RegisterStep ==
  ASSUME IInv, NEW t, Ready(s, t), s' = AfterLater(t),
         compute' = compute, local' = local,
         step' = step, replied' = replied, at' = at, ops' = ops,
         refused' = refused, afters' = afters, again' = again,
         pc \in {"before", "handler"}, ~Registered, pc' = "track", step = local + Global,
         Going(t) => compute
  PROVE  IInv'
<1> DEFINE u == AfterLater(t)
           block == IF local = 0 THEN NoBlock ELSE Tuple
<1>1. replied = "no" /\ (local # 0 => Len(s.heap) > 0 /\ s.heap[Tuple].what = "tuple")
  BY DEF IInv, CourseOK, TupleOK, Unreplied
<1>2. s \in Data /\ OwnersOK(s) /\ TasksOK(s) /\ CalledOK(s)
  BY <1>1, IInvFacts
<1>3. block \in Nat /\ (local # 0 => block = Tuple /\ block \in 1 .. Len(s.heap))
  BY <1>1, <1>2, FieldsOf DEF Tuple, NoBlock
<1>4. /\ t \in Data /\ t.heap = s.heap /\ t.cbs = s.cbs /\ t.context = s.context
      /\ t.encoder = s.encoder
      /\ \A i \in 1 .. Len(s.queue) : i \in 1 .. Len(t.queue) /\ t.queue[i] = s.queue[i]
  BY DEF Ready
<1>5. OwnersOK(t) /\ TasksOK(t) /\ CalledOK(t)
  BY <1>2, ReadyOK
<1>6. \/ u = AddCallback(t, "after", block) /\ local + Global # 0
      \/ u = t /\ local = 0 /\ Global = 0
  <2>1. local \in Nat /\ Global \in Nat
    BY ConstantsAssumption DEF IInv, TypeOK
  <2> QED BY <2>1 DEF AfterLater, Bare
<1>7. s' = u
  OBVIOUS
<1> HIDE DEF u
<1>8. /\ Len(t.cbs) \in Nat
      /\ \/ /\ WithCb(t, u, "after", block) /\ u.body = t.body /\ u.request = t.request
            /\ local + Global # 0
         \/ u = t /\ local = 0 /\ Global = 0
  BY <1>3, <1>4, <1>6, AddCallbackWith, FieldsOf
<1> HIDE DEF block
<1>9. /\ u \in Data /\ u.heap = t.heap /\ u.queue = t.queue /\ u.context = t.context
      /\ u.encoder = t.encoder
  BY <1>4, <1>8 DEF WithCb
<1>10. \A i \in 1 .. Len(t.cbs) : t.cbs[i].f # "after"
  BY <1>4 DEF IInv, AfterOK, IsAfter
<1>11. local # 0 => \A i \in 1 .. Len(t.cbs) : Owns(t, i) => t.cbs[i].b # block
  <2> SUFFICES ASSUME local # 0, NEW i \in 1 .. Len(t.cbs), Owns(t, i), t.cbs[i].b = block
               PROVE  FALSE
    OBVIOUS
  <2>1. t.heap[block].what \in Temp
    BY <1>5, <1>10 DEF OwnersOK, IsAfter
  <2> QED BY <1>1, <1>3, <1>4, <2>1 DEF Temp
<1>12. local # 0 => ~ByTask(t, block)
  <2> SUFFICES ASSUME local # 0, NEW i \in 1 .. Len(t.queue), t.queue[i].kind = "http",
                      t.queue[i].b = block
               PROVE  FALSE
    BY DEF ByTask
  <2>1. t.heap[block].what = "proxy"
    BY <1>5 DEF TasksOK, PointsTo
  <2> QED BY <1>1, <1>3, <1>4, <2>1
<1>13. OwnersOK(u) /\ TasksOK(u) /\ CalledOK(u)
  <2>1. CASE WithCb(t, u, "after", block) /\ u.body = t.body /\ u.request = t.request
    <3>1. OwnersOK(u)
      BY <1>1, <1>3, <1>4, <1>5, <1>11, <2>1, CbOwners
    <3>2. TasksOK(u) /\ CalledOK(u)
      BY <1>4, <1>5, <1>12, <2>1, CbTasks, CbCalled
    <3> QED BY <3>1, <3>2
  <2> QED BY <1>5, <1>8, <2>1
<1>14. /\ \A i \in 1 .. Len(t.cbs) : i \in 1 .. Len(u.cbs) /\ u.cbs[i] = t.cbs[i]
       /\ \A i \in 1 .. Len(u.cbs) : i \in 1 .. Len(t.cbs) \/ i = Len(t.cbs) + 1
       /\ Len(t.cbs) + 1 \in 1 .. Len(u.cbs) =>
            u.cbs[Len(t.cbs) + 1].f = "after" /\ u.cbs[Len(t.cbs) + 1].b = block
       /\ local + Global # 0 => Len(t.cbs) + 1 \in 1 .. Len(u.cbs)
  <2>1. CASE WithCb(t, u, "after", block) /\ local + Global # 0
    BY <1>4, <2>1, WithCbIs
  <2>2. CASE u = t /\ local = 0 /\ Global = 0
    BY <1>8, <2>2
  <2> QED BY <1>8, <2>1, <2>2
<1>15. Registered'
  BY DEF Registered
<1>16. AfterOK'
  <2>1. \A i \in 1 .. Len(u.cbs) :
          u.cbs[i].f = "after" => i = Len(t.cbs) + 1 /\ u.cbs[i].b = block
    BY <1>10, <1>14
  <2>2. local # 0 => ~refused
    <3>1. step \in Nat
      BY ConstantsAssumption DEF IInv, TypeOK
    <3> QED BY <3>1 DEF IInv, AfterOK
  <2>3. \A i \in 1 .. Len(u.queue) : u.queue[i].kind = "go" => compute
    BY <1>9 DEF Going
  <2>4. step' > 0 => \E i \in 1 .. Len(u.cbs) : u.cbs[i].f = "after"
    BY <1>14
  <2> QED BY <1>7, <1>15, <2>1, <2>2, <2>3, <2>4 DEF AfterOK, IsAfter, block
<1>17. Leaks \subseteq Leaks'
  BY LeaksKept
<1>18. ASSUME NEW b \in 1 .. Len(u.heap)
       PROVE  \/ u.heap[b].what \in Leaks'
              \/ \E i \in 1 .. Len(u.cbs) : Owns(u, i) /\ u.cbs[i].b = b
              \/ ByTask(u, b)
              \/ u.heap[b].what = "tuple" /\ ~Registered'
              \/ b \in {u.context, u.encoder}
  <2>1. b \in 1 .. Len(s.heap) /\ u.heap[b] = s.heap[b]
    BY <1>4, <1>9
  <2>2. CASE s.heap[b].what = "tuple"
    <3>1. b = Tuple /\ local # 0
      BY <2>1, <2>2 DEF IInv, TupleOK
    <3>2. Len(t.cbs) + 1 \in 1 .. Len(u.cbs)
      <4>1. local \in Nat /\ Global \in Nat
        BY ConstantsAssumption DEF IInv, TypeOK
      <4> QED BY <1>14, <3>1, <4>1
    <3> QED BY <1>3, <1>14, <3>1, <3>2 DEF Owns
  <2>3. CASE ByTask(s, b)
    BY <1>4, <1>9, <2>3 DEF ByTask
  <2>4. CASE \E i \in 1 .. Len(s.cbs) : Owns(s, i) /\ s.cbs[i].b = b
    BY <1>4, <1>14, <2>4 DEF Owns
  <2>5. CASE s.heap[b].what \in Leaks \/ b \in {s.context, s.encoder}
    BY <1>4, <1>9, <1>17, <2>1, <2>5
  <2> QED BY <1>1, <2>1, <2>2, <2>3, <2>4, <2>5, Accounts
<1>19. Extends(u, u, {}) /\ Plain(u, u) /\ SameBlocks(s.heap, u.heap)
  BY <1>2, <1>4, <1>9, SelfData, SelfBlocks
<1>20. /\ refused' \in BOOLEAN /\ step' \in 0 .. local + Global
       /\ pc' \in Unreplied \ {"process"} /\ pc' \notin {"before", "handler"}
  BY DEF IInv, TypeOK, Unreplied
<1>21. Going(u) => Going(s) \/ pc \in {"before", "handler"}
  OBVIOUS
<1> QED BY <1>1, <1>7, <1>9, <1>13, <1>16, <1>18, <1>19, <1>20, <1>21, QuietStep

LEMMA HandlerReturnsStep ==
  ASSUME IInv, HandlerReturns
  PROVE  IInv'
<1>1. /\ pc = "handler" /\ compute' = compute /\ local' = local /\ step' = step
      /\ replied' = replied /\ at' = at /\ ops' = ops /\ refused' = refused
      /\ afters' = afters /\ again' = again
  BY DEF HandlerReturns
<1>2. CASE compute
  <2>1. pc' = "series" /\ s' = s
    BY <1>2 DEF HandlerReturns
  <2> QED BY <1>1, <1>2, <2>1, MoveStep
<1>3. CASE ~compute
  <2>1. pc' = "track" /\ s' = AfterLater(s)
    BY <1>3 DEF HandlerReturns
  <2>2. Ready(s, s)
    BY IInvFacts DEF Ready
  <2>3. ~Registered /\ step = local + Global
    BY <1>1, <1>3 DEF Registered, IInv, AfterOK
  <2>4. Going(s) => compute
    BY DEF IInv, AfterOK, Going
  <2> QED BY <1>1, <2>1, <2>2, <2>3, <2>4, RegisterStep
<1> QED BY <1>2, <1>3

LEMMA EnterStep ==
  ASSUME IInv, Enter
  PROVE  IInv'
<1>1. /\ pc = "before" /\ compute' = compute /\ local' = local
      /\ step' = step /\ step = local + Global
      /\ replied' = replied /\ at' = at /\ ops' = ops /\ refused' = refused
      /\ afters' = afters /\ again' = again
  BY DEF Enter
<1>2. CASE ~compute
  <2>1. pc' = "handler" /\ s' = s
    BY <1>2 DEF Enter
  <2> QED BY <1>1, <1>2, <2>1, MoveStep
<1>3. CASE compute
  <2> DEFINE t == AddTask(s, "go", NoBlock, FALSE)
             task == [kind |-> "go", b |-> NoBlock, last |-> FALSE, holds |-> "none"]
  <2>1. pc' = "track" /\ s' = AfterLater(t)
    BY <1>3 DEF Enter
  <2>2. s \in Data
    BY IInvFacts
  <2>3. /\ t \in Data /\ t.queue = Append(s.queue, task)
        /\ t.heap = s.heap /\ t.body = s.body /\ t.cbs = s.cbs
        /\ t.context = s.context /\ t.encoder = s.encoder /\ t.request = s.request
    BY <2>2, AddTaskIs, ZenonT(30) DEF TaskKind, NoBlock
  <2>4. task \in Task /\ task.kind = "go" /\ s.queue \in Seq(Task)
    BY <2>2, FieldsOf DEF Task, TaskKind, NoBlock
  <2> HIDE DEF t, task
  <2>5. /\ Len(s.queue) \in Nat /\ Len(t.queue) = Len(s.queue) + 1
        /\ \A i \in 1 .. Len(s.queue) : t.queue[i] = s.queue[i]
        /\ t.queue[Len(s.queue) + 1] = task
    BY <2>3, <2>4
  <2>6. /\ \A i \in 1 .. Len(s.queue) : i \in 1 .. Len(t.queue) /\ t.queue[i] = s.queue[i]
        /\ \A i \in 1 .. Len(t.queue) : i \in 1 .. Len(s.queue) \/ t.queue[i].kind = "go"
    BY <2>4, <2>5
  <2>7. Ready(s, t)
    BY <2>3, <2>6 DEF Ready
  <2>8. ~Registered
    BY <1>1 DEF Registered
  <2> QED BY <1>1, <1>3, <2>1, <2>7, <2>8, RegisterStep
<1> QED BY <1>2, <1>3

-----------------------------------------------------------------------------
(***************************************************************************)
(* The first task of the series is done.                                   *)
(***************************************************************************)
Tailed(q, t) ==
  /\ t \in Data /\ t.heap = q.heap /\ t.body = q.body /\ t.cbs = q.cbs
  /\ t.context = q.context /\ t.encoder = q.encoder /\ t.request = q.request
  /\ 1 \in 1 .. Len(q.queue)
  /\ \A i \in 1 .. Len(t.queue) : i + 1 \in 1 .. Len(q.queue) /\ t.queue[i] = q.queue[i + 1]
  /\ \A i \in 1 .. Len(q.queue) : i = 1 \/ \E j \in 1 .. Len(t.queue) : i = j + 1

LEMMA TailIs ==
  ASSUME NEW q \in Data, q.queue # <<>>
  PROVE  /\ Tailed(q, [q EXCEPT !.queue = Tail(@)])
         /\ Head(q.queue) = q.queue[1] /\ q.queue[1] \in Task
<1> DEFINE t == [q EXCEPT !.queue = Tail(@)]
           r == Tail(q.queue)
<1>1. q.queue \in Seq(Task)
  BY FieldsOf
<1>2. /\ r \in Seq(Task) /\ Len(q.queue) \in Nat /\ Len(q.queue) >= 1
      /\ Len(r) = Len(q.queue) - 1 /\ Head(q.queue) = q.queue[1]
      /\ \A i \in 1 .. Len(r) : r[i] = q.queue[i + 1]
  BY <1>1
<1>3. q.queue[1] \in Task
  BY <1>1, <1>2
<1>4. /\ t.queue = r /\ t.heap = q.heap /\ t.body = q.body /\ t.cbs = q.cbs
      /\ t.context = q.context /\ t.encoder = q.encoder /\ t.request = q.request
      /\ t \in Data
  BY <1>2 DEF Data, Queues
<1> HIDE DEF t, r
<1>5. \A i \in 1 .. Len(q.queue) : i = 1 \/ (i - 1 \in 1 .. Len(r) /\ i = (i - 1) + 1)
  BY <1>2
<1>6. \A i \in 1 .. Len(q.queue) : i = 1 \/ \E j \in 1 .. Len(r) : i = j + 1
  BY <1>5
<1>7. 1 \in 1 .. Len(q.queue) /\ \A i \in 1 .. Len(r) : i + 1 \in 1 .. Len(q.queue)
  BY <1>2
<1>8. Tailed(q, t)
  BY <1>2, <1>4, <1>6, <1>7 DEF Tailed
<1> QED BY <1>2, <1>3, <1>8 DEF t

LEMMA TailKeeps ==
  ASSUME NEW q \in Data, NEW t, Tailed(q, t)
  PROVE  /\ Going(t) => Going(q)
         /\ q.queue[1].kind # "http" => \A b : ByTask(q, b) => ByTask(t, b)
         /\ \A b : ByTask(q, b) => ByTask(t, b) \/ b = q.queue[1].b
<1>1. /\ \A i \in 1 .. Len(t.queue) : i + 1 \in 1 .. Len(q.queue)
                                      /\ t.queue[i] = q.queue[i + 1]
      /\ \A i \in 1 .. Len(q.queue) : i = 1 \/ \E j \in 1 .. Len(t.queue) : i = j + 1
  BY DEF Tailed
<1>2. Going(t) => Going(q)
  BY <1>1 DEF Going
<1>3. ASSUME NEW b, ByTask(q, b), ~ByTask(t, b)
      PROVE  q.queue[1].kind = "http" /\ b = q.queue[1].b
  <2>1. PICK i \in 1 .. Len(q.queue) : q.queue[i].kind = "http" /\ q.queue[i].b = b
    BY <1>3 DEF ByTask
  <2>2. CASE i = 1
    BY <2>1, <2>2
  <2>3. CASE i # 1
    <3>1. PICK j \in 1 .. Len(t.queue) : i = j + 1
      BY <1>1, <2>3
    <3>2. t.queue[j] = q.queue[i]
      BY <1>1, <3>1
    <3> QED BY <1>3, <2>1, <3>2 DEF ByTask
  <2> QED BY <2>2, <2>3
<1> QED BY <1>2, <1>3

LEMMA TailOK ==
  ASSUME NEW q \in Data, NEW t, Tailed(q, t), OwnersOK(q), TasksOK(q), CalledOK(q)
  PROVE  OwnersOK(t) /\ TasksOK(t) /\ CallsOK(t) /\ BodyOK(t)
<1>1. /\ t.heap = q.heap /\ t.body = q.body /\ t.cbs = q.cbs
      /\ t.context = q.context /\ t.encoder = q.encoder
      /\ \A i \in 1 .. Len(t.queue) : i + 1 \in 1 .. Len(q.queue)
                                      /\ t.queue[i] = q.queue[i + 1]
  BY DEF Tailed
<1>2. OwnersOK(t)
  BY <1>1 DEF OwnersOK, Owns, IsAfter
<1>3. TasksOK(t)
  <2>1. ASSUME NEW i \in 1 .. Len(t.queue), t.queue[i].kind \in {"pread", "pwrite", "http"}
        PROVE  /\ t.queue[i].b \in 1 .. Len(t.heap)
               /\ t.heap[t.queue[i].b].what = PointsTo(t.queue[i].kind)
    <3>1. i + 1 \in 1 .. Len(q.queue) /\ t.queue[i] = q.queue[i + 1]
      BY <1>1
    <3> QED BY <1>1, <2>1, <3>1 DEF TasksOK
  <2>2. ASSUME NEW i \in 1 .. Len(t.queue), t.queue[i].kind = "part"
        PROVE  t.context # NoBlock
    BY <1>1, <2>2 DEF TasksOK
  <2>3. ASSUME NEW i \in 1 .. Len(t.queue), NEW j \in 1 .. Len(t.queue),
               t.queue[i].kind = "http", t.queue[j].kind = "http",
               t.queue[i].b = t.queue[j].b
        PROVE  i = j
    <3>1. i + 1 = j + 1
      BY <1>1, <2>3, ZenonT(30) DEF TasksOK
    <3> QED BY <3>1
  <2>4. ASSUME NEW i \in 1 .. Len(t.queue), NEW j \in 1 .. Len(t.cbs),
               t.queue[i].kind = "http", Owns(t, j)
        PROVE  t.queue[i].b # t.cbs[j].b
    <3>1. i + 1 \in 1 .. Len(q.queue) /\ t.queue[i] = q.queue[i + 1]
      BY <1>1
    <3>2. j \in 1 .. Len(q.cbs) /\ Owns(q, j) /\ t.cbs[j] = q.cbs[j]
      BY <1>1, <2>4 DEF Owns
    <3>3. q.queue[i + 1].kind = "http"
      BY <2>4, <3>1
    <3>4. q.queue[i + 1].b # q.cbs[j].b
      BY <3>1, <3>2, <3>3 DEF TasksOK
    <3> QED BY <3>1, <3>2, <3>4
  <2> QED BY <2>1, <2>2, <2>3, <2>4 DEF TasksOK
<1>4. CallsOK(t)
  BY <1>1 DEF CalledOK, CallsOK
<1>5. BodyOK(t)
  <2> SUFFICES ASSUME Once("multi")
               PROVE  /\ \A i \in 1 .. Len(t.body) : t.body[i].b # NoBlock =>
                           /\ t.body[i].b \in 1 .. Len(t.heap)
                           /\ t.heap[t.body[i].b].grown = t.body[i].grown
                           /\ t.body[i].b = t.context =>
                                \A j \in 1 .. Len(t.queue) : t.queue[j].kind # "part"
                      /\ \A i, j \in 1 .. Len(t.queue) :
                           i < j /\ t.queue[i].kind = "part" /\ t.queue[j].kind = "part"
                             => ~t.queue[i].last
    BY DEF BodyOK
  <2>1. \A i \in 1 .. Len(t.body) : t.body[i].b # NoBlock =>
          /\ t.body[i].b \in 1 .. Len(t.heap)
          /\ t.heap[t.body[i].b].grown = t.body[i].grown
          /\ t.body[i].b = t.context =>
               \A j \in 1 .. Len(q.queue) : q.queue[j].kind # "part"
    BY <1>1 DEF CalledOK, BodyOK
  <2>2. ASSUME NEW i \in 1 .. Len(t.queue), NEW j \in 1 .. Len(t.queue), i < j,
               t.queue[i].kind = "part", t.queue[j].kind = "part"
        PROVE  ~t.queue[i].last
    <3>1. i + 1 < j + 1
      BY <2>2
    <3>2. \A k, l \in 1 .. Len(q.queue) :
            k < l /\ q.queue[k].kind = "part" /\ q.queue[l].kind = "part" => ~q.queue[k].last
      BY DEF CalledOK, BodyOK
    <3> QED BY <1>1, <2>2, <3>1, <3>2
  <2> QED BY <1>1, <2>1, <2>2
<1> QED BY <1>2, <1>3, <1>4, <1>5

LEMMA TailRequest ==
  ASSUME NEW q \in Data, NEW t, Tailed(q, t), RequestOK(q), q.queue[1].kind # "http"
  PROVE  RequestOK(t)
<1>1. /\ t.request = q.request
      /\ \A i \in 1 .. Len(t.queue) : i + 1 \in 1 .. Len(q.queue)
                                      /\ t.queue[i] = q.queue[i + 1]
      /\ \A i \in 1 .. Len(q.queue) : i = 1 \/ \E j \in 1 .. Len(t.queue) : i = j + 1
  BY DEF Tailed
<1>2. Called("http") = {} => t.request = "here"
  BY <1>1 DEF RequestOK
<1>3. ASSUME Once("http"), t.request = "moved"
      PROVE  \E i \in 1 .. Len(t.queue) : t.queue[i].kind = "http"
  BY <1>1, <1>3 DEF RequestOK
<1>4. ASSUME Once("http"), NEW i \in 1 .. Len(t.queue), t.queue[i].kind = "http"
      PROVE  t.queue[i].holds = "here"
  BY <1>1, <1>4 DEF RequestOK
<1>5. ASSUME Once("http"), NEW i \in 1 .. Len(t.queue), NEW j \in 1 .. Len(t.queue),
             t.queue[i].kind = "http", t.queue[j].kind = "http"
      PROVE  i = j
  <2>1. i + 1 = j + 1
    BY <1>1, <1>5 DEF RequestOK
  <2> QED BY <2>1
<1> QED BY <1>2, <1>3, <1>4, <1>5 DEF RequestOK

LEMMA TailSent ==
  ASSUME NEW q \in Data, NEW t, Tailed(q, t), SentOK(q),
         ~(q.queue[1].kind = "part" /\ q.queue[1].last)
  PROVE  SentOK(t)
<1>1. /\ t.body = q.body /\ t.context = q.context
      /\ \A i \in 1 .. Len(t.queue) : i + 1 \in 1 .. Len(q.queue)
                                      /\ t.queue[i] = q.queue[i + 1]
      /\ \A i \in 1 .. Len(q.queue) : i = 1 \/ \E j \in 1 .. Len(t.queue) : i = j + 1
  BY DEF Tailed
<1>2. ASSUME NEW j \in 1 .. Len(q.queue), q.queue[j].kind = "part", q.queue[j].last
      PROVE  \E i \in 1 .. Len(t.queue) : t.queue[i].kind = "part" /\ t.queue[i].last
  <2>1. PICK i \in 1 .. Len(t.queue) : j = i + 1
    BY <1>1, <1>2
  <2> QED BY <1>1, <1>2, <2>1
<1> QED BY <1>1, <1>2 DEF SentOK

\* A piece that points to a block, not to a content that is still to grow.
LEMMA PointOK ==
  ASSUME NEW t \in Data, NEW b \in {NoBlock} \cup 1 .. Len(t.heap),
         OwnersOK(t), TasksOK(t), CallsOK(t), RequestOK(t), BodyOK(t),
         Once("multi") /\ b # NoBlock /\ b = t.context =>
           \A j \in 1 .. Len(t.queue) : t.queue[j].kind # "part",
         SentOK(t) \/ (b = t.context /\ b # NoBlock)
  PROVE  LET u == Point(t, b)
         IN  /\ OwnersOK(u) /\ TasksOK(u) /\ CalledOK(u) /\ u \in Data
             /\ u.heap = t.heap /\ u.cbs = t.cbs /\ u.queue = t.queue
             /\ u.context = t.context /\ u.encoder = t.encoder
<1> DEFINE u == Point(t, b)
<1>1. PICK g \in Nat :
        /\ u \in Data /\ u.body = Append(t.body, [b |-> b, grown |-> g])
        /\ b # NoBlock => g = t.heap[b].grown
        /\ u.heap = t.heap /\ u.cbs = t.cbs /\ u.queue = t.queue
        /\ u.context = t.context /\ u.encoder = t.encoder /\ u.request = t.request
  BY PointIs
<1> HIDE DEF u
<1>2. Added(t.body, u.body, [b |-> b, grown |-> g])
  <2>1. [b |-> b, grown |-> g] \in Piece
    BY DEF Piece, NoBlock
  <2> QED BY <1>1, <2>1, FieldsOf, Appended
<1>3. /\ \A i \in 1 .. Len(t.body) : i \in 1 .. Len(u.body) /\ u.body[i] = t.body[i]
      /\ \A i \in 1 .. Len(u.body) : i \in 1 .. Len(t.body) \/ i = Len(t.body) + 1
      /\ Len(t.body) + 1 \in 1 .. Len(u.body)
      /\ u.body[Len(t.body) + 1].b = b /\ u.body[Len(t.body) + 1].grown = g
  <2>1. /\ Len(u.body) = Len(t.body) + 1 /\ Len(t.body) \in Nat
        /\ \A i \in 1 .. Len(t.body) : u.body[i] = t.body[i]
        /\ u.body[Len(t.body) + 1] = [b |-> b, grown |-> g]
    BY <1>2, FieldsOf DEF Added, Prefix
  <2> QED BY <2>1
<1>4. OwnersOK(u) /\ TasksOK(u)
  BY <1>1 DEF OwnersOK, TasksOK, Owns, IsAfter
<1>5. CallsOK(u) /\ RequestOK(u)
  BY <1>1 DEF CallsOK, RequestOK
<1>6. BodyOK(u)
  <2> SUFFICES ASSUME Once("multi")
               PROVE  \A i \in 1 .. Len(u.body) : u.body[i].b # NoBlock =>
                        /\ u.body[i].b \in 1 .. Len(u.heap)
                        /\ u.heap[u.body[i].b].grown = u.body[i].grown
                        /\ u.body[i].b = u.context =>
                             \A j \in 1 .. Len(u.queue) : u.queue[j].kind # "part"
    BY <1>1 DEF BodyOK
  <2> TAKE i \in 1 .. Len(u.body)
  <2>1. CASE i \in 1 .. Len(t.body)
    BY <1>1, <1>3, <2>1 DEF BodyOK
  <2>2. CASE i = Len(t.body) + 1
    BY <1>1, <1>3, <2>2
  <2> QED BY <1>3, <2>1, <2>2
<1>7. SentOK(u)
  <2>1. CASE SentOK(t)
    BY <1>1, <1>3, <2>1 DEF SentOK
  <2>2. CASE b = t.context /\ b # NoBlock
    BY <1>1, <1>3, <2>2 DEF SentOK
  <2> QED BY <2>1, <2>2
<1>8. CalledOK(u)
  BY <1>5, <1>6, <1>7 DEF CalledOK
<1> QED BY <1>1, <1>4, <1>8 DEF u

\* Appending to a content that was not sent moves nothing the body points to.
Unsent(t) == Once("multi") =>
  \A i \in 1 .. Len(t.body) : t.body[i].b # NoBlock => t.body[i].b # t.context

LEMMA GrowOK ==
  ASSUME NEW t \in Data, t.context # NoBlock, OwnersOK(t), TasksOK(t), CallsOK(t),
         RequestOK(t), BodyOK(t), Unsent(t)
  PROVE  LET u == Grow(t, t.context)
         IN  /\ OwnersOK(u) /\ TasksOK(u) /\ CallsOK(u) /\ RequestOK(u) /\ BodyOK(u)
             /\ Unsent(u) /\ (SentOK(t) => SentOK(u))
             /\ u \in Data /\ SameBlocks(t.heap, u.heap) /\ u.cbs = t.cbs
             /\ u.queue = t.queue /\ u.context = t.context /\ u.encoder = t.encoder
<1> DEFINE u == Grow(t, t.context)
<1>1. t.context \in 1 .. Len(t.heap)
  BY DEF OwnersOK
<1>2. /\ u \in Data /\ Grown(t.heap, u.heap, t.context)
      /\ u.body = t.body /\ u.cbs = t.cbs /\ u.queue = t.queue
      /\ u.context = t.context /\ u.encoder = t.encoder /\ u.request = t.request
  BY <1>1, GrowIs
<1> HIDE DEF u
<1>3. /\ Len(u.heap) = Len(t.heap)
      /\ \A c \in 1 .. Len(t.heap) : /\ u.heap[c].what = t.heap[c].what
                                     /\ u.heap[c].live = t.heap[c].live
                                     /\ c # t.context => u.heap[c] = t.heap[c]
  BY <1>2 DEF Grown
<1>4. SameBlocks(t.heap, u.heap)
  BY <1>3 DEF SameBlocks
<1>5. OwnersOK(u)
  <2>1. ASSUME NEW i \in 1 .. Len(u.cbs), Owns(u, i)
        PROVE  /\ u.cbs[i].b \in 1 .. Len(u.heap)
               /\ u.heap[u.cbs[i].b].what \in IF IsAfter(u, i) THEN {"tuple"} ELSE Temp
    <3>1. /\ t.cbs[i].b \in 1 .. Len(t.heap)
          /\ t.heap[t.cbs[i].b].what \in IF IsAfter(t, i) THEN {"tuple"} ELSE Temp
      BY <1>2, <2>1 DEF OwnersOK, Owns
    <3> QED BY <1>2, <1>3, <3>1 DEF IsAfter
  <2>2. \A i, j \in 1 .. Len(u.cbs) :
          Owns(u, i) /\ Owns(u, j) /\ u.cbs[i].b = u.cbs[j].b => i = j
    BY <1>2 DEF OwnersOK, Owns
  <2>3. /\ u.context # NoBlock =>
             u.context \in 1 .. Len(u.heap) /\ u.heap[u.context].what = "content"
        /\ u.encoder # NoBlock =>
             u.encoder \in 1 .. Len(u.heap) /\ u.heap[u.encoder].what = "encoder"
    BY <1>2, <1>3 DEF OwnersOK
  <2> QED BY <2>1, <2>2, <2>3 DEF OwnersOK
<1>6. TasksOK(u)
  <2>1. ASSUME NEW i \in 1 .. Len(u.queue), u.queue[i].kind \in {"pread", "pwrite", "http"}
        PROVE  /\ u.queue[i].b \in 1 .. Len(u.heap)
               /\ u.heap[u.queue[i].b].what = PointsTo(u.queue[i].kind)
    <3>1. /\ t.queue[i].b \in 1 .. Len(t.heap)
          /\ t.heap[t.queue[i].b].what = PointsTo(t.queue[i].kind)
      BY <1>2, <2>1 DEF TasksOK
    <3> QED BY <1>2, <1>3, <3>1
  <2> QED BY <1>2, <2>1 DEF TasksOK, Owns
<1>7. CallsOK(u) /\ RequestOK(u) /\ (SentOK(t) => SentOK(u)) /\ Unsent(u)
  BY <1>2 DEF CallsOK, RequestOK, SentOK, Unsent
<1>8. BodyOK(u)
  BY <1>2, <1>3 DEF BodyOK, Unsent
<1> QED BY <1>2, <1>4, <1>5, <1>6, <1>7, <1>8 DEF u

\* A task is done that is not a proxy: t is what its callback made of the data,
\* and u at most an error more.
LEMMA TaskStep ==
  ASSUME IInv, pc = "series", NEW t \in Data, NEW u, s' = u, Extends(t, u, {}), Plain(t, u),
         SameBlocks(s.heap, t.heap), t.cbs = s.cbs, t.context = s.context,
         t.encoder = s.encoder, OwnersOK(t), TasksOK(t), CalledOK(t), Going(t) => Going(s),
         \A b : ByTask(s, b) => ByTask(t, b),
         pc' = "series" \/ (pc' = "handler" /\ Going(s)),
         compute' = compute, local' = local,
         step' = step, replied' = replied, at' = at, ops' = ops,
         refused' = refused, afters' = afters, again' = again
  PROVE  IInv'
<1>1. replied = "no"
  BY DEF IInv, CourseOK, Unreplied
<1>2. Going(s) => compute /\ step = local + Global
  BY DEF IInv, AfterOK, Going
<1>3. Registered /\ Registered'
  BY <1>2 DEF Registered
<1>4. Extends(t, s', {}) /\ pc' # "process" /\ (pc' = "handler" => step = local + Global)
  BY <1>2
<1>5. AfterOK'
  BY <1>3, <1>4, ExtAfter
<1>6. Leaks \subseteq Leaks'
  BY LeaksKept
<1>7. ASSUME NEW b \in 1 .. Len(t.heap)
      PROVE  \/ t.heap[b].what \in Leaks'
             \/ \E i \in 1 .. Len(t.cbs) : Owns(t, i) /\ t.cbs[i].b = b
             \/ ByTask(t, b)
             \/ t.heap[b].what = "tuple" /\ ~Registered'
             \/ b \in {t.context, t.encoder}
  <2>1. b \in 1 .. Len(s.heap) /\ t.heap[b].what = s.heap[b].what
    BY DEF SameBlocks
  <2>2. \/ s.heap[b].what \in Leaks
        \/ \E i \in 1 .. Len(s.cbs) : Owns(s, i) /\ s.cbs[i].b = b
        \/ ByTask(s, b)
        \/ b \in {s.context, s.encoder}
    BY <1>1, <1>3, <2>1, Accounts
  <2> QED BY <1>6, <2>1, <2>2 DEF Owns
<1>8. /\ refused' \in BOOLEAN /\ step' \in 0 .. local + Global
      /\ pc' \in Unreplied \ {"process"} /\ pc' # "before"
      /\ pc' \in {"before", "handler"} => Going(s)
  BY DEF IInv, TypeOK, Unreplied
<1> QED BY <1>1, <1>5, <1>7, <1>8, QuietStep

\* What proxy_http_callback makes of the data, before it adds its own callback.
Answered(t, u) ==
  /\ u \in Data /\ u.queue = t.queue /\ u.context = t.context /\ u.encoder = t.encoder
  /\ \A b \in 1 .. Len(t.heap) : b \in 1 .. Len(u.heap) /\ u.heap[b] = t.heap[b]
  /\ \A b \in 1 .. Len(u.heap) :
       \/ b \in 1 .. Len(t.heap)
       \/ /\ u.heap[b].live /\ u.heap[b].what # "tuple"
          /\ \E i \in 1 .. Len(u.cbs) : Owns(u, i) /\ u.cbs[i].b = b
  /\ \A i \in 1 .. Len(t.cbs) : i \in 1 .. Len(u.cbs) /\ u.cbs[i] = t.cbs[i]
  /\ \A i \in 1 .. Len(u.cbs) :
       \/ i \in 1 .. Len(t.cbs)
       \/ u.cbs[i].f = "check"
       \/ u.cbs[i].f = "free" /\ u.cbs[i].b \notin 1 .. Len(t.heap)
  /\ OwnersOK(u) /\ TasksOK(u) /\ CallsOK(u) /\ BodyOK(u)

LEMMA AnsweredError ==
  ASSUME NEW t \in Data, OwnersOK(t), TasksOK(t), CallsOK(t), BodyOK(t)
  PROVE  Answered(t, Error(t))
<1> DEFINE u == Error(t)
<1>1. Extends(t, u, {}) /\ Plain(t, u)
  BY ErrorExtends
<1>2. u.queue = t.queue /\ u.context = t.context /\ u.encoder = t.encoder
  BY ErrorExtends DEF StringLike
<1> HIDE DEF u
<1>3. OwnersOK(u) /\ TasksOK(u) /\ CallsOK(u)
  BY <1>1, ExtOwners, ExtTasks, PlainCalls
<1>4. NoMulti(t, u)
  BY <1>1 DEF Plain, NoMulti
<1>5. BodyOK(u)
  BY <1>1, <1>4, NoMultiBody
<1>6. /\ \A b \in 1 .. Len(t.heap) : b \in 1 .. Len(u.heap) /\ u.heap[b] = t.heap[b]
                                     /\ b \notin Fresh(t, u)
      /\ \A b \in 1 .. Len(u.heap) : b \in 1 .. Len(t.heap) \/ b \in Fresh(t, u)
  BY <1>1, ExtHeap
<1>7. /\ \A i \in 1 .. Len(t.cbs) : i \in 1 .. Len(u.cbs) /\ u.cbs[i] = t.cbs[i]
      /\ \A i \in 1 .. Len(u.cbs) : i \in 1 .. Len(t.cbs) \/ i \in NewCb(t, u)
      /\ \A i \in NewCb(t, u) : i \in 1 .. Len(u.cbs)
  BY <1>1, ExtCbs
<1>8. \A i \in NewCb(t, u) : u.cbs[i].f = "free" /\ u.cbs[i].b \in Fresh(t, u)
  BY <1>1 DEF Extends, NewCbs
<1>9. \A b \in Fresh(t, u) : u.heap[b].live /\ u.heap[b].what # "tuple"
  BY <1>1 DEF Extends, NewHeap
<1>10. ASSUME NEW b \in Fresh(t, u)
       PROVE  \E i \in 1 .. Len(u.cbs) : Owns(u, i) /\ u.cbs[i].b = b
  <2>1. Fresh(t, u) = {Len(t.heap) + 1} /\ NewCb(t, u) = {Len(t.cbs) + 1}
    <3>1. /\ Len(u.heap) = Len(t.heap) + 1 /\ Len(u.cbs) = Len(t.cbs) + 1
          /\ Len(t.heap) \in Nat /\ Len(t.cbs) \in Nat
      BY ErrorExtends, FieldsOf DEF StringLike, Added, u
    <3> QED BY <3>1 DEF Fresh, NewCb
  <2> QED BY <1>7, <1>8, <2>1 DEF Owns
<1>11. \A i \in 1 .. Len(u.cbs) :
         \/ i \in 1 .. Len(t.cbs)
         \/ u.cbs[i].f = "free" /\ u.cbs[i].b \notin 1 .. Len(t.heap)
  BY <1>6, <1>7, <1>8
<1>12. u \in Data
  BY <1>1 DEF Extends
<1>13. Answered(t, u)
  BY <1>2, <1>3, <1>5, <1>6, <1>7, <1>9, <1>10, <1>11, <1>12 DEF Answered
<1> QED BY <1>13 DEF u

LEMMA AnsweredFetched ==
  ASSUME NEW t \in Data, OwnersOK(t), TasksOK(t), CallsOK(t), BodyOK(t), NEW b \in Nat,
         Called("http") # {}
  PROVE  Answered(t, [AddCallback(t, "check", b) EXCEPT
                        !.body = <<[b |-> NoBlock, grown |-> 0]>>,
                        !.userData = IF @ = "stored" THEN "lost" ELSE @])
<1> DEFINE x == AddCallback(t, "check", b)
           B == <<[b |-> NoBlock, grown |-> 0]>>
           u == [x EXCEPT !.body = B, !.userData = IF @ = "stored" THEN "lost" ELSE @]
<1>1. WithCb(t, x, "check", b)
  BY AddCallbackWith
<1>2. x \in Data
  BY <1>1 DEF WithCb
<1> HIDE DEF x
<1>3. /\ B \in Bodies /\ Len(B) = 1 /\ B[1].b = NoBlock
  <2>1. [b |-> NoBlock, grown |-> 0] \in Piece
    BY DEF Piece, NoBlock
  <2> QED BY <2>1 DEF Bodies
<1> HIDE DEF B
<1>4. /\ u \in Data /\ u.heap = x.heap /\ u.cbs = x.cbs /\ u.queue = x.queue /\ u.body = B
      /\ u.context = x.context /\ u.encoder = x.encoder
  <2>1. x.userData \in Store
    BY <1>2 DEF Data
  <2>2. (IF x.userData = "stored" THEN "lost" ELSE x.userData) \in Store
    BY <2>1 DEF Store
  <2> QED BY <1>2, <1>3, <2>2 DEF Data
<1> HIDE DEF u
<1>5. WithCb(t, u, "check", b)
  BY <1>1, <1>4 DEF WithCb
<1>6. /\ u \in Data /\ u.queue = t.queue /\ u.context = t.context /\ u.encoder = t.encoder
      /\ u.heap = t.heap
  BY <1>5 DEF WithCb
<1>7. /\ \A i \in 1 .. Len(t.cbs) : i \in 1 .. Len(u.cbs) /\ u.cbs[i] = t.cbs[i]
      /\ \A i \in 1 .. Len(u.cbs) : i \in 1 .. Len(t.cbs) \/ i = Len(t.cbs) + 1
      /\ u.cbs[Len(t.cbs) + 1].f = "check"
  BY <1>5, WithCbIs
<1>8. OwnersOK(u) /\ TasksOK(u)
  BY <1>5, CbOwners, CbTasks
<1>9. CallsOK(u)
  BY <1>6, <1>7 DEF CallsOK
<1>10. BodyOK(u)
  <2>1. \A i \in 1 .. Len(B) : B[i].b = NoBlock
    BY <1>3
  <2>2. \A i \in 1 .. Len(u.body) : u.body[i].b = NoBlock
    BY <1>4, <2>1
  <2> QED BY <1>6, <2>2 DEF BodyOK
<1>11. Answered(t, u)
  BY <1>6, <1>7, <1>8, <1>9, <1>10 DEF Answered
<1> QED BY <1>11 DEF u, x, B

LEMMA AnsweredIs ==
  ASSUME NEW t \in Data, OwnersOK(t), TasksOK(t), CallsOK(t), BodyOK(t),
         NEW task, task.b \in Nat, task.holds \in Where, NEW ok, Called("http") # {}
  PROVE  \E u : /\ Answered(t, u)
                /\ WithCb(u, HttpDone(t, task, ok), "free", task.b)
                /\ HttpDone(t, task, ok).body = u.body
                /\ HttpDone(t, task, ok).request = task.holds
<1> DEFINE u == IF ok THEN [AddCallback(t, "check", task.b) EXCEPT
                              !.body = <<[b |-> NoBlock, grown |-> 0]>>,
                              !.userData = IF @ = "stored" THEN "lost" ELSE @]
                ELSE Error(t)
<1>1. Answered(t, u)
  BY AnsweredError, AnsweredFetched
<1>2. HttpDone(t, task, ok) = [AddCallback(u, "free", task.b) EXCEPT !.request = task.holds]
  BY DEF HttpDone
<1> HIDE DEF u
<1>3. u \in Data
  BY <1>1 DEF Answered
<1> DEFINE v == AddCallback(u, "free", task.b)
<1>4. WithCb(u, v, "free", task.b) /\ v.body = u.body
  BY <1>3, AddCallbackWith
<1>5. v \in Data
  BY <1>4 DEF WithCb
<1> HIDE DEF v
<1>6. LET w == [v EXCEPT !.request = task.holds]
      IN  /\ w \in Data /\ w.heap = v.heap /\ w.cbs = v.cbs /\ w.queue = v.queue
          /\ w.context = v.context /\ w.encoder = v.encoder /\ w.body = v.body
          /\ w.request = task.holds
  BY <1>5 DEF Data
<1>7. HttpDone(t, task, ok) = [v EXCEPT !.request = task.holds]
  BY <1>2 DEF v
<1>8. /\ WithCb(u, HttpDone(t, task, ok), "free", task.b)
      /\ HttpDone(t, task, ok).body = u.body /\ HttpDone(t, task, ok).request = task.holds
  BY <1>4, <1>6, <1>7 DEF WithCb
<1> QED BY <1>1, <1>8

\* The task of a proxy is done.
LEMMA ProxyOK ==
  ASSUME IInv, replied = "no", NEW t, Tailed(s, t), s.queue[1] \in Task,
         s.queue[1].kind = "http", NEW ok
  PROVE  LET task == s.queue[1]
             v == HttpDone(t, task, ok)
         IN  \E u : /\ Answered(t, u) /\ WithCb(u, v, "free", task.b)
                    /\ OwnersOK(v) /\ TasksOK(v) /\ CalledOK(v)
<1> DEFINE task == s.queue[1]
           v == HttpDone(t, task, ok)
<1>1. s \in Data /\ OwnersOK(s) /\ TasksOK(s) /\ CalledOK(s)
  BY IInvFacts
<1>2. /\ t \in Data /\ t.heap = s.heap /\ t.cbs = s.cbs /\ 1 \in 1 .. Len(s.queue)
      /\ \A i \in 1 .. Len(t.queue) : i + 1 \in 1 .. Len(s.queue)
                                      /\ t.queue[i] = s.queue[i + 1]
  BY DEF Tailed
<1>3. OwnersOK(t) /\ TasksOK(t) /\ CallsOK(t) /\ BodyOK(t)
  BY <1>1, TailOK
<1>4. Called("http") # {} /\ task.holds \in Where
  BY <1>1, <1>2 DEF CalledOK, CallsOK
<1>5. task.b \in Nat /\ task.b \in 1 .. Len(s.heap) /\ s.heap[task.b].what = "proxy"
  <2>1. task.b \in 1 .. Len(s.heap) /\ s.heap[task.b].what = "proxy"
    BY <1>1, <1>2 DEF TasksOK, PointsTo
  <2> QED BY <2>1 DEF Task
<1>6. PICK u : /\ Answered(t, u) /\ WithCb(u, v, "free", task.b)
               /\ v.body = u.body /\ v.request = task.holds
  BY <1>2, <1>3, <1>4, <1>5, AnsweredIs
<1> HIDE DEF v
<1>7. /\ u \in Data /\ u.queue = t.queue /\ u.context = t.context /\ u.encoder = t.encoder
      /\ OwnersOK(u) /\ TasksOK(u) /\ CallsOK(u) /\ BodyOK(u)
      /\ \A b \in 1 .. Len(t.heap) : b \in 1 .. Len(u.heap) /\ u.heap[b] = t.heap[b]
      /\ \A i \in 1 .. Len(t.cbs) : u.cbs[i] = t.cbs[i]
      /\ \A i \in 1 .. Len(u.cbs) :
           \/ i \in 1 .. Len(t.cbs)
           \/ u.cbs[i].f = "check"
           \/ u.cbs[i].f = "free" /\ u.cbs[i].b \notin 1 .. Len(t.heap)
  BY <1>6 DEF Answered
<1>8. ASSUME NEW i \in 1 .. Len(u.cbs), Owns(u, i)
      PROVE  u.cbs[i].b # task.b
  <2>1. CASE i \in 1 .. Len(t.cbs)
    BY <1>1, <1>2, <1>7, <1>8, <2>1, SMTT(30) DEF TasksOK, Owns
  <2>2. CASE u.cbs[i].f = "free" /\ u.cbs[i].b \notin 1 .. Len(t.heap)
    BY <1>2, <1>5, <2>2
  <2> QED BY <1>7, <1>8, <2>1, <2>2 DEF Owns
<1>9. ~ByTask(u, task.b)
  <2> SUFFICES ASSUME NEW i \in 1 .. Len(t.queue), t.queue[i].kind = "http",
                      t.queue[i].b = task.b
               PROVE  FALSE
    BY <1>7 DEF ByTask
  <2>1. i + 1 = 1
    BY <1>1, <1>2 DEF TasksOK
  <2> QED BY <2>1
<1>10. task.b \in 1 .. Len(u.heap) /\ u.heap[task.b].what \in Temp
  BY <1>2, <1>5, <1>7 DEF Temp
<1>11. OwnersOK(v)
  BY <1>6, <1>7, <1>8, <1>10, CbOwners
<1>12. TasksOK(v)
  BY <1>6, <1>7, <1>9, CbTasks
<1>13. /\ v.heap = u.heap /\ v.queue = u.queue /\ v.context = u.context
       /\ v.encoder = u.encoder
  BY <1>6 DEF WithCb
<1>14. CallsOK(v)
  <2>1. /\ \A i \in 1 .. Len(u.cbs) : v.cbs[i] = u.cbs[i]
        /\ \A i \in 1 .. Len(v.cbs) : i \in 1 .. Len(u.cbs) \/ i = Len(u.cbs) + 1
        /\ v.cbs[Len(u.cbs) + 1].f = "free"
    BY <1>6, <1>7, WithCbIs
  <2> QED BY <1>4, <1>7, <1>13, <2>1 DEF CallsOK
<1>15. BodyOK(v)
  BY <1>6, <1>7, <1>13 DEF BodyOK
<1>16. SentOK(v)
  BY <1>4 DEF SentOK
<1>17. RequestOK(v)
  <2>1. ASSUME Once("http")
        PROVE  v.request = "here" /\ \A i \in 1 .. Len(v.queue) : v.queue[i].kind # "http"
    <3>1. task.holds = "here"
      BY <1>1, <1>2, <2>1 DEF CalledOK, RequestOK
    <3>2. ASSUME NEW i \in 1 .. Len(t.queue), t.queue[i].kind = "http"
          PROVE  FALSE
      <4>1. i + 1 = 1
        BY <1>1, <1>2, <2>1, <3>2 DEF CalledOK, RequestOK
      <4> QED BY <4>1
    <3> QED BY <1>6, <1>7, <1>13, <3>1, <3>2
  <2> QED BY <1>4, <2>1 DEF RequestOK
<1>18. CalledOK(v)
  BY <1>14, <1>15, <1>16, <1>17 DEF CalledOK
<1> QED BY <1>6, <1>11, <1>12, <1>18 DEF v

LEMMA ProxyStep ==
  ASSUME IInv, pc = "series", pc' = "series", NEW t, Tailed(s, t), s.queue[1] \in Task,
         s.queue[1].kind = "http", NEW ok, s' = HttpDone(t, s.queue[1], ok),
         compute' = compute, local' = local,
         step' = step, replied' = replied, at' = at, ops' = ops,
         refused' = refused, afters' = afters, again' = again
  PROVE  IInv'
<1> DEFINE task == s.queue[1]
           v == HttpDone(t, task, ok)
<1>1. replied = "no" /\ at = 1 /\ again = {} /\ \A b \in 1 .. Len(s.heap) : s.heap[b].live
  BY DEF IInv, CourseOK, LiveOK, Unreplied
<1>2. PICK u : /\ Answered(t, u) /\ WithCb(u, v, "free", task.b)
               /\ OwnersOK(v) /\ TasksOK(v) /\ CalledOK(v)
  BY <1>1, ProxyOK
<1>3. s' = v
  OBVIOUS
<1> HIDE DEF v
<1>4. /\ t \in Data /\ t.heap = s.heap /\ t.cbs = s.cbs
      /\ t.context = s.context /\ t.encoder = s.encoder
  BY DEF Tailed
<1>5. /\ u \in Data /\ u.queue = t.queue /\ u.context = t.context /\ u.encoder = t.encoder
      /\ \A b \in 1 .. Len(t.heap) : b \in 1 .. Len(u.heap) /\ u.heap[b] = t.heap[b]
      /\ \A b \in 1 .. Len(u.heap) :
           \/ b \in 1 .. Len(t.heap)
           \/ /\ u.heap[b].live /\ u.heap[b].what # "tuple"
              /\ \E i \in 1 .. Len(u.cbs) : Owns(u, i) /\ u.cbs[i].b = b
      /\ \A i \in 1 .. Len(t.cbs) : i \in 1 .. Len(u.cbs) /\ u.cbs[i] = t.cbs[i]
      /\ \A i \in 1 .. Len(u.cbs) : i \in 1 .. Len(t.cbs) \/ u.cbs[i].f # "after"
  BY <1>2 DEF Answered
<1>6. /\ v \in Data /\ v.heap = u.heap /\ v.queue = u.queue /\ v.context = u.context
      /\ v.encoder = u.encoder
  BY <1>2 DEF WithCb
<1>7. /\ Len(u.cbs) + 1 \in 1 .. Len(v.cbs)
      /\ \A i \in 1 .. Len(u.cbs) : i \in 1 .. Len(v.cbs) /\ v.cbs[i] = u.cbs[i]
      /\ \A i \in 1 .. Len(v.cbs) : i \in 1 .. Len(u.cbs) \/ i = Len(u.cbs) + 1
      /\ v.cbs[Len(u.cbs) + 1].f = "free" /\ v.cbs[Len(u.cbs) + 1].b = task.b
  BY <1>2, <1>5, WithCbIs
<1>8. OwnersOK(s)' /\ TasksOK(s)'
  BY <1>2, <1>3 DEF OwnersOK, TasksOK, Owns, IsAfter
<1>9. CalledOK(s)'
  <2>1. /\ Called("http")' = Called("http") /\ Called("multi")' = Called("multi")
        /\ \A i \in Called("multi") : ops'[i] = ops[i]
    BY DEF Called
  <2> QED BY <1>2, <1>3, <2>1, SameCalls
<1>10. TypeOK'
  BY <1>3, <1>6 DEF IInv, TypeOK
<1>11. CourseOK'
  BY <1>1, PreCourse DEF Unreplied
<1>12. AftersOK'
  BY <1>1, <1>3, <1>6, PreAfters
<1>13. \A b \in 1 .. Len(v.heap) : v.heap[b].live
  BY <1>1, <1>4, <1>5, <1>6
<1>14. LiveOK'
  BY <1>1, <1>3, <1>8, <1>13, PreLive
<1>15. Registered /\ Registered'
  BY DEF Registered
<1>16. Going(t) => Going(s)
  BY TailKeeps, IInvFacts
<1>17. \A i \in 1 .. Len(v.cbs) :
         v.cbs[i].f = "after" => i \in 1 .. Len(s.cbs) /\ v.cbs[i] = s.cbs[i]
  BY <1>4, <1>5, <1>7
<1>18. AfterOK'
  <2>1. ASSUME NEW i \in 1 .. Len(v.queue), v.queue[i].kind = "go"
        PROVE  compute /\ step = local + Global
    <3>1. Going(s)
      BY <1>5, <1>6, <1>16, <2>1 DEF Going
    <3> QED BY <3>1 DEF IInv, AfterOK, Going
  <2>2. \A i \in 1 .. Len(v.cbs) :
          v.cbs[i].f = "after" => /\ step = local + Global
                                  /\ v.cbs[i].b = IF local = 0 THEN NoBlock ELSE Tuple
    BY <1>17 DEF IInv, AfterOK, IsAfter
  <2>3. \A i, j \in 1 .. Len(v.cbs) : v.cbs[i].f = "after" /\ v.cbs[j].f = "after" => i = j
    BY <1>17 DEF IInv, AfterOK, IsAfter
  <2>4. ASSUME step = local + Global, step > 0
        PROVE  \E i \in 1 .. Len(v.cbs) : v.cbs[i].f = "after"
    <3>1. PICK i \in 1 .. Len(s.cbs) : s.cbs[i].f = "after"
      BY <1>15, <2>4 DEF IInv, AfterOK, IsAfter
    <3>2. i \in 1 .. Len(u.cbs) /\ u.cbs[i] = s.cbs[i]
      BY <1>4, <1>5
    <3>3. i \in 1 .. Len(v.cbs) /\ v.cbs[i] = u.cbs[i]
      BY <1>7, <3>2
    <3> QED BY <3>1, <3>2, <3>3
  <2>5. refused /\ local # 0 => step < local + Global
    BY DEF IInv, AfterOK
  <2> QED BY <1>3, <1>15, <2>1, <2>2, <2>3, <2>4, <2>5 DEF AfterOK, IsAfter
<1>19. TupleOK'
  <2>1. \A b \in 1 .. Len(v.heap) : v.heap[b].what = "tuple" => b = Tuple /\ local # 0
    BY <1>4, <1>5, <1>6 DEF IInv, TupleOK
  <2>2. ASSUME Going(v), local # 0
        PROVE  Len(v.heap) > 0 /\ v.heap[Tuple].what = "tuple"
    <3>0. Going(s)
      BY <1>5, <1>6, <1>16, <2>2 DEF Going
    <3>1. Len(s.heap) > 0 /\ s.heap[Tuple].what = "tuple"
      BY <2>2, <3>0 DEF IInv, TupleOK
    <3>2. Tuple \in 1 .. Len(s.heap) /\ Len(v.heap) \in Nat
      <4>1. Len(s.heap) \in Nat /\ Len(v.heap) \in Nat
        BY <1>4, <1>6, FieldsOf
      <4> QED BY <3>1, <4>1 DEF Tuple
    <3>3. Tuple \in 1 .. Len(v.heap) /\ v.heap[Tuple] = s.heap[Tuple]
      BY <1>4, <1>5, <1>6, <3>2
    <3>4. Len(v.heap) > 0
      BY <3>2, <3>3 DEF Tuple
    <3> QED BY <3>1, <3>3, <3>4
  <2>3. Going(s)' => Going(v)
    BY <1>3 DEF Going
  <2> QED BY <1>3, <2>1, <2>2, <2>3 DEF TupleOK
<1>20. AccountedOK'
  <2>1. Leaks \subseteq Leaks'
    BY LeaksKept
  <2> SUFFICES ASSUME NEW b \in 1 .. Len(v.heap)
               PROVE  \/ v.heap[b].what \in Leaks'
                      \/ \E i \in 1 .. Len(v.cbs) : Owns(v, i) /\ v.cbs[i].b = b
                      \/ ByTask(v, b)
                      \/ b \in {v.context, v.encoder}
    BY <1>1, <1>3 DEF AccountedOK, Accounted, ByCb, ByTask, Pending, Owns
  <2>2. CASE b \in 1 .. Len(s.heap)
    <3>1. CASE s.heap[b].what \in Leaks \/ b \in {s.context, s.encoder}
      BY <1>4, <1>5, <1>6, <2>1, <2>2, <3>1
    <3>2. CASE \E i \in 1 .. Len(s.cbs) : Owns(s, i) /\ s.cbs[i].b = b
      <4>1. PICK i \in 1 .. Len(s.cbs) : Owns(s, i) /\ s.cbs[i].b = b
        BY <3>2
      <4>2. i \in 1 .. Len(u.cbs) /\ u.cbs[i] = s.cbs[i]
        BY <1>4, <1>5, <4>1
      <4>3. i \in 1 .. Len(v.cbs) /\ v.cbs[i] = s.cbs[i]
        BY <1>7, <4>2
      <4>4. Owns(v, i) /\ v.cbs[i].b = b
        BY <4>1, <4>3 DEF Owns
      <4> QED BY <4>3, <4>4
    <3>3. CASE ByTask(s, b)
      <4>1. ByTask(t, b) \/ b = task.b
        BY <3>3, TailKeeps, IInvFacts
      <4>2. CASE ByTask(t, b)
        BY <1>5, <1>6, <4>2 DEF ByTask
      <4>3. CASE b = task.b
        BY <1>7, <4>3 DEF Owns
      <4> QED BY <4>1, <4>2, <4>3
    <3> QED BY <1>1, <1>15, <2>2, <3>1, <3>2, <3>3, Accounts
  <2>3. CASE b \notin 1 .. Len(s.heap)
    <3>1. \E i \in 1 .. Len(u.cbs) : Owns(u, i) /\ u.cbs[i].b = b
      BY <1>4, <1>5, <1>6, <2>3
    <3> QED BY <1>7, <3>1 DEF Owns
  <2> QED BY <2>2, <2>3
<1> QED BY <1>8, <1>9, <1>10, <1>11, <1>12, <1>14, <1>18, <1>19, <1>20 DEF IInv, CalledOK

\* A part of a multipart body was read, or could not be.
LEMMA PartOK ==
  ASSUME NEW q \in Data, NEW t, Tailed(q, t), OwnersOK(q), TasksOK(q), CalledOK(q),
         q.queue[1].kind = "part", NEW ok
  PROVE  LET v == PartDone(t, q.queue[1], ok)
         IN  /\ OwnersOK(v) /\ TasksOK(v) /\ CalledOK(v) /\ v \in Data
             /\ SameBlocks(q.heap, v.heap) /\ v.cbs = q.cbs /\ v.queue = t.queue
             /\ v.context = q.context /\ v.encoder = q.encoder
<1> DEFINE task == q.queue[1]
           c == t.context
           u == IF ok THEN Grow(t, c) ELSE t
           w == Grow(u, c)
           v == PartDone(t, task, ok)
<1>1. /\ t \in Data /\ t.heap = q.heap /\ t.body = q.body /\ t.cbs = q.cbs
      /\ t.context = q.context /\ t.encoder = q.encoder /\ 1 \in 1 .. Len(q.queue)
      /\ \A i \in 1 .. Len(t.queue) : i + 1 \in 1 .. Len(q.queue)
                                      /\ t.queue[i] = q.queue[i + 1]
  BY DEF Tailed
<1>2. OwnersOK(t) /\ TasksOK(t) /\ CallsOK(t) /\ BodyOK(t) /\ RequestOK(t)
  BY TailOK, TailRequest DEF CalledOK
<1>3. t.context # NoBlock
  BY <1>1 DEF TasksOK
<1>4. Unsent(t)
  BY <1>1 DEF CalledOK, BodyOK, Unsent
<1>5. ~task.last => SentOK(t)
  BY TailSent DEF CalledOK
<1>6. task.last /\ Once("multi") => \A j \in 1 .. Len(t.queue) : t.queue[j].kind # "part"
  <2> SUFFICES ASSUME task.last, Once("multi"), NEW j \in 1 .. Len(t.queue),
                      t.queue[j].kind = "part"
               PROVE  FALSE
    OBVIOUS
  <2>1. 1 < j + 1 /\ j + 1 \in 1 .. Len(q.queue) /\ q.queue[j + 1].kind = "part"
    BY <1>1
  <2>2. \A k, l \in 1 .. Len(q.queue) :
          k < l /\ q.queue[k].kind = "part" /\ q.queue[l].kind = "part" => ~q.queue[k].last
    BY DEF CalledOK, BodyOK
  <2> QED BY <1>1, <2>1, <2>2
<1>7. /\ OwnersOK(u) /\ TasksOK(u) /\ CallsOK(u) /\ RequestOK(u) /\ BodyOK(u)
      /\ Unsent(u) /\ (SentOK(t) => SentOK(u))
      /\ u \in Data /\ SameBlocks(t.heap, u.heap) /\ u.cbs = t.cbs
      /\ u.queue = t.queue /\ u.context = t.context /\ u.encoder = t.encoder
  <2>1. CASE ok
    <3>1. u = Grow(t, t.context)
      BY <2>1
    <3> HIDE DEF u
    <3> QED BY <1>1, <1>2, <1>3, <1>4, <3>1, GrowOK
  <2>2. CASE ~ok
    BY <1>1, <1>2, <1>4, <2>2, SelfBlocks
  <2> QED BY <2>1, <2>2
<1>8. v = IF task.last THEN Point(w, c) ELSE u
  BY DEF PartDone
<1> HIDE DEF u
<1>9. CASE ~task.last
  <2>1. v = u
    BY <1>8, <1>9
  <2> HIDE DEF v
  <2>2. CalledOK(u)
    BY <1>5, <1>7, <1>9 DEF CalledOK
  <2>3. /\ OwnersOK(v) /\ TasksOK(v) /\ CalledOK(v) /\ v \in Data
        /\ SameBlocks(q.heap, v.heap) /\ v.cbs = q.cbs /\ v.queue = t.queue
        /\ v.context = q.context /\ v.encoder = q.encoder
    BY <1>1, <1>7, <2>1, <2>2
  <2> QED BY <2>3 DEF v
<1>10. CASE task.last
  <2>1. v = Point(w, c)
    BY <1>8, <1>10
  <2> HIDE DEF v
  <2>2. w = Grow(u, u.context) /\ u.context # NoBlock
    BY <1>3, <1>7
  <2> HIDE DEF w
  <2>3. /\ OwnersOK(w) /\ TasksOK(w) /\ CallsOK(w) /\ RequestOK(w) /\ BodyOK(w)
        /\ w \in Data /\ SameBlocks(u.heap, w.heap) /\ w.cbs = u.cbs
        /\ w.queue = u.queue /\ w.context = u.context /\ w.encoder = u.encoder
    BY <1>7, <2>2, GrowOK
  <2>4. c = w.context /\ c # NoBlock /\ c \in 1 .. Len(w.heap)
    BY <1>3, <1>7, <2>3 DEF OwnersOK
  <2> HIDE DEF c
  <2>5. Once("multi") => \A j \in 1 .. Len(w.queue) : w.queue[j].kind # "part"
    BY <1>6, <1>7, <1>10, <2>3
  <2>6. /\ OwnersOK(v) /\ TasksOK(v) /\ CalledOK(v) /\ v \in Data
        /\ v.heap = w.heap /\ v.cbs = w.cbs /\ v.queue = w.queue
        /\ v.context = w.context /\ v.encoder = w.encoder
    BY <2>1, <2>3, <2>4, <2>5, PointOK
  <2>7. SameBlocks(q.heap, v.heap)
    BY <1>1, <1>7, <2>3, <2>6 DEF SameBlocks
  <2>8. /\ OwnersOK(v) /\ TasksOK(v) /\ CalledOK(v) /\ v \in Data
        /\ SameBlocks(q.heap, v.heap) /\ v.cbs = q.cbs /\ v.queue = t.queue
        /\ v.context = q.context /\ v.encoder = q.encoder
    BY <1>1, <1>7, <2>3, <2>6, <2>7
  <2> QED BY <2>8 DEF v
<1> QED BY <1>9, <1>10

LEMMA TaskDoneStep ==
  ASSUME IInv, NEW ok, TaskDone(ok)
  PROVE  IInv'
<1> DEFINE t == [s EXCEPT !.queue = Tail(@)]
           task == s.queue[1]
<1>1. /\ pc = "series" /\ s.queue # <<>> /\ compute' = compute /\ local' = local /\ step' = step
      /\ replied' = replied /\ at' = at /\ ops' = ops /\ refused' = refused
      /\ afters' = afters /\ again' = again
  BY DEF TaskDone
<1>2. replied = "no"
  BY <1>1 DEF IInv, CourseOK, Unreplied
<1>3. s \in Data /\ OwnersOK(s) /\ TasksOK(s) /\ CalledOK(s)
  BY <1>2, IInvFacts
<1>4. Tailed(s, t) /\ Head(s.queue) = task /\ task \in Task
  BY <1>1, <1>3, TailIs
<1>5. /\ s' \in CASE task.kind = "go"     -> {t}
                  [] task.kind = "pread"  -> {PreadDone(t, task, ok)}
                  [] task.kind = "pwrite" -> PwriteDone(t, task, ok)
                  [] task.kind = "part"   -> {PartDone(t, task, ok)}
                  [] task.kind = "http"   -> {HttpDone(t, task, ok)}
                  [] task.kind = "query"  -> {t, String(t)}
      /\ pc' = IF task.kind = "go" THEN "handler" ELSE "series"
  BY <1>4 DEF TaskDone
<1>6. /\ t \in Data /\ t.heap = s.heap /\ t.body = s.body /\ t.cbs = s.cbs
      /\ t.context = s.context /\ t.encoder = s.encoder /\ 1 \in 1 .. Len(s.queue)
  BY <1>4 DEF Tailed
<1> HIDE DEF t
<1>7. task.kind \in {"go", "pread", "pwrite", "part", "http", "query"} /\ task.b \in Nat
  BY <1>4 DEF Task, TaskKind
<1>8. task.kind = "go" => Going(s)
  BY <1>6 DEF Going
<1> HIDE DEF task
<1>9. CASE task.kind = "http"
  <2>1. s' = HttpDone(t, s.queue[1], ok) /\ pc' = "series"
    BY <1>5, <1>9 DEF task
  <2> QED BY <1>1, <1>4, <1>9, <2>1, ProxyStep DEF task
<1>10. CASE task.kind # "http"
  <2>1. Going(t) => Going(s)
    BY <1>3, <1>4, TailKeeps
  <2>2. \A b : ByTask(s, b) => ByTask(t, b)
    BY <1>3, <1>4, <1>10, TailKeeps DEF task
  <2>3. SameBlocks(s.heap, t.heap)
    BY <1>3, <1>6, SelfBlocks
  <2>4. OwnersOK(t) /\ TasksOK(t) /\ CallsOK(t) /\ BodyOK(t) /\ RequestOK(t)
    BY <1>3, <1>4, <1>10, TailOK, TailRequest DEF CalledOK, task
  <2>5. pc' = "series" \/ (pc' = "handler" /\ Going(s))
    BY <1>5, <1>8
  <2>6. CASE task.kind = "part"
    <3> DEFINE v == PartDone(t, task, ok)
    <3>1. s' = v
      BY <1>5, <2>6
    <3>2. /\ OwnersOK(v) /\ TasksOK(v) /\ CalledOK(v) /\ v \in Data
          /\ SameBlocks(s.heap, v.heap) /\ v.cbs = s.cbs /\ v.queue = t.queue
          /\ v.context = s.context /\ v.encoder = s.encoder
      BY <1>3, <1>4, <2>6, PartOK DEF task
    <3> HIDE DEF v
    <3>3. Extends(v, v, {}) /\ Plain(v, v)
      BY <3>2, SelfData
    <3>4. (Going(v) => Going(s)) /\ \A b : ByTask(s, b) => ByTask(v, b)
      BY <2>1, <2>2, <3>2 DEF Going, ByTask
    <3> QED BY <1>1, <2>5, <3>1, <3>2, <3>3, <3>4, TaskStep
  <2>7. CASE task.kind # "part"
    <3>1. SentOK(t)
      BY <1>3, <1>4, <2>7, TailSent DEF CalledOK, task
    <3>2. CalledOK(t)
      BY <2>4, <3>1 DEF CalledOK
    <3>3. CASE s' = t
      <4>1. Extends(t, t, {}) /\ Plain(t, t)
        BY <1>6, SelfData
      <4> QED BY <1>1, <1>6, <2>1, <2>2, <2>3, <2>4, <2>5, <3>2, <3>3, <4>1, TaskStep
    <3>4. CASE s' = String(t)
      <4>1. Extends(t, String(t), {}) /\ Plain(t, String(t))
        BY <1>6, ErrorExtends
      <4> QED BY <1>1, <1>6, <2>1, <2>2, <2>3, <2>4, <2>5, <3>2, <3>4, <4>1, TaskStep
    <3>5. ASSUME NEW b \in {NoBlock, task.b}, s' = Point(t, b),
                 task.kind \in {"pread", "pwrite"}
          PROVE  IInv'
      <4> DEFINE v == Point(t, b)
      <4>1. /\ task.b \in 1 .. Len(t.heap) /\ t.heap[task.b].what \in {"buffer", "save"}
        BY <1>3, <1>6, <3>5 DEF TasksOK, PointsTo, task
      <4>2. b # NoBlock => b # t.context
        BY <1>3, <1>6, <4>1 DEF OwnersOK
      <4>3. b \in {NoBlock} \cup 1 .. Len(t.heap)
        BY <4>1
      <4>4. /\ OwnersOK(v) /\ TasksOK(v) /\ CalledOK(v) /\ v \in Data
            /\ v.heap = t.heap /\ v.cbs = t.cbs /\ v.queue = t.queue
            /\ v.context = t.context /\ v.encoder = t.encoder
        BY <1>6, <2>4, <3>1, <4>2, <4>3, PointOK
      <4>5. s' = v
        BY <3>5
      <4> HIDE DEF v
      <4>6. Extends(v, v, {}) /\ Plain(v, v)
        BY <4>4, SelfData
      <4>7. (Going(v) => Going(s)) /\ \A x : ByTask(s, x) => ByTask(v, x)
        BY <2>1, <2>2, <4>4 DEF Going, ByTask
      <4>8. v.cbs = s.cbs /\ v.context = s.context /\ v.encoder = s.encoder
            /\ SameBlocks(s.heap, v.heap)
        BY <1>6, <2>3, <4>4
      <4> QED BY <1>1, <2>5, <4>4, <4>5, <4>6, <4>7, <4>8, TaskStep
    <3>6. CASE task.kind = "go"
      <4>1. s' = t
        BY <1>5, <3>6
      <4> QED BY <3>3, <4>1
    <3>7. CASE task.kind = "query"
      <4>1. s' \in {t, String(t)}
        BY <1>5, <3>7
      <4> QED BY <3>3, <3>4, <4>1
    <3>8. CASE task.kind = "pread"
      <4>1. s' = Point(t, task.b) \/ s' = String(t)
        BY <1>5, <3>8 DEF PreadDone, Error
      <4> QED BY <3>4, <3>5, <3>8, <4>1
    <3>9. CASE task.kind = "pwrite"
      <4>1. s' \in PwriteDone(t, task, ok)
        BY <1>5, <3>9
      <4>2. s' = Point(t, task.b) \/ s' = Point(t, NoBlock) \/ s' = String(t)
        BY <4>1 DEF PwriteDone, Error
      <4> QED BY <3>4, <3>5, <3>9, <4>2
    <3> QED BY <1>7, <1>10, <2>7, <3>6, <3>7, <3>8, <3>9
  <2> QED BY <2>6, <2>7
<1> QED BY <1>9, <1>10

LEMMA SendReplyStep ==
  ASSUME IInv, NEW ok, SendReply(ok)
  PROVE  IInv'
<1>1. /\ pc = "series" /\ s.queue = <<>> /\ pc' = "callbacks" /\ s' = s
      /\ compute' = compute /\ local' = local /\ step' = step /\ at' = at /\ ops' = ops
      /\ refused' = refused /\ afters' = afters /\ again' = again
      /\ replied' \in {"ok", "failed"}
  BY DEF SendReply
<1>2. replied = "no" /\ at = 1
  BY <1>1 DEF IInv, CourseOK, Unreplied
<1>3. TypeOK' /\ CourseOK'
  BY <1>1, <1>2 DEF IInv, TypeOK, CourseOK, Unreplied
<1>4. /\ Called("http")' = Called("http") /\ Called("multi")' = Called("multi")
      /\ \A i \in Called("multi") : ops'[i] = ops[i]
  BY <1>1 DEF Called
<1>5. CalledOK(s)'
  BY <1>1, <1>2, <1>4, IInvFacts, SameCalls
<1>6. OwnersOK(s)' /\ TasksOK(s)'
  BY <1>1, IInvFacts DEF OwnersOK, TasksOK, Owns, IsAfter
<1>7. Registered /\ Registered'
  BY <1>1 DEF Registered
<1>8. AfterOK'
  BY <1>1, <1>7 DEF IInv, AfterOK, IsAfter
<1>9. AftersOK'
  BY <1>1, <1>2, IInvFacts, PreAfters
<1>10. TupleOK'
  BY <1>1 DEF IInv, TupleOK, Going
<1>11. LiveOK'
  BY <1>1, <1>2 DEF IInv, LiveOK, Owns
<1>12. AccountedOK'
  <2>1. Leaks \subseteq Leaks'
    BY <1>1, LeaksKept
  <2> SUFFICES ASSUME NEW b \in 1 .. Len(s.heap)
               PROVE  \/ s.heap[b].what \in Leaks'
                      \/ \E i \in 1 .. Len(s.cbs) : Owns(s, i) /\ s.cbs[i].b = b
                      \/ ByTask(s, b)
                      \/ b \in {s.context, s.encoder}
    BY <1>1, <1>2 DEF AccountedOK, Accounted, ByCb, ByTask, Pending, Owns
  <2> QED BY <1>2, <1>7, <2>1, Accounts
<1> QED BY <1>3, <1>5, <1>6, <1>8, <1>9, <1>10, <1>11, <1>12 DEF IInv, CalledOK

-----------------------------------------------------------------------------
(***************************************************************************)
(* After the reply.                                                        *)
(***************************************************************************)
\* The blocks of B, all of them live, are freed and nothing else happens to s.
Freed(B) ==
  /\ s' \in Data /\ s'.body = s.body /\ s'.cbs = s.cbs /\ s'.queue = s.queue
  /\ s'.context = s.context /\ s'.encoder = s.encoder /\ s'.request = s.request
  /\ Len(s'.heap) = Len(s.heap)
  /\ \A b \in 1 .. Len(s.heap) : /\ s'.heap[b].what = s.heap[b].what
                                 /\ s'.heap[b].live <=> s.heap[b].live /\ b \notin B
  /\ again' = {}

LEMMA FreeIs ==
  ASSUME IInv, NEW B, B \subseteq 1 .. Len(s.heap), \A b \in B : s.heap[b].live, Free(B)
  PROVE  Freed(B)
<1> DEFINE h == [b \in DOMAIN s.heap |->
                   IF b \in B THEN [s.heap[b] EXCEPT !.live = FALSE] ELSE s.heap[b]]
<1>1. s \in Data /\ s.heap \in Seq(Block)
  BY IInvFacts, FieldsOf
<1>2. s' = [s EXCEPT !.heap = h] /\ again' = again \cup {b \in B : ~s.heap[b].live}
  BY DEF Free
<1>3. DOMAIN s.heap = 1 .. Len(s.heap) /\ Len(s.heap) \in Nat
  BY <1>1
<1>4. ASSUME NEW b \in 1 .. Len(s.heap)
      PROVE  /\ h[b] \in Block /\ h[b].what = s.heap[b].what
             /\ h[b].live <=> s.heap[b].live /\ b \notin B
  <2>1. s.heap[b] \in Block
    BY <1>1
  <2>2. h[b] = IF b \in B THEN [s.heap[b] EXCEPT !.live = FALSE] ELSE s.heap[b]
    BY <1>3
  <2> HIDE DEF h
  <2>3. CASE b \in B
    <3>1. h[b] = [s.heap[b] EXCEPT !.live = FALSE]
      BY <2>2, <2>3
    <3>2. h[b] \in Block /\ h[b].what = s.heap[b].what /\ h[b].live = FALSE
      BY <2>1, <3>1 DEF Block
    <3> QED BY <2>3, <3>2
  <2>4. CASE b \notin B
    <3>1. h[b] = s.heap[b]
      BY <2>2, <2>4
    <3> QED BY <2>1, <2>4, <3>1
  <2> QED BY <2>3, <2>4
<1>5. h = [b \in 1 .. Len(s.heap) |-> h[b]]
  BY <1>3
<1> HIDE DEF h
<1>6. h \in Seq(Block) /\ Len(h) = Len(s.heap)
  BY <1>3, <1>4, <1>5
<1>7. /\ s' \in Data /\ s'.heap = h /\ s'.body = s.body /\ s'.cbs = s.cbs
      /\ s'.queue = s.queue
      /\ s'.context = s.context /\ s'.encoder = s.encoder /\ s'.request = s.request
  BY <1>1, <1>2, <1>6 DEF Data, Heaps
<1>8. again' = {}
  BY <1>2 DEF IInv, LiveOK
<1> QED BY <1>4, <1>6, <1>7, <1>8 DEF Freed

LEMMA FreedKeeps ==
  ASSUME IInv, NEW B, Freed(B), ops' = ops, local' = local
  PROVE  OwnersOK(s)' /\ TasksOK(s)' /\ CallsOK(s)' /\ RequestOK(s)' /\ SentOK(s)'
<1>1. /\ s'.body = s.body /\ s'.cbs = s.cbs /\ s'.queue = s.queue
      /\ s'.context = s.context /\ s'.encoder = s.encoder /\ s'.request = s.request
      /\ Len(s'.heap) = Len(s.heap)
      /\ \A b \in 1 .. Len(s.heap) : s'.heap[b].what = s.heap[b].what
  BY DEF Freed
<1>2. OwnersOK(s) /\ TasksOK(s) /\ CallsOK(s) /\ RequestOK(s) /\ SentOK(s)
  BY IInvFacts
<1>3. /\ Called("http")' = Called("http") /\ Called("multi")' = Called("multi")
      /\ (Once("http")' <=> Once("http")) /\ (Once("multi")' <=> Once("multi"))
  BY DEF Called, Once
<1>4. OwnersOK(s)'
  BY <1>1, <1>2, SMTT(20) DEF OwnersOK, Owns, IsAfter
<1>5. TasksOK(s)'
  BY <1>1, <1>2, SMTT(30) DEF TasksOK, Owns
<1>6. CallsOK(s)'
  BY <1>1, <1>2, <1>3 DEF CallsOK
<1>7. RequestOK(s)'
  BY <1>1, <1>2, <1>3 DEF RequestOK
<1>8. SentOK(s)'
  BY <1>1, <1>2, <1>3 DEF SentOK
<1> QED BY <1>4, <1>5, <1>6, <1>7, <1>8

\* One callback of the server task has had its turn, and freed what it owns.
LEMMA WalkStep ==
  ASSUME IInv, pc = "callbacks", at <= Len(s.cbs), at' = at + 1, pc' = pc,
         Freed(IF Owns(s, at) THEN {s.cbs[at].b} ELSE {}),
         compute' = compute, local' = local, step' = step, replied' = replied, ops' = ops,
         refused' = refused, afters' \in Seq(Nat), AftersOK'
  PROVE  IInv'
<1> DEFINE B == IF Owns(s, at) THEN {s.cbs[at].b} ELSE {}
<1>1. replied # "no" /\ s.queue = <<>>
  BY DEF IInv, CourseOK, Unreplied
<1>2. /\ s' \in Data /\ s'.cbs = s.cbs /\ s'.queue = s.queue
      /\ s'.context = s.context /\ s'.encoder = s.encoder
      /\ Len(s'.heap) = Len(s.heap)
      /\ \A b \in 1 .. Len(s.heap) : /\ s'.heap[b].what = s.heap[b].what
                                     /\ s'.heap[b].live <=> s.heap[b].live /\ b \notin B
      /\ again' = {}
  BY DEF Freed
<1>3. OwnersOK(s)' /\ TasksOK(s)' /\ CallsOK(s)' /\ RequestOK(s)' /\ SentOK(s)'
  BY FreedKeeps
<1>4. /\ at \in Nat \ {0} /\ Len(s.cbs) \in Nat /\ at \in 1 .. Len(s.cbs) /\ OwnersOK(s)
      /\ at + 1 \in Nat \ {0}
  BY IInvFacts, FieldsOf
<1>5. TypeOK'
  BY <1>2, <1>4 DEF IInv, TypeOK
<1>6. CourseOK'
  BY <1>1, <1>2 DEF IInv, CourseOK, Unreplied
<1>7. Registered /\ Registered'
  BY DEF Registered
<1>8. AfterOK'
  BY <1>2, <1>7 DEF IInv, AfterOK, IsAfter
<1>9. TupleOK'
  <2>1. /\ ~Going(s)'
        /\ \A b \in 1 .. Len(s'.heap) : s'.heap[b].what = "tuple" => b = Tuple /\ local # 0
    BY <1>1, <1>2, SMTT(30) DEF Going, IInv, TupleOK
  <2> QED BY <2>1 DEF TupleOK
<1>10. \A i \in at + 1 .. Len(s.cbs) : i \in at .. Len(s.cbs) /\ i \in 1 .. Len(s.cbs) /\ i # at
  BY <1>4
<1>11. LiveOK'
  <2>1. ASSUME NEW i \in at + 1 .. Len(s.cbs), Owns(s, i)
        PROVE  s'.heap[s.cbs[i].b].live
    <3>1. s.heap[s.cbs[i].b].live /\ s.cbs[i].b \in 1 .. Len(s.heap)
      BY <1>4, <1>10, <2>1 DEF IInv, LiveOK, OwnersOK
    <3>2. s.cbs[i].b \notin B
      BY <1>4, <1>10, <2>1 DEF OwnersOK
    <3> QED BY <1>2, <3>1, <3>2
  <2>2. \A b \in B : b \in 1 .. Len(s.heap) /\ s.heap[b].what \in {"tuple"} \cup Temp
    BY <1>4 DEF OwnersOK
  <2> HIDE DEF B
  <2>3. s.context # NoBlock => s'.heap[s.context].live
    <3> SUFFICES ASSUME s.context # NoBlock PROVE s'.heap[s.context].live
      OBVIOUS
    <3>1. /\ s.context \in 1 .. Len(s.heap) /\ s.heap[s.context].what = "content"
          /\ s.heap[s.context].live
      BY <1>4 DEF OwnersOK, IInv, LiveOK
    <3>2. s.context \notin B
      BY <2>2, <3>1 DEF Temp
    <3> QED BY <1>2, <3>1, <3>2
  <2>4. s.encoder # NoBlock => s'.heap[s.encoder].live
    <3> SUFFICES ASSUME s.encoder # NoBlock PROVE s'.heap[s.encoder].live
      OBVIOUS
    <3>1. /\ s.encoder \in 1 .. Len(s.heap) /\ s.heap[s.encoder].what = "encoder"
          /\ s.heap[s.encoder].live
      BY <1>4 DEF OwnersOK, IInv, LiveOK
    <3>2. s.encoder \notin B
      BY <2>2, <3>1 DEF Temp
    <3> QED BY <1>2, <3>1, <3>2
  <2> QED BY <1>1, <1>2, <2>1, <2>3, <2>4 DEF LiveOK, Owns
<1>12. AccountedOK'
  <2> SUFFICES ASSUME NEW b \in 1 .. Len(s.heap), s'.heap[b].live
               PROVE  \/ s.heap[b].what \in Leaks
                      \/ \E i \in at + 1 .. Len(s.cbs) : Owns(s, i) /\ s.cbs[i].b = b
                      \/ b \in {s.context, s.encoder}
    <3>1. Leaks \subseteq Leaks'
      BY LeaksKept
    <3> QED BY <1>2, <3>1, SMTT(30) DEF AccountedOK, Accounted, ByCb, Owns
  <2>1. s.heap[b].live /\ b \notin B
    BY <1>2
  <2>2. Accounted(s, b)
    BY <2>1 DEF IInv, AccountedOK
  <2>3. ~ByTask(s, b) /\ ~Pending(s, b)
    BY <1>1, <1>7 DEF ByTask, Pending
  <2>4. CASE ByCb(s, b)
    <3>1. PICK i \in at .. Len(s.cbs) : Owns(s, i) /\ s.cbs[i].b = b
      BY <2>4 DEF ByCb
    <3>2. i # at
      BY <2>1, <3>1
    <3>3. i \in at + 1 .. Len(s.cbs)
      BY <1>4, <3>1, <3>2
    <3> QED BY <3>1, <3>3
  <2> QED BY <2>2, <2>3, <2>4 DEF Accounted
<1> QED BY <1>1, <1>3, <1>5, <1>6, <1>8, <1>9, <1>11, <1>12 DEF IInv

\* A callback that is not after().
LEMMA OtherAfters ==
  ASSUME IInv, pc = "callbacks", at <= Len(s.cbs), s.cbs[at].f # "after", at' = at + 1,
         s'.cbs = s.cbs, afters' = afters, replied' = replied, local' = local
  PROVE  AftersOK' /\ afters' \in Seq(Nat)
<1>1. at \in Nat \ {0} /\ Len(s.cbs) \in Nat
  BY IInvFacts, FieldsOf
<1>2. \A i \in 1 .. Len(s.cbs) : i < at + 1 => i < at \/ i = at
  BY <1>1
<1>3. \A i \in 1 .. Len(s.cbs) : i < at => i < at + 1
  BY <1>1
<1>4. AftersOK'
  BY <1>2, <1>3 DEF IInv, AftersOK, IsAfter
<1>5. afters' \in Seq(Nat)
  BY DEF IInv, TypeOK
<1> QED BY <1>4, <1>5

\* Up to the k-th aspect of the route, then the global ones.
LEMMA AftersIs ==
  ASSUME local \in Nat, NEW k \in 0 .. local, NEW r,
         r = <<>> \o [i \in 1 .. k |-> i] \o [i \in 1 .. Global |-> local + i]
  PROVE  /\ r \in Seq(Nat)
         /\ \A i, j \in 1 .. Len(r) : i < j => r[i] < r[j]
         /\ \A g \in local + 1 .. local + Global : \E i \in 1 .. Len(r) : r[i] = g
<1> DEFINE e == <<>>
           a == [i \in 1 .. k |-> i]
           b == [i \in 1 .. Global |-> local + i]
           ea == e \o a
<1>1. local \in Nat /\ Global \in Nat /\ k \in Nat /\ k <= local
  BY ConstantsAssumption
<1>2. a \in Seq(Nat) /\ Len(a) = k /\ \A i \in 1 .. k : a[i] = i
  BY <1>1
<1>3. b \in Seq(Nat) /\ Len(b) = Global /\ \A i \in 1 .. Global : b[i] = local + i
  BY <1>1
<1>4. e \in Seq(Nat) /\ Len(e) = 0
  OBVIOUS
<1> HIDE DEF a, b, e
<1>5. /\ e \o a \in Seq(Nat) /\ Len(e \o a) = Len(e) + Len(a)
      /\ \A i \in 1 .. Len(a) : (e \o a)[Len(e) + i] = a[i]
  BY <1>2, <1>4, Concat
<1>6. ea \in Seq(Nat) /\ Len(ea) = k /\ \A i \in 1 .. k : ea[i] = i
  <2>1. Len(ea) = k
    BY <1>1, <1>2, <1>4, <1>5
  <2>2. ASSUME NEW i \in 1 .. k
        PROVE  ea[i] = i
    <3>1. ea[0 + i] = a[i] /\ 0 + i = i
      BY <1>1, <1>2, <1>4, <1>5
    <3> QED BY <1>2, <3>1
  <2> QED BY <1>5, <2>1, <2>2
<1> HIDE DEF ea
<1>7. r = ea \o b
  BY DEF ea, a, b, e
<1>8. /\ r \in Seq(Nat) /\ Len(r) = Len(ea) + Len(b) /\ Prefix(ea, r)
      /\ \A i \in 1 .. Len(b) : r[Len(ea) + i] = b[i]
  <2>1. /\ ea \o b \in Seq(Nat) /\ Len(ea \o b) = Len(ea) + Len(b) /\ Prefix(ea, ea \o b)
        /\ \A i \in 1 .. Len(b) : (ea \o b)[Len(ea) + i] = b[i]
    BY <1>3, <1>6, Concat, ZenonT(30)
  <2> QED BY <1>7, <2>1
<1>9. /\ Len(r) = k + Global
      /\ \A i \in 1 .. k : r[i] = i
      /\ \A i \in 1 .. Global : r[k + i] = local + i
  BY <1>3, <1>6, <1>8 DEF Prefix
<1>10. ASSUME NEW i \in 1 .. k + Global
       PROVE  i \in 1 .. k \/ i - k \in 1 .. Global
  BY <1>1
<1>11. ASSUME NEW i \in 1 .. Len(r)
       PROVE  (i \in 1 .. k /\ r[i] = i) \/ (i > k /\ r[i] = local + (i - k))
  <2>1. i \in 1 .. k + Global
    BY <1>9
  <2>2. CASE i \in 1 .. k
    BY <1>9, <2>2
  <2>3. CASE i - k \in 1 .. Global
    <3>1. k + (i - k) = i /\ i > k
      BY <1>1, <2>1, <2>3
    <3>2. r[k + (i - k)] = local + (i - k)
      BY <1>9, <2>3
    <3> QED BY <3>1, <3>2
  <2> QED BY <1>10, <2>1, <2>2, <2>3
<1>12. ASSUME NEW i \in 1 .. Len(r), NEW j \in 1 .. Len(r), i < j
       PROVE  r[i] < r[j]
  <2>1. PICK x \in Int, y \in Int : x = i /\ y = j
    BY <1>1, <1>9
  <2>2. CASE r[i] = x /\ x \in 1 .. k /\ r[j] = y
    BY <1>12, <2>1, <2>2
  <2>3. CASE r[i] = x /\ x \in 1 .. k /\ y > k /\ r[j] = local + (y - k)
    BY <1>1, <2>1, <2>3
  <2>4. CASE x > k /\ r[i] = local + (x - k) /\ y > k /\ r[j] = local + (y - k)
    BY <1>1, <1>12, <2>1, <2>4
  <2>5. CASE x > k /\ y \in 1 .. k
    BY <1>1, <1>12, <2>1, <2>5
  <2> QED BY <1>11, <2>1, <2>2, <2>3, <2>4, <2>5
<1>13. ASSUME NEW g \in local + 1 .. local + Global
       PROVE  \E i \in 1 .. Len(r) : r[i] = g
  <2>1. g - local \in 1 .. Global /\ local + (g - local) = g
    BY <1>1
  <2>2. r[k + (g - local)] = g
    BY <1>9, <2>1
  <2>3. k + (g - local) \in 1 .. Len(r)
    BY <1>1, <1>9, <2>1
  <2> QED BY <2>2, <2>3
<1> QED BY <1>8, <1>12, <1>13

\* Error, called while the callbacks are walked: nothing is claimed of what comes
\* after, but what is there is still accounted for.
LEMMA UndefinedStep ==
  ASSUME IInv, pc = "callbacks", at \in 1 .. Len(s.cbs), s.cbs[at].f = "check",
         replied = "failed", s' = Error(s), pc' = "undefined", at' = at,
         compute' = compute, local' = local, step' = step, replied' = replied, ops' = ops,
         refused' = refused, afters' = afters, again' = again
  PROVE  IInv'
<1> DEFINE u == Error(s)
<1>1. /\ s \in Data /\ OwnersOK(s) /\ TasksOK(s) /\ CallsOK(s) /\ RequestOK(s) /\ SentOK(s)
      /\ at \in Nat \ {0} /\ Len(s.cbs) \in Nat
  BY IInvFacts, FieldsOf
<1>2. /\ Extends(s, u, {}) /\ Plain(s, u) /\ u \in Data /\ u.queue = s.queue
      /\ u.context = s.context /\ u.encoder = s.encoder /\ u.request = s.request
  BY <1>1, ErrorExtends DEF StringLike
<1>3. s' = u
  OBVIOUS
<1> HIDE DEF u
<1>4. OwnersOK(u) /\ TasksOK(u) /\ CallsOK(u)
  BY <1>1, <1>2, ExtOwners, ExtTasks, PlainCalls
<1>5. SentOK(u)
  BY <1>1, <1>2, NoMultiSent DEF Plain, NoMulti
<1>6. RequestOK(u)
  BY <1>1, <1>2 DEF RequestOK
<1>7. /\ Called("http")' = Called("http") /\ Called("multi")' = Called("multi")
      /\ (Once("http")' <=> Once("http")) /\ (Once("multi")' <=> Once("multi"))
  BY DEF Called, Once
<1>8. OwnersOK(s)' /\ TasksOK(s)' /\ CallsOK(s)'
  BY <1>3, <1>4, <1>7 DEF OwnersOK, TasksOK, CallsOK, Owns, IsAfter
<1>9. RequestOK(s)' /\ SentOK(s)'
  BY <1>3, <1>5, <1>6, <1>7 DEF RequestOK, SentOK
<1>10. TypeOK'
  BY <1>2, <1>3 DEF IInv, TypeOK
<1>11. Called("http") # {} /\ s.queue = <<>>
  BY <1>1 DEF CallsOK, IInv, CourseOK
<1>12. CourseOK'
  BY <1>2, <1>3, <1>7, <1>11 DEF CourseOK, Unreplied
<1>13. Registered /\ Registered'
  BY DEF Registered
<1>14. Extends(s, s', {}) /\ (Going(s) => Going(s)) /\ SameBlocks(s.heap, s.heap)
  BY <1>1, <1>2, <1>3, SelfBlocks
<1>15. AfterOK'
  BY <1>1, <1>13, <1>14, ExtAfter
<1>16. TupleOK'
  BY <1>1, <1>14, ExtTuple
<1>17. /\ \A i \in 1 .. Len(s.cbs) : u.cbs[i] = s.cbs[i] /\ i \in 1 .. Len(u.cbs)
       /\ \A i \in 1 .. Len(u.cbs) : i \in 1 .. Len(s.cbs) \/ i \in NewCb(s, u)
       /\ \A i \in NewCb(s, u) : i \in 1 .. Len(u.cbs)
       /\ Len(u.cbs) \in Nat
  BY <1>1, <1>2, ExtCbs
<1>18. \A i \in NewCb(s, u) : /\ u.cbs[i].f = "free" /\ u.cbs[i].b \in Fresh(s, u)
                              /\ i \in at .. Len(u.cbs) /\ ~(i < at)
  <2>1. \A i \in NewCb(s, u) : u.cbs[i].f = "free" /\ u.cbs[i].b \in Fresh(s, u)
    BY <1>2 DEF Extends, NewCbs
  <2>2. \A i \in NewCb(s, u) : i \in at .. Len(u.cbs) /\ ~(i < at)
    BY <1>1, <1>17 DEF NewCb
  <2> QED BY <2>1, <2>2
<1>19. AftersOK'
  <2>1. \A i \in 1 .. Len(u.cbs) : i < at => i \in 1 .. Len(s.cbs) /\ u.cbs[i] = s.cbs[i]
    BY <1>17, <1>18
  <2>2. afters # <<>> =>
          replied # "no" /\ \E i \in 1 .. Len(u.cbs) : i < at /\ u.cbs[i].f = "after"
    BY <1>17 DEF IInv, AftersOK, IsAfter
  <2>3. \A i \in 1 .. Len(u.cbs) : i < at /\ u.cbs[i].f = "after" =>
          \A g \in local + 1 .. local + Global : \E k \in 1 .. Len(afters) : afters[k] = g
    BY <2>1 DEF IInv, AftersOK, IsAfter
  <2>4. \A i, j \in 1 .. Len(afters) : i < j => afters[i] < afters[j]
    BY DEF IInv, AftersOK
  <2> QED BY <1>3, <2>2, <2>3, <2>4 DEF AftersOK, IsAfter
<1>20. /\ \A b \in 1 .. Len(s.heap) : u.heap[b] = s.heap[b] /\ b \in 1 .. Len(u.heap)
       /\ \A b \in 1 .. Len(u.heap) : b \in 1 .. Len(s.heap) \/ b \in Fresh(s, u)
  BY <1>1, <1>2, ExtHeap
<1>21. LiveOK'
  <2>1. \A b \in Fresh(s, u) : u.heap[b].live
    BY <1>2 DEF Extends, NewHeap
  <2>2. ASSUME NEW i \in at .. Len(u.cbs), Owns(u, i)
        PROVE  u.heap[u.cbs[i].b].live
    <3>1. i \in 1 .. Len(u.cbs)
      BY <1>1, <1>17
    <3>2. CASE i \in 1 .. Len(s.cbs)
      <4>1. i \in at .. Len(s.cbs) /\ Owns(s, i) /\ u.cbs[i] = s.cbs[i]
        BY <1>1, <1>17, <2>2, <3>2 DEF Owns
      <4>2. s.heap[s.cbs[i].b].live /\ s.cbs[i].b \in 1 .. Len(s.heap)
        BY <1>1, <3>2, <4>1 DEF IInv, LiveOK, OwnersOK
      <4> QED BY <1>20, <4>1, <4>2
    <3>3. CASE i \in NewCb(s, u)
      BY <1>18, <2>1, <3>3
    <3> QED BY <1>17, <3>1, <3>2, <3>3
  <2>3. /\ s.context # NoBlock => u.heap[s.context].live
        /\ s.encoder # NoBlock => u.heap[s.encoder].live
    BY <1>1, <1>20 DEF OwnersOK, IInv, LiveOK
  <2>4. again = {}
    BY DEF IInv, LiveOK
  <2> QED BY <1>2, <1>3, <2>2, <2>3, <2>4 DEF LiveOK, Owns
<1>22. AccountedOK'
  <2> SUFFICES ASSUME NEW b \in 1 .. Len(u.heap), u.heap[b].live
               PROVE  \/ u.heap[b].what \in Leaks
                      \/ \E i \in at .. Len(u.cbs) : Owns(u, i) /\ u.cbs[i].b = b
                      \/ ByTask(u, b)
                      \/ b \in {u.context, u.encoder}
    <3>1. Leaks \subseteq Leaks'
      BY LeaksKept
    <3> QED BY <1>3, <3>1 DEF AccountedOK, Accounted, ByCb, ByTask, Owns
  <2>1. CASE b \in 1 .. Len(s.heap)
    <3>1. u.heap[b] = s.heap[b]
      BY <1>20, <2>1
    <3>2. Accounted(s, b) /\ ~Pending(s, b)
      BY <1>13, <2>1, <3>1 DEF IInv, AccountedOK, Pending
    <3>3. CASE ByCb(s, b)
      <4>1. PICK i \in at .. Len(s.cbs) : Owns(s, i) /\ s.cbs[i].b = b
        BY <3>3 DEF ByCb
      <4>2. i \in 1 .. Len(s.cbs)
        BY <1>1, <4>1
      <4>3. u.cbs[i] = s.cbs[i] /\ i \in 1 .. Len(u.cbs)
        BY <1>17, <4>2
      <4>4. i \in at .. Len(u.cbs)
        BY <1>1, <1>17, <4>1, <4>3
      <4> QED BY <4>1, <4>3, <4>4 DEF Owns
    <3>4. CASE ByTask(s, b)
      BY <1>2, <3>4 DEF ByTask
    <3> QED BY <1>2, <3>1, <3>2, <3>3, <3>4 DEF Accounted
  <2>2. CASE b \in Fresh(s, u)
    <3>1. NewTask(s, u) = {}
      BY <1>1, <1>2, FieldsOf DEF NewTask
    <3>2. (\E i \in NewCb(s, u) : u.cbs[i].b = b) \/ b \in {u.context, u.encoder}
      BY <1>2, <2>2, <3>1 DEF Extends, NewOwned
    <3> QED BY <1>18, <3>2 DEF Owns
  <2> QED BY <1>20, <2>1, <2>2
<1> QED BY <1>8, <1>9, <1>10, <1>12, <1>15, <1>16, <1>19, <1>21, <1>22 DEF IInv

LEMMA CallbackStep ==
  ASSUME IInv, Callback
  PROVE  IInv'
<1>1. /\ pc = "callbacks" /\ at <= Len(s.cbs) /\ compute' = compute /\ local' = local
      /\ step' = step
      /\ replied' = replied /\ ops' = ops /\ refused' = refused
  BY DEF Callback
<1>2. s \in Data /\ at \in 1 .. Len(s.cbs) /\ OwnersOK(s) /\ at \in Nat
  <2>1. s \in Data /\ OwnersOK(s) /\ at \in Nat \ {0}
    BY IInvFacts
  <2> QED BY <1>1, <2>1, FieldsOf
<1>3. Owns(s, at) => s.cbs[at].b \in 1 .. Len(s.heap) /\ s.heap[s.cbs[at].b].live
  <2>1. at \in at .. Len(s.cbs)
    BY <1>1, <1>2, FieldsOf
  <2> QED BY <1>2, <2>1 DEF OwnersOK, IInv, LiveOK
<1>4. CASE FreeCallback
  <2>1. /\ s.cbs[at].f = "free" /\ Free({s.cbs[at].b}) /\ at' = at + 1 /\ pc' = pc
        /\ afters' = afters
    BY <1>4 DEF FreeCallback
  <2>2. Owns(s, at)
    BY <2>1 DEF Owns
  <2>3. Freed({s.cbs[at].b})
    BY <1>3, <2>1, <2>2, FreeIs
  <2>4. AftersOK' /\ afters' \in Seq(Nat)
    <3>1. s'.cbs = s.cbs
      BY <2>3 DEF Freed
    <3> QED BY <1>1, <2>1, <3>1, OtherAfters
  <2> QED BY <1>1, <2>1, <2>2, <2>3, <2>4, WalkStep
<1>5. CASE AfterCallback
  <2>1. s.cbs[at].f = "after" /\ Free({s.cbs[at].b} \ {NoBlock}) /\ at' = at + 1 /\ pc' = pc
    BY <1>5 DEF AfterCallback
  <2>2. s.cbs[at].b = IF local = 0 THEN NoBlock ELSE Tuple
    BY <1>2, <2>1 DEF IInv, AfterOK, IsAfter
  <2> DEFINE B == IF Owns(s, at) THEN {s.cbs[at].b} ELSE {}
  <2>3. Freed(B)
    <3>1. {s.cbs[at].b} \ {NoBlock} = B
      <4>1. Owns(s, at) <=> local # 0
        BY <2>1 DEF Owns
      <4>2. CASE local = 0
        BY <2>2, <4>1, <4>2
      <4>3. CASE local # 0
        BY <2>2, <4>1, <4>3 DEF Tuple, NoBlock
      <4> QED BY <4>2, <4>3
    <3>2. B \subseteq 1 .. Len(s.heap) /\ \A b \in B : s.heap[b].live
      BY <1>3
    <3>3. Free(B)
      BY <2>1, <3>1
    <3> HIDE DEF B
    <3> QED BY <3>2, <3>3, FreeIs
  <2>4. afters = <<>>
    <3>1. \A i \in 1 .. Len(s.cbs) : s.cbs[i].f = "after" => i = at
      BY <1>2, <2>1 DEF IInv, AfterOK, IsAfter
    <3>2. ~(at < at)
      BY <1>2
    <3> QED BY <3>1, <3>2 DEF IInv, AftersOK, IsAfter
  <2>5. PICK k \in IF local = 0 THEN {0} ELSE 1 .. local :
          afters' = afters \o [i \in 1 .. k |-> i] \o [i \in 1 .. Global |-> local + i]
    BY <1>5 DEF AfterCallback, Bare
  <2>6. k \in 0 .. local /\ local \in Nat
    <3>1. local \in Nat
      BY DEF IInv, TypeOK
    <3> QED BY <3>1
  <2>7. /\ afters' \in Seq(Nat)
        /\ \A i, j \in 1 .. Len(afters') : i < j => afters'[i] < afters'[j]
        /\ \A g \in local + 1 .. local + Global :
             \E i \in 1 .. Len(afters') : afters'[i] = g
    BY <2>4, <2>5, <2>6, AftersIs, ZenonT(30)
  <2>8. s'.cbs = s.cbs
    BY <2>3 DEF Freed
  <2>9. AftersOK'
    <3>1. replied # "no" /\ at < at + 1
      BY <1>1, <1>2 DEF IInv, CourseOK, Unreplied
    <3>2. \E i \in 1 .. Len(s'.cbs) : i < at' /\ s'.cbs[i].f = "after"
      BY <1>2, <2>1, <2>8, <3>1
    <3> QED BY <1>1, <2>7, <3>1, <3>2 DEF AftersOK, IsAfter
  <2> QED BY <1>1, <2>1, <2>3, <2>7, <2>9, WalkStep
<1>6. CASE TrackCallback
  <2>1. /\ s.cbs[at].f = "track" /\ at' = at + 1 /\ s' = s /\ again' = again
        /\ afters' = afters /\ pc' = pc
    BY <1>6 DEF TrackCallback
  <2>2. ~Owns(s, at)
    BY <2>1 DEF Owns
  <2>3. Freed({})
    BY <1>2, <2>1 DEF Freed, IInv, LiveOK
  <2>4. AftersOK' /\ afters' \in Seq(Nat)
    BY <1>1, <2>1, OtherAfters
  <2> QED BY <1>1, <2>1, <2>2, <2>3, <2>4, WalkStep
<1>7. CASE CheckCallback
  <2>1. s.cbs[at].f = "check" /\ afters' = afters /\ again' = again
    BY <1>7 DEF CheckCallback
  <2>2. CASE replied = "failed"
    <3>1. s' = Error(s) /\ pc' = "undefined" /\ at' = at
      BY <1>7, <2>2 DEF CheckCallback
    <3> QED BY <1>1, <1>2, <2>1, <2>2, <3>1, UndefinedStep
  <2>3. CASE replied # "failed"
    <3>1. at' = at + 1 /\ s' = s /\ pc' = pc
      BY <1>7, <2>3 DEF CheckCallback
    <3>2. ~Owns(s, at)
      BY <2>1 DEF Owns
    <3>3. Freed({})
      BY <1>2, <2>1, <3>1 DEF Freed, IInv, LiveOK
    <3>4. AftersOK' /\ afters' \in Seq(Nat)
      BY <1>1, <2>1, <3>1, OtherAfters
    <3> QED BY <1>1, <2>1, <3>1, <3>2, <3>3, <3>4, WalkStep
  <2> QED BY <2>2, <2>3
<1> QED BY <1>4, <1>5, <1>6, <1>7 DEF Callback

LEMMA SeriesCallbackStep ==
  ASSUME IInv, SeriesCallback
  PROVE  IInv'
<1> DEFINE B == {s.context, s.encoder} \ {NoBlock}
<1>1. /\ pc = "callbacks" /\ at > Len(s.cbs) /\ Free(B) /\ pc' = "ended"
      /\ compute' = compute /\ local' = local
      /\ step' = step /\ replied' = replied /\ at' = at /\ ops' = ops
      /\ refused' = refused /\ afters' = afters
  BY DEF SeriesCallback
<1>2. /\ s \in Data /\ OwnersOK(s) /\ at \in Nat \ {0} /\ Len(s.cbs) \in Nat
      /\ replied # "no" /\ s.queue = <<>>
  BY <1>1, IInvFacts, FieldsOf DEF IInv, CourseOK, Unreplied
<1>3. B \subseteq 1 .. Len(s.heap) /\ \A b \in B : s.heap[b].live
  <2>1. /\ s.context # NoBlock => s.context \in 1 .. Len(s.heap) /\ s.heap[s.context].live
        /\ s.encoder # NoBlock => s.encoder \in 1 .. Len(s.heap) /\ s.heap[s.encoder].live
    BY <1>1, <1>2 DEF OwnersOK, IInv, LiveOK
  <2> QED BY <2>1
<1> HIDE DEF B
<1>4. Freed(B)
  BY <1>1, <1>3, FreeIs
<1>5. OwnersOK(s)' /\ TasksOK(s)' /\ CallsOK(s)' /\ RequestOK(s)' /\ SentOK(s)'
  BY <1>1, <1>4, FreedKeeps
<1>6. /\ s' \in Data /\ s'.cbs = s.cbs /\ s'.queue = s.queue
      /\ s'.context = s.context /\ s'.encoder = s.encoder
      /\ Len(s'.heap) = Len(s.heap)
      /\ \A b \in 1 .. Len(s.heap) : /\ s'.heap[b].what = s.heap[b].what
                                     /\ s'.heap[b].live <=> s.heap[b].live /\ b \notin B
      /\ again' = {}
  BY <1>4 DEF Freed
<1>7. TypeOK'
  BY <1>1, <1>6 DEF IInv, TypeOK
<1>8. CourseOK'
  BY <1>1, <1>2, <1>6 DEF CourseOK, Unreplied
<1>9. Registered /\ Registered'
  BY <1>1 DEF Registered
<1>10. AfterOK'
  BY <1>1, <1>6, <1>9 DEF IInv, AfterOK, IsAfter
<1>11. AftersOK'
  BY <1>1, <1>6 DEF IInv, AftersOK, IsAfter
<1>12. TupleOK'
  <2>1. /\ ~Going(s)'
        /\ \A b \in 1 .. Len(s'.heap) : s'.heap[b].what = "tuple" => b = Tuple /\ local # 0
    BY <1>2, <1>6 DEF Going, IInv, TupleOK
  <2> QED BY <1>1, <2>1 DEF TupleOK
<1>13. at .. Len(s.cbs) = {}
  BY <1>1, <1>2
<1>14. LiveOK'
  BY <1>1, <1>2, <1>6, <1>13 DEF LiveOK
<1>15. AccountedOK'
  <2> SUFFICES ASSUME NEW b \in 1 .. Len(s.heap), s'.heap[b].live
               PROVE  s.heap[b].what \in Leaks
    <3>1. Leaks \subseteq Leaks'
      BY <1>1, LeaksKept
    <3> QED BY <1>6, <3>1 DEF AccountedOK, Accounted
  <2>1. s.heap[b].live /\ b \notin B
    BY <1>6
  <2>2. Accounted(s, b)
    BY <2>1 DEF IInv, AccountedOK
  <2>3. ~ByTask(s, b) /\ ~Pending(s, b) /\ ~ByCb(s, b)
    BY <1>2, <1>9, <1>13 DEF ByTask, Pending, ByCb
  <2>4. b \notin {s.context, s.encoder}
    <3>1. b # NoBlock
      BY <1>2, FieldsOf DEF NoBlock
    <3> QED BY <2>1, <3>1 DEF B
  <2> QED BY <2>2, <2>3, <2>4 DEF Accounted
<1> QED BY <1>1, <1>2, <1>5, <1>7, <1>8, <1>10, <1>11, <1>12, <1>14, <1>15 DEF IInv

LEMMA InitOK ==
  ASSUME Init
  PROVE  IInv
<1>1. /\ pc = "process" /\ compute \in BOOLEAN /\ step = 0 /\ replied = "no" /\ at = 1
      /\ ops = <<>> /\ refused = FALSE /\ afters = <<>> /\ again = {} /\ local \in Nat
  BY ConstantsAssumption DEF Init
<1>2. /\ s.heap = <<>> /\ s.body = <<>> /\ s.cbs = <<>> /\ s.queue = <<>>
      /\ s.context = NoBlock /\ s.encoder = NoBlock /\ s.request = "here"
  BY DEF Init
<1>3. s \in Data
  <2>1. <<>> \in Heaps /\ <<>> \in Bodies /\ <<>> \in Cbs /\ <<>> \in Queues
    BY DEF Heaps, Bodies, Cbs, Queues
  <2>2. NoBlock \in Nat /\ "here" \in Where /\ "none" \in Store
    BY DEF NoBlock, Where, Store
  <2> QED BY <2>1, <2>2 DEF Init, Data
<1>4. TypeOK
  <2>1. step \in 0 .. local + Global
    BY <1>1, ConstantsAssumption
  <2>2. refused \in BOOLEAN
    BY <1>1
  <2> QED BY <1>1, <1>3, <2>1, <2>2 DEF TypeOK, Unreplied
<1>5. /\ 1 .. Len(s.heap) = {} /\ 1 .. Len(s.body) = {} /\ 1 .. Len(s.cbs) = {}
      /\ 1 .. Len(s.queue) = {}
  BY <1>2
<1>6. Called("http") = {} /\ Called("multi") = {}
  BY <1>1 DEF Called
<1>7. CourseOK
  BY <1>1, <1>2 DEF CourseOK, Unreplied
<1>8. CallsOK(s) /\ RequestOK(s) /\ BodyOK(s) /\ SentOK(s)
  BY <1>2, <1>5, <1>6 DEF CallsOK, RequestOK, BodyOK, SentOK
<1>9. OwnersOK(s) /\ TasksOK(s)
  BY <1>2, <1>5 DEF OwnersOK, TasksOK
<1>10. ~Registered
  BY <1>1 DEF Registered
<1>11. AfterOK /\ AftersOK
  BY <1>1, <1>5, <1>10 DEF AfterOK, AftersOK
<1>12. TupleOK
  BY <1>1, <1>5 DEF TupleOK, Going
<1>13. LiveOK /\ AccountedOK
  BY <1>1, <1>2, <1>5 DEF LiveOK, AccountedOK
<1> QED BY <1>4, <1>7, <1>8, <1>9, <1>11, <1>12, <1>13 DEF IInv

LEMMA NextOK ==
  ASSUME IInv, [Next]_vars
  PROVE  IInv'
<1>1. CASE BadRequest
  BY <1>1, BadRequestStep
<1>2. CASE RouteError
  BY <1>2, RouteErrorStep
<1>3. CASE CallRoute
  BY <1>3, CallRouteStep
<1>4. CASE \E ok \in BOOLEAN : Before(ok)
  BY <1>4, BeforeStep
<1>5. CASE Enter
  BY <1>5, EnterStep
<1>6. CASE HandlerReturns
  BY <1>6, HandlerReturnsStep
<1>7. CASE Track
  BY <1>7, TrackStep
<1>8. CASE \E ok \in Outcome("task") : TaskDone(ok)
  BY <1>8, TaskDoneStep
<1>9. CASE \E ok \in Outcome("reply") : SendReply(ok)
  BY <1>9, SendReplyStep
<1>10. CASE Callback
  BY <1>10, CallbackStep
<1>11. CASE SeriesCallback
  BY <1>11, SeriesCallbackStep
<1>12. CASE \E o \in Op : Operation(o)
  BY <1>12, OperationStep
<1>13. CASE vars' = vars
  <2>1. /\ pc' = pc /\ compute' = compute /\ local' = local
        /\ step' = step /\ s' = s /\ replied' = replied
        /\ at' = at /\ ops' = ops /\ refused' = refused /\ afters' = afters
        /\ again' = again
    BY <1>13 DEF vars
  <2>2. (TypeOK' <=> TypeOK) /\ (CourseOK' <=> CourseOK)
    BY <2>1 DEF TypeOK, CourseOK, Called
  <2>3. (CallsOK(s)' <=> CallsOK(s)) /\ (RequestOK(s)' <=> RequestOK(s))
    BY <2>1 DEF CallsOK, RequestOK, Called, Once
  <2>4. (AfterOK' <=> AfterOK) /\ (AftersOK' <=> AftersOK)
    BY <2>1 DEF AfterOK, AftersOK, Registered, IsAfter
  <2>5. (OwnersOK(s)' <=> OwnersOK(s)) /\ (TasksOK(s)' <=> TasksOK(s))
    BY <2>1 DEF OwnersOK, TasksOK, Owns, IsAfter
  <2>6. (TupleOK' <=> TupleOK) /\ (LiveOK' <=> LiveOK)
    BY <2>1 DEF TupleOK, LiveOK, Going, Owns
  <2>7. AccountedOK' <=> AccountedOK
    BY <2>1 DEF AccountedOK, Accounted, ByCb, ByTask, Pending, Registered, Leaks, Called,
                Once, Owns
  <2>8. (BodyOK(s)' <=> BodyOK(s)) /\ (SentOK(s)' <=> SentOK(s))
    BY <2>1 DEF BodyOK, SentOK, Called, Once
  <2> QED BY <2>1, <2>2, <2>3, <2>4, <2>5, <2>6, <2>7, <2>8 DEF IInv
<1> QED BY <1>1, <1>2, <1>3, <1>4, <1>5, <1>6, <1>7, <1>8, <1>9, <1>10, <1>11, <1>12,
           <1>13 DEF Next, Proceed

\* The inductive invariant holds throughout a request: HttpServer::process, the
\* handler with its aspects, the tasks of the series, the reply and the callbacks.
THEOREM Invariance == Spec => []IInv
<1>1. Init => IInv
  BY InitOK
<1>2. IInv /\ [Next]_vars => IInv'
  BY NextOK
<1> QED BY <1>1, <1>2, PTL DEF Spec

\* Until the reply was sent, what append_output_body_nocopy was given is neither
\* freed nor moved, whatever the handler calls and whatever fails, if it sends at
\* most one multipart body.
THEOREM AlwaysBodyAlive == Spec => []BodyAlive
<1>1. IInv => BodyAlive
  <2> SUFFICES ASSUME IInv, replied = "no", Once("multi"), NEW i \in DOMAIN s.body,
                      s.body[i].b # NoBlock
               PROVE  s.heap[s.body[i].b].live /\ s.heap[s.body[i].b].grown = s.body[i].grown
    BY DEF BodyAlive
  <2>1. i \in 1 .. Len(s.body)
    BY IInvFacts, FieldsOf
  <2>2. /\ s.body[i].b \in 1 .. Len(s.heap)
        /\ s.heap[s.body[i].b].grown = s.body[i].grown
    BY <2>1 DEF IInv, BodyOK
  <2> QED BY <2>2 DEF IInv, LiveOK
<1> QED BY <1>1, Invariance, PTL

\* No callback frees a block a second time, and when the callback of the series has
\* run nothing is left but the leaks that Leaks lists.
THEOREM AlwaysFreedOnce == Spec => []FreedOnce
<1>1. IInv => FreedOnce
  <2> SUFFICES ASSUME IInv
               PROVE  FreedOnce
    OBVIOUS
  <2>1. again = {}
    BY DEF IInv, LiveOK
  <2>2. ASSUME pc = "ended", NEW b \in DOMAIN s.heap, s.heap[b].live
        PROVE  s.heap[b].what \in Leaks
    <3>1. b \in 1 .. Len(s.heap) /\ at \in Nat /\ Len(s.cbs) \in Nat
      BY IInvFacts, FieldsOf
    <3>2. at > Len(s.cbs) /\ s.queue = <<>>
      BY <2>2 DEF IInv, CourseOK, Unreplied
    <3>3. ~ByCb(s, b) /\ ~ByTask(s, b)
      BY <3>1, <3>2 DEF ByCb, ByTask
    <3>4. ~Pending(s, b)
      BY <2>2 DEF Pending, Registered
    <3>5. Accounted(s, b)
      BY <2>2, <3>1 DEF IInv, AccountedOK
    <3> QED BY <2>2, <3>3, <3>4, <3>5 DEF Accounted
  <2> QED BY <2>1, <2>2 DEF FreedOnce
<1> QED BY <1>1, Invariance, PTL

\* When after(), the track function and the other callbacks run, the parts of the
\* request that a proxy moved are back, if the handler called at most one.
THEOREM AlwaysRequestBack == Spec => []RequestBack
<1>1. IInv => RequestBack
  <2> SUFFICES ASSUME IInv, replied # "no", Once("http")
               PROVE  s.request = "here"
    BY DEF RequestBack
  <2>1. 1 .. Len(s.queue) = {}
    BY DEF IInv, CourseOK
  <2>2. s.request \in {"here", "moved"}
    BY IInvFacts, FieldsOf DEF Where
  <2> QED BY <2>1, <2>2, IInvFacts DEF RequestOK
<1> QED BY <1>1, Invariance, PTL

\* A multipart body of which every file was found is part of the reply, whether or
\* not its files could be read, unless a proxy replaced the response.
THEOREM AlwaysMultiPartSent == Spec => []MultiPartSent
<1>1. IInv => MultiPartSent
  <2> SUFFICES ASSUME IInv, NEW i \in Called("multi"), replied # "no", Once("multi"),
                      ops[i].m = ops[i].n, Called("http") = {}
               PROVE  \E j \in DOMAIN s.body :
                        s.body[j].b # NoBlock /\ s.body[j].b = s.context
    BY DEF MultiPartSent
  <2>1. 1 .. Len(s.queue) = {}
    BY DEF IInv, CourseOK
  <2>2. DOMAIN s.body = 1 .. Len(s.body)
    BY IInvFacts, FieldsOf
  <2> QED BY <2>1, <2>2, IInvFacts DEF SentOK
<1> QED BY <1>1, Invariance, PTL

-----------------------------------------------------------------------------
(***************************************************************************)
(* What a before() that returned false leads to: with aspects of its own   *)
(* the route calls nothing, without them the request goes on.              *)
(***************************************************************************)
RefusedOK ==
  /\ pc \in {"process", "before"} => ops = <<>>
  /\ refused /\ local # 0 => ops = <<>>
  /\ refused /\ local = 0 => pc = "before" \/ step = local + Global

\* A step that calls no before() and no operation.
LEMMA RefusedKept ==
  ASSUME RefusedOK, ops' = ops, refused' = refused, step' = step, local' = local,
         pc' \notin {"process", "before"} \/ pc \in {"process", "before"},
         pc = "before" => pc' = "before" \/ step = local + Global
  PROVE  RefusedOK'
BY DEF RefusedOK

LEMMA RefusedNext ==
  ASSUME IInv, RefusedOK, [Next]_vars
  PROVE  RefusedOK'
<1>1. CASE BadRequest \/ RouteError \/ CallRoute
  BY <1>1, RefusedKept DEF BadRequest, RouteError, CallRoute
<1>2. CASE \E ok \in BOOLEAN : Before(ok)
  <2>1. pc = "before" /\ ops' = ops /\ local' = local /\ (local = 0 => pc' = pc)
    BY <1>2 DEF Before, Bare
  <2> QED BY <2>1 DEF RefusedOK
<1>3. CASE Enter \/ HandlerReturns \/ Track
  <2>1. /\ ops' = ops /\ refused' = refused /\ step' = step /\ local' = local
        /\ pc' \in {"track", "handler", "series"}
        /\ pc = "before" => step = local + Global
    BY <1>3 DEF Enter, HandlerReturns, Track
  <2> QED BY <2>1, RefusedKept
<1>4. CASE \E ok \in Outcome("task") : TaskDone(ok)
  <2>1. /\ ops' = ops /\ refused' = refused /\ step' = step /\ local' = local
        /\ pc' \in {"handler", "series"} /\ pc = "series"
    BY <1>4 DEF TaskDone
  <2> QED BY <2>1, RefusedKept
<1>5. CASE (\E ok \in Outcome("reply") : SendReply(ok)) \/ SeriesCallback
  <2>1. /\ ops' = ops /\ refused' = refused /\ step' = step /\ local' = local
        /\ pc' \in {"callbacks", "ended"} /\ pc \in {"series", "callbacks"}
    BY <1>5 DEF SendReply, SeriesCallback
  <2> QED BY <2>1, RefusedKept
<1>6. CASE Callback
  <2>1. /\ ops' = ops /\ refused' = refused /\ step' = step /\ local' = local /\ pc = "callbacks"
        /\ pc' \in {"callbacks", "undefined"}
    BY <1>6 DEF Callback, FreeCallback, AfterCallback, TrackCallback, CheckCallback
  <2> QED BY <2>1, RefusedKept
<1>7. CASE \E o \in Op : Operation(o)
  <2>1. pc = "handler" /\ pc' = pc /\ refused' = refused /\ step' = step /\ local' = local
    BY <1>7 DEF Operation
  <2>2. step = local + Global /\ step \in Nat /\ (refused /\ local # 0 => step < local + Global)
    BY <2>1, ConstantsAssumption DEF IInv, AfterOK, TypeOK
  <2>3. ~(refused /\ local # 0)
    BY <2>2
  <2> QED BY <2>1, <2>2, <2>3 DEF RefusedOK
<1>8. CASE vars' = vars
  BY <1>8, RefusedKept DEF vars
<1> QED BY <1>1, <1>2, <1>3, <1>4, <1>5, <1>6, <1>7, <1>8 DEF Next, Proceed

LEMMA RefusedInvariance == Spec => []RefusedOK
<1>1. Init => RefusedOK
  BY DEF Init, RefusedOK
<1>2. IInv /\ RefusedOK /\ [Next]_vars => RefusedOK'
  BY RefusedNext
<1> QED BY <1>1, <1>2, Invariance, PTL DEF Spec

\* after() runs once, after the reply and when every before() was called, and a false
\* of an aspect of the route does not keep the global ones from their turn.  On a
\* route with aspects of its own, a before() that returns false keeps the request
\* from the handler and from after(); on one without (BluePrint.cc) the after() of
\* every global aspect runs all the same.
THEOREM AlwaysAfterOnce == Spec => []AfterOnce
<1>1. IInv /\ RefusedOK => AfterOnce
  <2> SUFFICES ASSUME IInv, RefusedOK
               PROVE  AfterOnce
    OBVIOUS
  <2>1. DOMAIN afters = 1 .. Len(afters)
    BY DEF IInv, TypeOK
  <2>2. ASSUME afters # <<>>
        PROVE  replied # "no" /\ step = local + Global
    <3>1. replied # "no" /\ \E i \in 1 .. Len(s.cbs) : IsAfter(s, i)
      BY <2>2 DEF IInv, AftersOK
    <3> QED BY <3>1 DEF IInv, AfterOK
  <2>3. \A i, j \in DOMAIN afters : i < j => afters[i] < afters[j]
    BY <2>1 DEF IInv, AftersOK
  <2>4. ASSUME ~Bare, refused
        PROVE  ops = <<>> /\ afters = <<>>
    <3>1. local # 0
      BY <2>4 DEF Bare
    <3>2. step < local + Global /\ step \in Nat
      BY <2>4, <3>1, ConstantsAssumption DEF IInv, AfterOK, TypeOK
    <3>3. afters = <<>>
      BY <2>2, <3>2
    <3> QED BY <2>4, <3>1, <3>3 DEF RefusedOK
  <2>5. ASSUME pc = "ended", step = local + Global \/ (Bare /\ refused),
               NEW g \in local + 1 .. local + Global
        PROVE  \E i \in DOMAIN afters : afters[i] = g
    <3>1. step = local + Global
      BY <2>5 DEF RefusedOK, Bare
    <3>2. step > 0
      <4>1. local \in Nat /\ Global \in Nat
        BY ConstantsAssumption DEF IInv, TypeOK
      <4> QED BY <3>1, <4>1
    <3>3. Registered
      BY <2>5 DEF Registered
    <3>4. PICK i \in 1 .. Len(s.cbs) : IsAfter(s, i)
      BY <3>1, <3>2, <3>3 DEF IInv, AfterOK
    <3>5. at > Len(s.cbs) /\ at \in Nat /\ Len(s.cbs) \in Nat
      BY <2>5, IInvFacts, FieldsOf DEF IInv, CourseOK
    <3>6. i < at
      BY <3>4, <3>5
    <3> QED BY <2>1, <3>4, <3>6 DEF IInv, AftersOK
  <2> QED BY <2>2, <2>3, <2>4, <2>5 DEF AfterOnce
<1> QED BY <1>1, Invariance, RefusedInvariance, PTL
=============================================================================
