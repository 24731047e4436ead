---------------------------- MODULE RouterProofs ----------------------------
(***************************************************************************)
(* Proofs about Router, for any pieces, routes, prefixes and paths and any *)
(* number of registrations.                                                *)
(*                                                                         *)
(* What the search finds is shown by induction on the number of pieces of  *)
(* the path that are left, for any table that is well formed; what is in   *)
(* the tables is an invariant of the registrations.                        *)
(***************************************************************************)
EXTENDS Router, NatInduction

Handlers == [Verbs -> Nat \cup {None}]

\* The node of the route "/", or a sequence of the given pieces.
NodeIn(n, S) == n = <<"/">> \/ n \in Seq(S)

\* A table is a tree, and the node of the route "/" has no children.
TableOK(t) ==
  /\ t.nodes \subseteq Seq(Piece) /\ <<>> \in t.nodes
  /\ \A n \in t.nodes : \A j \in 0 .. Len(n) : SubSeq(n, 1, j) \in t.nodes
  /\ \A n \in t.nodes : NodeIn(n, Piece \ {"/"})
  /\ t.handlers \in [t.nodes -> Handlers]

Path == Seq(Literal) \ {<<>>}

-----------------------------------------------------------------------------
(***************************************************************************)
(* Nodes and their children.                                               *)
(***************************************************************************)
LEMMA Pieces ==
  /\ "*" \in Piece /\ "*" \in Wild /\ "*" \notin Param
  /\ "/" \in Literal /\ "" \in Literal
  /\ \A x \in Literal : x \in Piece /\ x \notin Param /\ x \notin Wild
  /\ \A x \in Param : x \notin Wild
BY ConstantsAssumption DEF Literal

LEMMA AppendIs ==
  ASSUME NEW n \in Seq(Piece), NEW s \in Piece
  PROVE  /\ Append(n, s) \in Seq(Piece) /\ Len(Append(n, s)) = Len(n) + 1
         /\ \A j \in 1 .. Len(n) : Append(n, s)[j] = n[j]
         /\ Append(n, s)[Len(n) + 1] = s
OBVIOUS

LEMMA SameSeq ==
  ASSUME NEW a \in Seq(Piece), NEW b \in Seq(Piece), Len(a) = Len(b),
         \A j \in 1 .. Len(a) : a[j] = b[j]
  PROVE  a = b
OBVIOUS

LEMMA OnePiece ==
  ASSUME NEW s \in Piece
  PROVE  <<s>> \in Seq(Piece) /\ Len(<<s>>) = 1 /\ <<s>>[1] = s /\ <<s>> = Append(<<>>, s)
OBVIOUS

LEMMA RootChild ==
  /\ <<"/">> = Append(<<>>, "/") /\ <<"/">> \in Seq(Piece)
  /\ Len(<<"/">>) = 1 /\ <<"/">>[1] = "/"
<1>1. "/" \in Piece
  BY Pieces
<1> QED BY <1>1, OnePiece

\* The first j keys of a node lead to it.
LEMMA OnTheWay ==
  ASSUME NEW m \in Seq(Piece), NEW j \in 0 .. Len(m)
  PROVE  /\ SubSeq(m, 1, j) \in Seq(Piece) /\ Len(SubSeq(m, 1, j)) = j
         /\ \A x \in 1 .. j : SubSeq(m, 1, j)[x] = m[x]
OBVIOUS

LEMMA ChildIs ==
  ASSUME NEW t, TableOK(t), NEW n \in t.nodes, NEW s \in Children(t, n)
  PROVE  s \in Piece /\ Append(n, s) \in t.nodes /\ n \in Seq(Piece)
BY DEF Children, TableOK

\* A node that goes on from n goes through a child of it.
LEMMA Through ==
  ASSUME NEW t, TableOK(t), NEW n \in t.nodes, NEW m \in t.nodes, Len(n) < Len(m),
         \A j \in 1 .. Len(n) : m[j] = n[j]
  PROVE  m[Len(n) + 1] \in Children(t, n)
<1>1. m \in Seq(Piece) /\ n \in Seq(Piece) /\ Len(n) \in Nat /\ Len(m) \in Nat
  BY DEF TableOK
<1>2. Len(n) + 1 \in 1 .. Len(m) /\ Len(n) + 1 \in 0 .. Len(m)
  BY <1>1
<1> DEFINE s == m[Len(n) + 1]
           w == SubSeq(m, 1, Len(n) + 1)
<1>3. s \in Piece
  BY <1>1, <1>2
<1>4. w \in t.nodes
  BY <1>2 DEF TableOK
<1>5. Append(n, s) = w
  <2>1. w \in Seq(Piece) /\ Len(w) = Len(n) + 1 /\ \A x \in 1 .. Len(n) + 1 : w[x] = m[x]
    BY <1>1, <1>2, OnTheWay
  <2>2. /\ Append(n, s) \in Seq(Piece) /\ Len(Append(n, s)) = Len(n) + 1
        /\ \A j \in 1 .. Len(n) : Append(n, s)[j] = n[j]
        /\ Append(n, s)[Len(n) + 1] = s
    BY <1>1, <1>3, AppendIs
  <2>3. \A j \in 1 .. Len(n) + 1 : Append(n, s)[j] = w[j]
    <3> HIDE DEF w
    <3> SUFFICES ASSUME NEW j \in 1 .. Len(n) + 1 PROVE Append(n, s)[j] = w[j]
      OBVIOUS
    <3>1. CASE j = Len(n) + 1
      BY <2>1, <2>2, <3>1
    <3>2. CASE j \in 1 .. Len(n)
      BY <2>1, <2>2, <3>2
    <3> QED BY <1>1, <3>1, <3>2
  <2> QED BY <2>1, <2>2, <2>3, SameSeq
<1> QED BY <1>3, <1>4, <1>5 DEF Children

LEMMA SlashIsLeaf ==
  ASSUME NEW t, TableOK(t), <<"/">> \in t.nodes
  PROVE  Children(t, <<"/">>) = {}
<1> SUFFICES ASSUME NEW s \in Children(t, <<"/">>) PROVE FALSE
  OBVIOUS
<1> DEFINE m == Append(<<"/">>, s)
<1>1. s \in Piece /\ m \in t.nodes
  BY ChildIs
<1>2. Len(m) = 2 /\ m[1] = "/"
  <2>1. Len(m) = Len(<<"/">>) + 1 /\ m[1] = <<"/">>[1]
    BY <1>1, RootChild, AppendIs
  <2> QED BY <2>1, RootChild
<1>3. m # <<"/">>
  BY <1>2, RootChild
<1>4. m \in Seq(Piece \ {"/"})
  BY <1>1, <1>3 DEF TableOK, NodeIn
<1>5. \A S : m \in Seq(S) => m[1] \in S
  BY <1>2
<1> QED BY <1>2, <1>4, <1>5

-----------------------------------------------------------------------------
(***************************************************************************)
(* The recursive function of the search.                                   *)
(***************************************************************************)
Upto(g, t, path, n) == g = [k \in 0 .. n |-> FindFrom(t, path, k, g[k-1])]

\* Where the path is over, nothing is below.
LEMMA FromEnd ==
  ASSUME NEW t, NEW path, NEW a, NEW b
  PROVE  FindFrom(t, path, 0, a) = FindFrom(t, path, 0, b)
BY DEF FindFrom

LEMMA UptoAt ==
  ASSUME NEW t, NEW path, NEW n \in Nat, NEW g, Upto(g, t, path, n)
  PROVE  \A k \in 0 .. n : g[k] = FindFrom(t, path, k, g[k-1])
BY DEF Upto

LEMMA UptoExists ==
  ASSUME NEW t, NEW path, NEW n \in Nat
  PROVE  \E g : Upto(g, t, path, n)
<1> DEFINE S == {m \in Nat : \E g : Upto(g, t, path, m)}
<1>1. 0 \in S
  <2> DEFINE g == [k \in 0 .. 0 |-> FindFrom(t, path, 0, 0)]
             e == [k \in 0 .. 0 |-> FindFrom(t, path, k, g[k-1])]
  <2>1. ASSUME NEW k \in 0 .. 0 PROVE g[k] = e[k]
    <3>1. k = 0
      OBVIOUS
    <3> QED BY <3>1, FromEnd
  <2>2. g = e
    BY <2>1
  <2>3. Upto(g, t, path, 0)
    BY <2>2 DEF Upto
  <2> QED BY <2>3
<1>2. ASSUME NEW m \in S PROVE m + 1 \in S
  <2>1. PICK g : Upto(g, t, path, m)
    OBVIOUS
  <2>2. m \in Nat
    OBVIOUS
  <2>3. \A k \in 0 .. m : g[k] = FindFrom(t, path, k, g[k-1])
    BY <2>1, <2>2, UptoAt
  <2> HIDE DEF S
  <2> DEFINE h == [k \in 0 .. m + 1 |-> IF k = m + 1 THEN FindFrom(t, path, k, g[m]) ELSE g[k]]
             e == [k \in 0 .. m + 1 |-> FindFrom(t, path, k, h[k-1])]
  <2>4. \A k \in 0 .. m : h[k] = g[k]
    BY <2>2
  <2>5. h[m + 1] = FindFrom(t, path, m + 1, g[m])
    BY <2>2
  <2>6. ASSUME NEW k \in 0 .. m + 1 PROVE h[k] = FindFrom(t, path, k, h[k-1])
    <3> HIDE DEF h
    <3>1. CASE k = 0
      <4>1. h[0] = FindFrom(t, path, 0, g[0 - 1])
        BY <2>2, <2>3, <2>4
      <4> QED BY <3>1, <4>1, FromEnd
    <3>2. CASE k \in 1 .. m
      <4>1. h[k] = g[k] /\ h[k-1] = g[k-1] /\ k \in 0 .. m
        BY <2>2, <2>4, <3>2
      <4> QED BY <2>3, <4>1
    <3>3. CASE k = m + 1
      <4>1. h[k-1] = g[m]
        BY <2>2, <2>4, <3>3
      <4> QED BY <2>5, <3>3, <4>1
    <3> QED BY <2>2, <3>1, <3>2, <3>3
  <2>7. h = e
    BY <2>6
  <2>8. Upto(h, t, path, m + 1)
    BY <2>7 DEF Upto
  <2> QED BY <2>2, <2>8 DEF S
<1>3. S = Nat
  <2>1. S \in SUBSET Nat
    OBVIOUS
  <2> HIDE DEF S
  <2> QED BY <1>1, <1>2, <2>1, SetInduction
<1> QED BY <1>3

LEMMA FindAt ==
  ASSUME NEW t, NEW path \in Path
  PROVE  \A k \in 0 .. Len(path) :
           Find(t, path)[k] = FindFrom(t, path, k, Find(t, path)[k-1])
<1> DEFINE g == CHOOSE h : Upto(h, t, path, Len(path))
<1>1. Len(path) \in Nat
  BY DEF Path
<1>2. Upto(g, t, path, Len(path))
  BY <1>1, UptoExists
<1>3. Find(t, path) = g
  BY DEF Find, Upto
<1> HIDE DEF g
<1> QED BY <1>1, <1>2, <1>3, UptoAt

-----------------------------------------------------------------------------
(***************************************************************************)
(* One step of the search.                                                 *)
(***************************************************************************)
\* What find gives at node n with k pieces left.
At(t, path, k, n, params) == Find(t, path)[k][n][params]

\* The piece that is looked at when k are left.
Mid(path, k) == path[Len(path) - k + 1]

\* What is below the child of that very name.
Exact(t, path, k, n, params) ==
  IF Mid(path, k) \in Children(t, n) THEN At(t, path, k-1, Append(n, Mid(path, k)), params)
  ELSE Result(None, params, <<>>)

LEMMA ResultIs ==
  ASSUME NEW n, NEW params, NEW match
  PROVE  Result(n, params, match).node = n /\ Result(n, params, match).params = params
BY DEF Result

LEMMA AtEnd ==
  ASSUME NEW t, NEW path \in Path, NEW n \in t.nodes, NEW params \in RouteParams
  PROVE  /\ At(t, path, 0, n, params).params = params
         /\ \/ /\ HasHandler(t, n) \/ Children(t, n) = {}
               /\ At(t, path, 0, n, params).node = n
            \/ /\ ~HasHandler(t, n) /\ "*" \in Children(t, n)
               /\ At(t, path, 0, n, params).node = Append(n, "*")
            \/ /\ ~HasHandler(t, n) /\ Children(t, n) # {} /\ "*" \notin Children(t, n)
               /\ At(t, path, 0, n, params).node = None
<1>1. 0 \in 0 .. Len(path)
  BY DEF Path
<1>2. Find(t, path)[0] = FindFrom(t, path, 0, Find(t, path)[0 - 1])
  BY <1>1, FindAt
<1>3. At(t, path, 0, n, params) = FindEnd(t, n, params)
  BY <1>2 DEF At, FindFrom
<1> QED BY <1>3 DEF FindEnd, Result

LEMMA AtLeaf ==
  ASSUME NEW t, NEW path \in Path, NEW n \in t.nodes, Children(t, n) = {},
         NEW params \in RouteParams
  PROVE  At(t, path, 0, n, params).params = params /\ At(t, path, 0, n, params).node = n
BY AtEnd

LEMMA MidIs ==
  ASSUME NEW path \in Path, NEW k \in 1 .. Len(path)
  PROVE  /\ Mid(path, k) \in Literal /\ Mid(path, k) \in Piece
         /\ Len(path) \in Nat /\ Len(path) - k + 1 \in 1 .. Len(path)
<1>1. Len(path) \in Nat /\ path \in Seq(Literal)
  BY DEF Path
<1>2. Len(path) - k + 1 \in 1 .. Len(path)
  BY <1>1
<1>3. Mid(path, k) \in Literal
  BY <1>1, <1>2 DEF Mid
<1> QED BY <1>1, <1>2, <1>3, Pieces

LEMMA FirstIs ==
  ASSUME NEW t, NEW n, NEW mid, Variable(t, n, mid) # {}
  PROVE  FirstVariable(t, n, mid) \in Variable(t, n, mid)
<1> DEFINE V == Variable(t, n, mid)
           Least(s) == \A o \in V : Place(s) <= Place(o)
<1>1. V \subseteq Piece
  BY DEF Variable, Children
<1>2. \A s \in Piece : Place(s) \in Nat
  <2> SUFFICES ASSUME NEW s \in Piece PROVE Place(s) \in Nat
    OBVIOUS
  <2>1. PICK j \in 1 .. Len(Order) : Order[j] = s
    BY DEF Piece
  <2>2. Place(s) \in 1 .. Len(Order)
    BY <2>1 DEF Place
  <2> QED BY <2>2
<1> HIDE DEF V
<1> DEFINE T == {Place(s) : s \in V}
<1>3. PICK x \in T : \A y \in T : x <= y
  <2>1. T \in SUBSET Nat /\ T # {}
    BY <1>1, <1>2 DEF V
  <2> QED BY <2>1, LeastMember
<1>4. PICK s \in V : Place(s) = x
  BY <1>3
<1>5. Least(s)
  BY <1>3, <1>4
<1>6. \E q \in V : Least(q)
  BY <1>4, <1>5
<1>7. FirstVariable(t, n, mid) = CHOOSE q \in V : Least(q)
  BY DEF FirstVariable, V
<1>8. (CHOOSE q \in V : Least(q)) \in V
  BY <1>6
<1> QED BY <1>7, <1>8 DEF V

\* The five ways a step goes, but for where there are no children.
ToSlash(t, path, k, n, params) ==
  /\ n = <<>> /\ path = <<"">> /\ "/" \in Children(t, n)
  /\ At(t, path, k, n, params) = At(t, path, k-1, <<"/">>, params)
  /\ At(t, path, k, n, params).node # None
ToExact(t, path, k, n, params) ==
  /\ Mid(path, k) \in Children(t, n)
  /\ At(t, path, k, n, params) = At(t, path, k-1, Append(n, Mid(path, k)), params)
  /\ At(t, path, k, n, params).node # None
ToNothing(t, path, k, n, params) ==
  /\ Variable(t, n, Mid(path, k)) = {}
  /\ At(t, path, k, n, params) = Exact(t, path, k, n, params)
  /\ At(t, path, k, n, params).node = None
ToWild(t, path, k, n, params, s) ==
  /\ s \in Children(t, n) /\ s \in Wild /\ WildMatches(s, Mid(path, k))
  /\ At(t, path, k, n, params).node = Append(n, s)
  /\ At(t, path, k, n, params).params = Exact(t, path, k, n, params).params
ToParam(t, path, k, n, params, s) ==
  /\ s \in Children(t, n) /\ s \in Param
  /\ At(t, path, k, n, params) =
       At(t, path, k-1, Append(n, s), Bind(Exact(t, path, k, n, params).params, s, Mid(path, k)))

SlashFails(t, path, k, n, params) ==
  n = <<>> /\ path = <<"">> /\ "/" \in Children(t, n) =>
    At(t, path, k-1, <<"/">>, params).node = None

LEMMA Ways ==
  ASSUME NEW t, NEW path \in Path, NEW k \in 1 .. Len(path), NEW n \in t.nodes,
         NEW params \in RouteParams
  PROVE  IF Children(t, n) = {}
         THEN /\ At(t, path, k, n, params).node = n
              /\ At(t, path, k, n, params).params = params
         ELSE \/ ToSlash(t, path, k, n, params)
              \/ ToExact(t, path, k, n, params) /\ SlashFails(t, path, k, n, params)
              \/ /\ Exact(t, path, k, n, params).node = None
                 /\ SlashFails(t, path, k, n, params)
                 /\ \/ ToNothing(t, path, k, n, params)
                    \/ ToWild(t, path, k, n, params, FirstVariable(t, n, Mid(path, k)))
                    \/ ToParam(t, path, k, n, params, FirstVariable(t, n, Mid(path, k)))
<1> DEFINE b == Find(t, path)[k-1]
           mid == Mid(path, k)
           fail == Result(None, params, <<>>)
           slash == IF n = <<>> /\ path = <<"">> /\ "/" \in Children(t, n)
                    THEN b[<<"/">>][params] ELSE fail
           exact == IF mid \in Children(t, n) THEN b[Append(n, mid)][params] ELSE fail
           V == Variable(t, n, mid)
           s == FirstVariable(t, n, mid)
           r == At(t, path, k, n, params)
<1>1. k \in 0 .. Len(path) /\ k # 0
  BY MidIs
<1>2. Find(t, path)[k] = FindFrom(t, path, k, b)
  BY <1>1, FindAt
<1>3. r = FindNext(t, path, k, b, n, params)
  BY <1>1, <1>2 DEF At, FindFrom
<1>4. r = IF Children(t, n) = {} THEN Result(n, params, <<>>)
          ELSE IF slash.node # None THEN slash
          ELSE IF exact.node # None \/ V = {} THEN exact
          ELSE IF s \in Wild
          THEN Result(Append(n, s), exact.params, SubSeq(path, Len(path) - k + 1, Len(path)))
          ELSE b[Append(n, s)][Bind(exact.params, s, mid)]
  BY <1>3, Zenon DEF FindNext, Mid
<1>5. fail.node = None
  BY ResultIs
<1>6. Exact(t, path, k, n, params) = exact
  BY DEF Exact, At
<1>7. \A q, z : b[q][z] = At(t, path, k-1, q, z)
  BY DEF At
<1>8. V # {} => s \in Children(t, n) /\ (s \in Param \/ WildMatches(s, mid))
  <2>1. V # {} => s \in V
    BY FirstIs
  <2> QED BY <2>1 DEF Variable
<1>9. WildMatches(s, mid) => s \in Wild
  BY DEF WildMatches
<1>10. s \in Param => s \notin Wild
  BY Pieces
<1>11. CASE Children(t, n) = {}
  BY <1>4, <1>11, ResultIs
<1>12. CASE Children(t, n) # {} /\ slash.node # None
  <2>1. r = slash /\ slash # fail
    BY <1>4, <1>5, <1>12
  <2>2. ToSlash(t, path, k, n, params)
    BY <1>7, <1>12, <2>1 DEF ToSlash
  <2> QED BY <1>12, <2>2
<1>13. CASE Children(t, n) # {} /\ slash.node = None
  <2>1. SlashFails(t, path, k, n, params)
    BY <1>7, <1>13 DEF SlashFails
  <2>2. CASE exact.node # None
    <3>1. r = exact /\ exact # fail
      BY <1>4, <1>5, <1>13, <2>2
    <3>2. ToExact(t, path, k, n, params)
      BY <1>7, <2>2, <3>1 DEF ToExact
    <3> QED BY <1>13, <2>1, <3>2
  <2>3. CASE exact.node = None /\ V = {}
    <3>1. r = exact
      BY <1>4, <1>13, <2>3
    <3>2. ToNothing(t, path, k, n, params)
      BY <1>6, <2>3, <3>1 DEF ToNothing
    <3> QED BY <1>6, <1>13, <2>1, <2>3, <3>2
  <2>4. CASE exact.node = None /\ V # {} /\ s \in Wild
    <3>1. PICK rest : r = Result(Append(n, s), exact.params, rest)
      BY <1>4, <1>13, <2>4
    <3>2. r = [node |-> Append(n, s), params |-> exact.params, match |-> rest]
      BY <3>1, Zenon DEF Result
    <3>3. r.node = Append(n, s) /\ r.params = exact.params
      <4>1. r.node = Append(n, s)
        BY <3>2
      <4>2. r.params = exact.params
        BY <3>2
      <4> QED BY <4>1, <4>2
    <3>4. ToWild(t, path, k, n, params, s)
      BY <1>6, <1>8, <1>10, <2>4, <3>3 DEF ToWild
    <3> QED BY <1>6, <1>13, <2>1, <2>4, <3>4
  <2>5. CASE exact.node = None /\ V # {} /\ s \notin Wild
    <3>1. r = b[Append(n, s)][Bind(exact.params, s, mid)]
      BY <1>4, <1>13, <2>5
    <3>2. ToParam(t, path, k, n, params, s)
      BY <1>6, <1>7, <1>8, <1>9, <2>5, <3>1 DEF ToParam
    <3> QED BY <1>6, <1>13, <2>1, <2>5, <3>2
  <2> QED BY <2>2, <2>3, <2>4, <2>5
<1> QED BY <1>11, <1>12, <1>13

-----------------------------------------------------------------------------
(***************************************************************************)
(* The search ends at a node of the table, or at none.                     *)
(***************************************************************************)
Typed(t, r) == r.node \in t.nodes \cup {None} /\ r.params \in RouteParams

LEMMA BindIs ==
  ASSUME NEW params \in RouteParams, NEW s \in Param, NEW mid \in Piece
  PROVE  /\ Bind(params, s, mid) \in RouteParams
         /\ Bind(params, s, mid)[NameOf[s]] = mid
         /\ \A x \in Name : x # NameOf[s] => Bind(params, s, mid)[x] = params[x]
<1>1. NameOf[s] \in Name
  BY DEF Name
<1> QED BY <1>1 DEF Bind, RouteParams

LEMMA ExactTyped ==
  ASSUME NEW t, TableOK(t), NEW path \in Path, NEW k \in 1 .. Len(path), NEW n \in t.nodes,
         NEW params \in RouteParams,
         \A m \in t.nodes : \A q \in RouteParams : Typed(t, At(t, path, k-1, m, q))
  PROVE  Typed(t, Exact(t, path, k, n, params))
<1>1. CASE Mid(path, k) \in Children(t, n)
  <2>1. Append(n, Mid(path, k)) \in t.nodes
    BY <1>1, ChildIs
  <2> QED BY <1>1, <2>1 DEF Exact
<1>2. CASE Mid(path, k) \notin Children(t, n)
  BY <1>2, ResultIs DEF Exact, Typed
<1> QED BY <1>1, <1>2

LEMMA FindTyped ==
  ASSUME NEW t, TableOK(t), NEW path \in Path
  PROVE  \A k \in 0 .. Len(path) : \A n \in t.nodes : \A params \in RouteParams :
           Typed(t, At(t, path, k, n, params))
<1> DEFINE P(k) == \A n \in t.nodes : \A params \in RouteParams :
                     Typed(t, At(t, path, k, n, params))
           S == {k \in 0 .. Len(path) : P(k)}
<1>1. P(0)
  <2> SUFFICES ASSUME NEW n \in t.nodes, NEW params \in RouteParams
               PROVE  Typed(t, At(t, path, 0, n, params))
    OBVIOUS
  <2>1. "*" \in Children(t, n) => Append(n, "*") \in t.nodes
    BY ChildIs
  <2> QED BY <2>1, AtEnd DEF Typed
<1>2. ASSUME NEW k \in 1 .. Len(path), P(k - 1) PROVE P(k)
  <2> SUFFICES ASSUME NEW n \in t.nodes, NEW params \in RouteParams
               PROVE  Typed(t, At(t, path, k, n, params))
    OBVIOUS
  <2> DEFINE mid == Mid(path, k)
             e == Exact(t, path, k, n, params)
             s == FirstVariable(t, n, mid)
  <2>1. Typed(t, e)
    BY <1>2, ExactTyped
  <2>2. mid \in Piece
    BY MidIs
  <2>3. \A x \in Children(t, n) : Append(n, x) \in t.nodes
    BY ChildIs
  <2> HIDE DEF s
  <2>4. CASE Children(t, n) = {}
    BY <2>4, Ways DEF Typed
  <2>5. CASE ToSlash(t, path, k, n, params)
    BY <1>2, <2>3, <2>5, RootChild DEF ToSlash
  <2>6. CASE ToExact(t, path, k, n, params)
    BY <1>2, <2>3, <2>6 DEF ToExact
  <2>7. CASE ToNothing(t, path, k, n, params)
    BY <2>1, <2>7 DEF ToNothing
  <2>8. CASE ToWild(t, path, k, n, params, s)
    BY <2>1, <2>3, <2>8 DEF ToWild, Typed
  <2>9. CASE ToParam(t, path, k, n, params, s)
    <3>1. Bind(e.params, s, mid) \in RouteParams /\ Append(n, s) \in t.nodes
      BY <2>1, <2>2, <2>3, <2>9, BindIs DEF ToParam, Typed
    <3> QED BY <1>2, <2>9, <3>1 DEF ToParam
  <2> QED BY <2>4, <2>5, <2>6, <2>7, <2>8, <2>9, Ways DEF s
<1>3. Len(path) \in Nat
  BY DEF Path
<1> HIDE DEF P
<1>4. 0 \in S /\ \A k \in 1 .. Len(path) : k - 1 \in S => k \in S
  BY <1>1, <1>2, <1>3
<1>5. S \in SUBSET Nat
  BY <1>3
<1> HIDE DEF S
<1>6. \A k \in 0 .. Len(path) : k \in S
  BY <1>3, <1>4, <1>5, BoundedInduction
<1>7. \A k \in 0 .. Len(path) : P(k)
  BY <1>6 DEF S
<1> QED BY <1>7 DEF P

-----------------------------------------------------------------------------
(***************************************************************************)
(* What is found stands for the path.                                      *)
(***************************************************************************)
\* Node n is where the search can be when k pieces are left.
Reached(path, k, n) == Len(n) + k = Len(path) /\ Fits(n, path, Len(n))

LEMMA Depth ==
  ASSUME NEW t, TableOK(t), NEW path \in Path, NEW k \in 1 .. Len(path), NEW n \in t.nodes,
         Reached(path, k, n)
  PROVE  /\ n \in Seq(Piece) /\ Len(n) \in Nat /\ Len(path) \in Nat /\ Len(n) < Len(path)
         /\ Len(path) - k + 1 = Len(n) + 1 /\ Mid(path, k) = path[Len(n) + 1]
         /\ \A j \in 1 .. Len(n) : n[j] = path[j] \/ n[j] \in Param
<1>1. n \in Seq(Piece) /\ Len(path) \in Nat
  BY DEF TableOK, Path
<1>2. Len(n) \in Nat /\ Len(n) + k = Len(path)
  BY <1>1 DEF Reached
<1>3. Len(path) - k + 1 = Len(n) + 1 /\ Len(n) < Len(path)
  BY <1>1, <1>2
<1> QED BY <1>1, <1>2, <1>3 DEF Mid, Reached, Fits

\* The key after n.
LEMMA FitsOn ==
  ASSUME NEW path \in Path, NEW n \in Seq(Piece), NEW s \in Piece, Len(n) <= Len(path)
  PROVE  Fits(Append(n, s), path, Len(n)) <=> Fits(n, path, Len(n))
<1>1. \A j \in 1 .. Len(n) : Append(n, s)[j] = n[j]
  BY AppendIs
<1> QED BY <1>1 DEF Fits

LEMMA ReachedOn ==
  ASSUME NEW t, TableOK(t), NEW path \in Path, NEW k \in 1 .. Len(path), NEW n \in t.nodes,
         Reached(path, k, n), NEW s \in Children(t, n), s = Mid(path, k) \/ s \in Param
  PROVE  Reached(path, k - 1, Append(n, s))
<1> DEFINE m == Append(n, s)
<1>1. /\ n \in Seq(Piece) /\ Len(n) \in Nat /\ Len(path) \in Nat /\ Len(n) < Len(path)
      /\ Len(path) - k + 1 = Len(n) + 1 /\ Mid(path, k) = path[Len(n) + 1]
      /\ \A j \in 1 .. Len(n) : n[j] = path[j] \/ n[j] \in Param
  BY Depth
<1>2. s \in Piece
  BY ChildIs
<1>3. /\ Len(m) = Len(n) + 1
      /\ \A j \in 1 .. Len(n) : m[j] = n[j]
      /\ m[Len(n) + 1] = s
  BY <1>1, <1>2, AppendIs
<1> HIDE DEF m
<1>4. Len(m) + (k - 1) = Len(path) /\ Len(m) <= Len(path)
  BY <1>1, <1>3
<1>5. ASSUME NEW j \in 1 .. Len(m) PROVE m[j] = path[j] \/ m[j] \in Param
  <2>1. CASE j = Len(n) + 1
    BY <1>1, <1>3, <2>1
  <2>2. CASE j \in 1 .. Len(n)
    BY <1>1, <1>3, <2>2
  <2> QED BY <1>1, <1>3, <2>1, <2>2
<1>6. Reached(path, k - 1, m)
  BY <1>4, <1>5 DEF Reached, Fits
<1> QED BY <1>6 DEF m

\* Where the path is over.
LEMMA CoversEnd ==
  ASSUME NEW t, TableOK(t), NEW path \in Path, NEW n \in t.nodes, Reached(path, 0, n),
         NEW params \in RouteParams, At(t, path, 0, n, params).node # None
  PROVE  Covers(t, At(t, path, 0, n, params).node, path)
<1> DEFINE r == At(t, path, 0, n, params)
           m == Append(n, "*")
<1>1. n \in Seq(Piece) /\ Len(path) \in Nat /\ Len(n) \in Nat
  BY DEF TableOK, Path
<1>2. Len(n) = Len(path) /\ Fits(n, path, Len(n))
  BY <1>1 DEF Reached
<1>3. CASE (HasHandler(t, n) \/ Children(t, n) = {}) /\ r.node = n
  BY <1>2, <1>3 DEF Covers
<1>4. CASE r.node = m
  <2>1. Len(m) = Len(n) + 1 /\ m[Len(n) + 1] = "*" /\ Fits(m, path, Len(n))
    <3>1. Len(n) <= Len(path)
      BY <1>1, <1>2
    <3>2. "*" \in Piece
      BY Pieces
    <3> QED BY <1>1, <1>2, <3>1, <3>2, AppendIs, FitsOn, Zenon
  <2>2. Len(m) > 0 /\ Len(m) = Len(path) + 1 /\ Len(m) - 1 = Len(n)
    BY <1>1, <1>2, <2>1
  <2> HIDE DEF m
  <2>3. Fits(m, path, Len(m) - 1) /\ m[Len(m)] = "*"
    BY <1>1, <1>2, <2>1, <2>2
  <2> QED BY <1>4, <2>2, <2>3 DEF Covers
<1> QED BY <1>3, <1>4, AtEnd

LEMMA CoversWild ==
  ASSUME NEW t, TableOK(t), NEW path \in Path, NEW k \in 1 .. Len(path), NEW n \in t.nodes,
         Reached(path, k, n), NEW s \in Children(t, n), WildMatches(s, Mid(path, k))
  PROVE  Covers(t, Append(n, s), path)
<1> DEFINE m == Append(n, s)
<1>1. /\ n \in Seq(Piece) /\ Len(n) \in Nat /\ Len(path) \in Nat /\ Len(n) < Len(path)
      /\ Mid(path, k) = path[Len(n) + 1] /\ s \in Piece
  BY Depth, ChildIs
<1>2. Len(m) = Len(n) + 1 /\ m[Len(n) + 1] = s /\ Fits(m, path, Len(n))
  BY <1>1, AppendIs, FitsOn DEF Reached
<1> HIDE DEF m
<1>3. Len(m) > 0 /\ Len(m) <= Len(path) /\ Len(m) - 1 = Len(n)
  BY <1>1, <1>2
<1>4. Fits(m, path, Len(m) - 1) /\ WildMatches(m[Len(m)], path[Len(m)])
  BY <1>1, <1>2, <1>3
<1>5. Covers(t, m, path)
  BY <1>3, <1>4 DEF Covers
<1> QED BY <1>5 DEF m

\* The route "/" of a table that has it.
LEMMA SlashFound ==
  ASSUME NEW t, TableOK(t), NEW path \in Path, "/" \in Children(t, <<>>),
         NEW params \in RouteParams
  PROVE  /\ At(t, path, 0, <<"/">>, params).node = <<"/">>
         /\ At(t, path, 0, <<"/">>, params).params = params
         /\ <<"/">> # None
<1>1. <<"/">> \in t.nodes
  BY RootChild DEF Children
<1>2. Children(t, <<"/">>) = {}
  BY <1>1, SlashIsLeaf
<1>3. <<"/">> # None
  BY RootChild, ConstantsAssumption
<1>4. ASSUME NEW n \in t.nodes, Children(t, n) = {}
      PROVE  At(t, path, 0, n, params).node = n /\ At(t, path, 0, n, params).params = params
  BY <1>4, AtLeaf
<1> QED BY <1>1, <1>2, <1>3, <1>4, Zenon

LEMMA JustOne == 1 \in 1 .. 1 /\ \A k \in 1 .. 1 : k - 1 = 0
OBVIOUS

LEMMA OneEmptyPiece ==
  ASSUME NEW path \in Path, path = <<"">>
  PROVE  Len(path) = 1 /\ \A k \in 1 .. Len(path) : k - 1 = 0
<1>1. "" \in Piece
  BY Pieces
<1>2. Len(path) = 1
  BY <1>1, OnePiece, Zenon
<1> QED BY <1>2, JustOne, Zenon

LEMMA Sound ==
  ASSUME NEW t, TableOK(t), NEW path \in Path
  PROVE  \A k \in 0 .. Len(path) : \A n \in t.nodes : \A params \in RouteParams :
           Reached(path, k, n) /\ At(t, path, k, n, params).node # None =>
             Covers(t, At(t, path, k, n, params).node, path)
<1> DEFINE P(k) == \A n \in t.nodes : \A params \in RouteParams :
                     Reached(path, k, n) /\ At(t, path, k, n, params).node # None =>
                       Covers(t, At(t, path, k, n, params).node, path)
           S == {k \in 0 .. Len(path) : P(k)}
<1>1. P(0)
  BY CoversEnd
<1>2. ASSUME NEW k \in 1 .. Len(path), P(k - 1) PROVE P(k)
  <2> SUFFICES ASSUME NEW n \in t.nodes, NEW params \in RouteParams, Reached(path, k, n),
                      At(t, path, k, n, params).node # None
               PROVE  Covers(t, At(t, path, k, n, params).node, path)
    OBVIOUS
  <2> DEFINE mid == Mid(path, k)
             e == Exact(t, path, k, n, params)
             s == FirstVariable(t, n, mid)
  <2>1. Typed(t, e)
    <3>1. k - 1 \in 0 .. Len(path)
      BY MidIs
    <3> QED BY <3>1, FindTyped, ExactTyped
  <2>2. mid \in Piece
    BY MidIs
  <2>3. \A x \in Children(t, n) : Append(n, x) \in t.nodes
    BY ChildIs
  <2>4. \A x \in Children(t, n) : x = mid \/ x \in Param => Reached(path, k - 1, Append(n, x))
    BY ReachedOn
  <2> HIDE DEF s
  <2>5. CASE Children(t, n) = {}
    <3>1. At(t, path, k, n, params).node = n
      BY <2>5, Ways
    <3> QED BY <2>5, <3>1, Zenon DEF Covers, Reached
  <2>6. CASE ToSlash(t, path, k, n, params)
    <3>1. k - 1 = 0 /\ n = <<>> /\ path = <<"">> /\ "/" \in Children(t, n)
      BY <2>6, OneEmptyPiece DEF ToSlash
    <3>2. At(t, path, k, n, params) = At(t, path, 0, <<"/">>, params)
      BY <2>6, <3>1, Zenon DEF ToSlash
    <3>3. At(t, path, k, n, params).node = <<"/">>
      <4>1. "/" \in Children(t, <<>>)
        BY <3>1
      <4>2. At(t, path, 0, <<"/">>, params).node = <<"/">>
        BY <3>1, <4>1, SlashFound, Zenon
      <4> QED BY <3>2, <4>2, Zenon
    <3> QED BY <3>1, <3>3, Zenon DEF Covers
  <2>7. CASE ToExact(t, path, k, n, params)
    BY <1>2, <2>3, <2>4, <2>7 DEF ToExact
  <2>8. CASE ToNothing(t, path, k, n, params)
    BY <2>8 DEF ToNothing
  <2>9. CASE ToWild(t, path, k, n, params, s)
    BY <2>9, CoversWild DEF ToWild
  <2>10. CASE ToParam(t, path, k, n, params, s)
    <3>1. Bind(e.params, s, mid) \in RouteParams /\ Append(n, s) \in t.nodes
      BY <2>1, <2>2, <2>3, <2>10, BindIs DEF ToParam, Typed
    <3> QED BY <1>2, <2>4, <2>10, <3>1 DEF ToParam
  <2> QED BY <2>5, <2>6, <2>7, <2>8, <2>9, <2>10, Ways DEF s
<1>3. Len(path) \in Nat
  BY DEF Path
<1> HIDE DEF P
<1>4. 0 \in S /\ \A k \in 1 .. Len(path) : k - 1 \in S => k \in S
  BY <1>1, <1>2, <1>3
<1>5. S \in SUBSET Nat
  BY <1>3
<1> HIDE DEF S
<1>6. \A k \in 0 .. Len(path) : k \in S
  BY <1>3, <1>4, <1>5, BoundedInduction
<1>7. \A k \in 0 .. Len(path) : P(k)
  BY <1>6 DEF S
<1> QED BY <1>7 DEF P

-----------------------------------------------------------------------------
(***************************************************************************)
(* A path that some node stands for is found, if no node has to choose.    *)
(***************************************************************************)
Extends(m, n) == Len(n) <= Len(m) /\ \A j \in 1 .. Len(n) : m[j] = n[j]

LEMMA Lengths ==
  ASSUME NEW t, TableOK(t), NEW path \in Path, NEW n \in t.nodes, NEW m \in t.nodes,
         Extends(m, n)
  PROVE  /\ n \in Seq(Piece) /\ m \in Seq(Piece) /\ path \in Seq(Literal)
         /\ Len(n) \in Nat /\ Len(m) \in Nat /\ Len(path) \in Nat
         /\ Len(n) <= Len(m) /\ \A j \in 1 .. Len(n) : m[j] = n[j]
         /\ Len(m) <= Len(n) => m = n
<1>1. /\ n \in Seq(Piece) /\ m \in Seq(Piece) /\ path \in Seq(Literal)
      /\ Len(n) \in Nat /\ Len(m) \in Nat /\ Len(path) \in Nat
  BY DEF TableOK, Path
<1>2. Len(n) <= Len(m) /\ \A j \in 1 .. Len(n) : m[j] = n[j]
  BY DEF Extends
<1>3. ASSUME Len(m) <= Len(n) PROVE m = n
  <2>1. Len(m) = Len(n)
    BY <1>1, <1>2, <1>3
  <2> QED BY <1>1, <1>2, <2>1, SameSeq
<1> QED BY <1>1, <1>2, <1>3

\* A node that fits the path to its end has no wildcard in it.
LEMMA NoWildcard ==
  ASSUME NEW path \in Path, NEW n, Fits(n, path, Len(n)), NEW j \in 1 .. Len(n), Len(n) \in Nat
  PROVE  ~WildMatches(n[j], path[j])
<1>1. n[j] = path[j] \/ n[j] \in Param
  BY DEF Fits
<1>2. path[j] \in Literal
  <2>1. Len(n) <= Len(path) /\ path \in Seq(Literal) /\ Len(path) \in Nat
    BY DEF Fits, Path
  <2>2. j \in 1 .. Len(path)
    BY <2>1
  <2> QED BY <2>1, <2>2
<1> QED BY <1>1, <1>2, Pieces DEF WildMatches

\* The path is over: the node itself stands for it, or there is a "*" below.
LEMMA EndHolds ==
  ASSUME NEW t, TableOK(t), NEW path \in Path, NEW n \in t.nodes, Reached(path, 0, n),
         NEW m \in t.nodes, Extends(m, n), Covers(t, m, path)
  PROVE  HasHandler(t, n) \/ Children(t, n) = {} \/ "*" \in Children(t, n)
<1>1. /\ n \in Seq(Piece) /\ m \in Seq(Piece) /\ path \in Seq(Literal)
      /\ Len(n) \in Nat /\ Len(m) \in Nat /\ Len(path) \in Nat
      /\ Len(n) <= Len(m) /\ \A j \in 1 .. Len(n) : m[j] = n[j]
      /\ Len(m) <= Len(n) => m = n
  BY Lengths
<1>2. Len(n) = Len(path) /\ Fits(n, path, Len(n))
  BY <1>1 DEF Reached
<1>3. ~(m = <<"/">> /\ path = <<"">>)
  <2> SUFFICES ASSUME m = <<"/">>, path = <<"">> PROVE FALSE
    OBVIOUS
  <2>1. Len(path) = 1
    BY OneEmptyPiece
  <2>2. 1 \in 1 .. Len(n)
    BY <1>2, <2>1, JustOne, Zenon
  <2>3. n[1] = "/" /\ path[1] = ""
    BY <1>1, <2>2, RootChild
  <2>4. n[1] = path[1] \/ n[1] \in Param
    BY <1>2, <2>2 DEF Fits
  <2> QED BY <2>3, <2>4, Pieces
<1>4. CASE Len(m) = Len(path) /\ HasHandler(t, m)
  <2>1. m = n
    BY <1>1, <1>2, <1>4
  <2> QED BY <1>4, <2>1
<1>5. CASE Fits(m, path, Len(m)) /\ Children(t, m) = {}
  <2>1. Len(m) <= Len(n)
    BY <1>2, <1>5 DEF Fits
  <2> QED BY <1>1, <1>5, <2>1
<1>6. ~(Len(m) > 0 /\ Len(m) <= Len(path) /\ WildMatches(m[Len(m)], path[Len(m)]))
  <2> SUFFICES ASSUME Len(m) > 0, Len(m) <= Len(path), WildMatches(m[Len(m)], path[Len(m)])
               PROVE  FALSE
    OBVIOUS
  <2>1. m = n /\ Len(n) \in 1 .. Len(n)
    BY <1>1, <1>2
  <2> QED BY <1>1, <1>2, <2>1, NoWildcard
<1>7. CASE Len(m) = Len(path) + 1 /\ m[Len(m)] = "*"
  <2>1. Len(n) < Len(m) /\ Len(m) = Len(n) + 1
    BY <1>1, <1>2, <1>7
  <2>2. m[Len(n) + 1] \in Children(t, n)
    BY <1>1, <2>1, Through
  <2>3. m[Len(n) + 1] = m[Len(m)]
    BY <2>1
  <2> QED BY <1>7, <2>2, <2>3
<1> QED BY <1>3, <1>4, <1>5, <1>6, <1>7 DEF Covers

\* The path is not over: it goes on to a child, or there is a wildcard for it.
GoesOn(t, path, k, n, m) ==
  \E s \in Children(t, n) : (s = Mid(path, k) \/ s \in Param) /\ Extends(m, Append(n, s))

LEMMA ExtendsOn ==
  ASSUME NEW t, TableOK(t), NEW n \in t.nodes, NEW m \in t.nodes, Extends(m, n),
         Len(n) < Len(m)
  PROVE  m[Len(n) + 1] \in Children(t, n) /\ Extends(m, Append(n, m[Len(n) + 1]))
<1> DEFINE s == m[Len(n) + 1]
           w == Append(n, s)
<1>1. n \in Seq(Piece) /\ m \in Seq(Piece) /\ Len(n) \in Nat /\ Len(m) \in Nat
      /\ \A j \in 1 .. Len(n) : m[j] = n[j]
  BY DEF TableOK, Extends
<1>2. s \in Children(t, n) /\ s \in Piece
  BY <1>1, Through, ChildIs
<1>3. /\ Len(w) = Len(n) + 1 /\ \A j \in 1 .. Len(n) : w[j] = n[j]
      /\ w[Len(n) + 1] = s
  BY <1>1, <1>2, AppendIs
<1> HIDE DEF w
<1>4. Len(w) <= Len(m)
  BY <1>1, <1>3
<1>5. ASSUME NEW j \in 1 .. Len(w) PROVE m[j] = w[j]
  <2>1. CASE j = Len(n) + 1
    BY <1>3, <2>1
  <2>2. CASE j \in 1 .. Len(n)
    BY <1>1, <1>3, <2>2
  <2> QED BY <1>1, <1>3, <2>1, <2>2
<1>6. Extends(m, w)
  BY <1>4, <1>5 DEF Extends
<1> QED BY <1>2, <1>6 DEF w

LEMMA Ahead ==
  ASSUME NEW t, TableOK(t), NEW path \in Path, NEW k \in 1 .. Len(path), NEW n \in t.nodes,
         Reached(path, k, n), Children(t, n) # {},
         NEW m \in t.nodes, Extends(m, n), Covers(t, m, path)
  PROVE  \/ n = <<>> /\ path = <<"">> /\ "/" \in Children(t, n)
         \/ GoesOn(t, path, k, n, m)
         \/ \E s \in Children(t, n) : WildMatches(s, Mid(path, k))
<1>1. /\ n \in Seq(Piece) /\ m \in Seq(Piece) /\ path \in Seq(Literal)
      /\ Len(n) \in Nat /\ Len(m) \in Nat /\ Len(path) \in Nat
      /\ Len(n) <= Len(m) /\ \A j \in 1 .. Len(n) : m[j] = n[j]
      /\ Len(m) <= Len(n) => m = n
  BY Lengths
<1>2. Len(n) < Len(path) /\ Mid(path, k) = path[Len(n) + 1]
  BY Depth
<1>3. ASSUME NEW z \in Nat, Fits(m, path, z), z > Len(n), Len(n) < Len(m)
      PROVE  GoesOn(t, path, k, n, m)
  <2>1. Len(n) + 1 \in 1 .. z
    BY <1>1, <1>3
  <2>2. m[Len(n) + 1] = Mid(path, k) \/ m[Len(n) + 1] \in Param
    BY <1>2, <1>3, <2>1 DEF Fits
  <2> QED BY <1>3, <2>2, ExtendsOn DEF GoesOn
<1>4. CASE m = <<"/">> /\ path = <<"">>
  <2>1. Len(path) = 1
    BY <1>4, OneEmptyPiece
  <2>2. Len(n) = 0
    BY <1>1, <1>2, <2>1
  <2>3. n = <<>>
    BY <1>1, <2>2
  <2>4. "/" \in Children(t, n)
    BY <1>4, <2>3, RootChild, Pieces DEF Children
  <2> QED BY <1>4, <2>3, <2>4
<1>5. CASE Fits(m, path, Len(m)) /\ Len(m) = Len(path)
  BY <1>1, <1>2, <1>3, <1>5
<1>6. CASE Fits(m, path, Len(m)) /\ Children(t, m) = {}
  <2>1. Len(n) < Len(m)
    BY <1>1, <1>6
  <2> QED BY <1>1, <1>3, <1>6, <2>1
<1>7. CASE /\ Len(m) > 0 /\ Len(m) <= Len(path) /\ Fits(m, path, Len(m) - 1)
           /\ WildMatches(m[Len(m)], path[Len(m)])
  <2>1. Len(n) < Len(m)
    <3> SUFFICES ASSUME ~(Len(n) < Len(m)) PROVE FALSE
      OBVIOUS
    <3>1. m = n /\ Len(n) \in 1 .. Len(n)
      BY <1>1, <1>7
    <3> QED BY <1>1, <1>7, <3>1, NoWildcard DEF Reached
  <2>2. CASE Len(m) = Len(n) + 1
    <3>1. m[Len(n) + 1] \in Children(t, n)
      BY <1>1, <2>1, Through
    <3>2. WildMatches(m[Len(n) + 1], Mid(path, k))
      BY <1>2, <1>7, <2>2
    <3> QED BY <3>1, <3>2
  <2>3. CASE Len(m) # Len(n) + 1
    <3>1. Len(m) - 1 \in Nat /\ Len(m) - 1 > Len(n)
      BY <1>1, <2>1, <2>3
    <3> QED BY <1>3, <1>7, <2>1, <3>1
  <2> QED BY <2>2, <2>3
<1>8. CASE Len(m) = Len(path) + 1 /\ Fits(m, path, Len(m) - 1)
  <2>1. Len(m) - 1 \in Nat /\ Len(m) - 1 > Len(n) /\ Len(n) < Len(m)
    BY <1>1, <1>2, <1>8
  <2> QED BY <1>3, <1>8, <2>1
<1> QED BY <1>4, <1>5, <1>6, <1>7, <1>8 DEF Covers

LEMMA Complete ==
  ASSUME NEW t, TableOK(t), Unambiguous(t), NEW path \in Path, NEW m \in t.nodes,
         Covers(t, m, path)
  PROVE  \A k \in 0 .. Len(path) : \A n \in t.nodes : \A params \in RouteParams :
           Reached(path, k, n) /\ Extends(m, n) => At(t, path, k, n, params).node # None
<1> DEFINE P(k) == \A n \in t.nodes : \A params \in RouteParams :
                     Reached(path, k, n) /\ Extends(m, n) =>
                       At(t, path, k, n, params).node # None
           S == {k \in 0 .. Len(path) : P(k)}
<1>1. \A x \in Seq(Piece) : x # None
  BY ConstantsAssumption
<1>2. P(0)
  <2> SUFFICES ASSUME NEW n \in t.nodes, NEW params \in RouteParams, Reached(path, 0, n),
                      Extends(m, n)
               PROVE  At(t, path, 0, n, params).node # None
    OBVIOUS
  <2>1. HasHandler(t, n) \/ Children(t, n) = {} \/ "*" \in Children(t, n)
    BY EndHolds
  <2>2. n # None
    BY <1>1 DEF TableOK
  <2>3. ASSUME "*" \in Children(t, n) PROVE Append(n, "*") # None
    BY <1>1, <2>3, ChildIs DEF TableOK
  <2> QED BY <2>1, <2>2, <2>3, AtEnd
<1>3. ASSUME NEW k \in 1 .. Len(path), P(k - 1) PROVE P(k)
  <2> SUFFICES ASSUME NEW n \in t.nodes, NEW params \in RouteParams, Reached(path, k, n),
                      Extends(m, n)
               PROVE  At(t, path, k, n, params).node # None
    OBVIOUS
  <2> DEFINE mid == Mid(path, k)
             e == Exact(t, path, k, n, params)
             f == FirstVariable(t, n, mid)
             r == At(t, path, k, n, params)
  <2>1. Typed(t, e) /\ mid \in Piece
    <3>1. k - 1 \in 0 .. Len(path)
      BY MidIs
    <3> QED BY <3>1, FindTyped, ExactTyped, MidIs
  <2>2. \A x \in Children(t, n) : Append(n, x) \in t.nodes /\ Append(n, x) # None
    BY <1>1, ChildIs DEF TableOK
  <2>3. n # None
    BY <1>1 DEF TableOK
  <2>4. \A x \in Children(t, n) : x = mid \/ x \in Param => Reached(path, k - 1, Append(n, x))
    BY ReachedOn
  <2> HIDE DEF f, mid, e, r
  <2>5. CASE Children(t, n) = {}
    BY <2>3, <2>5, Ways DEF r
  <2>6. CASE ToSlash(t, path, k, n, params) \/ ToExact(t, path, k, n, params)
    BY <2>6 DEF ToSlash, ToExact, r
  <2>7. CASE ToWild(t, path, k, n, params, f)
    BY <2>2, <2>7 DEF ToWild, r
  <2>8. CASE /\ Children(t, n) # {} /\ e.node = None /\ SlashFails(t, path, k, n, params)
             /\ ToNothing(t, path, k, n, params) \/ ToParam(t, path, k, n, params, f)
    <3>1. ~(n = <<>> /\ path = <<"">> /\ "/" \in Children(t, n))
      <4> SUFFICES ASSUME n = <<>>, path = <<"">>, "/" \in Children(t, n) PROVE FALSE
        OBVIOUS
      <4>1. k - 1 = 0 /\ "/" \in Children(t, <<>>)
        BY OneEmptyPiece
      <4>2. At(t, path, 0, <<"/">>, params).node # None
        BY <4>1, SlashFound
      <4>3. At(t, path, k - 1, <<"/">>, params).node = None
        BY <2>8, Zenon DEF SlashFails
      <4> QED BY <4>1, <4>2, <4>3, Zenon
    <3>2. ASSUME NEW s \in Children(t, n), s \in Param \/ WildMatches(s, mid)
          PROVE  ToParam(t, path, k, n, params, f) /\ f = s
      <4>1. s \in Variable(t, n, mid) /\ s \in Param \cup Wild
        BY <3>2 DEF Variable, WildMatches
      <4>2. ToParam(t, path, k, n, params, f)
        BY <2>8, <4>1 DEF ToNothing, mid
      <4>3. f \in Children(t, n) \cap (Param \cup Wild)
        BY <4>2 DEF ToParam
      <4> QED BY <4>1, <4>2, <4>3 DEF Unambiguous
    <3>3. ASSUME NEW s \in Children(t, n), WildMatches(s, mid) PROVE FALSE
      <4>1. f = s /\ f \in Param
        BY <3>2, <3>3 DEF ToParam
      <4> QED BY <3>3, <4>1, Pieces DEF WildMatches
    <3>4. ASSUME NEW s \in Children(t, n), s = mid, Extends(m, Append(n, s)) PROVE FALSE
      <4>1. e = At(t, path, k - 1, Append(n, mid), params)
        BY <3>4 DEF e, Exact, mid
      <4>2. At(t, path, k - 1, Append(n, s), params).node # None
        BY <1>3, <2>2, <2>4, <3>4
      <4> QED BY <2>8, <3>4, <4>1, <4>2
    <3>5. ASSUME NEW s \in Children(t, n), s \in Param, Extends(m, Append(n, s))
          PROVE  r.node # None
      <4>1. ToParam(t, path, k, n, params, f) /\ f = s
        BY <3>2, <3>5
      <4>2. Bind(e.params, s, mid) \in RouteParams
        BY <2>1, <3>5, BindIs DEF Typed
      <4>3. r = At(t, path, k - 1, Append(n, s), Bind(e.params, s, mid))
        BY <4>1 DEF ToParam, r, e, mid
      <4> QED BY <1>3, <2>2, <2>4, <3>5, <4>2, <4>3
    <3>6. GoesOn(t, path, k, n, m) => r.node # None
      BY <3>4, <3>5 DEF GoesOn, mid
    <3> QED BY <2>8, <3>1, <3>3, <3>6, Ahead DEF mid, r
  <2> QED BY <2>5, <2>6, <2>7, <2>8, Ways DEF f, e, mid
<1>4. Len(path) \in Nat
  BY DEF Path
<1> HIDE DEF P
<1>5. 0 \in S /\ \A k \in 1 .. Len(path) : k - 1 \in S => k \in S
  BY <1>2, <1>3, <1>4
<1>6. S \in SUBSET Nat
  BY <1>4
<1> HIDE DEF S
<1>7. \A k \in 0 .. Len(path) : k \in S
  BY <1>4, <1>5, <1>6, BoundedInduction
<1>8. \A k \in 0 .. Len(path) : P(k)
  BY <1>7 DEF S
<1> QED BY <1>8 DEF P

-----------------------------------------------------------------------------
(***************************************************************************)
(* The parameters of what is found, if no name is used at two depths.      *)
(***************************************************************************)
Bound(path, n, params) ==
  \A j \in 1 .. Len(n) : n[j] \in Param => params[NameOf[n[j]]] = path[j]

LEMMA BoundOn ==
  ASSUME NEW path, NEW n \in Seq(Piece), NEW s \in Piece, NEW params
  PROVE  Bound(path, Append(n, s), params) <=>
           /\ Bound(path, n, params)
           /\ s \in Param => params[NameOf[s]] = path[Len(n) + 1]
<1> DEFINE m == Append(n, s)
<1>1. /\ Len(m) = Len(n) + 1 /\ \A j \in 1 .. Len(n) : m[j] = n[j]
      /\ m[Len(n) + 1] = s /\ Len(n) \in Nat
  BY AppendIs
<1> HIDE DEF m
<1>2. ASSUME Bound(path, m, params)
      PROVE  Bound(path, n, params) /\ (s \in Param => params[NameOf[s]] = path[Len(n) + 1])
  <2>1. Len(n) + 1 \in 1 .. Len(m) /\ \A j \in 1 .. Len(n) : j \in 1 .. Len(m)
    BY <1>1
  <2> QED BY <1>1, <1>2, <2>1 DEF Bound
<1>3. ASSUME Bound(path, n, params), s \in Param => params[NameOf[s]] = path[Len(n) + 1]
      PROVE  Bound(path, m, params)
  <2> SUFFICES ASSUME NEW j \in 1 .. Len(m), m[j] \in Param
               PROVE  params[NameOf[m[j]]] = path[j]
    BY DEF Bound
  <2>1. CASE j = Len(n) + 1
    BY <1>1, <1>3, <2>1
  <2>2. CASE j \in 1 .. Len(n)
    BY <1>1, <1>3, <2>2 DEF Bound
  <2> QED BY <1>1, <2>1, <2>2
<1>4. Bound(path, m, params) <=>
        /\ Bound(path, n, params)
        /\ s \in Param => params[NameOf[s]] = path[Len(n) + 1]
  BY <1>2, <1>3
<1> QED BY <1>4 DEF m

\* A parameter is put under a name that no parameter before it has.
LEMMA BindBound ==
  ASSUME NEW t, TableOK(t), OneDepth(t), NEW path, NEW n \in t.nodes,
         NEW s \in Children(t, n), s \in Param, NEW params \in RouteParams,
         Bound(path, n, params), path[Len(n) + 1] \in Piece
  PROVE  Bound(path, Append(n, s), Bind(params, s, path[Len(n) + 1]))
<1> DEFINE m == Append(n, s)
           q == Bind(params, s, path[Len(n) + 1])
<1>1. n \in Seq(Piece) /\ s \in Piece /\ m \in t.nodes /\ Len(n) \in Nat
  BY ChildIs
<1>2. Len(m) = Len(n) + 1 /\ m[Len(n) + 1] = s
  BY <1>1, AppendIs
<1>3. /\ q[NameOf[s]] = path[Len(n) + 1]
      /\ \A x \in Name : x # NameOf[s] => q[x] = params[x]
  BY BindIs
<1> HIDE DEF m, q
<1>4. ASSUME NEW j \in 1 .. Len(n), n[j] \in Param PROVE q[NameOf[n[j]]] = path[j]
  <2>1. Len(n) + 1 \in 1 .. Len(m) /\ j # Len(n) + 1
    BY <1>1, <1>2
  <2>2. NameOf[n[j]] # NameOf[s]
    BY <1>1, <1>2, <1>4, <2>1 DEF OneDepth
  <2>3. NameOf[n[j]] \in Name
    BY <1>4 DEF Name
  <2>4. params[NameOf[n[j]]] = path[j]
    BY <1>4 DEF Bound
  <2> QED BY <1>3, <2>2, <2>3, <2>4
<1>5. Bound(path, n, q)
  BY <1>4 DEF Bound
<1> QED BY <1>1, <1>3, <1>5, BoundOn DEF m, q

\* What a search does to the parameters.
Right(path, n, r) ==
  Bound(path, n, r.params) /\ (r.node # None => Bound(path, r.node, r.params))

LEMMA ParamsBound ==
  ASSUME NEW t, TableOK(t), OneDepth(t), NEW path \in Path
  PROVE  \A k \in 0 .. Len(path) : \A n \in t.nodes : \A params \in RouteParams :
           Reached(path, k, n) /\ Bound(path, n, params) =>
             Right(path, n, At(t, path, k, n, params))
<1> DEFINE P(k) == \A n \in t.nodes : \A params \in RouteParams :
                     Reached(path, k, n) /\ Bound(path, n, params) =>
                       Right(path, n, At(t, path, k, n, params))
           S == {k \in 0 .. Len(path) : P(k)}
<1>1. \A n \in t.nodes : \A s \in Children(t, n) : \A params :
        Bound(path, n, params) /\ s \notin Param => Bound(path, Append(n, s), params)
  BY ChildIs, BoundOn
<1>2. P(0)
  <2> SUFFICES ASSUME NEW n \in t.nodes, NEW params \in RouteParams, Bound(path, n, params)
               PROVE  Right(path, n, At(t, path, 0, n, params))
    OBVIOUS
  <2>1. "*" \in Children(t, n) => Bound(path, Append(n, "*"), params)
    BY <1>1, Pieces
  <2> QED BY <2>1, AtEnd DEF Right
<1>3. ASSUME NEW k \in 1 .. Len(path), P(k - 1) PROVE P(k)
  <2> SUFFICES ASSUME NEW n \in t.nodes, NEW params \in RouteParams, Reached(path, k, n),
                      Bound(path, n, params)
               PROVE  Right(path, n, At(t, path, k, n, params))
    OBVIOUS
  <2> DEFINE mid == Mid(path, k)
             e == Exact(t, path, k, n, params)
             s == FirstVariable(t, n, mid)
             r == At(t, path, k, n, params)
  <2>1. Typed(t, e)
    <3>1. k - 1 \in 0 .. Len(path)
      BY MidIs
    <3> QED BY <3>1, FindTyped, ExactTyped
  <2>2. mid \in Piece /\ mid \notin Param /\ mid = path[Len(n) + 1]
    BY MidIs, Pieces, Depth
  <2>3. \A x \in Children(t, n) : Append(n, x) \in t.nodes /\ x \in Piece /\ n \in Seq(Piece)
    BY ChildIs
  <2>4. \A x \in Children(t, n) : x = mid \/ x \in Param => Reached(path, k - 1, Append(n, x))
    BY ReachedOn
  \* What is right below a child is right here.
  <2>5. ASSUME NEW x \in Children(t, n), x = mid \/ x \in Param, NEW q \in RouteParams,
               Bound(path, Append(n, x), q)
        PROVE  Right(path, n, At(t, path, k - 1, Append(n, x), q))
    <3>1. Right(path, Append(n, x), At(t, path, k - 1, Append(n, x), q))
      BY <1>3, <2>3, <2>4, <2>5
    <3> QED BY <2>3, <3>1, BoundOn DEF Right
  <2>6. mid \in Children(t, n) => Right(path, n, At(t, path, k - 1, Append(n, mid), params))
    BY <1>1, <2>2, <2>5
  <2>7. Bound(path, n, e.params)
    <3>1. CASE mid \in Children(t, n)
      BY <2>6, <3>1 DEF Exact, Right
    <3>2. CASE mid \notin Children(t, n)
      BY <3>2, ResultIs DEF Exact
    <3> QED BY <3>1, <3>2
  <2> HIDE DEF s, mid, e, r
  <2>8. CASE Children(t, n) = {}
    BY <2>8, Ways DEF Right
  <2>9. CASE ToSlash(t, path, k, n, params)
    <3>1. k - 1 = 0 /\ n = <<>> /\ path = <<"">> /\ "/" \in Children(t, <<>>)
      BY <2>9, OneEmptyPiece DEF ToSlash
    <3>2. At(t, path, k, n, params) = At(t, path, 0, <<"/">>, params)
      BY <2>9, <3>1, Zenon DEF ToSlash
    <3>3. /\ At(t, path, 0, <<"/">>, params).node = <<"/">>
          /\ At(t, path, 0, <<"/">>, params).params = params
      BY <3>1, SlashFound, Zenon
    <3>4. Bound(path, <<"/">>, params)
      <4>1. "/" \notin Param /\ <<>> \in t.nodes /\ Bound(path, <<>>, params)
        BY <3>1, Pieces
      <4> QED BY <1>1, <3>1, <4>1, RootChild
    <3> QED BY <3>2, <3>3, <3>4 DEF Right
  <2>10. CASE ToExact(t, path, k, n, params)
    BY <2>6, <2>10 DEF ToExact, mid
  <2>11. CASE ToNothing(t, path, k, n, params)
    BY <2>7, <2>11 DEF ToNothing, Right, e
  <2>12. CASE ToWild(t, path, k, n, params, s)
    <3>1. s \notin Param /\ s \in Children(t, n)
      BY <2>12, Pieces DEF ToWild
    <3> QED BY <1>1, <2>7, <2>12, <3>1 DEF ToWild, Right, e
  <2>13. CASE ToParam(t, path, k, n, params, s)
    <3> DEFINE q == Bind(e.params, s, mid)
    <3>1. s \in Children(t, n) /\ s \in Param
      BY <2>13 DEF ToParam
    <3>2. e.params \in RouteParams /\ q \in RouteParams
      BY <2>1, <2>2, <3>1, BindIs DEF Typed
    <3>3. Bound(path, Append(n, s), q)
      BY <2>2, <2>7, <3>1, <3>2, BindBound
    <3>4. At(t, path, k, n, params) = At(t, path, k - 1, Append(n, s), q)
      BY <2>13 DEF ToParam, e, mid
    <3> QED BY <2>5, <3>1, <3>2, <3>3, <3>4
  <2> QED BY <2>8, <2>9, <2>10, <2>11, <2>12, <2>13, Ways DEF s, mid
<1>4. Len(path) \in Nat
  BY DEF Path
<1> HIDE DEF P
<1>5. 0 \in S /\ \A k \in 1 .. Len(path) : k - 1 \in S => k \in S
  BY <1>2, <1>3, <1>4
<1>6. S \in SUBSET Nat
  BY <1>4
<1> HIDE DEF S
<1>7. \A k \in 0 .. Len(path) : k \in S
  BY <1>4, <1>5, <1>6, BoundedInduction
<1>8. \A k \in 0 .. Len(path) : P(k)
  BY <1>7 DEF S
<1> QED BY <1>8 DEF P

-----------------------------------------------------------------------------
(***************************************************************************)
(* A path that is the node of a handler is found there.                    *)
(***************************************************************************)
RootPath(path) == path = <<"">>

LEMMA ExactFound ==
  ASSUME NEW t, TableOK(t), NEW path \in Path, path \in t.nodes, HasHandler(t, path),
         ~RootPath(path)
  PROVE  \A k \in 0 .. Len(path) : \A n \in t.nodes : \A params \in RouteParams :
           Len(n) + k = Len(path) /\ Extends(path, n) => At(t, path, k, n, params).node = path
<1> DEFINE P(k) == \A n \in t.nodes : \A params \in RouteParams :
                     Len(n) + k = Len(path) /\ Extends(path, n) =>
                       At(t, path, k, n, params).node = path
           S == {k \in 0 .. Len(path) : P(k)}
<1>1. path # None
  BY ConstantsAssumption DEF TableOK
<1>2. P(0)
  <2> SUFFICES ASSUME NEW n \in t.nodes, NEW params \in RouteParams, Len(n) + 0 = Len(path),
                      Extends(path, n)
               PROVE  At(t, path, 0, n, params).node = path
    OBVIOUS
  <2>1. Len(n) \in Nat /\ Len(path) \in Nat /\ (Len(path) <= Len(n) => path = n)
    BY Lengths
  <2>2. path = n
    BY <2>1
  <2> QED BY <2>2, AtEnd
<1>3. ASSUME NEW k \in 1 .. Len(path), P(k - 1) PROVE P(k)
  <2> SUFFICES ASSUME NEW n \in t.nodes, NEW params \in RouteParams, Len(n) + k = Len(path),
                      Extends(path, n)
               PROVE  At(t, path, k, n, params).node = path
    OBVIOUS
  <2> DEFINE mid == Mid(path, k)
             m == Append(n, mid)
  <2>1. /\ Len(n) \in Nat /\ Len(path) \in Nat /\ n \in Seq(Piece)
        /\ \A j \in 1 .. Len(n) : path[j] = n[j]
    BY Lengths
  <2>2. Len(n) < Len(path) /\ Len(path) - k + 1 = Len(n) + 1
    BY <2>1
  <2>3. mid = path[Len(n) + 1]
    BY <2>2 DEF Mid
  <2>4. mid \in Children(t, n) /\ Extends(path, m)
    BY <2>2, <2>3, ExtendsOn
  <2>5. m \in t.nodes /\ Len(m) = Len(n) + 1
    BY <2>1, <2>4, ChildIs, AppendIs
  <2> HIDE DEF m
  <2>6. Len(m) + (k - 1) = Len(path)
    BY <2>1, <2>5
  <2>7. At(t, path, k - 1, m, params).node = path
    BY <1>3, <2>4, <2>5, <2>6
  <2>8. Exact(t, path, k, n, params).node # None
    BY <1>1, <2>4, <2>7 DEF Exact, m
  <2>9. Children(t, n) # {} /\ ~ToSlash(t, path, k, n, params)
    BY <2>4 DEF ToSlash, RootPath
  <2>10. ToExact(t, path, k, n, params)
    BY <2>8, <2>9, Ways
  <2> QED BY <2>7, <2>10 DEF ToExact, m
<1>4. Len(path) \in Nat
  BY DEF Path
<1> HIDE DEF P
<1>5. 0 \in S /\ \A k \in 1 .. Len(path) : k - 1 \in S => k \in S
  BY <1>2, <1>3, <1>4
<1>6. S \in SUBSET Nat
  BY <1>4
<1> HIDE DEF S
<1>7. \A k \in 0 .. Len(path) : k \in S
  BY <1>4, <1>5, <1>6, BoundedInduction
<1>8. \A k \in 0 .. Len(path) : P(k)
  BY <1>7 DEF S
<1> QED BY <1>8 DEF P

-----------------------------------------------------------------------------
(***************************************************************************)
(* Registration: the nodes that are made.                                  *)
(***************************************************************************)
WayTo(n) == {SubSeq(n, 1, j) : j \in 0 .. Len(n)}

LEMMA Prefixes ==
  ASSUME NEW n \in Seq(Piece)
  PROVE  /\ n \in WayTo(n) /\ <<>> \in WayTo(n)
         /\ \A m \in WayTo(n) :
              m \in Seq(Piece) /\ \A j \in 0 .. Len(m) : SubSeq(m, 1, j) \in WayTo(n)
<1>1. Len(n) \in 0 .. Len(n) /\ 0 \in 0 .. Len(n)
  OBVIOUS
<1>2. SubSeq(n, 1, Len(n)) = n /\ SubSeq(n, 1, 0) = <<>>
  OBVIOUS
<1>3. ASSUME NEW j \in 0 .. Len(n), NEW m, m = SubSeq(n, 1, j), NEW x \in 0 .. Len(m)
      PROVE  SubSeq(m, 1, x) \in WayTo(n)
  <2>1. m \in Seq(Piece) /\ Len(m) = j /\ \A y \in 1 .. j : m[y] = n[y]
    BY <1>3, OnTheWay
  <2>2. x \in 0 .. Len(n)
    BY <2>1
  <2>3. /\ SubSeq(n, 1, x) \in Seq(Piece) /\ Len(SubSeq(n, 1, x)) = x
        /\ \A y \in 1 .. x : SubSeq(n, 1, x)[y] = n[y]
    BY <2>2, OnTheWay
  <2>4. /\ SubSeq(m, 1, x) \in Seq(Piece) /\ Len(SubSeq(m, 1, x)) = x
        /\ \A y \in 1 .. x : SubSeq(m, 1, x)[y] = m[y]
    BY <2>1, OnTheWay
  <2>5. \A y \in 1 .. x : SubSeq(m, 1, x)[y] = SubSeq(n, 1, x)[y]
    BY <2>1, <2>3, <2>4
  <2>6. SubSeq(m, 1, x) = SubSeq(n, 1, x)
    BY <2>3, <2>4, <2>5, SameSeq
  <2> QED BY <2>2, <2>6 DEF WayTo
<1>4. \A j \in 0 .. Len(n) : SubSeq(n, 1, j) \in Seq(Piece)
  BY OnTheWay
<1> QED BY <1>1, <1>2, <1>3, <1>4 DEF WayTo

LEMMA PrefixIn ==
  ASSUME NEW S, S \subseteq Piece, NEW n, NodeIn(n, S), NEW m \in WayTo(n)
  PROVE  NodeIn(m, S) /\ (m = <<"/">> => n = <<"/">> \/ "/" \in S)
<1>1. PICK j \in 0 .. Len(n) : m = SubSeq(n, 1, j)
  BY DEF WayTo
<1>2. CASE n \in Seq(S)
  <2>1. m \in Seq(S)
    BY <1>1, <1>2
  <2>2. m = <<"/">> => "/" \in S
    <3>1. \A x : <<x>> \in Seq(S) => x \in S
      OBVIOUS
    <3> QED BY <2>1, <3>1
  <2> QED BY <2>1, <2>2 DEF NodeIn
<1>3. CASE n = <<"/">>
  <2>1. ASSUME NEW x \in Piece, n = <<x>> PROVE m = <<>> \/ m = n
    <3>1. Len(n) = 1 /\ n \in Seq(Piece)
      BY <2>1, OnePiece
    <3>2. j = 0 \/ j = 1
      BY <3>1
    <3>3. SubSeq(n, 1, 0) = <<>> /\ SubSeq(n, 1, 1) = n
      BY <3>1
    <3> QED BY <1>1, <3>2, <3>3
  <2>2. m = <<>> \/ m = n
    BY <1>3, <2>1, Pieces
  <2>3. <<>> \in Seq(S)
    OBVIOUS
  <2>4. m = n => NodeIn(m, S)
    BY <1>3 DEF NodeIn
  <2>5. m = <<>> => NodeIn(m, S)
    BY <2>3 DEF NodeIn
  <2> QED BY <1>3, <2>2, <2>4, <2>5
<1> QED BY <1>2, <1>3 DEF NodeIn

LEMMA NoHandlersIs == NoHandlers \in Handlers /\ \A v \in Verbs : NoHandlers[v] = None
BY DEF NoHandlers, Handlers

LEMMA CreateIs ==
  ASSUME NEW t, TableOK(t), NEW ns, \A n \in ns : NodeIn(n, Piece \ {"/"}),
         NEW c, c = Create(t, ns)
  PROVE  /\ TableOK(c) /\ t.nodes \subseteq c.nodes /\ ns \subseteq c.nodes
         /\ \A m \in c.nodes : m \in t.nodes \/ \E n \in ns : m \in WayTo(n)
         /\ c.handlers = [m \in c.nodes |-> IF m \in t.nodes THEN t.handlers[m] ELSE NoHandlers]
<1> DEFINE M == t.nodes \cup UNION {WayTo(n) : n \in ns}
           H == [m \in M |-> IF m \in t.nodes THEN t.handlers[m] ELSE NoHandlers]
<1>1. c = [nodes |-> M, handlers |-> H]
  BY DEF Create, WayTo
<1>2. c.nodes = M /\ c.handlers = H
  BY <1>1
<1>3. \A n \in ns : n \in Seq(Piece)
  <2>1. \A n : n \in Seq(Piece \ {"/"}) => n \in Seq(Piece)
    OBVIOUS
  <2> QED BY <2>1, RootChild DEF NodeIn
<1>4. \A m \in M : m \in t.nodes \/ \E n \in ns : m \in WayTo(n)
  OBVIOUS
<1>5. \A n \in ns : n \in M /\ WayTo(n) \subseteq M
  BY <1>3, Prefixes
<1>6. M \subseteq Seq(Piece) /\ <<>> \in M
  <2>1. t.nodes \subseteq Seq(Piece) /\ <<>> \in t.nodes
    BY DEF TableOK
  <2> QED BY <1>3, <1>4, <2>1, Prefixes
<1>7. \A m \in M : \A j \in 0 .. Len(m) : SubSeq(m, 1, j) \in M
  <2>1. \A m \in t.nodes : \A j \in 0 .. Len(m) : SubSeq(m, 1, j) \in M
    BY DEF TableOK
  <2>2. \A n \in ns : \A m \in WayTo(n) : \A j \in 0 .. Len(m) : SubSeq(m, 1, j) \in M
    BY <1>3, <1>5, Prefixes
  <2> QED BY <1>4, <2>1, <2>2
<1>8. \A m \in M : NodeIn(m, Piece \ {"/"})
  <2>1. \A n \in ns : \A m \in WayTo(n) : NodeIn(m, Piece \ {"/"})
    BY PrefixIn
  <2>2. \A m \in t.nodes : NodeIn(m, Piece \ {"/"})
    BY DEF TableOK
  <2> QED BY <1>4, <2>1, <2>2
<1>9. H \in [M -> Handlers]
  <2>1. \A m \in t.nodes : t.handlers[m] \in Handlers
    BY DEF TableOK
  <2> QED BY <2>1, NoHandlersIs
<1> HIDE DEF M, H
<1>10. TableOK(c)
  BY <1>2, <1>6, <1>7, <1>8, <1>9 DEF TableOK
<1>11. t.nodes \subseteq M
  BY DEF M
<1> QED BY <1>2, <1>4, <1>5, <1>10, <1>11 DEF H

\* What a table has for a node and a verb, also for nodes that are not there.
Old(t, m, v) == IF m \in t.nodes THEN t.handlers[m][v] ELSE None

LEMMA OldIs ==
  ASSUME NEW t, TableOK(t), NEW m, NEW v \in Verbs
  PROVE  Old(t, m, v) \in Nat \cup {None}
<1>1. m \in t.nodes => t.handlers[m] \in Handlers
  BY DEF TableOK
<1> QED BY <1>1 DEF Old, Handlers

LEMMA WiderSeq ==
  ASSUME NEW S, NEW T, S \subseteq T, NEW n \in Seq(S)
  PROVE  n \in Seq(T)
OBVIOUS

LEMMA NodeOfIs ==
  ASSUME NEW route \in Seq(RoutePiece)
  PROVE  /\ NodeIn(NodeOf(route), RoutePiece) /\ NodeIn(NodeOf(route), Piece \ {"/"})
         /\ NodeOf(route) = <<"/">> <=> route = <<>>
         /\ route # <<>> => NodeOf(route) = route
         /\ route \in Seq(Piece)
<1>1. route \in Seq(Piece \ {"/"}) /\ route \in Seq(Piece)
  <2>1. RoutePiece \subseteq Piece \ {"/"} /\ RoutePiece \subseteq Piece
    BY DEF RoutePiece
  <2> QED BY <2>1, WiderSeq
<1>2. route # <<"/">>
  <2>1. \A S : \A x : <<x>> \in Seq(S) => x \in S
    OBVIOUS
  <2> QED BY <2>1 DEF RoutePiece
<1> QED BY <1>1, <1>2 DEF NodeOf, NodeIn

Plain(t) == \A n \in t.nodes : NodeIn(n, RoutePiece)

LEMMA StoreIs ==
  ASSUME NEW t, TableOK(t), NEW route \in Seq(RoutePiece), NEW verb \in Verbs, NEW h \in Nat,
         NEW w, w = Store(t, route, verb, h)
  PROVE  /\ TableOK(w) /\ t.nodes \subseteq w.nodes /\ NodeOf(route) \in w.nodes
         /\ Plain(t) => Plain(w)
         /\ <<"/">> \in w.nodes => <<"/">> \in t.nodes \/ route = <<>>
         /\ \A m \in w.nodes : \A v \in Verbs :
              w.handlers[m][v] =
                IF m = NodeOf(route) /\ v = verb /\ ~OutOfReach(t, route) /\ Old(t, m, v) = None
                THEN h ELSE Old(t, m, v)
<1> DEFINE n == NodeOf(route)
           c == Create(t, {n})
           keep == OutOfReach(t, route) \/ c.handlers[n][verb] # None
<1>1. NodeIn(n, RoutePiece) /\ NodeIn(n, Piece \ {"/"}) /\ (n = <<"/">> <=> route = <<>>)
  BY NodeOfIs
<1>2. /\ TableOK(c) /\ t.nodes \subseteq c.nodes /\ n \in c.nodes
      /\ \A m \in c.nodes : m \in t.nodes \/ m \in WayTo(n)
      /\ c.handlers = [m \in c.nodes |-> IF m \in t.nodes THEN t.handlers[m] ELSE NoHandlers]
  <2>1. \A x \in {n} : NodeIn(x, Piece \ {"/"})
    BY <1>1
  <2> HIDE DEF n
  <2>2. /\ TableOK(c) /\ t.nodes \subseteq c.nodes /\ {n} \subseteq c.nodes
        /\ \A m \in c.nodes : m \in t.nodes \/ \E x \in {n} : m \in WayTo(x)
        /\ c.handlers = [m \in c.nodes |-> IF m \in t.nodes THEN t.handlers[m] ELSE NoHandlers]
    BY <2>1, CreateIs
  <2> HIDE DEF c
  <2> QED BY <2>2
<1>3. w = IF keep THEN c ELSE [c EXCEPT !.handlers[n][verb] = h]
  BY DEF Store
<1>4. \E a, b : c = [nodes |-> a, handlers |-> b]
  BY DEF Create
<1> HIDE DEF c
<1>5. c.handlers \in [c.nodes -> Handlers]
  BY <1>2 DEF TableOK
<1>6. \A m \in c.nodes : \A v \in Verbs : c.handlers[m][v] = Old(t, m, v)
  BY <1>2, NoHandlersIs DEF Old
<1>7. w.nodes = c.nodes
  BY <1>3, <1>4
<1>8. w.handlers = IF keep THEN c.handlers ELSE [c.handlers EXCEPT ![n][verb] = h]
  BY <1>3, <1>4
<1> HIDE DEF n
<1>9. w.handlers \in [w.nodes -> Handlers]
  BY <1>2, <1>5, <1>7, <1>8 DEF Handlers
<1>10. TableOK(w)
  BY <1>2, <1>7, <1>9 DEF TableOK
<1>11. Plain(t) => Plain(w)
  <2> SUFFICES ASSUME Plain(t), NEW m \in w.nodes PROVE NodeIn(m, RoutePiece)
    BY DEF Plain
  <2>1. RoutePiece \subseteq Piece
    BY DEF RoutePiece
  <2>2. m \in WayTo(n) => NodeIn(m, RoutePiece)
    BY <1>1, <2>1, PrefixIn
  <2> QED BY <1>2, <1>7, <2>2 DEF Plain
<1>12. <<"/">> \in w.nodes => <<"/">> \in t.nodes \/ route = <<>>
  <2>1. RoutePiece \subseteq Piece /\ "/" \notin RoutePiece
    BY DEF RoutePiece
  <2>2. <<"/">> \in WayTo(n) => n = <<"/">>
    BY <1>1, <2>1, PrefixIn
  <2> QED BY <1>1, <1>2, <1>7, <2>2
<1>13. ASSUME NEW m \in w.nodes, NEW v \in Verbs
       PROVE  w.handlers[m][v] =
                IF m = n /\ v = verb /\ ~OutOfReach(t, route) /\ Old(t, m, v) = None
                THEN h ELSE Old(t, m, v)
  <2>1. c.handlers[n][verb] = Old(t, n, verb)
    BY <1>2, <1>6
  <2>2. CASE keep
    BY <1>6, <1>7, <1>8, <2>1, <2>2
  <2>3. CASE ~keep
    <3>1. w.handlers[m][v] = IF m = n /\ v = verb THEN h ELSE c.handlers[m][v]
      BY <1>5, <1>7, <1>8, <2>3 DEF Handlers
    <3> QED BY <1>6, <1>7, <2>1, <2>3, <3>1
  <2> QED BY <2>2, <2>3
<1> QED BY <1>2, <1>7, <1>10, <1>11, <1>12, <1>13 DEF n

-----------------------------------------------------------------------------
(***************************************************************************)
(* Registration of a blueprint.                                            *)
(***************************************************************************)
LEMMA ConcatIs ==
  ASSUME NEW S, NEW a \in Seq(S), NEW b \in Seq(S)
  PROVE  /\ a \o b \in Seq(S) /\ Len(a \o b) = Len(a) + Len(b)
         /\ Len(a) \in Nat /\ Len(b) \in Nat
         /\ \A j \in 1 .. Len(b) : (a \o b)[Len(a) + j] = b[j]
OBVIOUS

\* What follows the same prefix is the same.
LEMMA Cancel ==
  ASSUME NEW a \in Seq(Piece), NEW b \in Seq(Piece), NEW c \in Seq(Piece), a \o b = a \o c
  PROVE  b = c
<1>1. /\ Len(a \o b) = Len(a) + Len(b) /\ Len(a \o c) = Len(a) + Len(c)
      /\ Len(a) \in Nat /\ Len(b) \in Nat /\ Len(c) \in Nat
  BY ConcatIs
<1>2. Len(b) = Len(c)
  BY <1>1
<1>3. \A j \in 1 .. Len(b) : b[j] = (a \o b)[Len(a) + j]
  BY ConcatIs
<1>4. \A j \in 1 .. Len(c) : c[j] = (a \o c)[Len(a) + j]
  BY ConcatIs
<1> QED BY <1>2, <1>3, <1>4, SameSeq

LEMMA NotEmpty ==
  ASSUME NEW S, NEW a \in Seq(S), NEW b \in Seq(S), b # <<>>
  PROVE  a \o b # <<>>
<1>1. Len(b) # 0
  OBVIOUS
<1>2. Len(a \o b) # 0
  BY <1>1, ConcatIs
<1> QED BY <1>2

LEMMA NoSuchPiece ==
  ASSUME NEW S, NEW x, x \notin S
  PROVE  <<x>> \notin Seq(S)
OBVIOUS

\* Pieces of routes are neither empty nor a slash.
LEMMA RoutePieces ==
  /\ RoutePiece \subseteq Piece /\ RoutePiece \subseteq Piece \ {"/"}
  /\ <<"/">> \notin Seq(RoutePiece) /\ <<"">> \notin Seq(RoutePiece)
  /\ <<"">> \in Seq(Piece) /\ <<"">> \in Seq(Piece \ {"/"})
  /\ "" \in Piece
<1>1. "" \notin RoutePiece /\ "/" \notin RoutePiece
  BY DEF RoutePiece
<1>2. "" \in Piece /\ "" \in Piece \ {"/"}
  BY Pieces
<1>3. RoutePiece \subseteq Piece /\ RoutePiece \subseteq Piece \ {"/"}
  BY DEF RoutePiece
<1>4. \A S : \A x \in S : <<x>> \in Seq(S)
  OBVIOUS
<1> QED BY <1>1, <1>2, <1>3, <1>4, NoSuchPiece

\* Where a leaf other than the one of "/" is put.
LEMMA GraftPlain ==
  ASSUME NEW prefix \in Seq(RoutePiece), NEW leaf \in Seq(RoutePiece)
  PROVE  /\ Graft(prefix, leaf) = prefix \o leaf /\ prefix \o leaf \in Seq(RoutePiece)
         /\ prefix \o leaf # <<"/">> /\ prefix \o leaf # <<"">>
         /\ prefix \o leaf \in Seq(Piece)
         /\ leaf # <<>> => prefix \o leaf # <<>>
<1>1. leaf # <<"/">>
  BY RoutePieces
<1>2. prefix \o leaf \in Seq(RoutePiece)
  BY ConcatIs
<1>3. prefix \o leaf \in Seq(Piece)
  BY <1>2, RoutePieces, WiderSeq
<1>4. leaf # <<>> => prefix \o leaf # <<>>
  BY NotEmpty
<1> QED BY <1>1, <1>2, <1>3, <1>4, RoutePieces DEF Graft

LEMMA GraftSlash ==
  ASSUME NEW prefix \in Seq(RoutePiece)
  PROVE  /\ Graft(prefix, <<"/">>) = prefix \o <<"">>
         /\ prefix \o <<"">> \in Seq(Piece \ {"/"}) /\ prefix \o <<"">> # <<>>
         /\ prefix \in Seq(Piece)
<1>1. prefix \in Seq(Piece \ {"/"}) /\ prefix \in Seq(Piece)
  BY RoutePieces, WiderSeq
<1>2. <<"">> \in Seq(Piece \ {"/"}) /\ <<"">> # <<>>
  <2>1. \A x : <<x>> # <<>>
    OBVIOUS
  <2> QED BY <2>1, RoutePieces
<1>3. prefix \o <<"">> \in Seq(Piece \ {"/"})
  BY <1>1, <1>2, ConcatIs
<1>4. prefix \o <<"">> # <<>>
  BY <1>1, <1>2, NotEmpty
<1> QED BY <1>1, <1>3, <1>4 DEF Graft

LEMMA LandingIs ==
  ASSUME NEW prefix \in Seq(RoutePiece), NEW leaf, NodeIn(leaf, RoutePiece)
  PROVE  /\ NodeIn(Landing(prefix, leaf), Piece \ {"/"})
         /\ Landing(prefix, leaf) # <<"/">> => Landing(prefix, leaf) = Graft(prefix, leaf)
<1>1. CASE leaf = <<"/">>
  <2>1. Landing(prefix, leaf) = prefix \o <<"">>
    BY <1>1, GraftSlash DEF Landing, NodeOf
  <2> QED BY <1>1, <2>1, GraftSlash DEF NodeIn
<1>2. CASE leaf \in Seq(RoutePiece)
  <2>1. prefix \o leaf \in Seq(RoutePiece) /\ Graft(prefix, leaf) = prefix \o leaf
    BY <1>2, GraftPlain
  <2>2. NodeIn(NodeOf(prefix \o leaf), Piece \ {"/"})
    BY <2>1, NodeOfIs
  <2>3. NodeOf(prefix \o leaf) # <<"/">> => NodeOf(prefix \o leaf) = prefix \o leaf
    BY DEF NodeOf
  <2> QED BY <2>1, <2>2, <2>3 DEF Landing
<1> QED BY <1>1, <1>2 DEF NodeIn

\* No other leaf comes to where a leaf of a route other than "/" is put.
LEMMA OneComing ==
  ASSUME NEW prefix \in Seq(RoutePiece), NEW leaf \in Seq(RoutePiece), leaf # <<>>,
         NEW other, NodeIn(other, RoutePiece), Landing(prefix, other) = prefix \o leaf
  PROVE  other = leaf
<1>1. leaf \in Seq(Piece) /\ prefix \in Seq(Piece)
  BY RoutePieces, WiderSeq
<1>2. prefix \o leaf # <<"/">>
  BY GraftPlain
<1>3. Graft(prefix, other) = prefix \o leaf
  BY <1>2, LandingIs
<1>4. CASE other = <<"/">>
  <2>1. prefix \o <<"">> = prefix \o leaf
    BY <1>3, <1>4, GraftSlash
  <2>2. <<"">> = leaf
    BY <1>1, <2>1, Cancel, RoutePieces
  <2> QED BY <2>2, RoutePieces
<1>5. CASE other \in Seq(RoutePiece)
  <2>1. prefix \o other = prefix \o leaf /\ other \in Seq(Piece)
    BY <1>3, <1>5, GraftPlain, RoutePieces, WiderSeq
  <2> QED BY <1>1, <2>1, Cancel
<1> QED BY <1>4, <1>5 DEF NodeIn

LEMMA WithBlueprintIs ==
  ASSUME NEW t, TableOK(t), NEW bp, TableOK(bp), Plain(bp), NEW prefix \in Seq(RoutePiece),
         NEW r, r = WithBlueprint(t, prefix, bp)
  PROVE  /\ TableOK(r) /\ t.nodes \subseteq r.nodes
         /\ \A m \in t.nodes :
              m # <<"/">> /\ (\A l \in Leaves(bp) : Graft(prefix, l) # m) =>
                r.handlers[m] = t.handlers[m]
         /\ \A leaf \in Leaves(bp) \ {<<>>, <<"/">>} :
              prefix \o leaf \in r.nodes /\ r.handlers[prefix \o leaf] = bp.handlers[leaf]
<1> DEFINE L == Reaching(t, prefix, Leaves(bp))
           ns == {Landing(prefix, leaf) : leaf \in L}
           c == Create(t, ns)
           Coming(n) == {leaf \in L : Landing(prefix, leaf) = n}
           H == [n \in c.nodes |-> IF Coming(n) = {} THEN c.handlers[n]
                                    ELSE bp.handlers[CHOOSE leaf \in Coming(n) : TRUE]]
<1>1. \A l \in Leaves(bp) : l \in bp.nodes /\ NodeIn(l, RoutePiece)
  BY DEF Leaves, Plain
<1>2. L \subseteq Leaves(bp)
  BY DEF Reaching
<1>3. \A n \in ns : NodeIn(n, Piece \ {"/"})
  BY <1>1, <1>2, LandingIs
<1>4. r = [c EXCEPT !.handlers = H]
  BY DEF WithBlueprint
<1>5. \E a, b : c = [nodes |-> a, handlers |-> b]
  BY DEF Create
<1> HIDE DEF L, ns
<1>6. /\ TableOK(c) /\ t.nodes \subseteq c.nodes /\ ns \subseteq c.nodes
      /\ c.handlers = [m \in c.nodes |-> IF m \in t.nodes THEN t.handlers[m] ELSE NoHandlers]
  BY <1>3, CreateIs
<1> HIDE DEF c
<1>7. r.nodes = c.nodes /\ r.handlers = H
  BY <1>4, <1>5
<1>8. ASSUME NEW n, Coming(n) # {} PROVE (CHOOSE leaf \in Coming(n) : TRUE) \in Coming(n)
  BY <1>8
<1>9. H \in [c.nodes -> Handlers]
  <2>1. \A n \in c.nodes : c.handlers[n] \in Handlers
    BY <1>6 DEF TableOK
  <2>2. \A l \in bp.nodes : bp.handlers[l] \in Handlers
    BY DEF TableOK
  <2>3. \A n : Coming(n) \subseteq bp.nodes
    BY <1>1, <1>2
  <2> HIDE DEF Coming
  <2>4. \A n \in c.nodes :
          (IF Coming(n) = {} THEN c.handlers[n]
           ELSE bp.handlers[CHOOSE leaf \in Coming(n) : TRUE]) \in Handlers
    BY <1>8, <2>1, <2>2, <2>3
  <2> QED BY <2>4
<1>10. TableOK(r)
  <2> HIDE DEF H
  <2> QED BY <1>6, <1>7, <1>9 DEF TableOK
<1>11. ASSUME NEW m \in t.nodes, m # <<"/">>, \A l \in Leaves(bp) : Graft(prefix, l) # m
       PROVE  r.handlers[m] = t.handlers[m]
  <2>1. \A l \in Leaves(bp) : Landing(prefix, l) # m
    BY <1>1, <1>11, LandingIs
  <2>2. Coming(m) = {}
    BY <1>2, <2>1
  <2> HIDE DEF Coming
  <2> QED BY <1>6, <1>7, <2>2
<1>12. ASSUME NEW leaf \in Leaves(bp) \ {<<>>, <<"/">>}
       PROVE  prefix \o leaf \in r.nodes /\ r.handlers[prefix \o leaf] = bp.handlers[leaf]
  <2> DEFINE n == prefix \o leaf
  <2>1. leaf \in Seq(RoutePiece) /\ leaf # <<>> /\ leaf \in Leaves(bp)
    BY <1>1, <1>12 DEF NodeIn
  <2>2. Graft(prefix, leaf) = n /\ n # <<>>
    BY <2>1, GraftPlain
  <2>3. Landing(prefix, leaf) = n /\ leaf \in L
    BY <2>1, <2>2 DEF Landing, NodeOf, L, Reaching, OutOfReach
  <2>4. n \in c.nodes
    BY <1>6, <2>3 DEF ns
  <2>5. leaf \in Coming(n)
    BY <2>3
  <2>6. \A o \in Coming(n) : o = leaf
    BY <1>1, <1>2, <2>1, OneComing
  <2> HIDE DEF Coming, n
  <2>7. Coming(n) # {} /\ (CHOOSE o \in Coming(n) : TRUE) = leaf
    BY <1>8, <2>5, <2>6
  <2> QED BY <1>7, <2>4, <2>7 DEF n
<1> QED BY <1>6, <1>7, <1>10, <1>11, <1>12

-----------------------------------------------------------------------------
(***************************************************************************)
(* The inductive invariant.                                                *)
(***************************************************************************)
TablesOK ==
  /\ DOMAIN table = {"server", "blueprint"}
  /\ TableOK(table.server) /\ TableOK(table.blueprint) /\ Plain(table.blueprint)

RegOK == reg \in Seq([in : {"server", "blueprint"}, route : Seq(RoutePiece), verb : Verbs])

Least(S, x) == x \in S /\ \A y \in S : x <= y

\* The calls of handle on the server for a route and verb, and for the route "/".
Calls(r, v) ==
  {j \in 1 .. Len(reg) : reg[j].in = "server" /\ reg[j].route = r /\ reg[j].verb = v}
RootCalls == {j \in 1 .. Len(reg) : reg[j].in = "server" /\ reg[j].route = <<>>}

\* As long as no blueprint is registered, the server has at each route the
\* handlers of the first calls for it.
FirstStays(r, v) ==
  /\ Calls(r, v) = {} => Old(table.server, r, v) = None
  /\ \A x : Least(Calls(r, v), x) => r \in table.server.nodes /\ table.server.handlers[r][v] = x

RootStays ==
  /\ <<"/">> \in table.server.nodes => RootCalls # {}
  /\ \A x : Least(RootCalls, x) =>
       <<"/">> \in table.server.nodes /\ table.server.handlers[<<"/">>][reg[x].verb] = x

Stored ==
  grafted = <<>> =>
    (\A r \in Seq(RoutePiece) \ {<<>>} : \A v \in Verbs : FirstStays(r, v)) /\ RootStays

GraftsOK ==
  /\ \E S : grafted \in Seq(S)
  /\ \A i \in 1 .. Len(grafted) :
       grafted[i].prefix \in Seq(RoutePiece) /\ TableOK(grafted[i].bp) /\ Plain(grafted[i].bp)

\* A leaf of a blueprint that was registered has its handlers at the server until
\* the blueprint comes there again.
Alone(i, n) ==
  \A j \in i + 1 .. Len(grafted) : \A l \in Leaves(grafted[j].bp) : Graft(grafted[j].prefix, l) # n

Has(n, handlers) ==
  /\ n \in table.server.nodes
  /\ \A v \in Verbs : handlers[v] # None => table.server.handlers[n][v] = handlers[v]

Landed ==
  \A i \in 1 .. Len(grafted) :
    \A leaf \in Leaves(grafted[i].bp) \ {<<>>, <<"/">>} :
      Alone(i, grafted[i].prefix \o leaf) =>
        Has(grafted[i].prefix \o leaf, grafted[i].bp.handlers[leaf])

IInv == TablesOK /\ RegOK /\ Stored /\ GraftsOK /\ Landed

LEMMA EmptyIs ==
  /\ TableOK(Empty) /\ Plain(Empty) /\ Empty.nodes = {<<>>}
<1>1. Empty.nodes = {<<>>} /\ Empty.handlers = [n \in {<<>>} |-> NoHandlers]
  BY DEF Empty
<1>2. \A n \in Empty.nodes : n = <<>> /\ n \in Seq(Piece)
  BY <1>1
<1>3. \A n \in Empty.nodes : \A j \in 0 .. Len(n) : SubSeq(n, 1, j) \in Empty.nodes
  BY <1>1
<1>4. \A S : <<>> \in Seq(S)
  OBVIOUS
<1>5. \A n \in Empty.nodes : NodeIn(n, Piece \ {"/"}) /\ NodeIn(n, RoutePiece)
  BY <1>2, <1>4 DEF NodeIn
<1>6. Empty.handlers \in [Empty.nodes -> Handlers]
  BY <1>1, NoHandlersIs
<1> QED BY <1>1, <1>2, <1>3, <1>5, <1>6 DEF TableOK, Plain

LEMMA InitIInv == ASSUME Init PROVE IInv
<1>1. table = [server |-> Empty, blueprint |-> Empty]
  BY DEF Init
<1>2. DOMAIN table = {"server", "blueprint"} /\ table.server = Empty /\ table.blueprint = Empty
  BY <1>1
<1>3. TablesOK
  BY <1>2, EmptyIs DEF TablesOK
<1>4. reg = <<>> /\ grafted = <<>>
  BY DEF Init
<1>5. \A S : <<>> \in Seq(S)
  OBVIOUS
<1>6. RegOK
  BY <1>4, <1>5 DEF RegOK
<1>7. 1 .. Len(reg) = {} /\ 1 .. Len(grafted) = {}
  BY <1>4
<1>8. GraftsOK /\ Landed
  BY <1>4, <1>5, <1>7 DEF GraftsOK, Landed
<1>9. \A r, v : Calls(r, v) = {}
  BY <1>7 DEF Calls
<1>10. RootCalls = {}
  BY <1>7 DEF RootCalls
<1>11. \A r : r # <<>> => \A v : Old(table.server, r, v) = None
  BY <1>2, EmptyIs DEF Old
<1>12. <<"/">> \notin table.server.nodes
  <2>1. \A x : <<x>> # <<>>
    OBVIOUS
  <2> QED BY <1>2, <2>1, EmptyIs
<1>13. Stored
  BY <1>9, <1>10, <1>11, <1>12 DEF Stored, FirstStays, RootStays, Least
<1> QED BY <1>3, <1>6, <1>8, <1>13 DEF IInv

\* The constants as the actions use them.
LEMMA Given ==
  /\ \A which \in Targets : \A route \in Routes[which] : route \in Seq(RoutePiece)
  /\ \A prefix \in UrlPrefixes : prefix \in Seq(RoutePiece)
  /\ Targets \subseteq {"server", "blueprint"}
BY ConstantsAssumption

LEMMA NoneIs == \A x \in Nat : x # None
BY ConstantsAssumption

LEMMA RegIs ==
  ASSUME IInv, NEW j \in 1 .. Len(reg)
  PROVE  reg[j].route \in Seq(RoutePiece) /\ reg[j].verb \in Verbs
<1> DEFINE R == [in : {"server", "blueprint"}, route : Seq(RoutePiece), verb : Verbs]
<1>1. reg \in Seq(R)
  BY DEF IInv, RegOK
<1>2. reg[j] \in R
  <2> HIDE DEF R
  <2> QED BY <1>1
<1> QED BY <1>2

\* One more call of handle.
LEMMA RegGrows ==
  ASSUME IInv, NEW which \in {"server", "blueprint"}, NEW route \in Seq(RoutePiece),
         NEW verb \in Verbs, reg' = Append(reg, [in |-> which, route |-> route, verb |-> verb])
  PROVE  /\ RegOK' /\ Len(reg) \in Nat /\ Len(reg') = Len(reg) + 1
         /\ \A j \in 1 .. Len(reg) : reg'[j] = reg[j]
         /\ LET new == reg'[Len(reg) + 1]
            IN  new.in = which /\ new.route = route /\ new.verb = verb
<1> DEFINE R == [in : {"server", "blueprint"}, route : Seq(RoutePiece), verb : Verbs]
           x == [in |-> which, route |-> route, verb |-> verb]
<1>1. x \in R /\ x.in = which /\ x.route = route /\ x.verb = verb
  OBVIOUS
<1>2. reg \in Seq(R)
  BY DEF IInv, RegOK
<1>3. reg' = Append(reg, x)
  OBVIOUS
<1> HIDE DEF R, x
<1>4. reg' \in Seq(R)
  BY <1>1, <1>2, <1>3
<1>5. Len(reg) \in Nat /\ Len(reg') = Len(reg) + 1
  BY <1>1, <1>2, <1>3
<1>6. \A j \in 1 .. Len(reg) : reg'[j] = reg[j]
  BY <1>1, <1>2, <1>3
<1>7. reg'[Len(reg) + 1] = x
  BY <1>1, <1>2, <1>3
<1>8. RegOK'
  BY <1>4 DEF R, RegOK
<1> QED BY <1>1, <1>5, <1>6, <1>7, <1>8

LEMMA CallsGrow ==
  ASSUME IInv, NEW which \in {"server", "blueprint"}, NEW route \in Seq(RoutePiece),
         NEW verb \in Verbs, reg' = Append(reg, [in |-> which, route |-> route, verb |-> verb])
  PROVE  /\ \A r, v : Calls(r, v)' =
              IF which = "server" /\ r = route /\ v = verb THEN Calls(r, v) \cup {Len(reg) + 1}
              ELSE Calls(r, v)
         /\ RootCalls' = IF which = "server" /\ route = <<>> THEN RootCalls \cup {Len(reg) + 1}
                         ELSE RootCalls
<1> DEFINE h == Len(reg) + 1
<1>1. /\ Len(reg') = h
      /\ \A j \in 1 .. Len(reg) : reg'[j] = reg[j]
      /\ reg'[h].in = which /\ reg'[h].route = route /\ reg'[h].verb = verb
  BY RegGrows
<1>2. 1 .. Len(reg') = (1 .. Len(reg)) \cup {h} /\ h \notin 1 .. Len(reg)
  <2>1. Len(reg) \in Nat
    BY RegGrows
  <2> QED BY <1>1, <2>1
<1> HIDE DEF h
<1>3. ASSUME NEW r, NEW v
      PROVE  Calls(r, v)' =
               IF which = "server" /\ r = route /\ v = verb THEN Calls(r, v) \cup {h}
               ELSE Calls(r, v)
  <2>1. Calls(r, v)' = {j \in 1 .. Len(reg') : reg'[j].in = "server" /\ reg'[j].route = r
                                                  /\ reg'[j].verb = v}
    BY DEF Calls
  <2> QED BY <1>1, <1>2, <2>1 DEF Calls
<1>4. RootCalls' = IF which = "server" /\ route = <<>> THEN RootCalls \cup {h} ELSE RootCalls
  <2>1. RootCalls' = {j \in 1 .. Len(reg') : reg'[j].in = "server" /\ reg'[j].route = <<>>}
    BY DEF RootCalls
  <2> QED BY <1>1, <1>2, <2>1 DEF RootCalls
<1> QED BY <1>3, <1>4 DEF h

\* A later call is not the first, unless it is the only one.
LEMMA LeastOf ==
  ASSUME NEW S, NEW n \in Nat, S \subseteq 1 .. n, NEW x, Least(S \cup {n + 1}, x)
  PROVE  IF S = {} THEN x = n + 1 ELSE Least(S, x)
<1>1. CASE S = {}
  BY <1>1 DEF Least
<1>2. CASE S # {}
  <2>1. PICK y \in S : TRUE
    BY <1>2
  <2>2. y \in 1 .. n /\ x <= y /\ x \in S \cup {n + 1}
    BY <2>1 DEF Least
  <2>3. x # n + 1
    BY <2>2
  <2> QED BY <1>2, <2>2, <2>3 DEF Least
<1> QED BY <1>1, <1>2

LEMMA HandleServer ==
  ASSUME IInv, NEW route \in Seq(RoutePiece), NEW verb \in Verbs, Handle("server", route, verb)
  PROVE  IInv'
<1> DEFINE t == table.server
           w == table'.server
           h == Len(reg) + 1
<1>1. TableOK(t) /\ DOMAIN table = {"server", "blueprint"}
  BY DEF IInv, TablesOK
<1>2. reg' = Append(reg, [in |-> "server", route |-> route, verb |-> verb])
      /\ grafted' = grafted
  BY DEF Handle
<1>3. Len(reg) \in Nat /\ RegOK' /\ \A j \in 1 .. Len(reg) : reg'[j] = reg[j]
  BY <1>2, RegGrows
<1>4. reg'[h].verb = verb
  BY <1>2, RegGrows
<1>5. h \in Nat
  BY <1>3
<1>6. w = Store(t, route, verb, h) /\ table'.blueprint = table.blueprint
      /\ DOMAIN table' = {"server", "blueprint"}
  BY <1>1 DEF Handle
<1>7. /\ TableOK(w) /\ t.nodes \subseteq w.nodes /\ NodeOf(route) \in w.nodes
      /\ <<"/">> \in w.nodes => <<"/">> \in t.nodes \/ route = <<>>
      /\ \A m \in w.nodes : \A v \in Verbs :
           w.handlers[m][v] =
             IF m = NodeOf(route) /\ v = verb /\ ~OutOfReach(t, route) /\ Old(t, m, v) = None
             THEN h ELSE Old(t, m, v)
  <2> HIDE DEF t, w, h
  <2> QED BY <1>1, <1>5, <1>6, StoreIs
<1>8. \A r, v : Calls(r, v)' = IF r = route /\ v = verb THEN Calls(r, v) \cup {h} ELSE Calls(r, v)
  BY <1>2, CallsGrow
<1>9. RootCalls' = IF route = <<>> THEN RootCalls \cup {h} ELSE RootCalls
  BY <1>2, CallsGrow
<1>10. TablesOK'
  BY <1>6, <1>7 DEF IInv, TablesOK
<1>11. \A r, v : Calls(r, v) \subseteq 1 .. Len(reg)
  BY DEF Calls
<1>12. RootCalls \subseteq 1 .. Len(reg)
  BY DEF RootCalls
<1> HIDE DEF t, w, h
<1>13. ASSUME NEW r \in Seq(RoutePiece) \ {<<>>}, NEW v \in Verbs, FirstStays(r, v)
       PROVE  FirstStays(r, v)'
  <2> DEFINE C == Calls(r, v)
  <2>1. r # <<"/">>
    BY RoutePieces
  <2>2. NodeOf(route) = r <=> route = r
    BY <2>1 DEF NodeOf
  <2>3. /\ C = {} => Old(t, r, v) = None
        /\ \A x : Least(C, x) => r \in t.nodes /\ t.handlers[r][v] = x
    BY <1>13 DEF FirstStays, t
  <2>4. Calls(r, v)' = IF r = route /\ v = verb THEN C \cup {h} ELSE C
    BY <1>8
  <2>5. C \subseteq 1 .. Len(reg)
    BY <1>11
  <2> HIDE DEF C
  <2>6. CASE ~(r = route /\ v = verb)
    <3>1. \A m \in w.nodes : m = r => w.handlers[m][v] = Old(t, m, v)
      BY <1>7, <2>2, <2>6
    <3>2. C = {} => Old(w, r, v) = None
      BY <2>3, <3>1 DEF Old
    <3>3. \A x : Least(C, x) => r \in w.nodes /\ w.handlers[r][v] = x
      BY <1>7, <2>3, <3>1 DEF Old
    <3>4. Calls(r, v)' = C
      BY <2>4, <2>6
    <3> QED BY <3>2, <3>3, <3>4 DEF FirstStays, w, Old
  <2>7. CASE r = route /\ v = verb
    <3>1. r \in w.nodes /\ NodeOf(route) = r /\ ~OutOfReach(t, route)
      BY <1>7, <2>2, <2>7 DEF OutOfReach
    <3>2. w.handlers[r][v] = IF Old(t, r, v) = None THEN h ELSE Old(t, r, v)
      BY <1>7, <2>7, <3>1
    <3>3. Calls(r, v)' = C \cup {h}
      BY <2>4, <2>7
    <3>4. ASSUME NEW x, Least(C \cup {h}, x) PROVE w.handlers[r][v] = x
      <4>1. IF C = {} THEN x = h ELSE Least(C, x)
        BY <1>3, <2>5, <3>4, LeastOf DEF h
      <4>2. CASE C = {}
        BY <2>3, <3>2, <4>1, <4>2
      <4>3. CASE C # {}
        <5>1. Old(t, r, v) = x /\ x \in 1 .. Len(reg)
          BY <2>3, <2>5, <4>1, <4>3 DEF Old, Least
        <5>2. x # None
          BY <1>3, <5>1, NoneIs
        <5> QED BY <3>2, <5>1, <5>2
      <4> QED BY <4>2, <4>3
    <3>5. Calls(r, v)' # {}
      BY <3>3
    <3> QED BY <3>1, <3>3, <3>4, <3>5 DEF FirstStays, w
  <2> QED BY <2>6, <2>7
<1>14. ASSUME RootStays PROVE RootStays'
  <2> DEFINE C == RootCalls
  <2>1. /\ <<"/">> \in t.nodes => C # {}
        /\ \A x : Least(C, x) =>
             <<"/">> \in t.nodes /\ t.handlers[<<"/">>][reg[x].verb] = x
    BY <1>14 DEF RootStays, t
  <2>2. RootCalls' = IF route = <<>> THEN C \cup {h} ELSE C
    BY <1>9
  <2>3. C \subseteq 1 .. Len(reg)
    BY <1>12
  <2>4. \A x \in C : reg'[x].verb = reg[x].verb /\ reg[x].verb \in Verbs
    <3>1. \A x \in 1 .. Len(reg) : reg[x].verb \in Verbs
      BY RegIs
    <3> QED BY <1>3, <2>3, <3>1
  <2>5. NodeOf(route) = <<"/">> <=> route = <<>>
    BY NodeOfIs
  <2> HIDE DEF C
  <2>6. CASE route # <<>> \/ <<"/">> \in t.nodes
    <3>1. ASSUME NEW x, Least(RootCalls', x) PROVE Least(C, x)
      <4>1. CASE route = <<>>
        BY <1>3, <2>1, <2>2, <2>3, <2>6, <3>1, <4>1, LeastOf DEF h
      <4>2. CASE route # <<>>
        BY <2>2, <3>1, <4>2
      <4> QED BY <4>1, <4>2
    <3>2. \A v \in Verbs : <<"/">> \in t.nodes =>
            <<"/">> \in w.nodes /\ w.handlers[<<"/">>][v] = t.handlers[<<"/">>][v]
      BY <1>7, <2>5 DEF Old, OutOfReach
    <3>3. ASSUME NEW x, Least(RootCalls', x)
          PROVE  <<"/">> \in w.nodes /\ w.handlers[<<"/">>][reg'[x].verb] = x
      <4>1. Least(C, x)
        BY <3>1, <3>3
      <4>2. x \in C
        BY <4>1 DEF Least
      <4> QED BY <2>1, <2>4, <3>2, <4>1, <4>2
    <3>4. <<"/">> \in w.nodes => RootCalls' # {}
      BY <1>7, <2>1, <2>2, <2>6
    <3> QED BY <3>3, <3>4 DEF RootStays, w
  <2>7. CASE route = <<>> /\ <<"/">> \notin t.nodes
    <3>1. C = {}
      <4>1. ASSUME C # {} PROVE FALSE
        <5>1. C \in SUBSET Nat
          BY <1>3, <2>3
        <5>2. \E x \in C : \A y \in C : x <= y
          BY <4>1, <5>1, LeastMember
        <5> QED BY <2>1, <2>7, <5>2 DEF Least
      <4> QED BY <4>1
    <3>2. <<"/">> \in w.nodes /\ w.handlers[<<"/">>][verb] = h
      BY <1>7, <2>5, <2>7 DEF Old, OutOfReach
    <3>3. RootCalls' = {h}
      BY <2>2, <2>7, <3>1
    <3>4. \A x : Least(RootCalls', x) => x = h
      BY <3>3 DEF Least
    <3> QED BY <1>4, <3>2, <3>3, <3>4 DEF RootStays, w
  <2> QED BY <2>6, <2>7
<1>15. Stored'
  BY <1>2, <1>13, <1>14 DEF IInv, Stored
<1>16. GraftsOK'
  BY <1>2 DEF IInv, GraftsOK
<1>17. ASSUME NEW n, NEW handlers, n # <<"/">>, Has(n, handlers) PROVE Has(n, handlers)'
  <2>1. n \in t.nodes /\ \A v \in Verbs : handlers[v] # None => t.handlers[n][v] = handlers[v]
    BY <1>17 DEF Has, t
  <2>2. n \in w.nodes /\ \A v \in Verbs : handlers[v] # None => w.handlers[n][v] = handlers[v]
    BY <1>7, <2>1 DEF Old
  <2> QED BY <2>2 DEF Has, w
<1>18. Landed'
  <2> SUFFICES ASSUME NEW i \in 1 .. Len(grafted),
                      NEW leaf \in Leaves(grafted[i].bp) \ {<<>>, <<"/">>},
                      Alone(i, grafted[i].prefix \o leaf)
               PROVE  Has(grafted[i].prefix \o leaf, grafted[i].bp.handlers[leaf])'
    BY <1>2 DEF Landed, Alone
  <2>1. Has(grafted[i].prefix \o leaf, grafted[i].bp.handlers[leaf])
    BY DEF IInv, Landed
  <2>2. grafted[i].prefix \o leaf # <<"/">>
    <3>1. grafted[i].prefix \in Seq(RoutePiece) /\ leaf \in Seq(RoutePiece)
      BY DEF IInv, GraftsOK, Plain, Leaves, NodeIn
    <3> QED BY <3>1, GraftPlain
  <2> QED BY <1>2, <1>17, <2>1, <2>2
<1> QED BY <1>3, <1>10, <1>15, <1>16, <1>18 DEF IInv

LEMMA LandedStays ==
  ASSUME Landed, table'.server = table.server, grafted' = grafted
  PROVE  Landed'
<1> SUFFICES ASSUME NEW i \in 1 .. Len(grafted),
                    NEW leaf \in Leaves(grafted[i].bp) \ {<<>>, <<"/">>},
                    Alone(i, grafted[i].prefix \o leaf)
             PROVE  Has(grafted[i].prefix \o leaf, grafted[i].bp.handlers[leaf])'
  <2>1. \A i \in 1 .. Len(grafted) : \A leaf \in Leaves(grafted[i].bp) :
          Alone(i, grafted[i].prefix \o leaf)' <=> Alone(i, grafted[i].prefix \o leaf)
    BY DEF Alone
  <2> QED BY <2>1 DEF Landed
<1>1. Has(grafted[i].prefix \o leaf, grafted[i].bp.handlers[leaf])
  BY DEF Landed
<1> QED BY <1>1 DEF Has

LEMMA HandleBlueprint ==
  ASSUME IInv, NEW route \in Seq(RoutePiece), NEW verb \in Verbs, Handle("blueprint", route, verb)
  PROVE  IInv'
<1> DEFINE t == table.blueprint
           w == table'.blueprint
           h == Len(reg) + 1
<1>1. TableOK(t) /\ Plain(t) /\ DOMAIN table = {"server", "blueprint"}
  BY DEF IInv, TablesOK
<1>2. reg' = Append(reg, [in |-> "blueprint", route |-> route, verb |-> verb])
      /\ grafted' = grafted
  BY DEF Handle
<1>3. Len(reg) \in Nat /\ RegOK' /\ \A j \in 1 .. Len(reg) : reg'[j] = reg[j]
  BY <1>2, RegGrows
<1>4. h \in Nat
  BY <1>3
<1>5. w = Store(t, route, verb, h) /\ table'.server = table.server
      /\ DOMAIN table' = {"server", "blueprint"}
  BY <1>1 DEF Handle
<1>6. TableOK(w) /\ Plain(w)
  <2> HIDE DEF t, w, h
  <2> QED BY <1>1, <1>4, <1>5, StoreIs
<1>7. TablesOK'
  BY <1>5, <1>6 DEF IInv, TablesOK
<1>8. "server" # "blueprint"
  OBVIOUS
<1>9. \A r, v : Calls(r, v)' = Calls(r, v)
  BY <1>2, <1>8, CallsGrow
<1>10. RootCalls' = RootCalls
  BY <1>2, <1>8, CallsGrow
<1>11. \A r, v : FirstStays(r, v) => FirstStays(r, v)'
  BY <1>5, <1>9 DEF FirstStays, Old
<1>12. RootStays => RootStays'
  <2>1. \A x : Least(RootCalls, x) => reg'[x] = reg[x]
    BY <1>3 DEF Least, RootCalls
  <2> QED BY <1>5, <1>10, <2>1 DEF RootStays
<1>13. Stored'
  BY <1>2, <1>11, <1>12 DEF IInv, Stored
<1>14. GraftsOK'
  BY <1>2 DEF IInv, GraftsOK
<1>15. Landed'
  BY <1>2, <1>5, LandedStays DEF IInv
<1> QED BY <1>3, <1>7, <1>13, <1>14, <1>15 DEF IInv

LEMMA AddBlueprintIInv ==
  ASSUME IInv, NEW prefix \in Seq(RoutePiece), AddBlueprint(prefix)
  PROVE  IInv'
<1> DEFINE t == table.server
           bp == table.blueprint
           w == table'.server
           k == Len(grafted) + 1
           g == [prefix |-> prefix, bp |-> bp]
<1>1. TableOK(t) /\ TableOK(bp) /\ Plain(bp) /\ DOMAIN table = {"server", "blueprint"}
  BY DEF IInv, TablesOK
<1>2. w = WithBlueprint(t, prefix, bp) /\ table'.blueprint = bp
      /\ DOMAIN table' = {"server", "blueprint"}
  BY <1>1 DEF AddBlueprint
<1>3. reg' = reg /\ grafted' = Append(grafted, g)
  BY DEF AddBlueprint
<1>4. g.prefix = prefix /\ g.bp = bp
  OBVIOUS
<1> HIDE DEF t, bp, w, g
<1>5. /\ TableOK(w) /\ t.nodes \subseteq w.nodes
      /\ \A m \in t.nodes :
           m # <<"/">> /\ (\A l \in Leaves(bp) : Graft(prefix, l) # m) =>
             w.handlers[m] = t.handlers[m]
      /\ \A leaf \in Leaves(bp) \ {<<>>, <<"/">>} :
           prefix \o leaf \in w.nodes /\ w.handlers[prefix \o leaf] = bp.handlers[leaf]
  BY <1>1, <1>2, WithBlueprintIs
<1>6. TablesOK'
  BY <1>1, <1>2, <1>5 DEF TablesOK, w, bp
<1>7. PICK S : grafted \in Seq(S)
  BY DEF IInv, GraftsOK
<1>8. /\ Len(grafted) \in Nat /\ Len(grafted') = k /\ grafted'[k] = g
      /\ \A j \in 1 .. Len(grafted) : grafted'[j] = grafted[j]
      /\ grafted' \in Seq(S \cup {g}) /\ grafted' # <<>>
  <2>1. grafted \in Seq(S \cup {g}) /\ g \in S \cup {g}
    BY <1>7
  <2> QED BY <1>3, <2>1
<1>9. 1 .. Len(grafted') = (1 .. Len(grafted)) \cup {k}
  BY <1>8
<1>10. RegOK' /\ Stored'
  BY <1>3, <1>8 DEF IInv, RegOK, Stored
<1>11. GraftsOK'
  <2>1. \A j \in 1 .. Len(grafted) :
          /\ grafted[j].prefix \in Seq(RoutePiece)
          /\ TableOK(grafted[j].bp) /\ Plain(grafted[j].bp)
    BY DEF IInv, GraftsOK
  <2>2. \A j \in 1 .. Len(grafted') :
          /\ grafted'[j].prefix \in Seq(RoutePiece)
          /\ TableOK(grafted'[j].bp) /\ Plain(grafted'[j].bp)
    <3> HIDE DEF k
    <3> QED BY <1>1, <1>4, <1>8, <1>9, <2>1
  <2>3. \E T : grafted' \in Seq(T)
    BY <1>8
  <2> QED BY <2>2, <2>3 DEF GraftsOK
<1>12. ASSUME NEW i \in 1 .. Len(grafted),
              NEW leaf \in Leaves(grafted[i].bp) \ {<<>>, <<"/">>},
              Alone(i, grafted[i].prefix \o leaf)'
       PROVE  Has(grafted[i].prefix \o leaf, grafted[i].bp.handlers[leaf])'
  <2> DEFINE n == grafted[i].prefix \o leaf
             H == grafted[i].bp.handlers[leaf]
  <2>1. n # <<"/">>
    <3>1. grafted[i].prefix \in Seq(RoutePiece) /\ leaf \in Seq(RoutePiece)
      BY DEF IInv, GraftsOK, Plain, Leaves, NodeIn
    <3> QED BY <3>1, GraftPlain
  <2>2. grafted'[i] = grafted[i]
    BY <1>8
  <2>3. \A j \in i + 1 .. Len(grafted') : \A l \in Leaves(grafted'[j].bp) :
          Graft(grafted'[j].prefix, l) # n
    BY <1>12, <2>2 DEF Alone
  <2>4. \A j \in i + 1 .. Len(grafted) : j \in i + 1 .. Len(grafted') /\ grafted'[j] = grafted[j]
    BY <1>8
  <2>5. k \in i + 1 .. Len(grafted')
    BY <1>8
  <2> HIDE DEF k
  <2>6. Alone(i, n)
    BY <2>3, <2>4 DEF Alone
  <2>7. \A l \in Leaves(bp) : Graft(prefix, l) # n
    BY <1>4, <1>8, <2>3, <2>5
  <2>8. Has(n, H)
    BY <2>6 DEF IInv, Landed
  <2>9. n \in t.nodes /\ \A v \in Verbs : H[v] # None => t.handlers[n][v] = H[v]
    BY <2>8 DEF Has, t
  <2>10. n \in w.nodes /\ \A v \in Verbs : H[v] # None => w.handlers[n][v] = H[v]
    <3> HIDE DEF n, H
    <3> QED BY <1>5, <2>1, <2>7, <2>9
  <2>11. n' = n /\ H' = H
    BY <2>2
  <2> HIDE DEF n, H
  <2>12. Has(n, H)'
    BY <2>10, <2>11 DEF Has, w
  <2> QED BY <2>12 DEF n, H
<1>13. ASSUME NEW leaf \in Leaves(bp) \ {<<>>, <<"/">>}
       PROVE  /\ prefix \o leaf \in w.nodes
              /\ \A v \in Verbs : w.handlers[prefix \o leaf][v] = bp.handlers[leaf][v]
  BY <1>5
<1>14. Landed'
  <2> SUFFICES ASSUME NEW i \in 1 .. Len(grafted'),
                      NEW leaf \in Leaves(grafted'[i].bp) \ {<<>>, <<"/">>},
                      Alone(i, grafted[i].prefix \o leaf)'
               PROVE  Has(grafted[i].prefix \o leaf, grafted[i].bp.handlers[leaf])'
    BY DEF Landed
  <2>1. CASE i \in 1 .. Len(grafted)
    <3>1. grafted'[i] = grafted[i]
      BY <1>8, <2>1
    <3>2. leaf \in Leaves(grafted[i].bp) \ {<<>>, <<"/">>}
      BY <3>1
    <3> QED BY <1>12, <2>1, <3>2
  <2>2. CASE i = k
    <3>1. grafted'[i].prefix = prefix /\ grafted'[i].bp = bp
      BY <1>4, <1>8, <2>2
    <3>2. leaf \in Leaves(bp) \ {<<>>, <<"/">>}
      BY <3>1
    <3> QED BY <1>13, <3>1, <3>2 DEF Has, w
  <2> QED BY <1>9, <2>1, <2>2
<1> QED BY <1>6, <1>10, <1>11, <1>14 DEF IInv

LEMMA NextIInv == ASSUME IInv, [Next]_vars PROVE IInv'
<1>1. ASSUME NEW which \in Targets, NEW verb \in Verbs, NEW route \in Routes[which],
             Handle(which, route, verb)
      PROVE  IInv'
  <2>1. route \in Seq(RoutePiece) /\ (which = "server" \/ which = "blueprint")
    BY Given
  <2> QED BY <1>1, <2>1, HandleServer, HandleBlueprint
<1>2. ASSUME NEW prefix \in UrlPrefixes, AddBlueprint(prefix) PROVE IInv'
  BY <1>2, Given, AddBlueprintIInv
<1>3. CASE UNCHANGED vars
  <2>1. table' = table /\ reg' = reg /\ grafted' = grafted
    BY <1>3 DEF vars
  <2>2. TablesOK' /\ RegOK' /\ GraftsOK'
    BY <2>1 DEF IInv, TablesOK, RegOK, GraftsOK
  <2>3. Stored'
    BY <2>1 DEF IInv, Stored, FirstStays, RootStays, Calls, RootCalls, Old
  <2>4. Landed'
    BY <2>1, LandedStays DEF IInv
  <2> QED BY <2>2, <2>3, <2>4 DEF IInv
<1> QED BY <1>1, <1>2, <1>3 DEF Next

\* IInv: the tables are trees whose routes have no empty piece, but for where the
\* route "/" of a blueprint was put; the server has the first handler of every
\* route as long as no blueprint was registered, and the handlers of the leaves
\* of a blueprint where it came last.
THEOREM Invariance == Spec => []IInv
<1>1. Init => IInv
  BY InitIInv
<1>2. IInv /\ [Next]_vars => IInv'
  BY NextIInv
<1> QED BY <1>1, <1>2, PTL DEF Spec

-----------------------------------------------------------------------------
(***************************************************************************)
(* The search from the root.                                               *)
(***************************************************************************)
LEMMA NoParamsIs == NoParams \in RouteParams
BY DEF NoParams, RouteParams

LEMMA FromRoot ==
  ASSUME NEW path \in Path
  PROVE  /\ Lookup(path) = At(table.server, path, Len(path), <<>>, NoParams)
         /\ Len(path) \in 0 .. Len(path) /\ Len(path) \in 1 .. Len(path)
         /\ Reached(path, Len(path), <<>>)
         /\ Len(<<>>) + Len(path) = Len(path)
         /\ \A m \in Seq(Piece) : Extends(m, <<>>)
         /\ \A params : Bound(path, <<>>, params)
<1>1. path \in Seq(Literal) /\ path # <<>>
  BY DEF Path
<1>2. Len(path) \in Nat /\ Len(path) # 0
  BY <1>1
<1>3. Len(<<>>) = 0 /\ 1 .. Len(<<>>) = {}
  OBVIOUS
<1>4. Len(<<>>) + Len(path) = Len(path) /\ Len(<<>>) <= Len(path)
  BY <1>2, <1>3
<1>5. Reached(path, Len(path), <<>>)
  BY <1>3, <1>4 DEF Reached, Fits
<1>6. \A m \in Seq(Piece) : Len(<<>>) <= Len(m)
  BY <1>3
<1>7. \A m \in Seq(Piece) : Extends(m, <<>>)
  BY <1>3, <1>6 DEF Extends
<1>8. \A params : Bound(path, <<>>, params)
  BY <1>3 DEF Bound
<1>9. Lookup(path) = At(table.server, path, Len(path), <<>>, NoParams)
  BY DEF Lookup, At
<1> QED BY <1>2, <1>4, <1>5, <1>7, <1>8, <1>9

LEMMA ServerIs ==
  ASSUME IInv
  PROVE  /\ TableOK(table.server) /\ <<>> \in table.server.nodes
         /\ table.server.nodes \subseteq Seq(Piece)
BY DEF IInv, TablesOK, TableOK

LEMMA PathIs == \A path \in Paths : path \in Path
BY ConstantsAssumption DEF Path

\* Whatever path is asked for, RouteTableNode::find ends at a node that stands for
\* it; and it finds such a node when there is one and no node of the table has two
\* children that are parameters or wildcards.
THEOREM AlwaysFindIsRight == Spec => []FindIsRight
<1>1. ASSUME IInv PROVE FindIsRight
  <2> SUFFICES ASSUME NEW path \in Paths
               PROVE  LET n == Lookup(path).node
                      IN  IF n # None THEN Covers(table.server, n, path)
                          ELSE Unambiguous(table.server) =>
                                 \A m \in table.server.nodes : ~Covers(table.server, m, path)
    BY DEF FindIsRight
  <2> DEFINE t == table.server
  <2>1. path \in Path /\ TableOK(t) /\ <<>> \in t.nodes /\ t.nodes \subseteq Seq(Piece)
    BY <1>1, PathIs, ServerIs
  <2>2. /\ Lookup(path) = At(t, path, Len(path), <<>>, NoParams)
        /\ Len(path) \in 0 .. Len(path) /\ Reached(path, Len(path), <<>>)
        /\ \A m \in Seq(Piece) : Extends(m, <<>>)
    BY <2>1, FromRoot
  <2> HIDE DEF t
  <2>3. Lookup(path).node # None => Covers(t, Lookup(path).node, path)
    BY <2>1, <2>2, NoParamsIs, Sound
  <2>4. ASSUME Unambiguous(t), NEW m \in t.nodes, Covers(t, m, path)
        PROVE  Lookup(path).node # None
    <3>1. Extends(m, <<>>)
      BY <2>1, <2>2
    <3> QED BY <2>1, <2>2, <2>4, <3>1, NoParamsIs, Complete
  <2> QED BY <2>3, <2>4 DEF t
<1> QED BY <1>1, Invariance, PTL

\* The route parameters of the node that is found are the pieces of the path at
\* their places, when no name is used at two depths of the table.
THEOREM AlwaysParamsRight == Spec => []ParamsRight
<1>1. ASSUME IInv PROVE ParamsRight
  <2> SUFFICES ASSUME OneDepth(table.server), NEW path \in Paths, Lookup(path).node # None
               PROVE  Bound(path, Lookup(path).node, Lookup(path).params)
    BY DEF ParamsRight, Bound
  <2> DEFINE t == table.server
  <2>1. path \in Path /\ TableOK(t) /\ <<>> \in t.nodes
    BY <1>1, PathIs, ServerIs
  <2>2. /\ Lookup(path) = At(t, path, Len(path), <<>>, NoParams)
        /\ Len(path) \in 0 .. Len(path) /\ Reached(path, Len(path), <<>>)
        /\ Bound(path, <<>>, NoParams)
    BY <2>1, FromRoot
  <2> HIDE DEF t
  <2>3. OneDepth(t)
    BY DEF t
  <2>4. Right(path, <<>>, Lookup(path))
    BY <2>1, <2>2, <2>3, NoParamsIs, ParamsBound
  <2> QED BY <2>4 DEF Right
<1> QED BY <1>1, Invariance, PTL

-----------------------------------------------------------------------------
(***************************************************************************)
(* Handlers that are served.                                               *)
(***************************************************************************)
LEMMA MinIs ==
  ASSUME NEW S \in SUBSET Nat, NEW x, Least(S, x)
  PROVE  Min(S) = x
<1> DEFINE P(y) == \A z \in S : y <= z
<1>1. x \in S /\ P(x)
  BY DEF Least
<1>2. \A y \in S : P(y) => y = x
  BY <1>1
<1>3. Min(S) = CHOOSE y \in S : P(y)
  BY DEF Min
<1> HIDE DEF P
<1> QED BY <1>1, <1>2, <1>3

LEMMA HasLeast ==
  ASSUME NEW S \in SUBSET Nat, S # {}
  PROVE  Least(S, Min(S))
<1>1. PICK x \in S : \A y \in S : x <= y
  BY LeastMember
<1>2. Least(S, x)
  BY <1>1 DEF Least
<1> QED BY <1>2, MinIs

\* A handler at the node that is found is the one that Router::call calls.
LEMMA CallIs ==
  ASSUME IInv, NEW path, NEW n \in table.server.nodes, Lookup(path).node = n,
         NEW v \in Verbs, table.server.handlers[n][v] # None
  PROVE  Call(v, path).handler = table.server.handlers[n][v]
<1> DEFINE hv == table.server.handlers[n][v]
<1>1. n # None
  BY ServerIs, ConstantsAssumption
<1>2. Call(v, path) = [code |-> "StatusOK", handler |-> hv]
  BY <1>1 DEF Call
<1> HIDE DEF hv
<1>3. Call(v, path).handler = hv
  BY <1>2
<1> QED BY <1>3 DEF hv

\* A path that is a node with a handler is found there.
LEMMA ServedAt ==
  ASSUME IInv, NEW path \in Seq(RoutePiece) \ {<<>>}, IsLiteral(path),
         path \in table.server.nodes, NEW v \in Verbs, table.server.handlers[path][v] # None
  PROVE  Call(v, path).handler = table.server.handlers[path][v]
<1> DEFINE t == table.server
<1>1. path \in Path
  BY DEF IsLiteral, Path
<1>2. ~RootPath(path)
  BY RoutePieces DEF RootPath
<1>3. TableOK(t) /\ <<>> \in t.nodes /\ t.nodes \subseteq Seq(Piece)
  BY ServerIs
<1>4. /\ Lookup(path) = At(t, path, Len(path), <<>>, NoParams)
      /\ Len(path) \in 0 .. Len(path) /\ Len(<<>>) + Len(path) = Len(path)
      /\ \A m \in Seq(Piece) : Extends(m, <<>>)
  BY <1>1, FromRoot
<1>5. HasHandler(t, path)
  BY NoHandlersIs DEF HasHandler
<1>6. path \in t.nodes
  OBVIOUS
<1>7. Lookup(path).node = path
  <2> HIDE DEF t
  <2>1. Extends(path, <<>>)
    BY <1>3, <1>4, <1>6
  <2> QED BY <1>1, <1>2, <1>3, <1>4, <1>5, <1>6, <2>1, NoParamsIs, ExactFound
<1> QED BY <1>7, CallIs

\* The path "/" is found at the node of the route "/".
LEMMA RootServed ==
  ASSUME IInv, <<"/">> \in table.server.nodes
  PROVE  Lookup(<<"">>).node = <<"/">>
<1> DEFINE t == table.server
           path == <<"">>
<1>1. path \in Path
  <2>1. \A S : \A x \in S : <<x>> \in Seq(S) \ {<<>>}
    OBVIOUS
  <2> QED BY <2>1, Pieces DEF Path
<1>2. Len(path) = 1
  OBVIOUS
<1>3. TableOK(t) /\ <<>> \in t.nodes
  BY ServerIs
<1>4. Lookup(path) = At(t, path, 1, <<>>, NoParams)
  BY <1>1, <1>2, FromRoot
<1>5. "/" \in Children(t, <<>>)
  <2>1. <<"/">> = Append(<<>>, "/") /\ "/" \in Piece
    BY RootChild, Pieces
  <2>2. \A n : \A x \in Piece : Append(n, x) \in t.nodes => x \in Children(t, n)
    BY DEF Children
  <2>3. Append(<<>>, "/") \in t.nodes
    BY <2>1
  <2> QED BY <2>1, <2>2, <2>3
<1>6. Children(t, <<"/">>) = {} /\ <<"/">> \in t.nodes
  BY <1>3, SlashIsLeaf
<1>7. At(t, path, 1 - 1, <<"/">>, NoParams).node = <<"/">>
  <2>1. 1 - 1 = 0
    OBVIOUS
  <2> HIDE DEF t, path
  <2>2. ASSUME NEW n \in t.nodes, Children(t, n) = {} PROVE At(t, path, 0, n, NoParams).node = n
    BY <1>1, <2>2, NoParamsIs, AtLeaf
  <2>3. At(t, path, 0, <<"/">>, NoParams).node = <<"/">>
    BY <1>6, <2>2
  <2> QED BY <2>1, <2>3
<1>8. <<"/">> # None
  BY RootChild, ConstantsAssumption
<1>9. ~SlashFails(t, path, 1, <<>>, NoParams)
  BY <1>5, <1>7, <1>8 DEF SlashFails
<1>10. 1 \in 1 .. Len(path)
  BY <1>2
<1>11. ToSlash(t, path, 1, <<>>, NoParams)
  <2> HIDE DEF t, path
  <2> QED BY <1>1, <1>3, <1>5, <1>9, <1>10, NoParamsIs, Ways
<1> QED BY <1>4, <1>7, <1>11 DEF ToSlash

\* A request for the very path of a registered route is served by the handler that
\* was registered first for the route and the verb, and of the registrations of "/"
\* the first one is served: Router::handle keeps the first, and
\* RouteTableNode::find tries the literal child before any other.
THEOREM AlwaysExactServed == Spec => []ExactServed
<1>1. ASSUME IInv PROVE ExactServed
  <2> SUFFICES ASSUME grafted = <<>>, NEW i \in 1 .. Len(reg), reg[i].in = "server",
                      IsLiteral(reg[i].route), reg[i].route # <<>> \/ i = Min(Same(i))
               PROVE  Served(i)
    BY DEF ExactServed
  <2> DEFINE t == table.server
             r == reg[i].route
             v == reg[i].verb
             A == {j \in Same(i) : reg[j].verb = v}
  <2>1. r \in Seq(RoutePiece) /\ v \in Verbs
    BY <1>1, RegIs
  <2>2. /\ A = Calls(r, v)
        /\ Same(i) = {j \in 1 .. Len(reg) : reg[j].in = "server" /\ reg[j].route = r}
    BY DEF Same, Calls
  <2>3. i \in A /\ i \in Same(i)
    BY DEF Same
  <2>4. A \in SUBSET Nat /\ Same(i) \in SUBSET Nat
    <3>1. Len(reg) \in Nat
      BY <1>1 DEF IInv, RegOK
    <3>2. 1 .. Len(reg) \subseteq Nat
      BY <3>1
    <3> QED BY <3>2 DEF Same
  <2>5. Served(i) <=> Call(v, PathOf(r)).handler = Min(A)
    BY DEF Served
  <2>6. /\ \A q \in Seq(RoutePiece) \ {<<>>} : \A u \in Verbs : FirstStays(q, u)
        /\ RootStays
    BY <1>1 DEF IInv, Stored
  <2>7. CASE r # <<>>
    <3>1. Least(A, Min(A))
      BY <2>3, <2>4, HasLeast
    <3>2. r \in t.nodes /\ t.handlers[r][v] = Min(A)
      <4>1. FirstStays(r, v)
        BY <2>1, <2>6, <2>7
      <4> HIDE DEF r, v, A
      <4> QED BY <2>2, <3>1, <4>1 DEF FirstStays
    <3>3. Min(A) # None
      BY <2>4, <3>1, NoneIs DEF Least
    <3>4. PathOf(r) = r
      BY <2>7 DEF PathOf
    <3> HIDE DEF r, v, A
    <3>5. IsLiteral(r)
      BY DEF r
    <3>6. r \in Seq(RoutePiece) \ {<<>>}
      BY <2>1, <2>7
    <3>7. Call(v, r).handler = t.handlers[r][v]
      BY <1>1, <2>1, <3>2, <3>3, <3>5, <3>6, ServedAt
    <3> QED BY <2>5, <3>2, <3>4, <3>7
  <2>8. CASE r = <<>>
    <3>1. Same(i) = RootCalls
      BY <2>2, <2>8 DEF RootCalls
    <3>2. i = Min(Same(i))
      BY <2>8
    <3>3. Least(Same(i), Min(Same(i)))
      BY <2>3, <2>4, HasLeast
    <3>4. Least(RootCalls, i)
      BY <3>1, <3>2, <3>3
    <3>5. <<"/">> \in t.nodes /\ t.handlers[<<"/">>][v] = i
      BY <2>6, <3>4 DEF RootStays
    <3>6. Least(A, i)
      BY <2>3, <3>1, <3>4 DEF Least
    <3>7. Min(A) = i
      BY <2>4, <3>6, MinIs
    <3>8. PathOf(r) = <<"">>
      BY <2>8 DEF PathOf
    <3>9. i # None
      BY <2>3, <2>4, NoneIs
    <3>10. Lookup(<<"">>).node = <<"/">>
      BY <1>1, <3>5, RootServed
    <3> HIDE DEF r, v, A
    <3>11. Call(v, <<"">>).handler = t.handlers[<<"/">>][v]
      BY <1>1, <2>1, <3>5, <3>9, <3>10, CallIs
    <3> QED BY <2>5, <3>5, <3>7, <3>8, <3>11
  <2> QED BY <2>7, <2>8
<1> QED BY <1>1, Invariance, PTL

\* The handlers of a leaf of a blueprint are served under its prefix until a
\* blueprint comes to the same place: add_blueprint overwrites what is there, and
\* later calls of handle() do not.
THEOREM AlwaysBlueprintServed == Spec => []BlueprintServed
<1>1. ASSUME IInv PROVE BlueprintServed
  <2> SUFFICES ASSUME NEW i \in 1 .. Len(grafted),
                      NEW leaf \in Leaves(grafted[i].bp) \ {<<>>, <<"/">>},
                      IsLiteral(grafted[i].prefix \o leaf),
                      Alone(i, grafted[i].prefix \o leaf),
                      NEW v \in Verbs, grafted[i].bp.handlers[leaf][v] # None
               PROVE  Call(v, grafted[i].prefix \o leaf).handler = grafted[i].bp.handlers[leaf][v]
    BY DEF BlueprintServed, Alone
  <2> DEFINE n == grafted[i].prefix \o leaf
             H == grafted[i].bp.handlers[leaf]
  <2>1. n \in table.server.nodes /\ table.server.handlers[n][v] = H[v]
    BY <1>1 DEF IInv, Landed, Has
  <2>2. n \in Seq(RoutePiece) \ {<<>>}
    <3>1. grafted[i].prefix \in Seq(RoutePiece) /\ leaf \in Seq(RoutePiece) /\ leaf # <<>>
      BY <1>1 DEF IInv, GraftsOK, Plain, Leaves, NodeIn
    <3> QED BY <3>1, GraftPlain
  <2>3. IsLiteral(n) /\ H[v] # None
    OBVIOUS
  <2> HIDE DEF n, H
  <2>4. Call(v, n).handler = H[v]
    BY <1>1, <2>1, <2>2, <2>3, ServedAt
  <2> QED BY <2>4 DEF n, H
<1> QED BY <1>1, Invariance, PTL
=============================================================================
