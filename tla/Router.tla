------------------------------- MODULE Router -------------------------------
(***************************************************************************)
(* Routing in wfrest: RouteTableNode::find_or_create and find, Router::    *)
(* handle and call, BluePrint::add_blueprint (wfrest-main/src/core).       *)
(*                                                                         *)
(* A route is the sequence of the pieces between its slashes, which are    *)
(* not empty; the route "/" is <<>>.  A piece is a literal, a parameter    *)
(* {name} or a wildcard ending in '*'.  A node of the table is the         *)
(* sequence of the keys on the way to it; the route "/" has a node of its  *)
(* own, the child "/" of the root.  A trailing slash leaves no trace in    *)
(* either, so neither does it here.                                        *)
(*                                                                         *)
(* The path of a request is such a sequence, too, of literals only,        *)
(* because HttpServer::process encodes the characters { } and * of it.     *)
(* The path "/" is <<"">>, one empty piece.                                *)
(***************************************************************************)
EXTENDS Naturals, Sequences, FiniteSetsExt

CONSTANTS
  Order,       \* all pieces, in the order of the map children_
  Param,       \* the pieces {name}
  NameOf,      \* the name of each of them
  Wild,        \* the pieces ending in '*'
  StartsWith,  \* the literals that a wildcard without its '*' is a prefix of
  Routes,      \* routes that are registered in each of the Targets
  Targets,     \* the tables they are registered in: "server", "blueprint"
  UrlPrefixes, \* prefixes the blueprint is registered under, as sequences
  Paths,       \* paths that are asked for
  Verbs,       \* verbs, "ANY" among them
  MaxReg,      \* bound on registrations of routes
  MaxGraft,    \* bound on registrations of the blueprint
  None

Piece == {Order[i] : i \in 1 .. Len(Order)}
Literal == Piece \ (Param \cup Wild)
Name == {NameOf[p] : p \in Param}

\* Pieces that routes have: neither empty nor a slash.
RoutePiece == Piece \ {"", "/"}

ASSUME ConstantsAssumption ==
  /\ Order \in Seq(STRING)
  /\ Param \cap Wild = {}
  /\ "*" \in Piece \cap Wild
  /\ {"/", ""} \subseteq Literal
  /\ Paths \subseteq Seq(Literal) \ {<<>>}
  /\ "ANY" \in Verbs
  /\ Targets \subseteq {"server", "blueprint"}
  /\ Routes \in [Targets -> SUBSET Seq(RoutePiece)]
  /\ UrlPrefixes \subseteq Seq(RoutePiece)
  /\ None \notin Nat \cup Seq(Piece)

VARIABLES
  table,       \* the tables of the server and of a blueprint
  reg,         \* the calls of handle so far; a handler is its number here
  grafted      \* the blueprint each time it was registered, and where

vars == <<table, reg, grafted>>

NoHandlers == [v \in Verbs |-> None]

Empty == [nodes |-> {<<>>}, handlers |-> [n \in {<<>>} |-> NoHandlers]]

Init ==
  /\ table = [server |-> Empty, blueprint |-> Empty]
  /\ reg = <<>>
  /\ grafted = <<>>

Children(t, n) == {s \in Piece : Append(n, s) \in t.nodes}

HasHandler(t, n) == t.handlers[n] # NoHandlers

(***************************************************************************)
(* Registration.                                                           *)
(***************************************************************************)
\* The node that find_or_create looks for.
NodeOf(route) == IF route = <<>> THEN <<"/">> ELSE route

\* The table with the given nodes and the ones on the way to them.
Create(t, ns) ==
  LET nodes == t.nodes \cup UNION {{SubSeq(n, 1, i) : i \in 0 .. Len(n)} : n \in ns}
  IN  [nodes |-> nodes,
       handlers |-> [m \in nodes |-> IF m \in t.nodes THEN t.handlers[m] ELSE NoHandlers]]

\* For "/" find_or_create makes a new node every time, and when there is one
\* already insert() does not take it: what is stored there is out of reach.
OutOfReach(t, route) == route = <<>> /\ <<"/">> \in t.nodes

\* Mutant: a new verb takes the place of the others.
StoreWrongVerb(t, route, verb, h) ==
  LET n == NodeOf(route)
      c == Create(t, {n})
  IN  IF OutOfReach(t, route) \/ c.handlers[n][verb] # None THEN c
      ELSE [c EXCEPT !.handlers[n] = [v \in Verbs |-> IF v = verb THEN h ELSE None]]

\* The table after handle() for a route and verb: the first handler stays.
Store(t, route, verb, h) ==
  LET n == NodeOf(route)
      c == Create(t, {n})
  IN  IF OutOfReach(t, route) \/ c.handlers[n][verb] # None THEN c
      ELSE [c EXCEPT !.handlers[n][verb] = h]

Handle(which, route, verb) ==
  /\ Len(reg) < MaxReg
  /\ reg' = Append(reg, [in |-> which, route |-> route, verb |-> verb])
  /\ table' = [table EXCEPT ![which] = Store(@, route, verb, Len(reg) + 1)]
  /\ UNCHANGED grafted

\* What all_routes() reports: nodes without children only.
Leaves(t) == {n \in t.nodes : Children(t, n) = {}}

\* The route that add_blueprint puts together for a leaf: the leaf of "/" gives
\* a path that ends in two slashes, the root of an empty blueprint the prefix.
Graft(prefix, leaf) == prefix \o (IF leaf = <<"/">> THEN <<"">> ELSE leaf)

\* The leaves that reach the server t, and where each of them comes.
Reaching(t, prefix, leaves) == {leaf \in leaves : ~OutOfReach(t, Graft(prefix, leaf))}
Landing(prefix, leaf) == NodeOf(Graft(prefix, leaf))

\* The server t with the leaves of bp, which overwrite what is at their routes.
WithBlueprint(t, prefix, bp) ==
  LET leaves == Reaching(t, prefix, Leaves(bp))
      c == Create(t, {Landing(prefix, leaf) : leaf \in leaves})
      Coming(n) == {leaf \in leaves : Landing(prefix, leaf) = n}
  IN  [c EXCEPT !.handlers =
         [n \in c.nodes |-> IF Coming(n) = {} THEN c.handlers[n]
                             ELSE bp.handlers[CHOOSE leaf \in Coming(n) : TRUE]]]

\* Mutant: the pieces of the prefix after the first are left out.
AddBlueprintShort(prefix) ==
  /\ Len(grafted) < MaxGraft
  /\ LET cut == SubSeq(prefix, 1, IF prefix = <<>> THEN 0 ELSE 1)
     IN  table' = [table EXCEPT !.server = WithBlueprint(@, cut, table.blueprint)]
  /\ grafted' = Append(grafted, [prefix |-> prefix, bp |-> table.blueprint])
  /\ UNCHANGED reg

AddBlueprint(prefix) ==
  /\ Len(grafted) < MaxGraft
  /\ table' = [table EXCEPT !.server = WithBlueprint(@, prefix, table.blueprint)]
  /\ grafted' = Append(grafted, [prefix |-> prefix, bp |-> table.blueprint])
  /\ UNCHANGED reg

Next ==
  \/ \E which \in Targets, verb \in Verbs :
       \E route \in Routes[which] : Handle(which, route, verb)
  \/ \E prefix \in UrlPrefixes : AddBlueprint(prefix)

Spec == Init /\ [][Next]_vars

(***************************************************************************)
(* Lookup.                                                                 *)
(***************************************************************************)
Place(s) == CHOOSE i \in 1 .. Len(Order) : Order[i] = s

WildMatches(s, mid) == s \in Wild /\ mid \in StartsWith[s]

\* match: route_match_path, up to a slash at the end of the URL.
\* Route parameters are kept in one map for the whole search: what a branch
\* that failed put there stays.
Result(n, params, match) == [node |-> n, params |-> params, match |-> match]

RouteParams == [Name -> Piece \cup {None}]
NoParams == [x \in Name |-> None]

\* Mutant: an empty piece goes to no wildcard.
VariableNonEmpty(t, n, mid) ==
  {s \in Children(t, n) : s \in Param \/ (mid # "" /\ WildMatches(s, mid))}

\* The children a piece can go to that is not there literally: the first one in
\* the order of the map decides, without a second try.
Variable(t, n, mid) ==
  {s \in Children(t, n) : s \in Param \/ WildMatches(s, mid)}

FirstVariable(t, n, mid) ==
  LET candidates == Variable(t, n, mid)
  IN  CHOOSE s \in candidates : \A o \in candidates : Place(s) <= Place(o)

\* Mutant: the name is not cut out of the braces.
BindOneName(params, s, mid) == [params EXCEPT ![CHOOSE x \in Name : TRUE] = mid]

\* The parameter is put under the name between the braces.
Bind(params, s, mid) == [params EXCEPT ![NameOf[s]] = mid]

\* RouteTableNode::find at node n where the path is over.
FindEnd(t, n, params) ==
  Result(IF HasHandler(t, n) \/ Children(t, n) = {} THEN n
         ELSE IF "*" \in Children(t, n) THEN Append(n, "*") ELSE None, params, <<>>)

\* RouteTableNode::find at node n for the last k pieces of the path; below is find
\* for the pieces after the first of them.
FindNext(t, path, k, below, n, params) ==
  LET mid == path[Len(path) - k + 1]
      fail == Result(None, params, <<>>)
      slash == IF n = <<>> /\ path = <<"">> /\ "/" \in Children(t, n)
               THEN below[<<"/">>][params] ELSE fail
      exact == IF mid \in Children(t, n) THEN below[Append(n, mid)][params] ELSE fail
      s == FirstVariable(t, n, mid)
  IN  IF Children(t, n) = {} THEN Result(n, params, <<>>)
      ELSE IF slash.node # None THEN slash
      ELSE IF exact.node # None \/ Variable(t, n, mid) = {} THEN exact
      ELSE IF s \in Wild
      THEN Result(Append(n, s), exact.params, SubSeq(path, Len(path) - k + 1, Len(path)))
      ELSE below[Append(n, s)][Bind(exact.params, s, mid)]

\* By the number of pieces that are left, the node and the parameters so far.
FindFrom(t, path, k, below) ==
  [n \in t.nodes |-> [params \in RouteParams |->
    IF k = 0 THEN FindEnd(t, n, params) ELSE FindNext(t, path, k, below, n, params)]]

Find(t, path) ==
  LET find[k \in 0 .. Len(path)] == FindFrom(t, path, k, find[k-1]) IN find

Lookup(path) == Find(table.server, path)[Len(path)][<<>>][NoParams]

\* Router::call: the handler of the verb, else the one of ANY, else an error.
Call(verb, path) ==
  LET n == Lookup(path).node
      h == table.server.handlers[n]
  IN  IF n = None THEN [code |-> "StatusRouteNotFound", handler |-> None]
      ELSE IF h[verb] # None THEN [code |-> "StatusOK", handler |-> h[verb]]
      ELSE IF h["ANY"] # None THEN [code |-> "StatusOK", handler |-> h["ANY"]]
      ELSE [code |-> "StatusRouteVerbNotImplment", handler |-> None]

-----------------------------------------------------------------------------
(***************************************************************************)
(* Properties.                                                             *)
(***************************************************************************)
\* What a node stands for, said without a search: every piece of the path up to
\* the node is the key or goes to a parameter, and then the path is over at a
\* node with a handler; or the last key is a wildcard that the piece starts
\* with, and the rest is its; or the path stops just before a "*"; or the node
\* has no children, and takes whatever follows.
Fits(n, path, k) ==
  k <= Len(path) /\ \A i \in 1 .. k : n[i] = path[i] \/ n[i] \in Param

Covers(t, n, path) ==
  LET k == Len(n)
  IN  \/ n = <<"/">> /\ path = <<"">>
      \/ Fits(n, path, k) /\ k = Len(path) /\ HasHandler(t, n)
      \/ Fits(n, path, k) /\ Children(t, n) = {}
      \/ k > 0 /\ k <= Len(path) /\ Fits(n, path, k - 1) /\ WildMatches(n[k], path[k])
      \/ k > 0 /\ k = Len(path) + 1 /\ Fits(n, path, k - 1) /\ n[k] = "*"

\* No node has two children that are parameters or wildcards.
Unambiguous(t) ==
  \A n \in t.nodes : \A a, b \in Children(t, n) \cap (Param \cup Wild) : a = b

\* The search, with its early returns and its one-sided backtracking, only ever
\* ends at a node that stands for the path; and when no node has to choose
\* between parameters and wildcards, a path that some node stands for is found.
\* (With two such children the first one decides, and what only the second one
\* leads to is not found.)
FindIsRight ==
  \A path \in Paths :
    LET n == Lookup(path).node
    IN  IF n # None THEN Covers(table.server, n, path)
        ELSE Unambiguous(table.server) =>
               \A m \in table.server.nodes : ~Covers(table.server, m, path)

IsLiteral(route) == route \in Seq(Literal)
PathOf(route) == IF route = <<>> THEN <<"">> ELSE route

\* The calls of handle for the same route.
Same(i) == {j \in 1 .. Len(reg) : reg[j].in = reg[i].in /\ reg[j].route = reg[i].route}

Served(i) ==
  Call(reg[i].verb, PathOf(reg[i].route)).handler =
    Min({j \in Same(i) : reg[j].verb = reg[i].verb})

\* A request for the very path of a registered route is served by the handler
\* registered first for the route and the verb, whatever other routes, with
\* parameters or wildcards, are there and in whichever order they came; of the
\* registrations of "/" only the first counts.
ExactServed ==
  grafted = <<>> =>
    \A i \in 1 .. Len(reg) :
      /\ reg[i].in = "server" /\ IsLiteral(reg[i].route)
      /\ reg[i].route # <<>> \/ i = Min(Same(i))
      => Served(i)

\* No parameter name is used at two depths of the table.
OneDepth(t) ==
  \A m, n \in t.nodes : \A i \in 1 .. Len(m), j \in 1 .. Len(n) :
    m[i] \in Param /\ n[j] \in Param /\ NameOf[m[i]] = NameOf[n[j]] => i = j

\* A handler gets the parameters of its route with the pieces of this path,
\* also after a search that went astray first, if no name is used at two depths
\* of the table.  (Parameters of branches that failed may be there as well.)
ParamsRight ==
  OneDepth(table.server) =>
    \A path \in Paths :
      LET f == Lookup(path)
      IN  f.node # None =>
            \A i \in 1 .. Len(f.node) :
              f.node[i] \in Param => f.params[NameOf[f.node[i]]] = path[i]

\* As docs/param_in_path.md says, paths that start with an exact route are never
\* taken for paths of a route with a parameter in its place.
ExactNeverParam ==
  \A i \in 1 .. Len(reg), path \in Paths :
    LET r == reg[i].route
        n == Lookup(path).node
    IN  /\ IsLiteral(r)
        /\ Len(r) <= Len(path) /\ SubSeq(path, 1, Len(r)) = r
        /\ n # None
        => \A k \in 1 .. Len(r) : k <= Len(n) => n[k] \notin Param

\* Every route of a blueprint that is literal and that no other of its routes
\* goes on from is served under the prefix, until the blueprint is registered
\* there again.  (The other routes, and "/", do not get there.)
BlueprintServed ==
  \A i \in 1 .. Len(grafted) :
    LET bp == grafted[i].bp
    IN  \A leaf \in Leaves(bp) \ {<<>>, <<"/">>} :
          LET n == grafted[i].prefix \o leaf
          IN  /\ IsLiteral(n)
              /\ \A j \in i + 1 .. Len(grafted) : \A l \in Leaves(grafted[j].bp) :
                   Graft(grafted[j].prefix, l) # n
              => \A v \in Verbs :
                   bp.handlers[leaf][v] # None => Call(v, n).handler = bp.handlers[leaf][v]
=============================================================================
