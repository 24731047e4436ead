------------------------------ MODULE MCRouter ------------------------------
(***************************************************************************)
(* Instances of Router for TLC.                                            *)
(***************************************************************************)
EXTENDS Router, TLC

\* In the order of their bytes.
Pieces == <<"", "*", "/", "a", "a*", "ab", "b", "{x}", "{y}">>
Params == {"{x}", "{y}"}
Names == ("{x}" :> "x") @@ ("{y}" :> "y")
Wilds == {"*", "a*"}
Literals == {"", "a", "ab", "b"}
Starting == ("*" :> Literals) @@ ("a*" :> {"a", "ab"})

\* Requests of up to two pieces, and of three of the pieces that routes go on with.
AllPaths == (UNION {[1 .. k -> Literals] : k \in 1 .. 2}) \cup [1 .. 3 -> {"a", "b"}]

\* Routes of the server: literals, parameters and wildcards that compete for the
\* same paths at two depths, and "/".  Routes of the blueprint: "/", a route that
\* another one goes on from, and that other one.  Its prefixes are "" and "/a/b".
AllRoutes ==
  [server |-> {<<>>, <<"a", "b">>, <<"a", "{x}", "b">>, <<"{x}", "b">>,
               <<"{y}", "a">>, <<"a*">>, <<"a", "*">>},
   blueprint |-> {<<>>, <<"a">>, <<"a", "b">>}]
BlueprintPrefixes == {<<>>, <<"a", "b">>}

DocRoutes == [server |-> {<<"a", "{x}", "a*">>, <<"a", "b">>, <<"a", "b", "b">>}]
NoPrefixes == {}
=============================================================================
