---------------------------- MODULE MCMultiPart ----------------------------
(***************************************************************************)
(* Instances of MultiPart for TLC.                                         *)
(***************************************************************************)
EXTENDS MultiPart, TLC

Dashes == <<"-", "-", "B">>

Says(name, filename) == [name |-> name, filename |-> filename]

\* Plain ones, and ones that the parser splits at other places than the encoder
\* put together: a name it cannot use, a filename that brings a name of its own, a
\* quote that is left over, and one that is left alone.
Dispositions ==
          ("a" :> Says(<<"a">>, <<>>))
       @@ ("nameless" :> Says(<<>>, <<>>))
       @@ ("a file" :> Says(<<"a">>, <<"f">>))
       @@ ("name with =" :> Says(<<"a", "equals">>, <<"f">>))
       @@ ("file with =" :> Says(<<"b">>, <<"f", "equals">>))
       @@ ("file with ;" :> Says(<<"b">>, <<"f", "semicolon", "g">>))
       @@ ("file with name" :> Says(<<"b">>, <<"f", "semicolon", "name", "equals", "quote", "a">>))
       @@ ("lone quote" :> Says(<<"semicolon">>, <<>>))
       @@ ("lone quote file" :> Says(<<"b">>, <<"semicolon", "f">>))

\* Data of up to n characters.
Chars == {CR, LF, "-", "B", "x"}
Texts(n) == UNION {[1 .. k -> Chars] : k \in 0 .. n}
\* Data that starts like the end of a part, and some that holds the delimiter.
NearMisses == {<<CR, LF, "-", "-">> \o t : t \in Texts(2)}

Parts(values, extras, types, texts) ==
  [value : values, extra : extras, type : types, data : texts, ok : BOOLEAN]

\* Only a file can be unreadable, and the encoder writes the files last.
Producible(ps) ==
  \A k \in DOMAIN ps : ps[k].ok \/ \A j \in k .. Len(ps) : Dispositions[ps[j].value].filename # <<>>

\* One part with all kinds of data, two with all kinds of headers, and three.
Candidates ==
  {<<>>}
  \cup {<<p>> : p \in Parts({"a", "a file"}, {"none"}, {"none"}, Texts(3) \cup NearMisses)}
  \cup {<<p, q>> : p \in Parts(Values, Header, Header, {<<"x">>}),
                   q \in Parts({"a", "a file", "file with name"}, Header, {"none", "some"}, {<<>>, <<CR>>})}
  \cup {<<p, q, r>> : p \in Parts({"a", "a file"}, {"none"}, Header, {<<"x">>}),
                      q \in Parts({"a file", "file with ;"}, {"none"}, Header, {<<CR, LF>>}),
                      r \in Parts({"a file", "nameless", "file with ;"}, {"none", "some"}, {"none"}, {<<>>})}

Lists == {ps \in Candidates : Producible(ps)}
=============================================================================
