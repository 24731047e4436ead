-------------------------- MODULE MultiPartProofs --------------------------
(***************************************************************************)
(* Proofs about MultiPart, for any delimiter, any lists of parts with any  *)
(* data, and bodies that are cut anywhere.                                 *)
(*                                                                         *)
(* The invariant says which symbol of which part the parser is looking at. *)
(* What that symbol is follows from the layout of the encoded body, which  *)
(* is computed first, by induction on the number of parts.                 *)
(***************************************************************************)
EXTENDS MultiPart, NatInduction

Symbol == Char \cup HeaderNames \cup {":", " ", "-", "x"} \cup Values
Symbols == Seq(Symbol)

(***************************************************************************)
(* Where things are in the encoded body: part k comes after Off(k) symbols, *)
(* its line l starts at LineStart(k, l), where line 4 is the empty one, and *)
(* its data starts at DataAt(k).                                           *)
(***************************************************************************)
Whole == Encode(parts)
Off(k) == Len(Content(parts)[k-1])

HasLine(p, l) ==
  CASE l = 1 -> p.extra # "none"
    [] l = 2 -> TRUE
    [] l = 3 -> p.type # "none"
KeyOf(l) == IF l = 2 THEN "disposition" ELSE "other"
ValOf(p, l) ==
  CASE l = 1 -> IF p.extra = "empty" THEN <<>> ELSE <<"x">>
    [] l = 2 -> <<p.value>>
    [] l = 3 -> IF p.type = "empty" THEN <<>> ELSE <<"x">>
LineOf(p, l) == IF HasLine(p, l) THEN Line(KeyOf(l), ValOf(p, l)) ELSE <<>>

From4(p) == <<CR, LF>> \o p.data
From3(p) == LineOf(p, 3) \o From4(p)
From2(p) == LineOf(p, 2) \o From3(p)
From1(p) == LineOf(p, 1) \o From2(p)
From(p, l) ==
  CASE l = 1 -> From1(p) [] l = 2 -> From2(p) [] l = 3 -> From3(p) [] l = 4 -> From4(p)

LineStart(k, l) == Off(k + 1) + 1 - Len(From(parts[k], l))
DataAt(k) == Off(k + 1) + 1 - Len(parts[k].data)

(***************************************************************************)
(* What the callbacks have gathered when line l of part p begins.  The     *)
(* part may begin with a field d in it, left by an empty header at the end *)
(* of the part before.                                                     *)
(***************************************************************************)
Fresh(d) == [field |-> d, value |-> <<>>, data |-> <<>>, name |-> <<>>, filename |-> <<>>]

WithKey(v, l) == [HandleHeader(v) EXCEPT !.field = @ \o <<KeyOf(l)>>]
Fed(p, l, v) ==
  IF HasLine(p, l) THEN [WithKey(v, l) EXCEPT !.value = @ \o ValOf(p, l)] ELSE v

Seen2(p, d) == Fed(p, 1, Fresh(d))
Seen3(p, d) == Fed(p, 2, Seen2(p, d))
Seen4(p, d) == Fed(p, 3, Seen3(p, d))
Seen(p, l, d) ==
  CASE l = 1 -> Fresh(d) [] l = 2 -> Seen2(p, d) [] l = 3 -> Seen3(p, d) [] l = 4 -> Seen4(p, d)

\* The field that part k begins with, and the one that part p leaves.
Left(k) == IF Spoilt(k) THEN <<"other">> ELSE <<>>
Leaves(p) == IF p.type = "empty" THEN <<"other">> ELSE <<>>

\* What the form is given of a part.
Loses(p, d) == p.extra = "empty" \/ (p.extra = "none" /\ d # <<>>)
NameRead(v) == Assigned(Read[v].name, <<>>)
FileRead(v) == Assigned(Read[v].filename, <<>>)
NameOf(p, d) == IF Loses(p, d) THEN <<>> ELSE NameRead(p.value)
FileOf(p, d) == IF Loses(p, d) THEN <<>> ELSE FileRead(p.value)

(***************************************************************************)
(* The inductive invariant.                                                *)
(***************************************************************************)
N == Len(parts)
WrittenPart == {k \in 1 .. N : parts[k].ok}

\* Part m is the next one in the body after part k, or the closing delimiter if
\* it is N + 1.
NextUp(k, m) ==
  /\ m \in k + 1 .. N + 1 /\ Off(m) = Off(k + 1)
  /\ \A j \in k + 1 .. m - 1 : ~parts[j].ok
  /\ m <= N => parts[m].ok

\* The body is what was encoded, as far as it goes.
Given ==
  /\ parts \in PartLists
  /\ body \in Symbols /\ Len(body) <= Len(Whole)
  /\ \A j \in 1 .. Len(body) : body[j] = Whole[j]
  /\ i \in Nat \ {0}

FirstWritten == N > 0 /\ parts[1].ok

AtStart ==
  /\ state = "start" /\ i = index + 1 /\ index \in 0 .. Len(Boundary) + 1
  /\ FirstWritten \/ index = 0
  /\ u = Fresh(<<>>) /\ form = EmptyForm

Halted == state = "stopped" /\ form = EmptyForm /\ ~FirstWritten

Threw == state = "threw" /\ form = EmptyForm /\ ~Agreeable

InLine(k, l) ==
  LET p == parts[k]
      x == LineStart(k, l)
      n == Len(ValOf(p, l))
  IN  /\ l < 4 => HasLine(p, l)
      /\ \/ state = "field start" /\ i = x /\ u = Seen(p, l, Left(k))
         \/ state = "field" /\ i = x /\ mark = x /\ u = Seen(p, l, Left(k))
         \/ /\ l < 4
            /\ \/ state = "field" /\ i = x + 1 /\ mark = x /\ u = Seen(p, l, Left(k))
               \/ state = "value start" /\ i \in {x + 2, x + 3} /\ u = WithKey(Seen(p, l, Left(k)), l)
               \/ /\ state = "value" /\ mark = x + 3 /\ i \in x + 3 .. x + 3 + n
                  /\ u = WithKey(Seen(p, l, Left(k)), l)
               \/ state = "value almost done" /\ i = x + 4 + n /\ u = Fed(p, l, Seen(p, l, Left(k)))
         \/ /\ l = 4 /\ u = Seen(p, 4, Left(k))
            /\ \/ state = "headers almost done" /\ i = x + 1
               \/ state = "data start" /\ i = x + 2

InHeader(k) == \E l \in 1 .. 4 : InLine(k, l)

\* Once the headers are handled.
Gathering(field, data, name, filename) ==
  [field |-> field, value |-> <<>>, data |-> data, name |-> name, filename |-> filename]

Begins(s, t) == Len(s) <= Len(t) /\ \A j \in 1 .. Len(s) : s[j] = t[j]

InData(k) ==
  LET p == parts[k]
  IN  /\ u.data \in Symbols /\ Begins(u.data, p.data)
      /\ u = Gathering(Leaves(p), u.data, NameOf(p, Left(k)), FileOf(p, Left(k)))
      /\ mark = DataAt(k) + Len(u.data)
      /\ \/ state = "data" /\ i \in mark .. DataAt(k) + Len(p.data)
         \/ state = "almost boundary" /\ i = mark + 1 /\ Whole[mark] = CR
         \/ /\ state = "boundary" /\ index \in 0 .. Len(Boundary) - 1
            /\ i = mark + 2 + index
            /\ \A j \in 1 .. 2 + index : Whole[mark - 1 + j] = Delimiter[j]

AtNext(k) == state = "data end" /\ k > 1 /\ i = LineStart(k, 1) - 1 /\ u = Fresh(Left(k))

AfterPart(k) ==
  /\ u = Fresh(Leaves(parts[k]))
  /\ \E m \in k + 1 .. N + 1 :
       LET x == Off(m) + Len(Delimiter)
       IN  /\ NextUp(k, m)
           /\ \/ state = "almost end" /\ i = x + 1
              \/ m = N + 1 /\ state = "final hyphen" /\ i = x + 2
              \/ m = N + 1 /\ state = "end" /\ i >= x + 3

\* The parts up to k are in the form.
Handled(k) == Agreeable => form = FormOf(k)

Before(k) == InHeader(k) \/ InData(k) \/ AtNext(k)

Located ==
  \/ AtStart
  \/ Halted
  \/ Threw
  \/ \E k \in WrittenPart : Before(k) /\ Handled(k - 1)
  \/ \E k \in WrittenPart : AfterPart(k) /\ Handled(k)

IInv == Given /\ (Separable => NothingMixed /\ Located)

-----------------------------------------------------------------------------
(***************************************************************************)
(* The layout of the encoded body.                                         *)
(***************************************************************************)
LEMMA Concat ==
  ASSUME NEW s \in Symbols, NEW t \in Symbols
  PROVE  /\ s \o t \in Symbols /\ Len(s \o t) = Len(s) + Len(t)
         /\ Len(s) \in Nat /\ Len(t) \in Nat
         /\ \A j \in 1 .. Len(s) : (s \o t)[j] = s[j]
         /\ \A j \in 1 .. Len(t) : (s \o t)[Len(s) + j] = t[j]
BY DEF Symbols

LEMMA Wider ==
  ASSUME NEW S, NEW T, S \subseteq T, NEW s \in Seq(S)
  PROVE  s \in Seq(T)
OBVIOUS

LEMMA Elements ==
  ASSUME NEW S, NEW s \in Seq(S), NEW j \in 1 .. Len(s)
  PROVE  j \in DOMAIN s /\ s[j] \in S
OBVIOUS

LEMMA Single ==
  ASSUME NEW a \in Symbol
  PROVE  <<a>> \in Symbols /\ Len(<<a>>) = 1 /\ <<a>>[1] = a
BY DEF Symbols

LEMMA Triple ==
  ASSUME NEW a \in Symbol, NEW b \in Symbol, NEW d \in Symbol
  PROVE  /\ <<a, b, d>> \in Symbols /\ Len(<<a, b, d>>) = 3
         /\ <<a, b, d>>[1] = a /\ <<a, b, d>>[2] = b /\ <<a, b, d>>[3] = d
BY DEF Symbols

LEMMA Texts ==
  /\ Boundary \in Symbols /\ Len(Boundary) \in Nat \ {0}
  /\ Delimiter \in Symbols /\ Len(Delimiter) = Len(Boundary) + 2
  /\ Delimiter[1] = CR /\ Delimiter[2] = LF
  /\ \A j \in 1 .. Len(Boundary) :
       Boundary[j] # CR /\ Delimiter[j + 2] = Boundary[j]
  /\ <<CR, LF>> \in Symbols /\ CR \in Symbol /\ LF \in Symbol
<1>1. CR \in Symbol /\ LF \in Symbol
  BY ConstantsAssumption DEF Symbol
<1>2. Boundary \in Seq(Char \ {CR}) /\ Boundary # <<>>
  BY ConstantsAssumption
<1>3. Boundary \in Symbols
  <2>1. Char \ {CR} \subseteq Symbol
    BY DEF Symbol
  <2> QED BY <1>2, <2>1, Wider DEF Symbols
<1>4. <<CR, LF>> \in Symbols /\ Len(<<CR, LF>>) = 2
      /\ <<CR, LF>>[1] = CR /\ <<CR, LF>>[2] = LF
  BY <1>1 DEF Symbols
<1>5. /\ Delimiter \in Symbols /\ Len(Delimiter) = 2 + Len(Boundary)
      /\ \A j \in 1 .. 2 : Delimiter[j] = <<CR, LF>>[j]
      /\ \A j \in 1 .. Len(Boundary) : Delimiter[2 + j] = Boundary[j]
  BY <1>3, <1>4, Concat DEF Delimiter
<1>6. Len(Boundary) \in Nat \ {0}
  BY <1>2
<1>7. ASSUME NEW j \in 1 .. Len(Boundary) PROVE Boundary[j] # CR
  <2>1. Boundary[j] \in Char \ {CR}
    BY <1>2
  <2> QED BY <2>1
<1>8. ASSUME NEW j \in 1 .. Len(Boundary) PROVE Delimiter[j + 2] = Boundary[j]
  <2>1. j + 2 = 2 + j
    BY <1>6
  <2> QED BY <1>5, <2>1
<1> QED BY <1>1, <1>3, <1>4, <1>5, <1>6, <1>7, <1>8

LEMMA LineType ==
  ASSUME NEW key \in Symbol, NEW val \in Symbols
  PROVE  /\ Line(key, val) \in Symbols /\ Len(Line(key, val)) = Len(val) + 5
         /\ Line(key, val)[1] = key /\ Line(key, val)[2] = ":" /\ Line(key, val)[3] = " "
         /\ \A j \in 1 .. Len(val) : Line(key, val)[3 + j] = val[j]
         /\ Line(key, val)[Len(val) + 4] = CR /\ Line(key, val)[Len(val) + 5] = LF
<1> DEFINE a == <<key, ":", " ">>
           b == <<CR, LF>>
           ab == a \o val
<1>1. /\ a \in Symbols /\ Len(a) = 3 /\ a[1] = key /\ a[2] = ":" /\ a[3] = " "
  <2>1. ":" \in Symbol /\ " " \in Symbol
    BY DEF Symbol
  <2> QED BY <2>1, Triple
<1>2. b \in Symbols /\ Len(b) = 2 /\ b[1] = CR /\ b[2] = LF
  BY Texts
<1> HIDE DEF a, b
<1>3. /\ ab \in Symbols /\ Len(ab) = 3 + Len(val)
      /\ \A j \in 1 .. 3 : ab[j] = a[j]
      /\ \A j \in 1 .. Len(val) : ab[3 + j] = val[j]
  <2>1. /\ a \o val \in Symbols /\ Len(a \o val) = Len(a) + Len(val)
        /\ \A j \in 1 .. Len(a) : (a \o val)[j] = a[j]
        /\ \A j \in 1 .. Len(val) : (a \o val)[Len(a) + j] = val[j]
    BY <1>1, Concat
  <2> QED BY <1>1, <2>1
<1> HIDE DEF ab
<1>4. /\ ab \o b \in Symbols /\ Len(ab \o b) = Len(ab) + 2
      /\ \A j \in 1 .. Len(ab) : (ab \o b)[j] = ab[j]
      /\ \A j \in 1 .. 2 : (ab \o b)[Len(ab) + j] = b[j]
  <2>1. /\ ab \o b \in Symbols /\ Len(ab \o b) = Len(ab) + Len(b)
        /\ \A j \in 1 .. Len(ab) : (ab \o b)[j] = ab[j]
        /\ \A j \in 1 .. Len(b) : (ab \o b)[Len(ab) + j] = b[j]
    BY <1>2, <1>3, Concat
  <2> QED BY <1>2, <2>1
<1>5. Len(val) \in Nat
  BY DEF Symbols
<1>6. Line(key, val) = ab \o b
  BY DEF Line, ab, a, b
<1>7. /\ Len(ab \o b) = Len(val) + 5
      /\ (ab \o b)[1] = key /\ (ab \o b)[2] = ":" /\ (ab \o b)[3] = " "
  <2>1. 1 \in 1 .. Len(ab) /\ 2 \in 1 .. Len(ab) /\ 3 \in 1 .. Len(ab)
    BY <1>3, <1>5
  <2>2. (ab \o b)[1] = ab[1] /\ (ab \o b)[2] = ab[2] /\ (ab \o b)[3] = ab[3]
    BY <1>4, <2>1
  <2>3. ab[1] = a[1] /\ ab[2] = a[2] /\ ab[3] = a[3]
    BY <1>3
  <2>4. Len(ab \o b) = Len(val) + 5
    BY <1>3, <1>4, <1>5
  <2> QED BY <1>1, <2>2, <2>3, <2>4, Zenon
<1>8. ASSUME NEW j \in 1 .. Len(val) PROVE (ab \o b)[3 + j] = val[j]
  <2>1. 3 + j \in 1 .. Len(ab)
    BY <1>3, <1>5
  <2> QED BY <1>3, <1>4, <2>1
<1>9. (ab \o b)[Len(val) + 4] = CR /\ (ab \o b)[Len(val) + 5] = LF
  <2>1. Len(val) + 4 = Len(ab) + 1 /\ Len(val) + 5 = Len(ab) + 2
    BY <1>3, <1>5
  <2> QED BY <1>2, <1>4, <2>1
<1> QED BY <1>4, <1>6, <1>7, <1>8, <1>9

LEMMA LineOfType ==
  ASSUME NEW p \in Part, NEW l \in 1 .. 3
  PROVE  /\ LineOf(p, l) \in Symbols
         /\ KeyOf(l) \in HeaderNames /\ KeyOf(l) \in Symbol
         /\ ValOf(p, l) \in Symbols
         /\ \A j \in 1 .. Len(ValOf(p, l)) :
              ValOf(p, l)[j] # CR /\ (j = 1 => ValOf(p, l)[j] # " ")
<1>1. KeyOf(l) \in HeaderNames /\ KeyOf(l) \in Symbol
  BY DEF KeyOf, HeaderNames, Symbol
<1>2. p.value \in Symbol /\ p.value # CR /\ p.value # " "
  BY ConstantsAssumption DEF Part, Symbol
<1>3. "x" \in Symbol /\ "x" # CR /\ "x" # " "
  BY ConstantsAssumption DEF Symbol
<1>4. ValOf(p, l) \in {<<>>, <<"x">>, <<p.value>>}
  BY DEF ValOf
<1>5. ASSUME NEW v \in {<<>>, <<"x">>, <<p.value>>}
      PROVE  v \in Symbols /\ \A j \in 1 .. Len(v) : v[j] # CR /\ v[j] # " "
  <2>1. CASE v = <<>>
    BY <2>1 DEF Symbols
  <2>2. ASSUME NEW a \in Symbol, a # CR, a # " ", v = <<a>>
        PROVE  v \in Symbols /\ \A j \in 1 .. Len(v) : v[j] # CR /\ v[j] # " "
    <3>1. v \in Symbols /\ Len(v) = 1 /\ v[1] = a
      BY <2>2, Single
    <3>2. \A j \in 1 .. Len(v) : v[j] = a
      BY <3>1
    <3> QED BY <2>2, <3>1, <3>2, Zenon
  <2> QED BY <1>2, <1>3, <2>1, <2>2
<1>6. <<>> \in Symbols
  BY DEF Symbols
<1>7. ValOf(p, l) \in Symbols /\ \A j \in 1 .. Len(ValOf(p, l)) :
                                   ValOf(p, l)[j] # CR /\ ValOf(p, l)[j] # " "
  BY <1>4, <1>5, Zenon
<1>8. Line(KeyOf(l), ValOf(p, l)) \in Symbols
  BY <1>1, <1>7, LineType
<1>9. LineOf(p, l) \in Symbols
  BY <1>6, <1>8, Zenon DEF LineOf
<1> QED BY <1>1, <1>7, <1>9, Zenon

LEMMA FromType ==
  ASSUME NEW p \in Part
  PROVE  /\ p.data \in Symbols
         /\ \A l \in 1 .. 4 : From(p, l) \in Symbols
         /\ \A l \in 1 .. 3 : From(p, l) = LineOf(p, l) \o From(p, l + 1)
         /\ From(p, 4) = <<CR, LF>> \o p.data
<1>1. p.data \in Symbols
  <2>1. p.data \in Seq(Char) /\ Char \subseteq Symbol
    BY DEF Part, Symbol
  <2> QED BY <2>1, Wider DEF Symbols
<1>2. \A l \in 1 .. 3 : LineOf(p, l) \in Symbols
  BY LineOfType
<1>3. From4(p) \in Symbols
  BY <1>1, Texts, Concat DEF From4
<1>4. From3(p) \in Symbols
  BY <1>2, <1>3, Concat DEF From3
<1>5. From2(p) \in Symbols
  BY <1>2, <1>4, Concat DEF From2
<1>6. From1(p) \in Symbols
  BY <1>2, <1>5, Concat DEF From1
<1>7. From(p, 1) = From1(p) /\ From(p, 2) = From2(p) /\ From(p, 3) = From3(p)
      /\ From(p, 4) = From4(p)
  BY DEF From
<1>8. \A l \in 1 .. 4 : From(p, l) \in Symbols
  BY <1>3, <1>4, <1>5, <1>6, <1>7
<1>9. ASSUME NEW l \in 1 .. 3 PROVE From(p, l) = LineOf(p, l) \o From(p, l + 1)
  <2>1. l = 1 \/ l = 2 \/ l = 3
    OBVIOUS
  <2>2. 1 + 1 = 2 /\ 2 + 1 = 3 /\ 3 + 1 = 4
    OBVIOUS
  <2>3. CASE l = 1
    BY <1>7, <2>2, <2>3 DEF From1
  <2>4. CASE l = 2
    BY <1>7, <2>2, <2>4 DEF From2
  <2>5. CASE l = 3
    BY <1>7, <2>2, <2>5 DEF From3
  <2> QED BY <2>1, <2>3, <2>4, <2>5
<1> QED BY <1>1, <1>7, <1>8, <1>9 DEF From4

LEMMA Assoc ==
  ASSUME NEW r \in Symbols, NEW s \in Symbols, NEW t \in Symbols
  PROVE  (r \o s) \o t = r \o (s \o t)
BY DEF Symbols

Rebracketed(a, b, d, e, f, g) ==
  ((((a \o b) \o d) \o e) \o f) \o g = a \o (b \o (d \o (e \o (f \o g))))

\* The same with a name for the concatenation, which keeps the provers from
\* looking into it.
Cat(s, t) == s \o t

LEMMA CatAssoc ==
  /\ \A s, t \in Symbols : Cat(s, t) \in Symbols
  /\ \A r, s, t \in Symbols : Cat(Cat(r, s), t) = Cat(r, Cat(s, t))
<1>1. \A s, t \in Symbols : Cat(s, t) \in Symbols
  BY Concat DEF Cat
<1>2. ASSUME NEW r \in Symbols, NEW s \in Symbols, NEW t \in Symbols
      PROVE  Cat(Cat(r, s), t) = Cat(r, Cat(s, t))
  <2>1. (r \o s) \o t = r \o (s \o t)
    BY Assoc
  <2> QED BY <2>1, Zenon DEF Cat
<1> QED BY <1>1, <1>2

LEMMA Rebracket ==
  ASSUME NEW a \in Symbols, NEW b \in Symbols, NEW d \in Symbols, NEW e \in Symbols,
         NEW f \in Symbols, NEW g \in Symbols
  PROVE  Rebracketed(a, b, d, e, f, g)
<1> DEFINE ab == Cat(a, b)
           abd == Cat(ab, d)
           abde == Cat(abd, e)
           fg == Cat(f, g)
           efg == Cat(e, fg)
           defg == Cat(d, efg)
<1>1. ab \in Symbols /\ fg \in Symbols
  BY CatAssoc
<1>2. abd \in Symbols /\ efg \in Symbols
  BY <1>1, CatAssoc
<1>3. abde \in Symbols /\ defg \in Symbols
  BY <1>2, CatAssoc
<1> HIDE DEF ab, abd, abde, fg, efg, defg
<1>4. Cat(Cat(abde, f), g) = Cat(abde, fg)
  BY <1>3, CatAssoc DEF fg
<1>5. Cat(abde, fg) = Cat(abd, efg)
  BY <1>1, <1>2, CatAssoc DEF abde, efg
<1>6. Cat(abd, efg) = Cat(ab, defg)
  BY <1>1, <1>2, CatAssoc DEF abd, defg
<1>7. Cat(ab, defg) = Cat(a, Cat(b, defg))
  BY <1>3, CatAssoc DEF ab
<1>8. Cat(Cat(abde, f), g) = Cat(a, Cat(b, defg))
  BY <1>4, <1>5, <1>6, <1>7
<1> QED BY <1>8, Zenon DEF Rebracketed, Cat, defg, efg, fg, abde, abd, ab

\* A part is a delimiter, a line break, and then its lines and its data.
\* The lines of a part that may be missing.
LEMMA LinesAre ==
  ASSUME NEW p
  PROVE  /\ p.extra \in Header => HeaderLine(p.extra) = LineOf(p, 1)
         /\ p.type \in Header => HeaderLine(p.type) = LineOf(p, 3)
<1> DEFINE Is(h, l) == /\ h = "none" => ~HasLine(p, l)
                       /\ h = "empty" => HasLine(p, l) /\ ValOf(p, l) = <<>>
                       /\ h = "some" => HasLine(p, l) /\ ValOf(p, l) = <<"x">>
                       /\ KeyOf(l) = "other"
<1>1. Is(p.extra, 1)
  BY DEF HasLine, ValOf, KeyOf
<1>2. Is(p.type, 3)
  BY DEF HasLine, ValOf, KeyOf
<1>3. ASSUME NEW h \in Header, NEW l, Is(h, l) PROVE HeaderLine(h) = LineOf(p, l)
  <2>1. CASE h = "none"
    BY <1>3, <2>1 DEF HeaderLine, LineOf
  <2>2. CASE h = "empty"
    BY <1>3, <2>2 DEF HeaderLine, LineOf
  <2>3. CASE h = "some"
    BY <1>3, <2>3 DEF HeaderLine, LineOf
  <2> QED BY <2>1, <2>2, <2>3 DEF Header
<1> HIDE DEF Is
<1> QED BY <1>1, <1>2, <1>3

Opening(k) == (IF k = 1 THEN Boundary ELSE Delimiter) \o <<CR, LF>>

LEMMA PieceIs ==
  ASSUME NEW ps \in Seq(Part), NEW k \in 1 .. Len(ps)
  PROVE  /\ Piece(ps, k) \in Symbols
         /\ ~ps[k].ok => Piece(ps, k) = <<>>
         /\ ps[k].ok => Piece(ps, k) = Opening(k) \o From(ps[k], 1)
<1> DEFINE p == ps[k]
           crlf == <<CR, LF>>
<1>1. p \in Part
  OBVIOUS
<1>2. crlf \in Symbols /\ Boundary \in Symbols /\ Delimiter \in Symbols
  BY Texts
<1>3. /\ p.data \in Symbols
      /\ \A l \in 1 .. 4 : From(p, l) \in Symbols
      /\ \A l \in 1 .. 3 : From(p, l) = LineOf(p, l) \o From(p, l + 1)
      /\ From(p, 4) = crlf \o p.data
  BY <1>1, FromType
<1>4. LineOf(p, 1) \in Symbols /\ LineOf(p, 2) \in Symbols /\ LineOf(p, 3) \in Symbols
  <2>1. \A l \in 1 .. 3 : LineOf(p, l) \in Symbols
    BY <1>1, LineOfType
  <2> QED BY <2>1
<1>5. /\ ExtraLine(p) = LineOf(p, 1) /\ TypeLine(p) = LineOf(p, 3)
      /\ Line("disposition", <<p.value>>) = LineOf(p, 2)
  <2>1. p.extra \in Header /\ p.type \in Header
    BY <1>1 DEF Part
  <2>2. ExtraLine(p) = LineOf(p, 1)
    BY <2>1, LinesAre DEF ExtraLine
  <2>3. TypeLine(p) = LineOf(p, 3)
    BY <2>1, LinesAre DEF TypeLine
  <2>4. Line("disposition", <<p.value>>) = LineOf(p, 2)
    BY DEF LineOf, HasLine, KeyOf, ValOf
  <2> QED BY <2>2, <2>3, <2>4
<1> HIDE DEF p, crlf
<1>6. From(p, 1) = LineOf(p, 1) \o (LineOf(p, 2) \o (LineOf(p, 3) \o (crlf \o p.data)))
  <2>1. 1 + 1 = 2 /\ 2 + 1 = 3 /\ 3 + 1 = 4
    OBVIOUS
  <2>2. From(p, 3) = LineOf(p, 3) \o From(p, 4)
    BY <1>3, <2>1
  <2>3. From(p, 2) = LineOf(p, 2) \o From(p, 3)
    BY <1>3, <2>1
  <2>4. From(p, 1) = LineOf(p, 1) \o From(p, 2)
    BY <1>3, <2>1
  <2> QED BY <1>3, <2>2, <2>3, <2>4
<1>7. Boundary \o crlf \in Symbols /\ From(p, 1) \in Symbols
  BY <1>2, <1>3, Concat
<1>8. EncodePart(p) = (Boundary \o crlf) \o From(p, 1)
  <2>1. EncodePart(p) = (((((Boundary \o crlf) \o LineOf(p, 1)) \o LineOf(p, 2))
                           \o LineOf(p, 3)) \o crlf) \o p.data
    BY <1>5 DEF EncodePart, crlf
  <2> DEFINE o == Boundary \o crlf
             l1 == LineOf(p, 1)
             l2 == LineOf(p, 2)
             l3 == LineOf(p, 3)
             d == p.data
  <2>2. /\ o \in Symbols /\ l1 \in Symbols /\ l2 \in Symbols /\ l3 \in Symbols
        /\ crlf \in Symbols /\ d \in Symbols
    BY <1>2, <1>3, <1>4, <1>7
  <2> HIDE DEF o, l1, l2, l3, d
  <2>3. ((((o \o l1) \o l2) \o l3) \o crlf) \o d = o \o (l1 \o (l2 \o (l3 \o (crlf \o d))))
    <3>1. Rebracketed(o, l1, l2, l3, crlf, d)
      BY <2>2, Rebracket, Zenon
    <3> QED BY <3>1 DEF Rebracketed
  <2> QED BY <1>6, <2>1, <2>3 DEF o, l1, l2, l3, d
<1>9. EncodePart(p) \in Symbols
  BY <1>7, <1>8, Concat
<1>10. CASE ~p.ok
  <2>1. Piece(ps, k) = <<>>
    BY <1>10 DEF Piece, p
  <2>2. <<>> \in Symbols
    BY DEF Symbols
  <2> QED BY <1>10, <2>1, <2>2 DEF p
<1>11. CASE p.ok /\ k = 1
  <2>1. Piece(ps, k) = <<>> \o EncodePart(p)
    BY <1>11 DEF Piece, p
  <2>2. <<>> \o EncodePart(p) = EncodePart(p)
    BY <1>9 DEF Symbols
  <2>3. Opening(k) = Boundary \o crlf
    BY <1>11 DEF Opening, crlf
  <2> QED BY <1>8, <1>9, <1>11, <2>1, <2>2, <2>3 DEF p
<1>12. CASE p.ok /\ k # 1
  <2>1. Piece(ps, k) = crlf \o EncodePart(p)
    BY <1>12 DEF Piece, p, crlf
  <2>2. Opening(k) = (crlf \o Boundary) \o crlf
    BY <1>12 DEF Opening, Delimiter, crlf
  <2>3. crlf \o ((Boundary \o crlf) \o From(p, 1)) = (crlf \o (Boundary \o crlf)) \o From(p, 1)
    <3>1. Boundary \o crlf \in Symbols
      BY <1>2, Concat
    <3> DEFINE q == Boundary \o crlf
               f == From(p, 1)
    <3>2. q \in Symbols /\ f \in Symbols /\ crlf \in Symbols
      BY <1>2, <1>7, <3>1
    <3> HIDE DEF q, f
    <3>3. Cat(crlf, Cat(q, f)) = Cat(Cat(crlf, q), f)
      BY <3>2, CatAssoc
    <3> QED BY <3>3, Zenon DEF Cat, q, f
  <2>4. crlf \o (Boundary \o crlf) = (crlf \o Boundary) \o crlf
    BY <1>2, Assoc
  <2>5. Piece(ps, k) \in Symbols
    BY <1>2, <1>9, <2>1, Concat
  <2> QED BY <1>8, <1>12, <2>1, <2>2, <2>3, <2>4, <2>5 DEF p
<1> QED BY <1>10, <1>11, <1>12

\* g is the recursive function of Content, up to n.
Upto(g, ps, n) == g = [k \in 0 .. n |-> IF k = 0 THEN <<>> ELSE g[k-1] \o Piece(ps, k)]

LEMMA UptoAt ==
  ASSUME NEW ps, NEW n \in Nat, NEW g, Upto(g, ps, n)
  PROVE  g[0] = <<>> /\ \A k \in 1 .. n : g[k] = g[k-1] \o Piece(ps, k)
<1>1. g = [k \in 0 .. n |-> IF k = 0 THEN <<>> ELSE g[k-1] \o Piece(ps, k)]
  BY DEF Upto
<1>2. \A k \in 0 .. n : g[k] = IF k = 0 THEN <<>> ELSE g[k-1] \o Piece(ps, k)
  BY <1>1
<1>3. \A k \in 1 .. n : k \in 0 .. n /\ k # 0
  OBVIOUS
<1>4. 0 \in 0 .. n
  OBVIOUS
<1> QED BY <1>2, <1>3, <1>4

LEMMA UptoExists ==
  ASSUME NEW ps, NEW n \in Nat
  PROVE  \E g : Upto(g, ps, n)
<1> DEFINE S == {m \in Nat : \E g : Upto(g, ps, m)}
<1>1. 0 \in S
  <2> DEFINE g == [k \in 0 .. 0 |-> <<>>]
  <2>1. Upto(g, ps, 0)
    BY DEF Upto
  <2> QED BY <2>1
<1>2. ASSUME NEW m \in S PROVE m + 1 \in S
  <2>1. PICK g : Upto(g, ps, m)
    OBVIOUS
  <2>2. m \in Nat
    OBVIOUS
  <2>3. g[0] = <<>> /\ \A k \in 1 .. m : g[k] = g[k-1] \o Piece(ps, k)
    BY <2>1, <2>2, UptoAt
  <2> HIDE DEF S
  <2> DEFINE h == [k \in 0 .. m + 1 |-> IF k = m + 1 THEN g[m] \o Piece(ps, m + 1) ELSE g[k]]
             e == [k \in 0 .. m + 1 |-> IF k = 0 THEN <<>> ELSE h[k-1] \o Piece(ps, k)]
  <2>4. \A k \in 0 .. m : h[k] = g[k]
    BY <2>2
  <2>5. h[m + 1] = g[m] \o Piece(ps, m + 1)
    BY <2>2
  <2>6. ASSUME NEW k \in 0 .. m + 1
        PROVE  h[k] = IF k = 0 THEN <<>> ELSE h[k-1] \o Piece(ps, k)
    <3> HIDE DEF h
    <3>1. CASE k = 0
      BY <2>2, <2>3, <2>4, <3>1
    <3>2. CASE k \in 1 .. m
      <4>1. k # 0 /\ h[k] = g[k] /\ h[k-1] = g[k-1]
        BY <2>2, <2>4, <3>2
      <4> QED BY <2>3, <3>2, <4>1
    <3>3. CASE k = m + 1
      <4>1. k # 0 /\ h[k-1] = g[m]
        BY <2>2, <2>4, <3>3
      <4> QED BY <2>5, <3>3, <4>1
    <3> QED BY <2>2, <3>1, <3>2, <3>3
  <2>7. h = e
    BY <2>6
  <2>8. Upto(h, ps, m + 1)
    BY <2>7 DEF Upto
  <2> QED BY <2>2, <2>8 DEF S
<1>3. S = Nat
  <2>1. S \in SUBSET Nat
    OBVIOUS
  <2> HIDE DEF S
  <2> QED BY <1>1, <1>2, <2>1, SetInduction
<1> QED BY <1>3

LEMMA ContentIs ==
  ASSUME NEW ps \in Seq(Part)
  PROVE  /\ Content(ps)[0] = <<>>
         /\ \A k \in 1 .. Len(ps) : Content(ps)[k] = Content(ps)[k-1] \o Piece(ps, k)
         /\ \A k \in 0 .. Len(ps) : Content(ps)[k] \in Symbols
<1> DEFINE g == CHOOSE h : Upto(h, ps, Len(ps))
<1>1. Len(ps) \in Nat
  OBVIOUS
<1>2. Upto(g, ps, Len(ps))
  BY <1>1, UptoExists
<1>3. Content(ps) = g
  BY DEF Content, Upto
<1> HIDE DEF g
<1>4. g[0] = <<>> /\ \A k \in 1 .. Len(ps) : g[k] = g[k-1] \o Piece(ps, k)
  BY <1>1, <1>2, UptoAt
<1> DEFINE S == {k \in Nat : k <= Len(ps) => g[k] \in Symbols}
<1>5. 0 \in S
  <2>1. <<>> \in Symbols
    BY DEF Symbols
  <2> QED BY <1>4, <2>1
<1>6. ASSUME NEW k \in S PROVE k + 1 \in S
  <2>1. SUFFICES ASSUME k + 1 <= Len(ps) PROVE g[k + 1] \in Symbols
    OBVIOUS
  <2>2. k \in Nat /\ k + 1 \in 1 .. Len(ps) /\ (k + 1) - 1 = k /\ g[k] \in Symbols
    BY <1>1, <2>1
  <2>3. g[k + 1] = g[k] \o Piece(ps, k + 1)
    BY <1>4, <2>2
  <2>4. Piece(ps, k + 1) \in Symbols
    BY <2>2, PieceIs
  <2> QED BY <2>2, <2>3, <2>4, Concat
<1>7. S = Nat
  <2>1. S \in SUBSET Nat
    OBVIOUS
  <2> HIDE DEF S
  <2> QED BY <1>5, <1>6, <2>1, SetInduction
<1>8. \A k \in 0 .. Len(ps) : g[k] \in Symbols
  BY <1>1, <1>7
<1> QED BY <1>3, <1>4, <1>8

LEMMA ClosingIs ==
  /\ Closing \in Symbols /\ Len(Closing) = Len(Delimiter) + 4
  /\ \A j \in 1 .. Len(Delimiter) : Closing[j] = Delimiter[j]
  /\ Closing[Len(Delimiter) + 1] = "-" /\ Closing[Len(Delimiter) + 2] = "-"
<1> DEFINE t == <<"-", "-", CR, LF>>
<1>1. t \in Symbols /\ Len(t) = 4 /\ t[1] = "-" /\ t[2] = "-"
  <2>1. ASSUME NEW a \in Symbol, NEW b \in Symbol, NEW d \in Symbol
        PROVE  /\ <<a, a, b, d>> \in Symbols /\ Len(<<a, a, b, d>>) = 4
               /\ <<a, a, b, d>>[1] = a /\ <<a, a, b, d>>[2] = a
    BY DEF Symbols
  <2>2. "-" \in Symbol /\ CR \in Symbol /\ LF \in Symbol
    BY Texts DEF Symbol
  <2> QED BY <2>1, <2>2
<1> HIDE DEF t
<1>2. Delimiter \in Symbols
  BY Texts
<1>3. /\ Delimiter \o t \in Symbols /\ Len(Delimiter \o t) = Len(Delimiter) + Len(t)
      /\ \A j \in 1 .. Len(Delimiter) : (Delimiter \o t)[j] = Delimiter[j]
      /\ \A j \in 1 .. Len(t) : (Delimiter \o t)[Len(Delimiter) + j] = t[j]
  BY <1>1, <1>2, Concat
<1>4. Closing = Delimiter \o t
  BY DEF Closing, t
<1>5. /\ Closing[Len(Delimiter) + 1] = t[1]
      /\ Closing[Len(Delimiter) + 2] = t[2]
  <2>1. 1 \in 1 .. Len(t) /\ 2 \in 1 .. Len(t)
    BY <1>1
  <2> QED BY <1>3, <1>4, <2>1
<1>6. Closing[Len(Delimiter) + 1] = "-" /\ Closing[Len(Delimiter) + 2] = "-"
  BY <1>1, <1>5, Zenon
<1>7. Len(Delimiter \o t) = Len(Delimiter) + 4
  BY <1>1, <1>3
<1> QED BY <1>3, <1>4, <1>6, <1>7, Zenon

\* What was written stays at the beginning.
LEMMA ContentGrows ==
  ASSUME NEW ps \in Seq(Part), NEW k \in 0 .. Len(ps), NEW m \in k .. Len(ps)
  PROVE  Begins(Content(ps)[k], Content(ps)[m])
<1> DEFINE C == Content(ps)
           S == {d \in Nat : k + d <= Len(ps) => Begins(C[k], C[k + d])}
<1>0. Len(ps) \in Nat
  OBVIOUS
<1>1. /\ \A n \in 1 .. Len(ps) : C[n] = C[n-1] \o Piece(ps, n)
      /\ \A n \in 0 .. Len(ps) : C[n] \in Symbols
  BY ContentIs
<1> HIDE DEF C
<1>2. 0 \in S
  <2>1. C[k] \in Symbols /\ k + 0 = k
    BY <1>1
  <2> QED BY <2>1 DEF Begins, Symbols
<1>3. ASSUME NEW d \in S PROVE d + 1 \in S
  <2>1. SUFFICES ASSUME k + (d + 1) <= Len(ps) PROVE Begins(C[k], C[k + (d + 1)])
    OBVIOUS
  <2>2. d \in Nat /\ k + d <= Len(ps) /\ Begins(C[k], C[k + d])
    BY <1>0, <2>1
  <2> DEFINE n == k + (d + 1)
  <2>3. n \in 1 .. Len(ps) /\ n - 1 = k + d /\ k + d \in 0 .. Len(ps)
    BY <1>0, <2>1, <2>2
  <2> HIDE DEF n, S
  <2>4. C[n] = C[k + d] \o Piece(ps, n) /\ C[k + d] \in Symbols /\ C[k] \in Symbols
    BY <1>1, <2>3
  <2>5. Piece(ps, n) \in Symbols
    BY <2>3, PieceIs
  <2>6. /\ Len(C[n]) = Len(C[k + d]) + Len(Piece(ps, n))
        /\ Len(C[k + d]) \in Nat /\ Len(Piece(ps, n)) \in Nat
        /\ \A j \in 1 .. Len(C[k + d]) : C[n][j] = C[k + d][j]
    BY <2>4, <2>5, Concat
  <2>7. Len(C[k]) \in Nat
    BY <2>4 DEF Symbols
  <2>8. Begins(C[k], C[n])
    BY <2>2, <2>6, <2>7 DEF Begins
  <2> QED BY <2>8 DEF n
<1>4. S = Nat
  <2>1. S \in SUBSET Nat
    OBVIOUS
  <2> HIDE DEF S
  <2> QED BY <1>2, <1>3, <2>1, SetInduction
<1>5. m - k \in Nat /\ k + (m - k) = m /\ k + (m - k) <= Len(ps)
  BY <1>0
<1>6. Begins(C[k], C[k + (m - k)])
  BY <1>4, <1>5
<1> QED BY <1>5, <1>6 DEF C

LEMMA Layout ==
  ASSUME parts \in PartLists
  PROVE  /\ parts \in Seq(Part) /\ N \in Nat
         /\ \A k \in 1 .. N + 1 : Off(k) \in Nat /\ Off(k) <= Off(N + 1)
         /\ Off(1) = 0
         /\ \A k \in 1 .. N :
              /\ Off(k + 1) = Off(k) + Len(Piece(parts, k))
              /\ \A j \in 1 .. Len(Piece(parts, k)) : Whole[Off(k) + j] = Piece(parts, k)[j]
         /\ Whole \in Symbols /\ Len(Whole) = Off(N + 1) + Len(Closing)
         /\ \A j \in 1 .. Len(Closing) : Whole[Off(N + 1) + j] = Closing[j]
<1> DEFINE C == Content(parts)
<1>1. parts \in Seq(Part)
  BY ConstantsAssumption
<1>2. N \in Nat /\ N = Len(parts)
  BY <1>1 DEF N
<1>3. /\ C[0] = <<>>
      /\ \A k \in 1 .. N : C[k] = C[k-1] \o Piece(parts, k)
      /\ \A k \in 0 .. N : C[k] \in Symbols
  BY <1>1, <1>2, ContentIs
<1>4. \A k \in 0 .. N : Begins(C[k], C[N])
  <2>1. \A k \in 0 .. N : N \in k .. N
    BY <1>2
  <2> QED BY <1>1, <1>2, <2>1, ContentGrows
<1>5. \A k : Off(k) = Len(C[k-1])
  BY DEF Off
<1>6. Whole = C[N] \o Closing
  BY <1>2 DEF Whole, Encode
<1>7. \A k \in 1 .. N : Piece(parts, k) \in Symbols
  BY <1>1, <1>2, PieceIs
<1> HIDE DEF C
<1>8. C[N] \in Symbols /\ Closing \in Symbols
  BY <1>2, <1>3, ClosingIs
<1>9. /\ Whole \in Symbols /\ Len(Whole) = Len(C[N]) + Len(Closing)
      /\ \A j \in 1 .. Len(C[N]) : Whole[j] = C[N][j]
      /\ \A j \in 1 .. Len(Closing) : Whole[Len(C[N]) + j] = Closing[j]
  BY <1>6, <1>8, Concat
<1>10. Off(N + 1) = Len(C[N])
  <2>1. (N + 1) - 1 = N
    BY <1>2
  <2> QED BY <1>5, <2>1
<1>11. Off(1) = 0
  <2>1. 1 - 1 = 0 /\ Len(<<>>) = 0
    OBVIOUS
  <2> QED BY <1>3, <1>5, <2>1
<1>12. ASSUME NEW k \in 1 .. N + 1 PROVE Off(k) \in Nat /\ Off(k) <= Off(N + 1)
  <2>1. k - 1 \in 0 .. N
    BY <1>2
  <2>2. C[k-1] \in Symbols /\ Begins(C[k-1], C[N])
    BY <1>3, <1>4, <2>1
  <2>3. Len(C[k-1]) \in Nat
    BY <2>2 DEF Symbols
  <2> QED BY <1>5, <1>10, <2>2, <2>3 DEF Begins
<1>13. ASSUME NEW k \in 1 .. N
       PROVE  /\ Off(k + 1) = Off(k) + Len(Piece(parts, k))
              /\ \A j \in 1 .. Len(Piece(parts, k)) : Whole[Off(k) + j] = Piece(parts, k)[j]
  <2>1. k \in 0 .. N /\ k - 1 \in 0 .. N /\ (k + 1) - 1 = k
    BY <1>2
  <2>2. /\ C[k] = C[k-1] \o Piece(parts, k) /\ C[k-1] \in Symbols
        /\ C[k] \in Symbols /\ Piece(parts, k) \in Symbols
        /\ Off(k) = Len(C[k-1]) /\ Off(k + 1) = Len(C[k])
    BY <1>3, <1>5, <1>7, <2>1
  <2>3. /\ Len(C[k]) = Len(C[k-1]) + Len(Piece(parts, k))
        /\ Len(C[k-1]) \in Nat /\ Len(Piece(parts, k)) \in Nat
        /\ \A j \in 1 .. Len(Piece(parts, k)) :
             C[k][Len(C[k-1]) + j] = Piece(parts, k)[j]
    BY <2>2, Concat
  <2>4. Len(C[k]) <= Len(C[N]) /\ \A j \in 1 .. Len(C[k]) : C[k][j] = C[N][j]
    BY <1>4, <2>1 DEF Begins
  <2>5. Len(C[N]) \in Nat
    BY <1>8 DEF Symbols
  <2>6. ASSUME NEW j \in 1 .. Len(Piece(parts, k))
        PROVE  Whole[Off(k) + j] = Piece(parts, k)[j]
    <3>1. Off(k) + j \in 1 .. Len(C[k]) /\ Off(k) + j \in 1 .. Len(C[N])
      BY <2>2, <2>3, <2>4, <2>5
    <3>2. Whole[Off(k) + j] = C[k][Off(k) + j]
      BY <1>9, <2>4, <3>1
    <3> QED BY <2>2, <2>3, <3>2
  <2> QED BY <2>2, <2>3, <2>6
<1>14. \A j \in 1 .. Len(Closing) : Whole[Off(N + 1) + j] = Closing[j]
  BY <1>9, <1>10
<1>15. Len(Whole) = Off(N + 1) + Len(Closing)
  BY <1>9, <1>10
<1> QED BY <1>1, <1>2, <1>9, <1>11, <1>12, <1>13, <1>14, <1>15

-----------------------------------------------------------------------------
(***************************************************************************)
(* Which symbol is where.                                                  *)
(***************************************************************************)
Reads(x, t) == \A j \in 1 .. Len(t) : Whole[x - 1 + j] = t[j]

LEMMA ReadsSplit ==
  ASSUME NEW s \in Symbols, NEW t \in Symbols, NEW x \in Nat, Reads(x, s \o t)
  PROVE  Reads(x, s) /\ Reads(x + Len(s), t)
<1>1. /\ Len(s \o t) = Len(s) + Len(t) /\ Len(s) \in Nat /\ Len(t) \in Nat
      /\ \A j \in 1 .. Len(s) : (s \o t)[j] = s[j]
      /\ \A j \in 1 .. Len(t) : (s \o t)[Len(s) + j] = t[j]
  BY Concat
<1>2. \A j \in 1 .. Len(s) + Len(t) : Whole[x - 1 + j] = (s \o t)[j]
  BY <1>1 DEF Reads
<1> DEFINE st == s \o t
<1> HIDE DEF st
<1>3. ASSUME NEW j \in 1 .. Len(s) PROVE Whole[x - 1 + j] = s[j]
  <2>1. j \in 1 .. Len(s) + Len(t)
    BY <1>1
  <2> QED BY <1>1, <1>2, <2>1
<1>4. ASSUME NEW j \in 1 .. Len(t) PROVE Whole[(x + Len(s)) - 1 + j] = t[j]
  <2>1. Len(s) + j \in 1 .. Len(s) + Len(t)
    BY <1>1
  <2>2. x - 1 + (Len(s) + j) = (x + Len(s)) - 1 + j
    BY <1>1
  <2>3. Whole[x - 1 + (Len(s) + j)] = (s \o t)[Len(s) + j]
    BY <1>2, <2>1
  <2> QED BY <1>1, <2>2, <2>3
<1> QED BY <1>3, <1>4 DEF Reads

LEMMA PartAt ==
  ASSUME parts \in PartLists, NEW k \in WrittenPart
  PROVE  /\ k \in 1 .. N /\ parts[k] \in Part /\ parts[k].ok
         /\ Off(k) \in Nat /\ Reads(Off(k) + 1, Opening(k)) /\ Opening(k) \in Symbols
         /\ LineStart(k, 1) = Off(k) + 1 + Len(Opening(k))
         /\ \A l \in 1 .. 4 : LineStart(k, l) \in Nat \ {0}
         /\ \A l \in 1 .. 3 : /\ Reads(LineStart(k, l), LineOf(parts[k], l))
                              /\ LineStart(k, l + 1) = LineStart(k, l) + Len(LineOf(parts[k], l))
         /\ Reads(LineStart(k, 4), <<CR, LF>>) /\ DataAt(k) = LineStart(k, 4) + 2
         /\ DataAt(k) \in Nat \ {0} /\ Reads(DataAt(k), parts[k].data)
         /\ parts[k].data \in Symbols /\ Off(k + 1) + 1 = DataAt(k) + Len(parts[k].data)
<1> DEFINE p == parts[k]
           o == Opening(k)
           F(l) == From(p, l)
<1>1. k \in 1 .. N /\ p.ok /\ N \in Nat /\ N = Len(parts) /\ parts \in Seq(Part)
  BY Layout DEF WrittenPart, N
<1>2. p \in Part
  BY <1>1
<1>3. /\ p.data \in Symbols
      /\ \A l \in 1 .. 4 : F(l) \in Symbols
      /\ \A l \in 1 .. 3 : F(l) = LineOf(p, l) \o F(l + 1)
      /\ F(4) = <<CR, LF>> \o p.data
  BY <1>2, FromType
<1>4. Opening(k) \in Symbols
  BY Texts, Concat DEF Opening
<1>5. Piece(parts, k) = Opening(k) \o F(1)
  BY <1>1, PieceIs
<1>6. /\ Off(k) \in Nat
      /\ Off(k + 1) = Off(k) + Len(Piece(parts, k))
      /\ \A j \in 1 .. Len(Piece(parts, k)) : Whole[Off(k) + j] = Piece(parts, k)[j]
  <2>1. k \in 1 .. N + 1
    BY <1>1
  <2> QED BY <1>1, <2>1, Layout
<1>7. \A l \in 1 .. 3 : LineOf(p, l) \in Symbols
  BY <1>2, LineOfType
<1>8. \A l \in 1 .. 4 : LineStart(k, l) = Off(k + 1) + 1 - Len(F(l))
  BY DEF LineStart
<1>9. DataAt(k) = Off(k + 1) + 1 - Len(p.data)
  BY DEF DataAt
<1> HIDE DEF p, o, F
<1>10. Len(o \o F(1)) = Len(o) + Len(F(1)) /\ Len(o) \in Nat /\ Len(F(1)) \in Nat
  BY <1>3, <1>4, Concat DEF o
<1>11. Reads(Off(k) + 1, o \o F(1))
  <2>1. \A j \in 1 .. Len(o \o F(1)) : Whole[Off(k) + j] = (o \o F(1))[j]
    BY <1>5, <1>6 DEF o
  <2>2. \A j \in Nat : (Off(k) + 1) - 1 + j = Off(k) + j
    BY <1>6
  <2>3. \A j \in 1 .. Len(o \o F(1)) : j \in Nat
    BY <1>10
  <2> QED BY <2>1, <2>2, <2>3 DEF Reads
<1>12. Reads(Off(k) + 1, o) /\ Reads(Off(k) + 1 + Len(o), F(1))
  <2>1. F(1) \in Symbols /\ o \in Symbols /\ Off(k) + 1 \in Nat
    BY <1>3, <1>4, <1>6 DEF o
  <2> QED BY <1>11, <2>1, ReadsSplit, Zenon
<1>13. Off(k + 1) = Off(k) + Len(o) + Len(F(1))
  <2>1. Off(k + 1) = Off(k) + Len(o \o F(1))
    BY <1>5, <1>6 DEF o
  <2> QED BY <1>6, <1>10, <2>1
<1>14. LineStart(k, 1) = Off(k) + 1 + Len(o) /\ LineStart(k, 1) \in Nat \ {0}
  <2>1. LineStart(k, 1) = Off(k + 1) + 1 - Len(F(1))
    BY <1>8
  <2>2. Off(k) \in Nat
    BY <1>6
  <2> DEFINE a == Len(o)
             b == Len(F(1))
             x == Off(k)
  <2>3. a \in Nat /\ b \in Nat /\ x \in Nat /\ LineStart(k, 1) = x + a + b + 1 - b
    BY <1>10, <1>13, <2>1, <2>2
  <2>4. LineStart(k, 1) = x + 1 + a
    <3> HIDE DEF a, b, x
    <3> QED BY <2>3
  <2> QED BY <2>3, <2>4
<1>15. Off(k + 1) \in Nat
  BY <1>6, <1>10, <1>13
<1> DEFINE Good(l) == LineStart(k, l) \in Nat \ {0} /\ Reads(LineStart(k, l), F(l))
<1>16. ASSUME NEW l \in 1 .. 3, Good(l)
       PROVE  /\ Reads(LineStart(k, l), LineOf(p, l))
              /\ LineStart(k, l + 1) = LineStart(k, l) + Len(LineOf(p, l))
              /\ Good(l + 1)
  <2> DEFINE a == LineOf(p, l)
             b == F(l + 1)
  <2>0. l \in 1 .. 4 /\ l + 1 \in 1 .. 4
    OBVIOUS
  <2>1. a \in Symbols /\ b \in Symbols /\ F(l) = a \o b
    BY <1>3, <1>7, <2>0, Zenon
  <2>2. LineStart(k, l) = Off(k + 1) + 1 - Len(F(l))
        /\ LineStart(k, l + 1) = Off(k + 1) + 1 - Len(b)
    BY <1>8, <2>0
  <2> HIDE DEF a, b
  <2>3. Len(F(l)) = Len(a) + Len(b) /\ Len(a) \in Nat /\ Len(b) \in Nat
    BY <2>1, Concat
  <2>4. Reads(LineStart(k, l), a) /\ Reads(LineStart(k, l) + Len(a), b)
    BY <1>16, <2>1, ReadsSplit
  <2>5. LineStart(k, l + 1) = LineStart(k, l) + Len(a) /\ LineStart(k, l + 1) \in Nat \ {0}
    BY <1>15, <1>16, <2>2, <2>3
  <2> QED BY <2>4, <2>5 DEF a, b
<1>17. Good(1)
  BY <1>12, <1>14
<1>18. Good(2) /\ Good(3) /\ Good(4)
  <2>1. 1 + 1 = 2 /\ 2 + 1 = 3 /\ 3 + 1 = 4 /\ 1 \in 1 .. 3 /\ 2 \in 1 .. 3 /\ 3 \in 1 .. 3
    OBVIOUS
  <2> HIDE DEF Good
  <2>2. \A l \in 1 .. 3 : Good(l) => Good(l + 1)
    BY <1>16
  <2> QED BY <1>17, <2>1, <2>2
<1>19. \A l \in 1 .. 4 : Good(l)
  <2>1. \A l \in 1 .. 4 : l = 1 \/ l = 2 \/ l = 3 \/ l = 4
    OBVIOUS
  <2> HIDE DEF Good
  <2> QED BY <1>17, <1>18, <2>1
<1>20. /\ Reads(LineStart(k, 4), <<CR, LF>>) /\ Reads(LineStart(k, 4) + 2, p.data)
       /\ Len(F(4)) = 2 + Len(p.data) /\ Len(p.data) \in Nat
  <2> DEFINE a == <<CR, LF>>
             d == p.data
  <2>1. a \in Symbols /\ Len(a) = 2 /\ d \in Symbols /\ F(4) = a \o d
    BY <1>3, Texts
  <2> HIDE DEF a, d
  <2>2. Len(a \o d) = Len(a) + Len(d) /\ Len(d) \in Nat
    BY <2>1, Concat
  <2>3. LineStart(k, 4) \in Nat /\ Reads(LineStart(k, 4), F(4))
    BY <1>18
  <2>4. Reads(LineStart(k, 4), a \o d)
    BY <2>1, <2>3, Zenon
  <2>5. Reads(LineStart(k, 4), a) /\ Reads(LineStart(k, 4) + Len(a), d)
    BY <2>1, <2>3, <2>4, ReadsSplit
  <2>6. Len(F(4)) = Len(a \o d)
    BY <2>1, Zenon
  <2>7. Reads(LineStart(k, 4) + 2, d) /\ Len(F(4)) = 2 + Len(d)
    BY <2>1, <2>2, <2>5, <2>6
  <2> QED BY <2>2, <2>5, <2>7, Zenon DEF a, d
<1>21. DataAt(k) = LineStart(k, 4) + 2 /\ DataAt(k) \in Nat \ {0}
       /\ Off(k + 1) + 1 = DataAt(k) + Len(p.data)
  <2>1. LineStart(k, 4) = Off(k + 1) + 1 - Len(F(4)) /\ LineStart(k, 4) \in Nat
    BY <1>8, <1>19
  <2> DEFINE x == Off(k + 1)
             y == Len(p.data)
             z == LineStart(k, 4)
  <2>2. x \in Nat /\ y \in Nat /\ z \in Nat /\ z = x + 1 - (2 + y) /\ DataAt(k) = x + 1 - y
    BY <1>9, <1>15, <1>20, <2>1, Zenon
  <2> HIDE DEF x, y, z
  <2>3. DataAt(k) = z + 2 /\ DataAt(k) \in Nat \ {0} /\ x + 1 = DataAt(k) + y
    BY <2>2
  <2> QED BY <2>3 DEF x, y, z
<1>22. \A l \in 1 .. 3 : /\ Reads(LineStart(k, l), LineOf(p, l))
                         /\ LineStart(k, l + 1) = LineStart(k, l) + Len(LineOf(p, l))
  <2>1. \A l \in 1 .. 3 : l \in 1 .. 4
    OBVIOUS
  <2> HIDE DEF Good
  <2> QED BY <1>16, <1>19, <2>1
<1>23. \A l \in 1 .. 4 : LineStart(k, l) \in Nat \ {0}
  BY <1>19
<1>24. Reads(DataAt(k), p.data)
  BY <1>20, <1>21
<1> HIDE DEF Good
<1> QED BY <1>1, <1>2, <1>3, <1>4, <1>6, <1>12, <1>14, <1>20, <1>21, <1>22, <1>23, <1>24
      DEF p, o

IsLine(s, key, val) ==
  /\ s \in Symbols /\ Len(s) = Len(val) + 5
  /\ s[1] = key /\ s[2] = ":" /\ s[3] = " "
  /\ \A j \in 1 .. Len(val) : s[3 + j] = val[j]
  /\ s[Len(val) + 4] = CR /\ s[Len(val) + 5] = LF

LineThere(x, key, val, n) ==
  /\ Whole[x] = key /\ Whole[x + 1] = ":" /\ Whole[x + 2] = " "
  /\ \A j \in 1 .. n : Whole[x + 2 + j] = val[j]
  /\ Whole[x + 3 + n] = CR /\ Whole[x + 4 + n] = LF

LEMMA LineIsLine ==
  ASSUME NEW key \in Symbol, NEW val \in Symbols
  PROVE  IsLine(Line(key, val), key, val)
BY LineType, Zenon DEF IsLine

LEMMA LineReads ==
  ASSUME NEW key, NEW val \in Symbols, NEW s, IsLine(s, key, val), NEW x \in Nat \ {0},
         NEW n \in Nat, n = Len(val), Reads(x, s)
  PROVE  LineThere(x, key, val, n)
<1>1. /\ Len(s) = n + 5 /\ \A j \in 1 .. n : s[3 + j] = val[j]
      /\ s[1] = key /\ s[2] = ":" /\ s[3] = " " /\ s[n + 4] = CR /\ s[n + 5] = LF
  BY DEF IsLine
<1>2. \A j \in 1 .. n + 5 : Whole[x - 1 + j] = s[j]
  BY <1>1 DEF Reads
<1>3. /\ x - 1 + 1 = x /\ x - 1 + 2 = x + 1 /\ x - 1 + 3 = x + 2
      /\ x - 1 + (n + 4) = x + 3 + n /\ x - 1 + (n + 5) = x + 4 + n
      /\ 1 \in 1 .. n + 5 /\ 2 \in 1 .. n + 5 /\ 3 \in 1 .. n + 5
      /\ n + 4 \in 1 .. n + 5 /\ n + 5 \in 1 .. n + 5
  OBVIOUS
<1>4. /\ Whole[x] = s[1] /\ Whole[x + 1] = s[2] /\ Whole[x + 2] = s[3]
      /\ Whole[x + 3 + n] = s[n + 4] /\ Whole[x + 4 + n] = s[n + 5]
  BY <1>2, <1>3
<1>5. ASSUME NEW j \in 1 .. n PROVE Whole[x + 2 + j] = val[j]
  <2>1. 3 + j \in 1 .. n + 5 /\ x - 1 + (3 + j) = x + 2 + j
    OBVIOUS
  <2> QED BY <1>1, <1>2, <2>1
<1>6. /\ Whole[x] = key /\ Whole[x + 1] = ":" /\ Whole[x + 2] = " "
      /\ Whole[x + 3 + n] = CR /\ Whole[x + 4 + n] = LF
  BY <1>1, <1>4, Zenon
<1> QED BY <1>5, <1>6 DEF LineThere

LEMMA LineIs ==
  ASSUME parts \in PartLists, NEW k \in WrittenPart, NEW l \in 1 .. 3, NEW x, NEW n, NEW val,
         x = LineStart(k, l), val = ValOf(parts[k], l), n = Len(val)
  PROVE  /\ x \in Nat \ {0} /\ n \in Nat /\ val \in Symbols
         /\ HasLine(parts[k], l) =>
              /\ LineThere(x, KeyOf(l), val, n)
              /\ LineStart(k, l + 1) = x + 5 + n
         /\ ~HasLine(parts[k], l) => LineStart(k, l + 1) = x
<1> DEFINE p == parts[k]
           line == Line(KeyOf(l), val)
<1>1. /\ p \in Part /\ x \in Nat \ {0} /\ Reads(x, LineOf(p, l))
      /\ LineStart(k, l + 1) = x + Len(LineOf(p, l))
  <2>1. /\ p \in Part /\ \A j \in 1 .. 4 : LineStart(k, j) \in Nat \ {0}
        /\ \A j \in 1 .. 3 : /\ Reads(LineStart(k, j), LineOf(p, j))
                             /\ LineStart(k, j + 1) = LineStart(k, j) + Len(LineOf(p, j))
    BY PartAt, Zenon
  <2>2. l \in 1 .. 4
    OBVIOUS
  <2> QED BY <2>1, <2>2, Zenon
<1>2. KeyOf(l) \in Symbol /\ val \in Symbols
  BY <1>1, LineOfType
<1>3. n \in Nat
  BY <1>2 DEF Symbols
<1>4. CASE ~HasLine(p, l)
  <2>1. LineOf(p, l) = <<>>
    BY <1>4 DEF LineOf
  <2>2. Len(LineOf(p, l)) = 0
    BY <2>1
  <2>3. LineStart(k, l + 1) = x
    BY <1>1, <2>2
  <2> QED BY <1>1, <1>2, <1>3, <1>4, <2>3
<1>5. CASE HasLine(p, l)
  <2>1. LineOf(p, l) = line
    BY <1>5 DEF LineOf
  <2>2. IsLine(line, KeyOf(l), val)
    BY <1>2, LineIsLine
  <2>3. Reads(x, line) /\ LineStart(k, l + 1) = x + Len(line)
    BY <1>1, <2>1
  <2> HIDE DEF line
  <2>4. Len(line) = n + 5
    BY <2>2 DEF IsLine
  <2>5. LineThere(x, KeyOf(l), val, n)
    BY <1>1, <1>2, <1>3, <2>2, <2>3, LineReads, Zenon
  <2>6. LineStart(k, l + 1) = x + 5 + n
    <3>1. x \in Nat \ {0} /\ n \in Nat /\ LineStart(k, l + 1) = x + (n + 5)
      BY <1>1, <1>3, <2>3, <2>4
    <3>2. x + (n + 5) = x + 5 + n
      BY <3>1
    <3> QED BY <3>1, <3>2
  <2> QED BY <1>1, <1>2, <1>3, <1>5, <2>5, <2>6, Zenon
<1> QED BY <1>4, <1>5

LEMMA EmptyLineIs ==
  ASSUME parts \in PartLists, NEW k \in WrittenPart
  PROVE  /\ Whole[LineStart(k, 4)] = CR /\ Whole[LineStart(k, 4) + 1] = LF
         /\ LineStart(k, 4) \in Nat \ {0} /\ DataAt(k) = LineStart(k, 4) + 2
<1> DEFINE x == LineStart(k, 4)
           t == <<CR, LF>>
<1>1. x \in Nat \ {0} /\ Reads(x, t) /\ DataAt(k) = x + 2
  <2>1. /\ \A l \in 1 .. 4 : LineStart(k, l) \in Nat \ {0}
        /\ Reads(LineStart(k, 4), <<CR, LF>>) /\ DataAt(k) = LineStart(k, 4) + 2
    BY PartAt, Zenon
  <2> QED BY <2>1
<1>2. Len(t) = 2 /\ t[1] = CR /\ t[2] = LF
  OBVIOUS
<1> HIDE DEF x, t
<1>3. x - 1 + 1 = x /\ x - 1 + 2 = x + 1 /\ 1 \in 1 .. Len(t) /\ 2 \in 1 .. Len(t)
  BY <1>1, <1>2
<1>4. Whole[x] = CR /\ Whole[x + 1] = LF
  BY <1>1, <1>2, <1>3 DEF Reads
<1> QED BY <1>1, <1>4 DEF x

LEMMA NextExists ==
  ASSUME parts \in PartLists, NEW k \in 0 .. N
  PROVE  \E m \in k + 1 .. N + 1 : NextUp(k, m)
<1>1. /\ N \in Nat /\ parts \in Seq(Part) /\ N = Len(parts)
      /\ \A j \in 1 .. N : Off(j + 1) = Off(j) + Len(Piece(parts, j))
      /\ \A j \in 1 .. N + 1 : Off(j) \in Nat
  BY Layout DEF N
<1> DEFINE T == {m \in k + 1 .. N + 1 : m = N + 1 \/ parts[m].ok}
<1>2. PICK m \in T : \A y \in T : m <= y
  <2>1. N + 1 \in T
    BY <1>1
  <2>2. T \in SUBSET Nat
    BY <1>1
  <2> QED BY <2>1, <2>2, LeastMember
<1>3. m \in k + 1 .. N + 1 /\ (m <= N => parts[m].ok)
  BY <1>1, <1>2
<1>4. \A j \in k + 1 .. m - 1 : ~parts[j].ok
  <2>1. ASSUME NEW j \in k + 1 .. m - 1, parts[j].ok PROVE FALSE
    <3>1. j \in T
      BY <1>1, <1>3, <2>1
    <3> QED BY <1>1, <1>2, <1>3, <3>1
  <2> QED BY <2>1
<1> HIDE DEF T
<1>5. \A j \in k + 1 .. m - 1 : Off(j + 1) = Off(j)
  <2>1. ASSUME NEW j \in k + 1 .. m - 1 PROVE Off(j + 1) = Off(j)
    <3>1. j \in 1 .. N /\ j \in 1 .. N + 1 /\ ~parts[j].ok
      BY <1>1, <1>3, <1>4
    <3>2. Piece(parts, j) = <<>>
      BY <1>1, <3>1, PieceIs
    <3>3. Off(j + 1) = Off(j) + 0
      BY <1>1, <3>1, <3>2
    <3>4. Off(j) \in Nat
      BY <1>1, <3>1
    <3> QED BY <3>3, <3>4
  <2> QED BY <2>1
<1> DEFINE S == {d \in Nat : k + 1 + d <= m => Off(k + 1 + d) = Off(k + 1)}
<1>6. 0 \in S
  <2>1. k + 1 + 0 = k + 1
    BY <1>1
  <2> QED BY <2>1
<1>7. ASSUME NEW d \in S PROVE d + 1 \in S
  <2>1. SUFFICES ASSUME k + 1 + (d + 1) <= m PROVE Off(k + 1 + (d + 1)) = Off(k + 1)
    OBVIOUS
  <2>2. d \in Nat /\ k + 1 + d <= m /\ Off(k + 1 + d) = Off(k + 1)
    BY <1>1, <1>3, <2>1
  <2>3. k + 1 + d \in k + 1 .. m - 1 /\ k + 1 + (d + 1) = (k + 1 + d) + 1
    BY <1>1, <1>3, <2>1, <2>2
  <2> QED BY <1>5, <2>2, <2>3
<1>8. S = Nat
  <2>1. S \in SUBSET Nat
    OBVIOUS
  <2> HIDE DEF S
  <2> QED BY <1>6, <1>7, <2>1, SetInduction
<1>9. Off(m) = Off(k + 1)
  <2>1. m - (k + 1) \in Nat /\ k + 1 + (m - (k + 1)) = m /\ m <= m
    BY <1>1, <1>3
  <2> QED BY <1>8, <2>1
<1> QED BY <1>3, <1>4, <1>9 DEF NextUp

\* A part that is not the first begins with the delimiter.
LEMMA OpeningIs ==
  ASSUME parts \in PartLists, NEW m \in WrittenPart, m # 1, NEW x,
         x = Off(m) + Len(Delimiter)
  PROVE  /\ x \in Nat /\ Reads(Off(m) + 1, Delimiter)
         /\ Whole[x + 1] = CR /\ Whole[x + 2] = LF /\ LineStart(m, 1) = x + 3
<1>1. Off(m) \in Nat /\ Len(Delimiter) \in Nat /\ x \in Nat /\ Delimiter \in Symbols
  <2>1. Off(m) \in Nat
    BY PartAt
  <2>2. Len(Delimiter) \in Nat /\ Delimiter \in Symbols
    BY Texts
  <2> QED BY <2>1, <2>2
<1> DEFINE t == <<CR, LF>>
<1>2. Opening(m) = Delimiter \o t
  BY DEF Opening
<1>3. t \in Symbols /\ Len(t) = 2 /\ t[1] = CR /\ t[2] = LF
  BY Texts
<1> HIDE DEF t
<1>4. Reads(Off(m) + 1, Delimiter \o t) /\ LineStart(m, 1) = Off(m) + 1 + Len(Delimiter \o t)
  BY <1>2, PartAt
<1>5. Len(Delimiter \o t) = Len(Delimiter) + 2
  <2>1. Len(Delimiter \o t) = Len(Delimiter) + Len(t)
    BY <1>1, <1>3, Concat, Zenon
  <2> QED BY <1>3, <2>1
<1>6. Reads(Off(m) + 1, Delimiter) /\ Reads(Off(m) + 1 + Len(Delimiter), t)
  <2>1. Off(m) + 1 \in Nat
    BY <1>1
  <2> QED BY <1>1, <1>3, <1>4, <2>1, ReadsSplit, Zenon
<1>7. /\ (Off(m) + 1 + Len(Delimiter)) - 1 + 1 = x + 1
      /\ (Off(m) + 1 + Len(Delimiter)) - 1 + 2 = x + 2
      /\ 1 \in 1 .. Len(t) /\ 2 \in 1 .. Len(t)
  BY <1>1, <1>3
<1>8. Whole[x + 1] = CR /\ Whole[x + 2] = LF
  BY <1>3, <1>6, <1>7 DEF Reads
<1>9. LineStart(m, 1) = x + 3
  BY <1>1, <1>4, <1>5
<1> QED BY <1>1, <1>6, <1>8, <1>9

\* What comes after the data of a part, or at the beginning if the first part was
\* not written.
LEMMA NextIs ==
  ASSUME parts \in PartLists, NEW k \in 0 .. N, k = 0 => ~FirstWritten,
         NEW m, NextUp(k, m), NEW x, x = Off(m) + Len(Delimiter)
  PROVE  /\ m \in k + 1 .. N + 1 /\ Off(m) = Off(k + 1)
         /\ x \in Nat /\ Off(m) \in Nat
         /\ Reads(Off(m) + 1, Delimiter)
         /\ m = N + 1 => Whole[x + 1] = "-" /\ Whole[x + 2] = "-"
         /\ m <= N => /\ m \in WrittenPart /\ m # 1
                      /\ Whole[x + 1] = CR /\ Whole[x + 2] = LF /\ LineStart(m, 1) = x + 3
<1>1. N \in Nat
  BY Layout
<1>2. /\ m \in k + 1 .. N + 1 /\ Off(m) = Off(k + 1) /\ (m <= N => parts[m].ok)
      /\ m <= N => m # 1
  BY <1>1 DEF NextUp, FirstWritten
<1>3. Off(m) \in Nat /\ Len(Delimiter) \in Nat /\ x \in Nat /\ Delimiter \in Symbols
  <2>1. Off(m) \in Nat
    <3>1. m \in 1 .. N + 1
      BY <1>1, <1>2
    <3> QED BY <3>1, Layout
  <2>2. Len(Delimiter) \in Nat /\ Delimiter \in Symbols
    BY Texts
  <2> QED BY <2>1, <2>2
<1>4. CASE m = N + 1
  <2>1. \A j \in 1 .. Len(Closing) : Whole[Off(m) + j] = Closing[j]
    BY <1>4, Layout
  <2>2. /\ Len(Closing) = Len(Delimiter) + 4
        /\ \A j \in 1 .. Len(Delimiter) : Closing[j] = Delimiter[j]
        /\ Closing[Len(Delimiter) + 1] = "-" /\ Closing[Len(Delimiter) + 2] = "-"
    BY ClosingIs
  <2>3. ASSUME NEW j \in 1 .. Len(Delimiter) PROVE Whole[(Off(m) + 1) - 1 + j] = Delimiter[j]
    <3>1. j \in 1 .. Len(Closing) /\ (Off(m) + 1) - 1 + j = Off(m) + j
      BY <1>3, <2>2
    <3> QED BY <2>1, <2>2, <3>1
  <2>4. /\ Len(Delimiter) + 1 \in 1 .. Len(Closing) /\ Len(Delimiter) + 2 \in 1 .. Len(Closing)
        /\ Off(m) + (Len(Delimiter) + 1) = x + 1 /\ Off(m) + (Len(Delimiter) + 2) = x + 2
    BY <1>3, <2>2
  <2>5. Whole[x + 1] = Closing[Len(Delimiter) + 1] /\ Whole[x + 2] = Closing[Len(Delimiter) + 2]
    BY <2>1, <2>4
  <2>6. Whole[x + 1] = "-" /\ Whole[x + 2] = "-"
    BY <2>2, <2>5, Zenon
  <2>7. ~(m <= N)
    BY <1>1, <1>4
  <2> QED BY <1>2, <1>3, <2>3, <2>6, <2>7 DEF Reads
<1>5. CASE m # N + 1
  <2>1. m \in WrittenPart /\ m <= N /\ m # 1
    BY <1>1, <1>2, <1>5 DEF WrittenPart
  <2>2. /\ Reads(Off(m) + 1, Delimiter)
        /\ Whole[x + 1] = CR /\ Whole[x + 2] = LF /\ LineStart(m, 1) = x + 3
    BY <2>1, OpeningIs
  <2> QED BY <1>2, <1>3, <1>5, <2>1, <2>2
<1> QED BY <1>4, <1>5

LEMMA FirstIs ==
  ASSUME parts \in PartLists, FirstWritten
  PROVE  /\ 1 \in WrittenPart /\ LineStart(1, 1) = Len(Boundary) + 3
         /\ \A j \in 1 .. Len(Boundary) : Whole[j] = Boundary[j]
         /\ Whole[Len(Boundary) + 1] = CR /\ Whole[Len(Boundary) + 2] = LF
<1>1. 1 \in WrittenPart /\ Off(1) = 0
  BY Layout DEF FirstWritten, WrittenPart
<1> DEFINE t == <<CR, LF>>
<1>2. Opening(1) = Boundary \o t
  BY DEF Opening
<1>3. t \in Symbols /\ Len(t) = 2 /\ t[1] = CR /\ t[2] = LF
  BY Texts
<1>4. Boundary \in Symbols /\ Len(Boundary) \in Nat
  BY Texts
<1> HIDE DEF t
<1>5. Reads(Off(1) + 1, Opening(1)) /\ LineStart(1, 1) = Off(1) + 1 + Len(Opening(1))
  BY <1>1, PartAt
<1>6. Reads(1, Boundary \o t) /\ LineStart(1, 1) = 1 + Len(Boundary \o t)
  <2>1. Off(1) + 1 = 1
    BY <1>1
  <2> QED BY <1>2, <1>5, <2>1, Zenon
<1>7. Len(Boundary \o t) = Len(Boundary) + 2
  <2>1. Len(Boundary \o t) = Len(Boundary) + Len(t)
    BY <1>3, <1>4, Concat, Zenon
  <2> QED BY <1>3, <2>1
<1>8. Reads(1, Boundary) /\ Reads(1 + Len(Boundary), t)
  <2>1. 1 \in Nat
    OBVIOUS
  <2> QED BY <1>3, <1>4, <1>6, <2>1, ReadsSplit, Zenon
<1>9. \A j \in 1 .. Len(Boundary) : Whole[j] = Boundary[j]
  <2>1. \A j \in 1 .. Len(Boundary) : 1 - 1 + j = j
    BY <1>4
  <2> QED BY <1>8, <2>1 DEF Reads
<1>10. Whole[Len(Boundary) + 1] = CR /\ Whole[Len(Boundary) + 2] = LF
  <2>1. /\ (1 + Len(Boundary)) - 1 + 1 = Len(Boundary) + 1
        /\ (1 + Len(Boundary)) - 1 + 2 = Len(Boundary) + 2
        /\ 1 \in 1 .. Len(t) /\ 2 \in 1 .. Len(t)
    BY <1>3, <1>4
  <2> QED BY <1>3, <1>8, <2>1 DEF Reads
<1> QED BY <1>1, <1>4, <1>6, <1>7, <1>9, <1>10

-----------------------------------------------------------------------------
(***************************************************************************)
(* What the callbacks gather from the headers of a part.                   *)
(***************************************************************************)
Gathered(field, value, name, filename) ==
  [field |-> field, value |-> value, data |-> <<>>, name |-> name, filename |-> filename]

LEMMA HandleNothing ==
  ASSUME NEW f, NEW v, NEW n, NEW g, f = <<>> \/ v = <<>>
  PROVE  HandleHeader(Gathered(f, v, n, g)) = Gathered(f, v, n, g)
BY DEF HandleHeader, Gathered

Ignored(f, v, n, g) == HandleHeader(Gathered(f, v, n, g)) = Gathered(<<>>, <<>>, n, g)

LEMMA HandleOther ==
  ASSUME NEW f, NEW v, NEW n, NEW g, f # <<>>, v # <<>>, f # <<"disposition">>
  PROVE  Ignored(f, v, n, g)
<1> DEFINE r == Gathered(f, v, n, g)
<1>1. r.field = f /\ r.value = v
  BY DEF Gathered
<1>2. HandleHeader(r) = [r EXCEPT !.field = <<>>, !.value = <<>>]
  <2> HIDE DEF r
  <2>1. ~(r.field = <<>> \/ r.value = <<>>) /\ ~IsDisposition(r)
    BY <1>1, Zenon DEF IsDisposition
  <2> QED BY <2>1, Zenon DEF HandleHeader
<1> QED BY <1>2 DEF Gathered, Ignored

LEMMA HandleDisposition ==
  ASSUME NEW w, NEW n, NEW g
  PROVE  HandleHeader(Gathered(<<"disposition">>, <<w>>, n, g)) =
           Gathered(<<>>, <<>>, Assigned(Read[w].name, n), Assigned(Read[w].filename, g))
<1> DEFINE r == Gathered(<<"disposition">>, <<w>>, n, g)
           file == Assigned(Read[w].filename, g)
           name == Assigned(Read[w].name, n)
<1>1. r.field = <<"disposition">> /\ r.value = <<w>> /\ r.name = n /\ r.filename = g
  BY DEF Gathered
<1>2. <<w>>[1] = w /\ <<w>> # <<>> /\ <<"disposition">> # <<>>
  OBVIOUS
<1>3. HandleHeader(r) =
        [[r EXCEPT !.name = name, !.filename = file] EXCEPT !.field = <<>>, !.value = <<>>]
  <2> HIDE DEF r
  <2>1. ~(r.field = <<>> \/ r.value = <<>>) /\ r.value[1] = w
    BY <1>1, <1>2
  <2>2. IsDisposition(r)
    BY <1>1, <1>2, Zenon DEF IsDisposition
  <2>3. Assigned(Read[r.value[1]].name, r.name) = name
        /\ Assigned(Read[r.value[1]].filename, r.filename) = file
    BY <1>1, <2>1, Zenon
  <2> HIDE DEF name, file
  <2> QED BY <2>1, <2>2, <2>3, Zenon DEF HandleHeader
<1>4. r = [field |-> <<"disposition">>, value |-> <<w>>, data |-> <<>>, name |-> n,
           filename |-> g]
  BY DEF Gathered
<1> HIDE DEF file, name, r
<1>5. HandleHeader(r) = Gathered(<<>>, <<>>, name, file)
  BY <1>3, <1>4 DEF Gathered
<1> QED BY <1>5 DEF file, name, r

WithField(f, v, n, g, t) ==
  [Gathered(f, v, n, g) EXCEPT !.field = @ \o t] = Gathered(f \o t, v, n, g)
WithValue(f, v, n, g, t) ==
  [Gathered(f, v, n, g) EXCEPT !.value = @ \o t] = Gathered(f, v \o t, n, g)

LEMMA GatheredMore ==
  ASSUME NEW f, NEW v, NEW n, NEW g, NEW t
  PROVE  WithField(f, v, n, g, t) /\ WithValue(f, v, n, g, t)
<1> DEFINE G == Gathered(f, v, n, g)
<1>1. G.field = f /\ G.value = v
  BY DEF Gathered
<1>2. \A w : [G EXCEPT !.field = w] = Gathered(w, v, n, g)
  BY DEF Gathered
<1>3. \A w : [G EXCEPT !.value = w] = Gathered(f, w, n, g)
  BY DEF Gathered
<1> HIDE DEF G
<1>4. [G EXCEPT !.field = @ \o t] = [G EXCEPT !.field = f \o t]
  BY <1>1, Zenon
<1>5. [G EXCEPT !.value = @ \o t] = [G EXCEPT !.value = v \o t]
  BY <1>1, Zenon
<1>6. [G EXCEPT !.field = @ \o t] = Gathered(f \o t, v, n, g)
  BY <1>2, <1>4, Zenon
<1>7. [G EXCEPT !.value = @ \o t] = Gathered(f, v \o t, n, g)
  BY <1>3, <1>5, Zenon
<1> QED BY <1>6, <1>7 DEF G, WithField, WithValue

Feeds(p, l, r, f, v, n, g) ==
  Fed(p, l, r) = Gathered(f \o <<KeyOf(l)>>, v \o ValOf(p, l), n, g)

LEMMA FedGathered ==
  ASSUME NEW p, NEW l, NEW r, NEW f, NEW v, NEW n, NEW g, HasLine(p, l),
         HandleHeader(r) = Gathered(f, v, n, g)
  PROVE  Feeds(p, l, r, f, v, n, g)
<1> DEFINE t == <<KeyOf(l)>>
           w == ValOf(p, l)
<1>1. WithKey(r, l) = [Gathered(f, v, n, g) EXCEPT !.field = @ \o t]
  BY DEF WithKey
<1>2. Fed(p, l, r) = [WithKey(r, l) EXCEPT !.value = @ \o w]
  BY DEF Fed
<1> HIDE DEF t, w
<1>3. WithField(f, v, n, g, t) /\ WithValue(f \o t, v, n, g, w)
  BY GatheredMore, Zenon
<1>4. WithKey(r, l) = Gathered(f \o t, v, n, g)
  BY <1>1, <1>3, Zenon DEF WithField
<1>5. Fed(p, l, r) = Gathered(f \o t, v \o w, n, g)
  BY <1>2, <1>3, <1>4, Zenon DEF WithValue
<1> QED BY <1>5 DEF Feeds, t, w

LEMMA Joined ==
  ASSUME NEW a, NEW b
  PROVE  /\ <<>> \o <<a>> = <<a>> /\ <<>> \o <<>> = <<>>
         /\ <<a>> # <<>> /\ <<a>> \o <<b>> # <<>>
<1>1. /\ <<>> \in Seq({a, b}) /\ <<a>> \in Seq({a, b}) /\ <<b>> \in Seq({a, b})
      /\ Len(<<a>>) = 1 /\ Len(<<>>) = 0
  OBVIOUS
<1>2. \A s \in Seq({a, b}) : <<>> \o s = s
  OBVIOUS
<1>3. <<a>> # <<>> /\ <<a>> \o <<b>> # <<>>
  <2>1. Len(<<a>> \o <<b>>) = 2
    BY <1>1
  <2> QED BY <1>1, <2>1
<1> QED BY <1>1, <1>2, <1>3, Zenon

LEMMA Different ==
  ASSUME NEW a, NEW b, NEW d
  PROVE  <<a>> \o <<b>> # <<d>> /\ (a # d => <<a>> # <<d>>)
<1>1. <<a>> \in Seq({a, b}) /\ <<b>> \in Seq({a, b})
      /\ Len(<<a>>) = 1 /\ Len(<<b>>) = 1 /\ Len(<<d>>) = 1
  OBVIOUS
<1>2. Len(<<a>> \o <<b>>) = 2
  BY <1>1
<1>3. <<a>>[1] = a /\ <<d>>[1] = d
  OBVIOUS
<1> QED BY <1>1, <1>2, <1>3

\* The fields in which the name of an empty header is left.
Others == {<<"other">>, <<"other">> \o <<"other">>}

LEMMA Longer ==
  ASSUME NEW a, NEW b, a # b, NEW o, o = <<a>> \/ o = <<a>> \o <<a>>
  PROVE  o # <<>> /\ o # <<b>> /\ o \o <<b>> # <<>> /\ o \o <<b>> # <<b>>
<1> DEFINE S == Seq({a, b})
<1>1. /\ <<a>> \in S /\ <<b>> \in S /\ Len(<<a>>) = 1 /\ Len(<<b>>) = 1 /\ Len(<<>>) = 0
      /\ <<a>>[1] = a /\ <<b>>[1] = b
  OBVIOUS
<1>2. \A s, t \in S : s \o t \in S /\ Len(s \o t) = Len(s) + Len(t) /\ Len(s) \in Nat
  OBVIOUS
<1> HIDE DEF S
<1>3. o \in S /\ Len(o) >= 1 /\ Len(o) \in Nat
  <2>1. CASE o = <<a>>
    BY <1>1, <2>1
  <2>2. CASE o = <<a>> \o <<a>>
    <3>1. <<a>> \o <<a>> \in S /\ Len(<<a>> \o <<a>>) = 2
      BY <1>1, <1>2
    <3> QED BY <2>2, <3>1
  <2> QED BY <2>1, <2>2
<1>4. Len(o \o <<b>>) = Len(o) + 1
  BY <1>1, <1>2, <1>3
<1>5. o # <<>> /\ o \o <<b>> # <<>> /\ o \o <<b>> # <<b>>
  BY <1>1, <1>3, <1>4
<1>6. o # <<b>>
  <2>1. CASE o = <<a>>
    BY <1>1, <2>1
  <2>2. CASE o = <<a>> \o <<a>>
    BY <1>1, <1>2, <2>2
  <2> QED BY <2>1, <2>2
<1> QED BY <1>5, <1>6

LEMMA OthersAre ==
  ASSUME NEW o \in Others
  PROVE  /\ o # <<>> /\ o # <<"disposition">>
         /\ o \o <<"disposition">> # <<>> /\ o \o <<"disposition">> # <<"disposition">>
<1>1. "other" # "disposition"
  OBVIOUS
<1>2. o = <<"other">> \/ o = <<"other">> \o <<"other">>
  BY Zenon DEF Others
<1> QED BY <1>1, <1>2, Longer, Zenon

LEMMA OthersMore ==
  ASSUME NEW d \in {<<>>, <<"other">>}
  PROVE  d \o <<"other">> \in Others
BY Joined, Zenon DEF Others

LEMMA Keys ==
  ASSUME NEW p
  PROVE  /\ KeyOf(1) = "other" /\ KeyOf(2) = "disposition" /\ KeyOf(3) = "other"
         /\ ValOf(p, 2) = <<p.value>> /\ HasLine(p, 2)
         /\ ValOf(p, 1) = IF p.extra = "empty" THEN <<>> ELSE <<"x">>
         /\ ValOf(p, 3) = IF p.type = "empty" THEN <<>> ELSE <<"x">>
         /\ (HasLine(p, 1) <=> p.extra # "none") /\ (HasLine(p, 3) <=> p.type # "none")
BY DEF KeyOf, ValOf, HasLine

LEMMA FreshIs ==
  ASSUME NEW d
  PROVE  /\ Fresh(d) = Gathered(d, <<>>, <<>>, <<>>)
         /\ HandleHeader(Fresh(d)) = Gathered(d, <<>>, <<>>, <<>>)
<1>1. Fresh(d) = Gathered(d, <<>>, <<>>, <<>>)
  BY DEF Fresh, Gathered
<1> QED BY <1>1, HandleNothing

\* The field that the name of the Content-Disposition is appended to.
Before2(p, d, f) ==
  /\ HandleHeader(Seen2(p, d)) = Gathered(f, <<>>, <<>>, <<>>)
  /\ IF Loses(p, d) THEN f \in Others ELSE f = <<>>

\* After the line before the Content-Disposition.
LEMMA FirstLine ==
  ASSUME NEW p \in Part, NEW d \in {<<>>, <<"other">>}
  PROVE  (\E f : Before2(p, d, f)) /\ ~IsDisposition(Seen2(p, d))
<1>1. p.extra \in {"none", "empty", "some"}
  BY DEF Part, Header
<1>2. d = <<>> \/ d \in Others
  BY DEF Others
<1>3. \A f, v : Gathered(f, v, <<>>, <<>>).field = f /\ Gathered(f, v, <<>>, <<>>).value = v
  BY DEF Gathered
<1>4. CASE p.extra = "none"
  <2>1. Seen2(p, d) = Fresh(d)
    BY <1>4, Keys DEF Seen2, Fed
  <2>2. Loses(p, d) <=> d # <<>>
    BY <1>4 DEF Loses
  <2>3. IF Loses(p, d) THEN d \in Others ELSE d = <<>>
    BY <1>2, <2>2
  <2>4. Before2(p, d, d)
    BY <2>1, <2>3, FreshIs DEF Before2
  <2>5. Seen2(p, d).value = <<>>
    BY <1>3, <2>1, FreshIs
  <2> QED BY <2>4, <2>5 DEF IsDisposition
<1> DEFINE o == d \o <<"other">>
           w == ValOf(p, 1)
<1>5. o \in Others
  BY OthersMore
<1>6. o # <<>> /\ o # <<"disposition">>
  BY <1>5, OthersAre
<1>7. ASSUME p.extra # "none" PROVE Seen2(p, d) = Gathered(o, w, <<>>, <<>>)
  <2>1. HasLine(p, 1) /\ KeyOf(1) = "other" /\ w \in {<<>>, <<"x">>}
    BY <1>7, Keys
  <2>2. Feeds(p, 1, Fresh(d), d, <<>>, <<>>, <<>>)
    BY <2>1, FreshIs, FedGathered, Zenon
  <2>3. <<>> \o w = w
    BY <2>1, Joined
  <2> HIDE DEF w
  <2> QED BY <2>1, <2>2, <2>3, Zenon DEF Feeds, Seen2, w
<1> HIDE DEF o
<1>8. CASE p.extra = "empty"
  <2>1. w = <<>> /\ Loses(p, d)
    BY <1>8, Keys DEF Loses
  <2>2. HandleHeader(Seen2(p, d)) = Gathered(o, <<>>, <<>>, <<>>)
    BY <1>7, <1>8, <2>1, HandleNothing
  <2>3. Before2(p, d, o)
    BY <1>5, <2>1, <2>2 DEF Before2
  <2> QED BY <1>3, <1>6, <1>7, <1>8, <2>3 DEF IsDisposition
<1>9. CASE p.extra = "some"
  <2>1. w = <<"x">> /\ ~Loses(p, d)
    BY <1>9, Keys DEF Loses
  <2>2. w # <<>>
    BY <2>1, Joined
  <2>3. Ignored(o, w, <<>>, <<>>)
    BY <1>6, <2>2, HandleOther, Zenon
  <2>4. HandleHeader(Seen2(p, d)) = Gathered(<<>>, <<>>, <<>>, <<>>)
    BY <1>7, <1>9, <2>3, Zenon DEF Ignored
  <2>5. Before2(p, d, <<>>)
    BY <2>1, <2>4 DEF Before2
  <2> QED BY <1>3, <1>6, <1>7, <1>9, <2>5 DEF IsDisposition
<1> QED BY <1>1, <1>4, <1>8, <1>9

\* After the Content-Disposition: a header before it that is empty costs the part
\* its name.
LEMMA SecondLine ==
  ASSUME NEW p \in Part, NEW d \in {<<>>, <<"other">>}
  PROVE  /\ HandleHeader(Seen3(p, d)) = Gathered(<<>>, <<>>, NameOf(p, d), FileOf(p, d))
         /\ Seen3(p, d).value = <<p.value>>
<1>1. PICK f : Before2(p, d, f)
  BY FirstLine
<1>2. Seen3(p, d) = Gathered(f \o <<"disposition">>, <<p.value>>, <<>>, <<>>)
  <2>1. HandleHeader(Seen2(p, d)) = Gathered(f, <<>>, <<>>, <<>>)
    BY <1>1 DEF Before2
  <2>2. Feeds(p, 2, Seen2(p, d), f, <<>>, <<>>, <<>>)
    BY <2>1, Keys, FedGathered, Zenon
  <2> QED BY <2>2, Keys, Joined, Zenon DEF Feeds, Seen3
<1>3. Seen3(p, d).value = <<p.value>>
  BY <1>2 DEF Gathered
<1>4. CASE Loses(p, d)
  <2>1. f \in Others
    BY <1>1, <1>4 DEF Before2
  <2>2. f \o <<"disposition">> # <<>> /\ f \o <<"disposition">> # <<"disposition">>
    BY <2>1, OthersAre
  <2>3. Ignored(f \o <<"disposition">>, <<p.value>>, <<>>, <<>>)
    BY <2>2, Joined, HandleOther, Zenon
  <2> QED BY <1>2, <1>3, <1>4, <2>3, Zenon DEF Ignored, NameOf, FileOf
<1>5. CASE ~Loses(p, d)
  <2>1. f = <<>>
    BY <1>1, <1>5 DEF Before2
  <2>2. Seen3(p, d) = Gathered(<<"disposition">>, <<p.value>>, <<>>, <<>>)
    BY <1>2, <2>1, Joined, Zenon
  <2>3. HandleHeader(Seen3(p, d)) =
          Gathered(<<>>, <<>>, NameRead(p.value), FileRead(p.value))
    BY <2>2, HandleDisposition DEF NameRead, FileRead
  <2> QED BY <1>3, <1>5, <2>3, Zenon DEF NameOf, FileOf
<1> QED BY <1>4, <1>5

\* After the headers the name and the file name are those of the part, and the
\* names and values of the headers are used up, but for an empty one at the end.
LEMMA HeadersHandled ==
  ASSUME NEW p \in Part, NEW d \in {<<>>, <<"other">>}
  PROVE  /\ HandleHeader(Seen(p, 4, d)) =
              Gathered(Leaves(p), <<>>, NameOf(p, d), FileOf(p, d))
         /\ IsDisposition(Seen(p, 4, d)) => Seen(p, 4, d).value = <<p.value>>
<1> DEFINE a == NameOf(p, d)
           f == FileOf(p, d)
           w == ValOf(p, 3)
<1>1. p.type \in {"none", "empty", "some"}
  BY DEF Part, Header
<1>2. HandleHeader(Seen3(p, d)) = Gathered(<<>>, <<>>, a, f) /\ Seen3(p, d).value = <<p.value>>
  BY SecondLine
<1>3. Seen(p, 4, d) = Seen4(p, d)
  BY DEF Seen
<1>4. CASE p.type = "none"
  <2>1. Seen4(p, d) = Seen3(p, d)
    BY <1>4, Keys DEF Seen4, Fed
  <2>2. Leaves(p) = <<>>
    BY <1>4 DEF Leaves
  <2> QED BY <1>2, <1>3, <2>1, <2>2, Zenon
<1> HIDE DEF a, f
<1>5. <<"other">> # <<>> /\ <<"other">> # <<"disposition">>
  BY OthersAre DEF Others
<1>6. ASSUME p.type # "none" PROVE Seen4(p, d) = Gathered(<<"other">>, w, a, f)
  <2>1. HasLine(p, 3) /\ KeyOf(3) = "other" /\ w \in {<<>>, <<"x">>}
    BY <1>6, Keys
  <2>2. Feeds(p, 3, Seen3(p, d), <<>>, <<>>, a, f)
    BY <1>2, <2>1, FedGathered, Zenon
  <2>3. <<>> \o w = w /\ <<>> \o <<"other">> = <<"other">>
    BY <2>1, Joined
  <2> HIDE DEF w
  <2> QED BY <2>1, <2>2, <2>3, Zenon DEF Feeds, Seen4, w
<1>7. ASSUME p.type # "none" PROVE ~IsDisposition(Seen4(p, d))
  <2>1. Seen4(p, d).field = <<"other">>
    BY <1>6, <1>7 DEF Gathered
  <2> QED BY <1>5, <2>1 DEF IsDisposition
<1>8. CASE p.type = "empty"
  <2>1. w = <<>> /\ Leaves(p) = <<"other">>
    BY <1>8, Keys DEF Leaves
  <2>2. HandleHeader(Seen4(p, d)) = Gathered(<<"other">>, <<>>, a, f)
    BY <1>6, <1>8, <2>1, HandleNothing
  <2> QED BY <1>3, <1>7, <1>8, <2>1, <2>2 DEF a, f
<1>9. CASE p.type = "some"
  <2>1. w = <<"x">> /\ Leaves(p) = <<>>
    BY <1>9, Keys DEF Leaves
  <2>2. w # <<>>
    BY <2>1, Joined
  <2>3. Ignored(<<"other">>, w, a, f)
    BY <1>5, <2>2, HandleOther, Zenon
  <2>4. HandleHeader(Seen4(p, d)) = Gathered(<<>>, <<>>, a, f)
    BY <1>6, <1>9, <2>3, Zenon DEF Ignored
  <2> QED BY <1>3, <1>7, <1>9, <2>1, <2>4 DEF a, f
<1> QED BY <1>1, <1>4, <1>8, <1>9

\* Only the Content-Disposition of the part itself can be handled in it.
LEMMA OnlyOwn ==
  ASSUME NEW p \in Part, NEW d \in {<<>>, <<"other">>}, NEW l \in 1 .. 4,
         IsDisposition(Seen(p, l, d))
  PROVE  Seen(p, l, d).value = <<p.value>>
<1>1. l = 1 \/ l = 2 \/ l = 3 \/ l = 4
  OBVIOUS
<1>2. Seen(p, 1, d) = Fresh(d) /\ Seen(p, 2, d) = Seen2(p, d) /\ Seen(p, 3, d) = Seen3(p, d)
  BY DEF Seen
<1>3. ~IsDisposition(Fresh(d))
  BY DEF IsDisposition, Fresh
<1>4. CASE l = 1
  BY <1>2, <1>3, <1>4
<1>5. CASE l = 2
  BY <1>2, <1>5, FirstLine
<1>6. CASE l = 3
  BY <1>2, <1>6, SecondLine
<1>7. CASE l = 4
  BY <1>7, HeadersHandled
<1> QED BY <1>1, <1>4, <1>5, <1>6, <1>7

-----------------------------------------------------------------------------
(***************************************************************************)
(* What is read in the text of a Content-Disposition.                      *)
(***************************************************************************)
Word == STRING \cup {"form-data", "semicolon", "name", "equals", "quote", "filename"}
Words == Seq(Word)

LEMMA Glue ==
  ASSUME NEW s \in Words, NEW t \in Words
  PROVE  /\ s \o t \in Words /\ Len(s \o t) = Len(s) + Len(t)
         /\ Len(s) \in Nat /\ Len(t) \in Nat
         /\ \A j \in 1 .. Len(s) : (s \o t)[j] = s[j]
         /\ \A j \in 1 .. Len(t) : (s \o t)[Len(s) + j] = t[j]
BY DEF Words

\* A cut out of a text is held by it.
Cut(t, e, b, x) ==
  /\ e \in Nat /\ b \in Nat /\ e <= b /\ b <= Len(t)
  /\ x \in Words /\ Len(x) = b - e /\ \A j \in 1 .. b - e : x[j] = t[e + j]

LEMMA SubSeqCut ==
  ASSUME NEW t \in Words, NEW e \in Nat, NEW b \in Nat, e <= b, b <= Len(t)
  PROVE  Cut(t, e, b, SubSeq(t, e + 1, b))
<1>1. SubSeq(t, e + 1, b) \in Words /\ Len(SubSeq(t, e + 1, b)) = b - e
  BY DEF Words
<1>2. ASSUME NEW j \in 1 .. b - e PROVE SubSeq(t, e + 1, b)[j] = t[e + j]
  <2>1. j \in 1 .. b + 1 - (e + 1) /\ (e + 1) + j - 1 = e + j
    OBVIOUS
  <2> QED BY <1>1, <2>1 DEF Words
<1> QED BY <1>1, <1>2 DEF Cut

LEMMA CutHeld ==
  ASSUME NEW t \in Words, NEW e, NEW b, NEW x, Cut(t, e, b, x)
  PROVE  Holds(t, x)
<1>1. /\ e \in Nat /\ b \in Nat /\ e <= b /\ b <= Len(t) /\ Len(t) \in Nat
      /\ Len(x) = b - e
  BY DEF Cut, Words
<1>2. e \in 0 .. Len(t) - Len(x)
  BY <1>1
<1>3. \A j \in 1 .. Len(x) : t[e + j] = x[j]
  BY <1>1 DEF Cut
<1> QED BY <1>2, <1>3 DEF Holds

\* What is within the quotes is a cut, too.
LEMMA TrimCut ==
  ASSUME NEW t \in Words, NEW e, NEW b, NEW x, Cut(t, e, b, x)
  PROVE  Holds(t, TrimPairs(x))
<1> DEFINE q == Len(x) >= 2 /\ x[1] = "quote" /\ x[Len(x)] = "quote"
           n == Len(x)
           y == SubSeq(x, 2, n - 1)
<1>1. /\ e \in Nat /\ b \in Nat /\ e <= b /\ b <= Len(t) /\ Len(t) \in Nat
      /\ n = b - e /\ n \in Nat /\ x \in Words
  BY DEF Cut, Words
<1>2. CASE ~q
  <2>1. TrimPairs(x) = x
    BY <1>2 DEF TrimPairs
  <2> QED BY <2>1, CutHeld
<1>3. CASE q
  <2>1. TrimPairs(x) = y /\ n >= 2
    BY <1>3 DEF TrimPairs
  <2>2. Cut(x, 1, n - 1, y)
    <3>1. 1 \in Nat /\ n - 1 \in Nat /\ 1 <= n - 1 /\ n - 1 <= Len(x) /\ 1 + 1 = 2
      BY <1>1, <2>1
    <3> QED BY <1>1, <3>1, SubSeqCut
  <2>3. Len(y) = n - 1 - 1 /\ y \in Words /\ \A j \in 1 .. n - 1 - 1 : y[j] = x[1 + j]
    BY <2>2 DEF Cut
  <2> HIDE DEF y
  <2>4. \A j \in 1 .. n : x[j] = t[e + j]
    BY <1>1 DEF Cut
  <2> HIDE DEF n
  <2>5. ASSUME NEW j \in 1 .. n - 1 - 1 PROVE y[j] = t[e + 1 + j]
    <3>1. 1 + j \in 1 .. n /\ e + (1 + j) = e + 1 + j
      BY <1>1, <2>1
    <3> QED BY <2>3, <2>4, <3>1
  <2>6. /\ e + 1 \in Nat /\ b - 1 \in Nat /\ e + 1 <= b - 1 /\ b - 1 <= Len(t)
        /\ b - 1 - (e + 1) = n - 1 - 1
    BY <1>1, <2>1
  <2>7. Cut(t, e + 1, b - 1, y)
    BY <2>3, <2>5, <2>6 DEF Cut
  <2> QED BY <2>1, <2>7, CutHeld
<1> QED BY <1>2, <1>3

LEMMA SettingIs ==
  ASSUME NEW t \in Words, NEW key, NEW s \in Settings(t, key)
  PROVE  /\ s.a \in 1 .. Len(t) /\ s.e \in s.a .. s.b /\ s.b \in 1 .. Len(t)
         /\ s.a = 1 \/ t[s.a - 1] = "semicolon"
         /\ s.b = Len(t) \/ t[s.b + 1] = "semicolon"
         /\ t[s.a] = key
         /\ \A j \in s.a .. s.b : t[j] # "semicolon" /\ (t[j] = "equals" <=> j = s.e)
         /\ Cut(t, s.e, s.b, Raw(t, s))
<1>1. DOMAIN t = 1 .. Len(t) /\ Len(t) \in Nat
  BY DEF Words
<1>2. /\ s.a \in 1 .. Len(t) /\ s.e \in s.a .. s.b /\ s.b \in 1 .. Len(t)
      /\ s.a = 1 \/ t[s.a - 1] = "semicolon"
      /\ s.b = Len(t) \/ t[s.b + 1] = "semicolon"
      /\ t[s.a] = key
      /\ \A j \in s.a .. s.b : t[j] # "semicolon" /\ (t[j] = "equals" <=> j = s.e)
  BY <1>1 DEF Settings
<1>3. s.e \in Nat /\ s.b \in Nat /\ s.e <= s.b /\ s.b <= Len(t)
  BY <1>1, <1>2
<1>4. Cut(t, s.e, s.b, Raw(t, s))
  BY <1>3, SubSeqCut DEF Raw
<1> QED BY <1>2, <1>4

\* Of several settings of a key there is a last one.
LEMMA LastSetting ==
  ASSUME NEW t \in Words, NEW key, Settings(t, key) # {}
  PROVE  \E s \in Settings(t, key) :
           /\ \A r \in Settings(t, key) : r.b <= s.b
           /\ LastSet(t, key) = <<TrimPairs(Raw(t, s))>>
<1> DEFINE S == Settings(t, key)
           T == {d \in Nat : \E s \in S : s.b = Len(t) - d}
<1>1. \A s \in S : s.b \in 1 .. Len(t)
  BY SettingIs
<1>2. Len(t) \in Nat
  BY DEF Words
<1> HIDE DEF S
<1>3. \A s \in S : Len(t) - s.b \in Nat /\ Len(t) - (Len(t) - s.b) = s.b
  BY <1>1, <1>2
<1>4. \A s \in S : Len(t) - s.b \in T
  BY <1>3
<1>5. S # {}
  BY DEF S
<1>6. PICK d \in T : \A e \in T : d <= e
  <2>1. T # {} /\ T \in SUBSET Nat
    BY <1>4, <1>5
  <2> HIDE DEF T
  <2> QED BY <2>1, LeastMember
<1>7. PICK s \in S : s.b = Len(t) - d
  BY <1>6
<1>8. ASSUME NEW r \in S PROVE r.b <= s.b
  <2>1. d <= Len(t) - r.b /\ d \in Nat
    BY <1>4, <1>6
  <2> QED BY <1>1, <1>2, <1>7, <2>1
<1>9. \E q \in S : \A r \in S : r.b <= q.b
  BY <1>7, <1>8
<1>10. PICK q : q = CHOOSE z \in S : \A r \in S : r.b <= z.b
  OBVIOUS
<1>11. q \in S /\ \A r \in S : r.b <= q.b
  BY <1>9, <1>10
<1>12. LastSet(t, key) = <<TrimPairs(Raw(t, q))>>
  BY <1>5, <1>10 DEF LastSet, S
<1> QED BY <1>11, <1>12 DEF S

\* What is read is somewhere in the text.
LEMMA ReadHeld ==
  ASSUME NEW t \in Words, NEW key
  PROVE  Holds(t, Assigned(LastSet(t, key), <<>>))
<1>1. CASE Settings(t, key) = {}
  <2>1. Assigned(LastSet(t, key), <<>>) = <<>>
    BY <1>1 DEF Assigned, LastSet
  <2>2. Holds(t, <<>>)
    <3>1. 0 \in 0 .. Len(t) - Len(<<>>)
      BY DEF Words
    <3>2. \A j \in 1 .. Len(<<>>) : t[0 + j] = <<>>[j]
      OBVIOUS
    <3> QED BY <3>1, <3>2 DEF Holds
  <2> QED BY <2>1, <2>2
<1>2. CASE Settings(t, key) # {}
  <2>1. PICK s \in Settings(t, key) : LastSet(t, key) = <<TrimPairs(Raw(t, s))>>
    BY <1>2, LastSetting
  <2>2. Assigned(LastSet(t, key), <<>>) = TrimPairs(Raw(t, s))
    BY <2>1 DEF Assigned
  <2>3. Cut(t, s.e, s.b, Raw(t, s))
    BY SettingIs
  <2> QED BY <2>2, <2>3, TrimCut
<1> QED BY <1>1, <1>2

\* Where things are in a text.
IsText(t, n, g, L, M) ==
  /\ t \in Words /\ L = Len(n) /\ M = Len(g)
  /\ t[1] = "form-data" /\ t[2] = "semicolon" /\ t[3] = "name" /\ t[4] = "equals" /\ t[5] = "quote"
  /\ \A j \in 1 .. L : t[5 + j] = n[j]
  /\ t[6 + L] = "quote"
  /\ M = 0 => Len(t) = 6 + L
  /\ M # 0 => /\ Len(t) = 11 + L + M
              /\ t[7 + L] = "semicolon" /\ t[8 + L] = "filename" /\ t[9 + L] = "equals" /\ t[10 + L] = "quote"
              /\ \A j \in 1 .. M : t[10 + L + j] = g[j]
              /\ t[11 + L + M] = "quote"

LEMMA One ==
  ASSUME NEW S, NEW a \in S
  PROVE  <<a>> \in Seq(S) /\ Len(<<a>>) = 1 /\ <<a>>[1] = a
OBVIOUS

LEMMA Four ==
  ASSUME NEW S, NEW a \in S, NEW b \in S, NEW d \in S, NEW e \in S
  PROVE  /\ <<a, b, d, e>> \in Seq(S) /\ Len(<<a, b, d, e>>) = 4
         /\ <<a, b, d, e>>[1] = a /\ <<a, b, d, e>>[2] = b
         /\ <<a, b, d, e>>[3] = d /\ <<a, b, d, e>>[4] = e
OBVIOUS

LEMMA Five ==
  ASSUME NEW S, NEW a \in S, NEW b \in S, NEW d \in S, NEW e \in S, NEW f \in S
  PROVE  /\ <<a, b, d, e, f>> \in Seq(S) /\ Len(<<a, b, d, e, f>>) = 5
         /\ <<a, b, d, e, f>>[1] = a /\ <<a, b, d, e, f>>[2] = b
         /\ <<a, b, d, e, f>>[3] = d /\ <<a, b, d, e, f>>[4] = e
         /\ <<a, b, d, e, f>>[5] = f
<1>1. <<a, b, d, e, f>> \in Seq(S)
  OBVIOUS
<1>2. Len(<<a, b, d, e, f>>) = 5
  OBVIOUS
<1>3. /\ <<a, b, d, e, f>>[1] = a /\ <<a, b, d, e, f>>[2] = b
      /\ <<a, b, d, e, f>>[3] = d /\ <<a, b, d, e, f>>[4] = e
      /\ <<a, b, d, e, f>>[5] = f
  OBVIOUS
<1> QED BY <1>1, <1>2, <1>3

LEMMA TextLaidOut ==
  ASSUME NEW d, d.name \in Words, d.filename \in Words
  PROVE  IsText(DispositionText(d), d.name, d.filename, Len(d.name), Len(d.filename))
<1> DEFINE n == d.name
           g == d.filename
           L == Len(n)
           M == Len(g)
           a == <<"form-data", "semicolon", "name", "equals", "quote">>
           q == <<"quote">>
           b == <<"semicolon", "filename", "equals", "quote">>
           an == a \o n
           anq == an \o q
           bg == b \o g
           bgq == bg \o q
<1>0. /\ "form-data" \in Word /\ "semicolon" \in Word /\ "name" \in Word
      /\ "equals" \in Word /\ "quote" \in Word /\ "filename" \in Word
  BY DEF Word
<1>1. /\ a \in Words /\ Len(a) = 5 /\ a[1] = "form-data" /\ a[2] = "semicolon" /\ a[3] = "name"
      /\ a[4] = "equals" /\ a[5] = "quote"
  BY <1>0, Five, Zenon DEF Words
<1>2. q \in Words /\ Len(q) = 1 /\ q[1] = "quote"
  BY <1>0, One, Zenon DEF Words
<1>3. /\ b \in Words /\ Len(b) = 4 /\ b[1] = "semicolon" /\ b[2] = "filename" /\ b[3] = "equals"
      /\ b[4] = "quote"
  BY <1>0, Four, Zenon DEF Words
<1>4. n \in Words /\ g \in Words /\ L \in Nat /\ M \in Nat
  BY DEF Words
<1>5. DispositionText(d) = anq \o (IF g = <<>> THEN <<>> ELSE bgq)
  BY DEF DispositionText
<1>6. g = <<>> <=> M = 0
  BY <1>4 DEF Words
<1> HIDE DEF a, q, b, n, g, L, M
<1>7. /\ an \in Words /\ Len(an) = 5 + L /\ \A j \in 1 .. 5 : an[j] = a[j]
      /\ \A j \in 1 .. L : an[5 + j] = n[j]
  <2>1. /\ an \in Words /\ Len(an) = Len(a) + Len(n) /\ \A j \in 1 .. Len(a) : an[j] = a[j]
        /\ \A j \in 1 .. Len(n) : an[Len(a) + j] = n[j]
    BY <1>1, <1>4, Glue
  <2> QED BY <1>1, <2>1 DEF L
<1> HIDE DEF an
<1>8. /\ anq \in Words /\ Len(anq) = 6 + L /\ \A j \in 1 .. 5 + L : anq[j] = an[j]
      /\ anq[6 + L] = "quote"
  <2>1. /\ anq \in Words /\ Len(anq) = Len(an) + Len(q) /\ \A j \in 1 .. Len(an) : anq[j] = an[j]
        /\ \A j \in 1 .. Len(q) : anq[Len(an) + j] = q[j]
    BY <1>2, <1>7, Glue
  <2>2. anq[Len(an) + 1] = q[1]
    BY <1>2, <2>1
  <2>3. Len(an) + 1 = 6 + L
    BY <1>4, <1>7
  <2> QED BY <1>2, <1>4, <1>7, <2>1, <2>2, <2>3
<1>9. /\ anq[1] = "form-data" /\ anq[2] = "semicolon" /\ anq[3] = "name" /\ anq[4] = "equals"
      /\ anq[5] = "quote" /\ \A j \in 1 .. L : anq[5 + j] = n[j]
  <2>1. \A j \in 1 .. 5 : j \in 1 .. 5 + L
    BY <1>4
  <2>2. \A j \in 1 .. 5 : anq[j] = a[j]
    BY <1>7, <1>8, <2>1
  <2>3. \A j \in 1 .. L : 5 + j \in 1 .. 5 + L
    BY <1>4
  <2>4. \A j \in 1 .. L : anq[5 + j] = n[j]
    BY <1>7, <1>8, <2>3
  <2>5. anq[1] = a[1] /\ anq[2] = a[2] /\ anq[3] = a[3] /\ anq[4] = a[4] /\ anq[5] = a[5]
    <3>1. 1 \in 1 .. 5 /\ 2 \in 1 .. 5 /\ 3 \in 1 .. 5 /\ 4 \in 1 .. 5 /\ 5 \in 1 .. 5
      OBVIOUS
    <3> QED BY <2>2, <3>1, Zenon
  <2> QED BY <1>1, <2>4, <2>5, Zenon
<1> HIDE DEF anq
<1>10. CASE M = 0
  <2>1. DispositionText(d) = anq \o <<>> /\ anq \o <<>> = anq
    BY <1>5, <1>6, <1>8, <1>10 DEF Words
  <2>2. IsText(anq, n, g, L, M)
    BY <1>8, <1>9, <1>10 DEF IsText, L, M
  <2> QED BY <2>1, <2>2 DEF n, g, L, M
<1>11. CASE M # 0
  <2>1. /\ bg \in Words /\ Len(bg) = 4 + M /\ \A j \in 1 .. 4 : bg[j] = b[j]
        /\ \A j \in 1 .. M : bg[4 + j] = g[j]
    <3>1. /\ bg \in Words /\ Len(bg) = Len(b) + Len(g) /\ \A j \in 1 .. Len(b) : bg[j] = b[j]
          /\ \A j \in 1 .. Len(g) : bg[Len(b) + j] = g[j]
      BY <1>3, <1>4, Glue
    <3> QED BY <1>3, <3>1 DEF M
  <2> HIDE DEF bg
  <2>2. /\ bgq \in Words /\ Len(bgq) = 5 + M /\ \A j \in 1 .. 4 + M : bgq[j] = bg[j]
        /\ bgq[5 + M] = "quote"
    <3>1. /\ bgq \in Words /\ Len(bgq) = Len(bg) + Len(q)
          /\ \A j \in 1 .. Len(bg) : bgq[j] = bg[j]
          /\ \A j \in 1 .. Len(q) : bgq[Len(bg) + j] = q[j]
      BY <1>2, <2>1, Glue
    <3>2. bgq[Len(bg) + 1] = q[1]
      BY <1>2, <3>1
    <3>3. Len(bg) + 1 = 5 + M
      BY <1>4, <2>1
    <3> QED BY <1>2, <1>4, <2>1, <3>1, <3>2, <3>3
  <2>3. /\ bgq[1] = "semicolon" /\ bgq[2] = "filename" /\ bgq[3] = "equals" /\ bgq[4] = "quote"
        /\ \A j \in 1 .. M : bgq[4 + j] = g[j]
    <3>1. \A j \in 1 .. 4 : j \in 1 .. 4 + M
      BY <1>4
    <3>2. \A j \in 1 .. 4 : bgq[j] = b[j]
      BY <2>1, <2>2, <3>1
    <3>3. \A j \in 1 .. M : 4 + j \in 1 .. 4 + M
      BY <1>4
    <3>4. \A j \in 1 .. M : bgq[4 + j] = g[j]
      BY <2>1, <2>2, <3>3
    <3>5. bgq[1] = b[1] /\ bgq[2] = b[2] /\ bgq[3] = b[3] /\ bgq[4] = b[4]
      <4>1. 1 \in 1 .. 4 /\ 2 \in 1 .. 4 /\ 3 \in 1 .. 4 /\ 4 \in 1 .. 4
        OBVIOUS
      <4> QED BY <3>2, <4>1, Zenon
    <3> QED BY <1>3, <3>4, <3>5, Zenon
  <2> HIDE DEF bgq
  <2> DEFINE t == anq \o bgq
  <2>4. /\ t \in Words /\ Len(t) = 11 + L + M /\ \A j \in 1 .. 6 + L : t[j] = anq[j]
        /\ \A j \in 1 .. 5 + M : t[6 + L + j] = bgq[j]
    <3>1. /\ t \in Words /\ Len(t) = Len(anq) + Len(bgq)
          /\ \A j \in 1 .. Len(anq) : t[j] = anq[j]
          /\ \A j \in 1 .. Len(bgq) : t[Len(anq) + j] = bgq[j]
      BY <1>8, <2>2, Glue
    <3>2. Len(anq) + Len(bgq) = 11 + L + M
      BY <1>4, <1>8, <2>2
    <3> QED BY <1>8, <2>2, <3>1, <3>2
  <2>5. DispositionText(d) = t
    BY <1>5, <1>6, <1>11
  <2> HIDE DEF t
  <2>6. /\ t[1] = "form-data" /\ t[2] = "semicolon" /\ t[3] = "name" /\ t[4] = "equals" /\ t[5] = "quote"
        /\ t[6 + L] = "quote"
    <3>1. /\ 1 \in 1 .. 6 + L /\ 2 \in 1 .. 6 + L /\ 3 \in 1 .. 6 + L /\ 4 \in 1 .. 6 + L
          /\ 5 \in 1 .. 6 + L /\ 6 + L \in 1 .. 6 + L
      BY <1>4
    <3> QED BY <1>8, <1>9, <2>4, <3>1
  <2>7. \A j \in 1 .. L : t[5 + j] = n[j]
    <3>1. \A j \in 1 .. L : 5 + j \in 1 .. 6 + L
      BY <1>4
    <3> QED BY <1>9, <2>4, <3>1
  <2>8. /\ t[7 + L] = "semicolon" /\ t[8 + L] = "filename" /\ t[9 + L] = "equals" /\ t[10 + L] = "quote"
        /\ t[11 + L + M] = "quote"
    <3>1. /\ 1 \in 1 .. 5 + M /\ 2 \in 1 .. 5 + M /\ 3 \in 1 .. 5 + M /\ 4 \in 1 .. 5 + M
          /\ 5 + M \in 1 .. 5 + M
      BY <1>4
    <3>2. /\ t[6 + L + 1] = "semicolon" /\ t[6 + L + 2] = "filename" /\ t[6 + L + 3] = "equals"
          /\ t[6 + L + 4] = "quote" /\ t[6 + L + (5 + M)] = "quote"
      BY <2>2, <2>3, <2>4, <3>1
    <3>3. /\ 6 + L + 1 = 7 + L /\ 6 + L + 2 = 8 + L /\ 6 + L + 3 = 9 + L /\ 6 + L + 4 = 10 + L
          /\ 6 + L + (5 + M) = 11 + L + M
      BY <1>4
    <3> QED BY <3>2, <3>3
  <2>9. ASSUME NEW j \in 1 .. M PROVE t[10 + L + j] = g[j]
    <3>1. 4 + j \in 1 .. 5 + M /\ 6 + L + (4 + j) = 10 + L + j
      BY <1>4
    <3> QED BY <2>3, <2>4, <3>1
  <2>10. IsText(t, n, g, L, M)
    BY <1>11, <2>4, <2>6, <2>7, <2>8, <2>9 DEF IsText, L, M
  <2> QED BY <2>5, <2>10 DEF n, g, L, M
<1> QED BY <1>10, <1>11

\* Where the names are plain, the text has no other ; and = than its own.
NoMarks(n) == \A j \in 1 .. Len(n) : n[j] \notin {"semicolon", "equals"}

LEMMA Marks ==
  ASSUME NEW t, NEW n \in Words, NEW g \in Words, NEW L, NEW M, IsText(t, n, g, L, M),
         NoMarks(n), NoMarks(g), NEW j \in 1 .. Len(t)
  PROVE  /\ t[j] = "semicolon" => j = 2 \/ (M # 0 /\ j = 7 + L)
         /\ t[j] = "equals" => j = 4 \/ (M # 0 /\ j = 9 + L)
<1>1. L \in Nat /\ M \in Nat /\ L = Len(n) /\ M = Len(g)
  BY DEF IsText, Words
<1>2. CASE j <= 5
  <2>1. j \in {1, 2, 3, 4, 5}
    BY <1>2
  <2> QED BY <2>1 DEF IsText
<1>3. CASE j > 5 /\ j <= 5 + L
  <2>1. j - 5 \in 1 .. L /\ 5 + (j - 5) = j
    BY <1>1, <1>3
  <2>2. t[j] = n[j - 5]
    BY <2>1 DEF IsText
  <2> QED BY <1>1, <2>1, <2>2 DEF NoMarks
<1>4. CASE j = 6 + L
  BY <1>4 DEF IsText
<1>5. CASE j > 6 + L
  <2>1. M # 0 /\ Len(t) = 11 + L + M
    BY <1>1, <1>5 DEF IsText
  <2>2. \/ j = 7 + L \/ j = 8 + L \/ j = 9 + L \/ j = 10 + L \/ j = 11 + L + M
        \/ j - (10 + L) \in 1 .. M /\ 10 + L + (j - (10 + L)) = j
    BY <1>1, <1>5, <2>1
  <2>3. CASE j = 7 + L \/ j = 8 + L \/ j = 9 + L \/ j = 10 + L \/ j = 11 + L + M
    BY <2>1, <2>3 DEF IsText
  <2>4. CASE j - (10 + L) \in 1 .. M /\ 10 + L + (j - (10 + L)) = j
    <3>1. t[j] = g[j - (10 + L)]
      BY <2>1, <2>4 DEF IsText
    <3> QED BY <1>1, <2>4, <3>1 DEF NoMarks
  <2> QED BY <2>2, <2>3, <2>4
<1> QED BY <1>1, <1>2, <1>3, <1>4, <1>5

\* What is between two quotes.
LEMMA Trimmed ==
  ASSUME NEW t \in Words, NEW e \in Nat, NEW b \in Nat, NEW x \in Words, b <= Len(t),
         b = e + 2 + Len(x), t[e + 1] = "quote", t[b] = "quote",
         \A j \in 1 .. Len(x) : t[e + 1 + j] = x[j]
  PROVE  LET y == SubSeq(t, e + 1, b) IN TrimPairs(y) = x /\ y # <<"quote">>
<1> DEFINE y == SubSeq(t, e + 1, b)
           n == Len(x)
<1>1. n \in Nat /\ Len(t) \in Nat
  BY DEF Words
<1>2. b - e = n + 2 /\ e <= b
  BY <1>1
<1>3. Cut(t, e, b, y)
  BY <1>2, SubSeqCut
<1>4. y \in Words /\ Len(y) = n + 2 /\ \A j \in 1 .. n + 2 : y[j] = t[e + j]
  BY <1>2, <1>3 DEF Cut
<1> HIDE DEF y, n
<1>5. y # <<"quote">>
  <2>1. Len(<<"quote">>) = 1 /\ n + 2 # 1
    BY <1>1
  <2> QED BY <1>4, <2>1
<1>6. y[1] = "quote" /\ y[Len(y)] = "quote" /\ Len(y) >= 2
  <2>1. 1 \in 1 .. n + 2 /\ n + 2 \in 1 .. n + 2
    BY <1>1
  <2>2. e + (n + 2) = b
    BY <1>1, <1>2
  <2>3. y[1] = t[e + 1] /\ y[n + 2] = t[b]
    BY <1>4, <2>1, <2>2
  <2>4. Len(y) >= 2
    BY <1>1, <1>4
  <2> QED BY <1>4, <2>3, <2>4
<1> DEFINE z == SubSeq(y, 2, Len(y) - 1)
<1>7. TrimPairs(y) = z
  BY <1>6 DEF TrimPairs
<1>8. Cut(y, 1, n + 1, SubSeq(y, 1 + 1, n + 1))
  <2>1. 1 \in Nat /\ n + 1 \in Nat /\ 1 <= n + 1 /\ n + 1 <= Len(y)
    BY <1>1, <1>4
  <2> QED BY <1>4, <2>1, SubSeqCut
<1>9. z = SubSeq(y, 1 + 1, n + 1)
  <2>1. Len(y) - 1 = n + 1 /\ 1 + 1 = 2
    BY <1>1, <1>4
  <2> QED BY <2>1
<1> HIDE DEF z
<1>10. z \in Words /\ Len(z) = n /\ \A j \in 1 .. n : z[j] = y[1 + j]
  <2>1. (n + 1) - 1 = n
    BY <1>1
  <2> QED BY <1>8, <1>9, <2>1 DEF Cut
<1>11. ASSUME NEW j \in 1 .. n PROVE z[j] = x[j]
  <2>1. 1 + j \in 1 .. n + 2 /\ e + (1 + j) = e + 1 + j
    BY <1>1
  <2>2. y[1 + j] = t[e + 1 + j]
    BY <1>4, <2>1
  <2>3. t[e + 1 + j] = x[j]
    BY <1>11 DEF n
  <2> QED BY <1>10, <2>2, <2>3
<1>12. z = x
  BY <1>10, <1>11 DEF Words, n
<1> QED BY <1>5, <1>7, <1>12 DEF y

\* A key that is set in one place only.
SetsAt(t, key, a, e, b) ==
  /\ a \in 1 .. Len(t) /\ e \in a .. b /\ b \in 1 .. Len(t)
  /\ a = 1 \/ t[a - 1] = "semicolon"
  /\ b = Len(t) \/ t[b + 1] = "semicolon"
  /\ t[a] = key
  /\ \A j \in a .. b : t[j] # "semicolon" /\ (t[j] = "equals" <=> j = e)

LEMMA SetsThere ==
  ASSUME NEW t \in Words, NEW key, NEW a, NEW e, NEW b, SetsAt(t, key, a, e, b)
  PROVE  [a |-> a, e |-> e, b |-> b] \in Settings(t, key)
<1> DEFINE r == [a |-> a, e |-> e, b |-> b]
<1>1. DOMAIN t = 1 .. Len(t) /\ Len(t) \in Nat
  BY DEF Words
<1>2. a \in DOMAIN t /\ e \in DOMAIN t /\ b \in DOMAIN t
  <2>1. a \in 1 .. Len(t) /\ e \in a .. b /\ b \in 1 .. Len(t)
    BY DEF SetsAt
  <2> QED BY <1>1, <2>1
<1>3. r.a = a /\ r.e = e /\ r.b = b /\ r \in [a : DOMAIN t, e : DOMAIN t, b : DOMAIN t]
  BY <1>2
<1> HIDE DEF r
<1>4. r \in Settings(t, key)
  BY <1>3, Zenon DEF Settings, SetsAt
<1> QED BY <1>4 DEF r

Once(t, key, a, e, b, x) ==
  /\ SetsAt(t, key, a, e, b)
  /\ \A s \in Settings(t, key) : s.e = e /\ s.b = b
  /\ b = e + 2 + Len(x) /\ t[e + 1] = "quote" /\ t[b] = "quote"
  /\ \A j \in 1 .. Len(x) : t[e + 1 + j] = x[j]

LEMMA SetOnce ==
  ASSUME NEW t \in Words, NEW key, NEW a, NEW e, NEW b, NEW x \in Words,
         Once(t, key, a, e, b, x)
  PROVE  /\ Assigned(LastSet(t, key), <<>>) = x
         /\ \A s \in Settings(t, key) : Raw(t, s) # <<"quote">>
<1> DEFINE y == SubSeq(t, e + 1, b)
<1>1. e \in Nat /\ b \in Nat /\ b <= Len(t)
  <2>1. Len(t) \in Nat
    BY DEF Words
  <2>2. a \in 1 .. Len(t) /\ e \in a .. b /\ b \in 1 .. Len(t)
    BY DEF Once, SetsAt
  <2> QED BY <2>1, <2>2
<1>2. TrimPairs(y) = x /\ y # <<"quote">>
  BY <1>1, Trimmed DEF Once
<1>3. \A s \in Settings(t, key) : Raw(t, s) = y
  BY Zenon DEF Raw, Once
<1> HIDE DEF y
<1>4. Settings(t, key) # {}
  BY SetsThere DEF Once
<1>5. PICK s \in Settings(t, key) : LastSet(t, key) = <<TrimPairs(Raw(t, s))>>
  BY <1>4, LastSetting
<1>6. LastSet(t, key) = <<x>>
  BY <1>2, <1>3, <1>5
<1>7. \A v : <<v>> # <<>> /\ <<v>>[1] = v
  OBVIOUS
<1>8. Assigned(LastSet(t, key), <<>>) = x
  BY <1>6, <1>7, Zenon DEF Assigned
<1> QED BY <1>2, <1>3, <1>8, Zenon

\* The pieces of a text with plain names begin at the 3rd word and, if there is a
\* file name, at the 8 + Len(name)th.
LEMMA PiecesAre ==
  ASSUME NEW t, NEW n \in Words, NEW g \in Words, NEW L, NEW M, IsText(t, n, g, L, M),
         NoMarks(n), NoMarks(g), NEW key \in {"name", "filename"}, NEW s \in Settings(t, key)
  PROVE  \/ key = "name" /\ s.e = 4 /\ s.b = 6 + L
         \/ key = "filename" /\ M # 0 /\ s.e = 9 + L /\ s.b = 11 + L + M
<1>1. t \in Words /\ L \in Nat /\ M \in Nat /\ Len(t) \in Nat
      /\ (M = 0 => Len(t) = 6 + L) /\ (M # 0 => Len(t) = 11 + L + M)
  BY DEF IsText, Words
<1>2. /\ s.a \in 1 .. Len(t) /\ s.e \in s.a .. s.b /\ s.b \in 1 .. Len(t)
      /\ s.a = 1 \/ t[s.a - 1] = "semicolon"
      /\ s.b = Len(t) \/ t[s.b + 1] = "semicolon"
      /\ t[s.a] = key
      /\ \A j \in s.a .. s.b : t[j] # "semicolon" /\ (t[j] = "equals" <=> j = s.e)
  BY <1>1, SettingIs
<1>3. s.a = 3 \/ (M # 0 /\ s.a = 8 + L)
  <2>1. s.a # 1
    BY <1>2 DEF IsText
  <2>2. s.a - 1 \in 1 .. Len(t)
    BY <1>1, <1>2, <2>1
  <2>3. s.a - 1 = 2 \/ (M # 0 /\ s.a - 1 = 7 + L)
    BY <1>2, <2>1, <2>2, Marks
  <2> QED BY <1>1, <1>2, <2>3
<1>4. s.b = Len(t) \/ s.b = 1 \/ (M # 0 /\ s.b = 6 + L)
  <2>1. CASE s.b # Len(t)
    <3>1. s.b + 1 \in 1 .. Len(t)
      BY <1>1, <1>2, <2>1
    <3>2. s.b + 1 = 2 \/ (M # 0 /\ s.b + 1 = 7 + L)
      BY <1>2, <2>1, <3>1, Marks
    <3> QED BY <1>1, <1>2, <3>2
  <2> QED BY <2>1
<1>5. CASE s.a = 3
  <2>1. key = "name"
    BY <1>2, <1>5 DEF IsText
  <2>2. s.b = 6 + L
    <3>1. CASE M = 0
      BY <1>1, <1>2, <1>4, <1>5, <3>1
    <3>2. CASE M # 0
      <4>1. t[7 + L] = "semicolon"
        BY <3>2 DEF IsText
      <4>2. 7 + L \notin s.a .. s.b
        BY <1>2, <4>1
      <4> QED BY <1>1, <1>2, <1>4, <1>5, <3>2, <4>2
    <3> QED BY <3>1, <3>2
  <2>3. 4 \in s.a .. s.b /\ t[4] = "equals"
    <3>1. t[4] = "equals"
      BY DEF IsText
    <3> QED BY <1>1, <1>5, <2>2, <3>1
  <2> QED BY <1>2, <2>1, <2>2, <2>3
<1>6. CASE M # 0 /\ s.a = 8 + L
  <2>1. key = "filename"
    BY <1>2, <1>6 DEF IsText
  <2>2. s.b = 11 + L + M
    BY <1>1, <1>2, <1>4, <1>6
  <2>3. 9 + L \in s.a .. s.b /\ t[9 + L] = "equals"
    <3>1. t[9 + L] = "equals"
      BY <1>6 DEF IsText
    <3> QED BY <1>1, <1>6, <2>2, <3>1
  <2> QED BY <1>2, <1>6, <2>1, <2>2, <2>3
<1> QED BY <1>3, <1>5, <1>6

\* Plain names are read as they were written.
LEMMA PlainName ==
  ASSUME NEW t, NEW n \in Words, NEW g \in Words, NEW L, NEW M, IsText(t, n, g, L, M),
         NoMarks(n), NoMarks(g)
  PROVE  /\ Assigned(LastSet(t, "name"), <<>>) = n
         /\ \A s \in Settings(t, "name") : Raw(t, s) # <<"quote">>
<1> DEFINE b == 6 + L
<1>1. /\ t \in Words /\ L \in Nat /\ M \in Nat /\ Len(t) \in Nat /\ L = Len(n)
      /\ (M = 0 => Len(t) = 6 + L) /\ (M # 0 => Len(t) = 11 + L + M)
  BY DEF IsText, Words
<1>2. /\ 3 \in 1 .. Len(t) /\ 4 \in 1 .. Len(t) /\ b \in 1 .. Len(t) /\ 4 \in 3 .. b
      /\ b = 4 + 2 + Len(n) /\ 3 - 1 = 2 /\ 4 + 1 = 5 /\ 6 + L + 1 = 7 + L
      /\ \A j \in 3 .. b : j \in 1 .. Len(t) /\ j # 2 /\ j # 7 + L /\ j # 9 + L
  BY <1>1
<1>3. t[2] = "semicolon" /\ t[3] = "name" /\ t[4] = "equals" /\ t[5] = "quote" /\ t[b] = "quote"
      /\ \A j \in 1 .. Len(n) : t[4 + 1 + j] = n[j]
  <2>1. 4 + 1 = 5
    OBVIOUS
  <2> QED BY <1>1, <2>1 DEF IsText
<1>4. b = Len(t) \/ t[b + 1] = "semicolon"
  <2>1. M = 0 => b = Len(t)
    BY <1>1
  <2>2. M # 0 => t[7 + L] = "semicolon"
    BY DEF IsText
  <2> QED BY <1>2, <2>1, <2>2
<1> HIDE DEF b
<1>5. \A j \in 3 .. b : t[j] # "semicolon" /\ (t[j] = "equals" <=> j = 4)
  BY <1>2, <1>3, Marks
<1>6. \A s \in Settings(t, "name") : s.e = 4 /\ s.b = b
  <2>1. "name" # "filename"
    OBVIOUS
  <2> QED BY <2>1, PiecesAre DEF b
<1>7. t[3 - 1] = "semicolon" /\ t[4 + 1] = "quote"
  BY <1>2, <1>3
<1>8. SetsAt(t, "name", 3, 4, b)
  BY <1>2, <1>3, <1>4, <1>5, <1>7, Zenon DEF SetsAt
<1>9. Once(t, "name", 3, 4, b, n)
  BY <1>2, <1>3, <1>6, <1>7, <1>8, Zenon DEF Once
<1> QED BY <1>1, <1>9, SetOnce

LEMMA PlainFile ==
  ASSUME NEW t, NEW n \in Words, NEW g \in Words, NEW L, NEW M, IsText(t, n, g, L, M),
         NoMarks(n), NoMarks(g)
  PROVE  /\ Assigned(LastSet(t, "filename"), <<>>) = g
         /\ \A s \in Settings(t, "filename") : Raw(t, s) # <<"quote">>
<1>1. /\ t \in Words /\ L \in Nat /\ M \in Nat /\ Len(t) \in Nat /\ M = Len(g)
      /\ (M = 0 => Len(t) = 6 + L) /\ (M # 0 => Len(t) = 11 + L + M)
  BY DEF IsText, Words
<1>2. "name" # "filename"
  OBVIOUS
<1>3. CASE M = 0
  <2>1. Settings(t, "filename") = {}
    BY <1>2, <1>3, PiecesAre
  <2>2. g = <<>>
    <3>1. \A w \in Words : Len(w) = 0 => w = <<>>
      BY DEF Words
    <3> QED BY <1>1, <1>3, <3>1, Zenon
  <2>3. LastSet(t, "filename") = <<>>
    BY <2>1 DEF LastSet
  <2> QED BY <2>1, <2>2, <2>3 DEF Assigned
<1>4. CASE M # 0
  <2> DEFINE a == 8 + L
             e == 9 + L
             b == 11 + L + M
  <2>1. /\ a \in 1 .. Len(t) /\ e \in 1 .. Len(t) /\ b \in 1 .. Len(t) /\ e \in a .. b
        /\ b = e + 2 + Len(g) /\ b = Len(t) /\ a - 1 = 7 + L /\ e + 1 = 10 + L
        /\ \A j \in a .. b : j \in 1 .. Len(t) /\ j # 2 /\ j # 7 + L /\ j # 4
    BY <1>1, <1>4
  <2>2. t[7 + L] = "semicolon" /\ t[a] = "filename" /\ t[e] = "equals" /\ t[10 + L] = "quote"
        /\ t[b] = "quote" /\ \A j \in 1 .. Len(g) : t[10 + L + j] = g[j]
    BY <1>1, <1>4 DEF IsText
  <2>3. \A s \in Settings(t, "filename") : s.e = e /\ s.b = b
    BY <1>2, PiecesAre
  <2>4. \A j \in a .. b : t[j] # "semicolon" /\ (t[j] = "equals" => j = e)
    BY <2>1, Marks
  <2> HIDE DEF a, e, b
  <2>5. \A j \in a .. b : t[j] # "semicolon" /\ (t[j] = "equals" <=> j = e)
    BY <2>2, <2>4
  <2>6. t[a - 1] = "semicolon" /\ t[e + 1] = "quote" /\ \A j \in 1 .. Len(g) : t[e + 1 + j] = g[j]
    BY <2>1, <2>2
  <2>7. SetsAt(t, "filename", a, e, b)
    BY <2>1, <2>2, <2>5, <2>6, Zenon DEF SetsAt
  <2>8. Once(t, "filename", a, e, b, g)
    BY <2>1, <2>2, <2>3, <2>6, <2>7, Zenon DEF Once
  <2> QED BY <1>1, <2>8, SetOnce
<1> QED BY <1>3, <1>4

\* All that the rest needs to know of what handle_header reads in a value.
LEMMA ReadIs ==
  ASSUME NEW v \in Values
  PROVE  LET d == Disposition[v]
         IN  /\ Holds(DispositionText(d), NameRead(v))
             /\ Holds(DispositionText(d), FileRead(v))
             /\ Plain(d) => NameRead(v) = d.name /\ FileRead(v) = d.filename /\ ~Read[v].throws
<1> DEFINE d == Disposition[v]
           t == DispositionText(d)
<1>1. d.name \in Words /\ d.filename \in Words
  <2>1. d \in [name : Seq(STRING), filename : Seq(STRING)]
    BY ConstantsAssumption
  <2>2. STRING \subseteq Word
    BY DEF Word
  <2> QED BY <2>1, <2>2, Wider DEF Words
<1>2. /\ NameRead(v) = Assigned(LastSet(t, "name"), <<>>)
      /\ FileRead(v) = Assigned(LastSet(t, "filename"), <<>>)
      /\ Read[v].throws = Throws(t)
  BY DEF NameRead, FileRead, Read
<1>3. IsText(t, d.name, d.filename, Len(d.name), Len(d.filename))
  BY <1>1, TextLaidOut
<1>4. t \in Words
  BY <1>3 DEF IsText
<1>5. Holds(t, NameRead(v)) /\ Holds(t, FileRead(v))
  BY <1>2, <1>4, ReadHeld
<1>6. ASSUME Plain(d) PROVE NameRead(v) = d.name /\ FileRead(v) = d.filename /\ ~Read[v].throws
  <2>1. NoMarks(d.name) /\ NoMarks(d.filename)
    BY <1>1, <1>6 DEF Plain, NoMarks, Words
  <2> HIDE DEF t, d
  <2>2. /\ Assigned(LastSet(t, "name"), <<>>) = d.name
        /\ \A s \in Settings(t, "name") : Raw(t, s) # <<"quote">>
    BY <1>1, <1>3, <2>1, PlainName
  <2>3. /\ Assigned(LastSet(t, "filename"), <<>>) = d.filename
        /\ \A s \in Settings(t, "filename") : Raw(t, s) # <<"quote">>
    BY <1>1, <1>3, <2>1, PlainFile
  <2>4. ~Throws(t)
    BY <2>2, <2>3 DEF Throws
  <2> QED BY <1>2, <2>2, <2>3, <2>4
<1> QED BY <1>5, <1>6

-----------------------------------------------------------------------------
(***************************************************************************)
(* The form of the parts that were written, and how one more part changes  *)
(* it.                                                                     *)
(***************************************************************************)
EntryAt(k) == [filename |-> Disposition[parts[k].value].filename, data |-> parts[k].data]
IsLast(W, m, k) == k \in W /\ Name(k) = m /\ \A j \in W : Name(j) = m => j <= k
LastOf(W, m) == CHOOSE k \in W : Name(k) = m /\ \A j \in W : Name(j) = m => j <= k
FormFrom(W) == [m \in {Name(k) : k \in W} |-> EntryAt(LastOf(W, m))]

LEMMA FormIs ==
  ASSUME NEW n
  PROVE  FormOf(n) = FormFrom(Kept(n))
BY DEF FormOf, FormFrom, EntryAt, LastOf

LEMMA LastExists ==
  ASSUME NEW n \in Nat, NEW W \in SUBSET (1 .. n), NEW m, NEW a \in W, Name(a) = m
  PROVE  IsLast(W, m, LastOf(W, m))
<1> DEFINE V == {k \in W : Name(k) = m}
           T == {d \in Nat : n - d \in V}
<1>1. \A k \in V : n - k \in T
  <2>1. \A k \in V : k \in 1 .. n
    OBVIOUS
  <2> HIDE DEF V
  <2>2. \A k \in V : n - k \in Nat /\ n - (n - k) = k
    BY <2>1
  <2> QED BY <2>2
<1>2. PICK d \in T : \A e \in T : d <= e
  <2>1. T # {} /\ T \in SUBSET Nat
    BY <1>1
  <2> HIDE DEF T
  <2> QED BY <2>1, LeastMember
<1> DEFINE k == n - d
<1>3. k \in W /\ Name(k) = m
  BY <1>2
<1>4. ASSUME NEW j \in W, Name(j) = m PROVE j <= k
  <2>1. n - j \in T /\ j \in 1 .. n
    BY <1>1, <1>4
  <2>2. d <= n - j /\ d \in Nat
    BY <1>2, <2>1
  <2> QED BY <2>1, <2>2
<1>5. \E q \in W : Name(q) = m /\ \A j \in W : Name(j) = m => j <= q
  BY <1>3, <1>4
<1> QED BY <1>5 DEF IsLast, LastOf

LEMMA LastUnique ==
  ASSUME NEW n \in Nat, NEW W \in SUBSET (1 .. n), NEW m, NEW a, NEW b,
         IsLast(W, m, a), IsLast(W, m, b)
  PROVE  a = b
<1>1. a \in 1 .. n /\ b \in 1 .. n /\ a <= b /\ b <= a
  BY DEF IsLast
<1> QED BY <1>1

\* A part that is kept replaces what its name had before.
LEMMA FormGrows ==
  ASSUME N \in Nat, NEW k \in WrittenPart, ~Lost(k), Name(k) # <<>>
  PROVE  FormOf(k) = Put(FormOf(k - 1), Name(k), EntryAt(k))
<1> DEFINE W == Kept(k - 1)
           V == Kept(k)
<1>1. k \in Nat /\ k \in 1 .. N /\ parts[k].ok
  BY DEF WrittenPart
<1>2. /\ V = W \cup {k} /\ k \notin W /\ V \in SUBSET (1 .. k) /\ W \in SUBSET (1 .. k)
      /\ \A j \in W : j < k
  BY <1>1 DEF Kept, Written
<1>3. FormOf(k) = FormFrom(V) /\ FormOf(k - 1) = FormFrom(W)
  BY FormIs
<1> HIDE DEF W, V
<1> DEFINE F == FormFrom(V)
           G == FormFrom(W)
           P == Put(G, Name(k), EntryAt(k))
<1>4. DOMAIN F = {Name(j) : j \in V} /\ DOMAIN G = {Name(j) : j \in W}
  BY DEF FormFrom
<1>5. DOMAIN F = DOMAIN G \cup {Name(k)}
  BY <1>2, <1>4
<1>6. F[Name(k)] = EntryAt(k)
  <2>1. IsLast(V, Name(k), k)
    BY <1>1, <1>2 DEF IsLast
  <2>2. IsLast(V, Name(k), LastOf(V, Name(k)))
    BY <1>1, <1>2, LastExists
  <2>3. LastOf(V, Name(k)) = k
    BY <1>1, <1>2, <2>1, <2>2, LastUnique
  <2> QED BY <1>2, <2>3 DEF FormFrom
<1>7. ASSUME NEW m \in DOMAIN G, m # Name(k) PROVE F[m] = G[m]
  <2>1. PICK a \in W : Name(a) = m
    BY <1>4
  <2>2. IsLast(W, m, LastOf(W, m))
    BY <1>1, <1>2, <2>1, LastExists
  <2>3. IsLast(V, m, LastOf(V, m))
    <3>1. a \in V
      BY <1>2, <2>1
    <3> QED BY <1>1, <1>2, <2>1, <3>1, LastExists
  <2>4. IsLast(V, m, LastOf(W, m))
    BY <1>2, <1>7, <2>2 DEF IsLast
  <2>5. LastOf(V, m) = LastOf(W, m)
    BY <1>1, <1>2, <2>3, <2>4, LastUnique
  <2>6. F[m] = EntryAt(LastOf(V, m)) /\ G[m] = EntryAt(LastOf(W, m))
    BY <1>4, <1>5 DEF FormFrom
  <2> QED BY <2>5, <2>6
<1>8. F = [m \in DOMAIN F |-> F[m]]
  BY DEF FormFrom
<1>9. P = [m \in DOMAIN G \cup {Name(k)} |-> IF m = Name(k) THEN EntryAt(k) ELSE G[m]]
  BY DEF Put
<1> HIDE DEF F, G, P
<1>10. \A m \in DOMAIN G \cup {Name(k)} :
         F[m] = IF m = Name(k) THEN EntryAt(k) ELSE G[m]
  BY <1>6, <1>7
<1>11. F = P
  BY <1>5, <1>8, <1>9, <1>10, Zenon
<1> QED BY <1>3, <1>11 DEF F, G, P

\* A part that is not kept changes nothing.
LEMMA FormSame ==
  ASSUME N \in Nat, NEW k \in WrittenPart, Lost(k) \/ Name(k) = <<>>
  PROVE  FormOf(k) = FormOf(k - 1)
<1>1. k \in Nat /\ k \in 1 .. N
  BY DEF WrittenPart
<1>2. Kept(k) = Kept(k - 1)
  BY <1>1 DEF Kept, Written
<1> QED BY <1>2, FormIs

LEMMA FormStays ==
  ASSUME N \in Nat, NEW k \in 0 .. N, NEW m, NextUp(k, m)
  PROVE  FormOf(m - 1) = FormOf(k)
<1>1. m \in k + 1 .. N + 1 /\ \A j \in k + 1 .. m - 1 : ~parts[j].ok
  BY DEF NextUp
<1>2. Written(m - 1) = Written(k)
  BY <1>1 DEF Written
<1>3. Kept(m - 1) = Kept(k)
  BY <1>2 DEF Kept
<1> QED BY <1>3, FormIs

LEMMA FormEmpty == FormOf(0) = EmptyForm
<1>1. Kept(0) = {}
  BY DEF Kept, Written
<1>2. DOMAIN FormFrom(Kept(0)) = {}
  BY <1>1 DEF FormFrom
<1>3. FormFrom(Kept(0)) = [m \in {} |-> EntryAt(LastOf(Kept(0), m))]
  BY <1>1 DEF FormFrom
<1>4. FormFrom(Kept(0)) = EmptyForm
  BY <1>3 DEF EmptyForm
<1> QED BY <1>4, FormIs

-----------------------------------------------------------------------------
(***************************************************************************)
(* The steps.  The body and what it was made of do not change.             *)
(***************************************************************************)
LEMMA Frozen ==
  ASSUME parts' = parts
  PROVE  /\ Whole' = Whole /\ N' = N /\ WrittenPart' = WrittenPart
         /\ (Separable' <=> Separable) /\ (Agreeable' <=> Agreeable)
         /\ (FirstWritten' <=> FirstWritten)
<1>1. Whole' = Whole /\ N' = N
  BY DEF Whole, N
<1>2. Separable' <=> Separable
  BY DEF Separable
<1>3. Agreeable' <=> Agreeable
  BY DEF Agreeable
<1>4. WrittenPart' = WrittenPart
  BY <1>1 DEF WrittenPart
<1>5. FirstWritten' <=> FirstWritten
  BY <1>1 DEF FirstWritten
<1> QED BY <1>1, <1>2, <1>3, <1>4, <1>5

LEMMA FrozenPlaces ==
  ASSUME parts' = parts, NEW k, NEW l
  PROVE  /\ Off(k)' = Off(k) /\ LineStart(k, l)' = LineStart(k, l) /\ DataAt(k)' = DataAt(k)
         /\ Left(k)' = Left(k)
<1>1. \A j : Off(j)' = Off(j)
  BY DEF Off
<1>2. Left(k)' = Left(k)
  BY DEF Left, Spoilt, Written
<1> QED BY <1>1, <1>2 DEF LineStart, DataAt

\* An empty header at the end of part k reaches the part that comes next, and
\* nothing reaches the first.
LEMMA LeftOver ==
  ASSUME N \in Nat, NEW k \in WrittenPart, NEW m, NextUp(k, m)
  PROVE  Left(m) = Leaves(parts[k])
<1>1. k \in 1 .. N /\ parts[k].ok
  BY DEF WrittenPart
<1>2. m \in k + 1 .. N + 1 /\ \A j \in k + 1 .. m - 1 : ~parts[j].ok
  BY DEF NextUp
<1>3. k \in Written(m - 1) /\ \A h \in Written(m - 1) : h \in 1 .. k
  BY <1>1, <1>2 DEF Written
<1>4. Spoilt(m) <=> parts[k].type = "empty"
  <2>1. \A h \in Written(m - 1) : h <= k /\ (k <= h => h = k)
    BY <1>1, <1>3
  <2> QED BY <1>3, <2>1 DEF Spoilt
<1> QED BY <1>4 DEF Left, Leaves

LEMMA NothingLeft == Left(1) = <<>>
<1>1. Written(1 - 1) = {}
  BY DEF Written
<1> QED BY <1>1 DEF Left, Spoilt

LEMMA LostIs ==
  ASSUME NEW k
  PROVE  Lost(k) <=> Loses(parts[k], Left(k))
<1>1. Left(k) # <<>> <=> Spoilt(k)
  BY DEF Left
<1> QED BY <1>1 DEF Lost, Loses

LEMMA FrozenForm ==
  ASSUME parts' = parts, NEW k
  PROVE  FormOf(k)' = FormOf(k)
BY DEF FormOf, Kept, Lost, Spoilt, Written, Name

LEMMA FrozenNext ==
  ASSUME parts' = parts, NEW k, NEW m
  PROVE  NextUp(k, m)' <=> NextUp(k, m)
<1>1. N' = N
  BY Frozen
<1>2. Off(m)' = Off(m) /\ Off(k + 1)' = Off(k + 1)
  BY DEF Off
<1> QED BY <1>1, <1>2 DEF NextUp

\* Where nothing is added to the form.
LEMMA StaysBefore ==
  ASSUME parts' = parts, form' = form, NEW k \in WrittenPart, Before(k)', Handled(k - 1)
  PROVE  Located'
<1>1. k \in WrittenPart'
  BY Frozen
<1>2. Handled(k - 1)'
  BY Frozen, FrozenForm DEF Handled
<1> QED BY <1>1, <1>2 DEF Located

LEMMA StaysAfter ==
  ASSUME parts' = parts, form' = form, NEW k \in WrittenPart, AfterPart(k)', Handled(k)
  PROVE  Located'
<1>1. k \in WrittenPart'
  BY Frozen
<1>2. Handled(k)'
  BY Frozen, FrozenForm DEF Handled
<1> QED BY <1>1, <1>2 DEF Located

LEMMA StaysUnmixed ==
  ASSUME parts' = parts, form' = form, NothingMixed
  PROVE  NothingMixed'
<1>1. Separable' <=> Separable
  BY Frozen
<1> QED BY <1>1 DEF NothingMixed

LEMMA StaysGiven ==
  ASSUME Given, parts' = parts, body' = body, i' \in Nat \ {0}
  PROVE  Given'
BY Frozen DEF Given

\* The symbol that is looked at.
LEMMA Looked ==
  ASSUME Given, NEW s, At(s)
  PROVE  c = Whole[i] /\ state = s /\ i \in 1 .. Len(body) /\ Len(body) \in Nat
<1>1. i \in 1 .. Len(body) /\ state = s /\ Len(body) \in Nat
  BY DEF Given, At, Symbols
<1> QED BY <1>1 DEF Given, c

\* The text that a callback gets.
LEMMA TextIs ==
  ASSUME Given, i <= Len(body), mark \in Nat \ {0}, mark <= i,
         NEW t \in Symbols, Len(t) = i - mark, Reads(mark, t)
  PROVE  Text = t
<1>1. /\ i \in Nat /\ body \in Symbols /\ Len(body) \in Nat /\ Len(t) \in Nat
      /\ \A j \in 1 .. Len(body) : body[j] = Whole[j]
  BY DEF Given, Symbols
<1>2. Text \in Symbols /\ Len(Text) = i - mark
      /\ \A j \in 1 .. i - mark : Text[j] = body[mark - 1 + j]
  BY <1>1 DEF Text, Symbols
<1>3. ASSUME NEW j \in 1 .. Len(t) PROVE Text[j] = t[j]
  <2>1. mark - 1 + j \in 1 .. Len(body) /\ j \in 1 .. i - mark
    BY <1>1
  <2>2. Text[j] = Whole[mark - 1 + j]
    BY <1>1, <1>2, <2>1
  <2> QED BY <2>2 DEF Reads
<1> HIDE DEF Text
<1>4. \A s, r \in Symbols : Len(s) = Len(r) /\ (\A j \in 1 .. Len(r) : s[j] = r[j]) => s = r
  BY DEF Symbols
<1> QED BY <1>2, <1>3, <1>4

LEMMA SeenNext ==
  ASSUME NEW p, NEW d, NEW l \in 1 .. 3
  PROVE  /\ Seen(p, l + 1, d) = Fed(p, l, Seen(p, l, d))
         /\ ~HasLine(p, l) => Seen(p, l + 1, d) = Seen(p, l, d)
<1>1. Seen(p, 1, d) = Fresh(d) /\ Seen(p, 2, d) = Seen2(p, d) /\ Seen(p, 3, d) = Seen3(p, d)
      /\ Seen(p, 4, d) = Seen4(p, d)
  BY DEF Seen
<1>2. l = 1 \/ l = 2 \/ l = 3
  OBVIOUS
<1>3. 1 + 1 = 2 /\ 2 + 1 = 3 /\ 3 + 1 = 4
  OBVIOUS
<1>4. Seen(p, l + 1, d) = Fed(p, l, Seen(p, l, d))
  BY <1>1, <1>2, <1>3 DEF Seen2, Seen3, Seen4
<1> QED BY <1>4 DEF Fed

LEMMA Lines ==
  /\ 1 + 1 = 2 /\ 2 + 1 = 3 /\ 3 + 1 = 4
  /\ 1 \in 1 .. 4 /\ 2 \in 1 .. 4 /\ 3 \in 1 .. 4 /\ 4 \in 1 .. 4 /\ ~(4 < 4)
  /\ 1 \in 1 .. 3 /\ 2 \in 1 .. 3 /\ 3 \in 1 .. 3
  /\ \A l \in 1 .. 3 : l + 1 \in 1 .. 4
  /\ \A l \in 1 .. 4 : l = 1 \/ l = 2 \/ l = 3 \/ l = 4
OBVIOUS

\* Wherever the parser expects a header, it is at the next line that is there.
LEMMA AtLine ==
  ASSUME parts \in PartLists, parts' = parts, NEW k \in WrittenPart, NEW l \in 1 .. 4,
         state' = "field start", i' = LineStart(k, l), u' = Seen(parts[k], l, Left(k))
  PROVE  InHeader(k)'
<1> DEFINE p == parts[k]
           Here(j) == i' = LineStart(k, j) /\ u' = Seen(p, j, Left(k))
<1>1. ASSUME NEW j \in 1 .. 4, Here(j), j < 4 => HasLine(p, j) PROVE InHeader(k)'
  <2>1. LineStart(k, j)' = LineStart(k, j) /\ Left(k)' = Left(k)
    BY FrozenPlaces
  <2>2. InLine(k, j)'
    BY <1>1, <2>1 DEF InLine
  <2> QED BY <2>2 DEF InHeader
<1>2. ASSUME NEW j \in 1 .. 3, Here(j), ~HasLine(p, j) PROVE Here(j + 1)
  <2>1. LineStart(k, j + 1) = LineStart(k, j)
    BY <1>2, LineIs
  <2>2. Seen(p, j + 1, Left(k)) = Seen(p, j, Left(k))
    BY <1>2, SeenNext
  <2> QED BY <1>2, <2>1, <2>2
<1> HIDE DEF Here
<1>3. Here(4) => InHeader(k)'
  BY <1>1, Lines, Zenon
<1>4. Here(3) => InHeader(k)'
  <2>1. Here(3) /\ ~HasLine(p, 3) => Here(4)
    BY <1>2, Lines, Zenon
  <2> QED BY <1>1, <1>3, <2>1, Lines, Zenon
<1>5. Here(2) => InHeader(k)'
  <2>1. Here(2) /\ ~HasLine(p, 2) => Here(3)
    BY <1>2, Lines, Zenon
  <2> QED BY <1>1, <1>4, <2>1, Lines, Zenon
<1>6. Here(1) => InHeader(k)'
  <2>1. Here(1) /\ ~HasLine(p, 1) => Here(2)
    BY <1>2, Lines, Zenon
  <2> QED BY <1>1, <1>5, <2>1, Lines, Zenon
<1>7. Here(l)
  BY DEF Here
<1> QED BY <1>3, <1>4, <1>5, <1>6, <1>7, Lines, Zenon

\* The states that expect one character.
ValueEnd == Expect("value almost done", LF, "field start")
HeadersEnd == Expect("headers almost done", LF, "data start")
DataEnd == Expect("data end", LF, "field start")
LastHyphen == Expect("final hyphen", "-", "end")

\* The symbols that the states compare with are different.
LEMMA Distinct ==
  /\ CR # ":" /\ CR # " " /\ CR # "-" /\ CR # LF /\ CR \notin HeaderNames
  /\ ":" \notin HeaderNames
BY ConstantsAssumption DEF HeaderNames

\* Where the parser is in a line.
LEMMA InLineIs ==
  ASSUME parts \in PartLists, NEW k \in WrittenPart, NEW l \in 1 .. 4, InLine(k, l)
  PROVE  /\ LineStart(k, l) \in Nat \ {0} /\ (l < 4 => l \in 1 .. 3 /\ HasLine(parts[k], l))
         /\ parts[k] \in Part
<1>1. \A j \in 1 .. 4 : LineStart(k, j) \in Nat \ {0}
  BY PartAt, Zenon
<1>2. parts[k] \in Part
  BY PartAt
<1>3. l < 4 => l \in 1 .. 3
  OBVIOUS
<1> QED BY <1>1, <1>2, <1>3 DEF InLine

LEMMA FieldStartStep ==
  ASSUME Given, FieldStart, NEW k \in WrittenPart, InHeader(k)
  PROVE  InHeader(k)'
<1>1. PICK l \in 1 .. 4 : InLine(k, l)
  BY DEF InHeader
<1>2. state = "field start" /\ state' = "field" /\ i' = i /\ mark' = i /\ u' = u
      /\ parts' = parts
  BY DEF FieldStart, At, Again, input
<1>3. i = LineStart(k, l) /\ u = Seen(parts[k], l, Left(k)) /\ (l < 4 => HasLine(parts[k], l))
  BY <1>1, <1>2 DEF InLine
<1>4. LineStart(k, l)' = LineStart(k, l) /\ Left(k)' = Left(k)
  BY <1>2, FrozenPlaces
<1>5. InLine(k, l)'
  BY <1>2, <1>3, <1>4 DEF InLine
<1> QED BY <1>5 DEF InHeader

\* A name or a file name that is split leaves no form.
LEMMA ThrowStep ==
  ASSUME Given, Throw, parts' = parts, state = "field" \/ state = "data start",
         NEW k \in WrittenPart, InHeader(k)
  PROVE  Threw'
<1> DEFINE p == parts[k]
<1>1. PICK l \in 1 .. 4 : InLine(k, l)
  BY DEF InHeader
<1>2. u = Seen(p, l, Left(k))
  <2>1. u = Seen(p, l, Left(k)) \/ (l = 4 /\ u = Seen(p, 4, Left(k)))
    BY <1>1 DEF InLine
  <2> QED BY <2>1
<1>3. p \in Part /\ k \in DOMAIN parts /\ Left(k) \in {<<>>, <<"other">>}
  <2>1. parts \in Seq(Part) /\ k \in 1 .. Len(parts)
    BY Layout DEF Given, WrittenPart, N
  <2>2. Left(k) \in {<<>>, <<"other">>}
    BY DEF Left
  <2>3. k \in DOMAIN parts /\ p \in Part
    BY <2>1, Elements, Zenon
  <2> QED BY <2>2, <2>3, Zenon
<1>4. IsDisposition(u) /\ Read[u.value[1]].throws
  BY DEF Throw, ThrowsNow
<1>5. u.value = <<p.value>>
  BY <1>2, <1>3, <1>4, OnlyOwn
<1>6. Read[p.value].throws
  <2>1. \A a : <<a>>[1] = a
    OBVIOUS
  <2>2. u.value[1] = p.value
    BY <1>5, <2>1, Zenon
  <2> QED BY <1>4, <2>2, Zenon
<1>7. p.value \in Values
  BY <1>3 DEF Part
<1>8. ~Plain(Disposition[p.value])
  BY <1>6, <1>7, ReadIs
<1>9. ~Agreeable
  BY <1>3, <1>8 DEF Agreeable
<1>10. ~Agreeable'
  BY <1>9, Frozen
<1>11. state' = "threw" /\ form' = EmptyForm
  BY DEF Throw
<1> QED BY <1>10, <1>11 DEF Threw, EmptyForm

LEMMA FieldStep ==
  ASSUME Given, Field, ~Throw, NEW k \in WrittenPart, InHeader(k)
  PROVE  InHeader(k)'
<1>1. PICK l \in 1 .. 4 : InLine(k, l)
  BY DEF InHeader
<1> DEFINE p == parts[k]
           x == LineStart(k, l)
           val == ValOf(p, l)
           n == Len(val)
<1>2. parts \in PartLists /\ parts' = parts
  BY DEF Given, Field, input
<1>3. x \in Nat \ {0} /\ (l < 4 => l \in 1 .. 3 /\ HasLine(p, l)) /\ p \in Part
  BY <1>1, <1>2, InLineIs
<1>4. c = Whole[i] /\ state = "field" /\ i \in 1 .. Len(body) /\ Len(body) \in Nat
  BY Looked DEF Field
<1>5. LineStart(k, l)' = LineStart(k, l) /\ Left(k)' = Left(k)
  BY <1>2, FrozenPlaces
<1>6. mark = x /\ u = Seen(p, l, Left(k)) /\ (i = x \/ (l < 4 /\ i = x + 1))
  BY <1>1, <1>4 DEF InLine
<1>7. mark' = mark
  BY DEF Field
<1>8. CASE l = 4
  <2>1. i = x /\ c = CR
    <3>1. Whole[LineStart(k, 4)] = CR
      BY <1>2, EmptyLineIs
    <3>2. i = x /\ x = LineStart(k, 4)
      BY <1>6, <1>8
    <3> QED BY <1>4, <3>1, <3>2
  <2>2. state' = "headers almost done" /\ i' = i + 1 /\ u' = u
    BY <2>1, Distinct DEF Field, Advance
  <2>3. u' = Seen(p, 4, Left(k)) /\ i' = LineStart(k, 4) + 1
    BY <1>6, <1>8, <2>1, <2>2
  <2>4. LineStart(k, 4)' = LineStart(k, 4) /\ Left(k)' = Left(k)
    BY <1>2, FrozenPlaces
  <2>5. InLine(k, 4)'
    BY <1>2, <2>2, <2>3, <2>4, Lines, Zenon DEF InLine
  <2> QED BY <2>5, Lines, Zenon DEF InHeader
<1>9. CASE l # 4
  <2>1. l < 4 /\ l \in 1 .. 3 /\ HasLine(p, l)
    BY <1>3, <1>9
  <2>2. LineThere(x, KeyOf(l), val, n)
    BY <1>2, <2>1, LineIs
  <2>3. KeyOf(l) \in HeaderNames /\ KeyOf(l) \in Symbol
    BY <1>3, <2>1, LineOfType
  <2>4. CASE i = x
    <3>1. c \in HeaderNames
      BY <1>4, <2>2, <2>3, <2>4 DEF LineThere
    <3>2. state' = "field" /\ i' = i + 1 /\ u' = u
      BY <3>1, Distinct DEF Field, Advance
    <3>3. InLine(k, l)'
      BY <1>2, <1>5, <1>6, <1>7, <2>1, <2>4, <3>2 DEF InLine
    <3> QED BY <3>3 DEF InHeader
  <2>5. CASE i = x + 1
    <3>1. c = ":"
      BY <1>4, <2>2, <2>5 DEF LineThere
    <3>2. state' = "value start" /\ i' = i + 1
          /\ u' = [HandleHeader(u) EXCEPT !.field = @ \o Text]
      BY <3>1, Distinct DEF Field, Advance
    <3>3. Text = <<KeyOf(l)>>
      <4> DEFINE t == <<KeyOf(l)>>
      <4>1. t \in Symbols /\ Len(t) = 1 /\ t[1] = KeyOf(l)
        BY <2>3, Single, Zenon
      <4>2. Whole[x] = t[1]
        BY <2>2, <4>1 DEF LineThere
      <4> HIDE DEF t, x
      <4>3. Reads(mark, t)
        <5>1. \A j \in 1 .. Len(t) : j = 1 /\ mark - 1 + j = x
          BY <1>3, <1>6, <4>1
        <5> QED BY <4>2, <5>1 DEF Reads
      <4>4. i <= Len(body) /\ mark \in Nat \ {0} /\ mark <= i /\ Len(t) = i - mark
        BY <1>3, <1>4, <1>6, <2>5, <4>1
      <4>5. Text = t
        BY <4>1, <4>3, <4>4, TextIs
      <4> QED BY <4>5 DEF t
    <3>4. u' = WithKey(Seen(p, l, Left(k)), l)
      BY <1>6, <3>2, <3>3 DEF WithKey
    <3>5. i' = x + 2
      <4>1. x \in Nat /\ i' = (x + 1) + 1
        BY <1>3, <2>5, <3>2
      <4> HIDE DEF x
      <4> QED BY <4>1
    <3>6. InLine(k, l)'
      BY <1>2, <1>5, <2>1, <3>2, <3>4, <3>5 DEF InLine
    <3> QED BY <3>6 DEF InHeader
  <2> QED BY <1>6, <2>4, <2>5
<1> QED BY <1>8, <1>9

LEMMA ValueStartStep ==
  ASSUME Given, ValueStart, NEW k \in WrittenPart, InHeader(k)
  PROVE  InHeader(k)'
<1>1. PICK l \in 1 .. 4 : InLine(k, l)
  BY DEF InHeader
<1> DEFINE p == parts[k]
           x == LineStart(k, l)
           val == ValOf(p, l)
           n == Len(val)
<1>2. parts \in PartLists /\ parts' = parts /\ u' = u
  BY DEF Given, ValueStart, input
<1>3. c = Whole[i] /\ state = "value start"
  BY Looked DEF ValueStart
<1>4. l < 4 /\ i \in {x + 2, x + 3} /\ u = WithKey(Seen(p, l, Left(k)), l)
  BY <1>1, <1>3 DEF InLine
<1>5. l \in 1 .. 3 /\ HasLine(p, l) /\ p \in Part
  BY <1>1, <1>2, <1>4, InLineIs
<1>6. LineThere(x, KeyOf(l), val, n) /\ x \in Nat \ {0} /\ n \in Nat
  BY <1>2, <1>5, LineIs
<1>7. \A j \in 1 .. n : val[j] # CR /\ (j = 1 => val[j] # " ")
  BY <1>5, LineOfType
<1>8. LineStart(k, l)' = LineStart(k, l) /\ Left(k)' = Left(k)
  BY <1>2, FrozenPlaces
<1>9. CASE i = x + 2
  <2>1. c = " "
    BY <1>3, <1>6, <1>9 DEF LineThere
  <2>2. state' = "value start" /\ i' = i + 1
    BY <2>1 DEF ValueStart, Advance
  <2>3. i' = x + 3
    <3>1. x \in Nat /\ i' = (x + 2) + 1
      BY <1>6, <1>9, <2>2
    <3> HIDE DEF x
    <3> QED BY <3>1
  <2>4. InLine(k, l)'
    BY <1>2, <1>4, <1>5, <1>8, <2>2, <2>3 DEF InLine
  <2> QED BY <2>4 DEF InHeader
<1>10. CASE i = x + 3
  <2>1. c # " "
    <3> HIDE DEF x, val, n
    <3>1. CASE n = 0
      <4>1. x + 3 + n = x + 3
        BY <1>6, <3>1
      <4> QED BY <1>3, <1>6, <1>10, <4>1, Distinct DEF LineThere
    <3>2. CASE n # 0
      <4>1. 1 \in 1 .. n /\ x + 2 + 1 = x + 3
        BY <1>6, <3>2
      <4>2. Whole[x + 3] = val[1]
        BY <1>6, <4>1 DEF LineThere
      <4>3. val[1] # " "
        BY <1>7, <4>1
      <4> QED BY <1>3, <1>10, <4>2, <4>3
    <3> QED BY <3>1, <3>2
  <2>2. state' = "value" /\ i' = i /\ mark' = i
    BY <2>1 DEF ValueStart, Again
  <2>3. i' = x + 3 /\ mark' = x + 3 /\ x + 3 \in x + 3 .. x + 3 + n
    <3> HIDE DEF x, n
    <3> QED BY <1>6, <1>10, <2>2
  <2>4. InLine(k, l)'
    BY <1>2, <1>4, <1>5, <1>8, <2>2, <2>3 DEF InLine
  <2> QED BY <2>4 DEF InHeader
<1> QED BY <1>4, <1>9, <1>10

LEMMA ValueStep ==
  ASSUME Given, Value, NEW k \in WrittenPart, InHeader(k)
  PROVE  InHeader(k)'
<1>1. PICK l \in 1 .. 4 : InLine(k, l)
  BY DEF InHeader
<1> DEFINE p == parts[k]
           x == LineStart(k, l)
           val == ValOf(p, l)
           n == Len(val)
<1>2. parts \in PartLists /\ parts' = parts /\ mark' = mark
  BY DEF Given, Value, input
<1>3. c = Whole[i] /\ state = "value" /\ i \in 1 .. Len(body) /\ Len(body) \in Nat
  BY Looked DEF Value
<1>4. l < 4 /\ mark = x + 3 /\ i \in x + 3 .. x + 3 + n /\ u = WithKey(Seen(p, l, Left(k)), l)
  BY <1>1, <1>3 DEF InLine
<1>5. l \in 1 .. 3 /\ HasLine(p, l) /\ p \in Part
  BY <1>1, <1>2, <1>4, InLineIs
<1>6. LineThere(x, KeyOf(l), val, n) /\ x \in Nat \ {0} /\ n \in Nat /\ val \in Symbols
  BY <1>2, <1>5, LineIs
<1>7. \A j \in 1 .. n : val[j] # CR
  BY <1>5, LineOfType
<1>8. LineStart(k, l)' = LineStart(k, l) /\ Left(k)' = Left(k)
  BY <1>2, FrozenPlaces
<1>9. CASE i # x + 3 + n
  <2>1. c # CR /\ i + 1 \in x + 3 .. x + 3 + n
    <3> DEFINE j == i - x - 2
    <3> HIDE DEF x, val, n
    <3>1. j \in 1 .. n /\ x + 2 + j = i
      BY <1>3, <1>4, <1>6, <1>9
    <3>2. i + 1 \in x + 3 .. x + 3 + n
      BY <1>3, <1>4, <1>6, <1>9
    <3> HIDE DEF j
    <3>3. Whole[i] = val[j]
      BY <1>6, <3>1 DEF LineThere
    <3> QED BY <1>3, <1>7, <3>1, <3>2, <3>3
  <2>2. state' = "value" /\ i' = i + 1 /\ u' = u
    BY <2>1 DEF Value, Advance
  <2>3. i' \in x + 3 .. x + 3 + n /\ mark' = x + 3
    BY <1>2, <1>4, <2>1, <2>2
  <2>4. InLine(k, l)'
    BY <1>2, <1>4, <1>5, <1>8, <2>2, <2>3 DEF InLine
  <2> QED BY <2>4 DEF InHeader
<1>10. CASE i = x + 3 + n
  <2>1. c = CR
    BY <1>3, <1>6, <1>10 DEF LineThere
  <2>2. state' = "value almost done" /\ i' = i + 1 /\ u' = [u EXCEPT !.value = @ \o Text]
    BY <2>1 DEF Value, Advance
  <2>3. Text = val
    <3> HIDE DEF x, val
    <3>1. i <= Len(body) /\ mark \in Nat \ {0} /\ mark <= i /\ Len(val) = i - mark
      BY <1>3, <1>4, <1>6, <1>10
    <3>2. ASSUME NEW j \in 1 .. Len(val) PROVE Whole[mark - 1 + j] = val[j]
      <4>1. mark - 1 + j = x + 2 + j /\ j \in 1 .. n
        BY <1>4, <1>6
      <4> QED BY <1>6, <4>1 DEF LineThere
    <3>3. Reads(mark, val)
      BY <3>2 DEF Reads
    <3> QED BY <1>6, <3>1, <3>3, TextIs
  <2>4. u' = Fed(p, l, Seen(p, l, Left(k)))
    BY <1>4, <1>5, <2>2, <2>3 DEF Fed
  <2>5. i' = x + 4 + n
    <3>1. x \in Nat /\ n \in Nat /\ i' = (x + 3 + n) + 1
      BY <1>6, <1>10, <2>2
    <3> HIDE DEF x, n
    <3> QED BY <3>1
  <2>6. InLine(k, l)'
    BY <1>2, <1>4, <1>5, <1>8, <2>2, <2>4, <2>5 DEF InLine
  <2> QED BY <2>6 DEF InHeader
<1> QED BY <1>9, <1>10

LEMMA ValueEndStep ==
  ASSUME Given, ValueEnd, NEW k \in WrittenPart, InHeader(k)
  PROVE  InHeader(k)'
<1>1. PICK l \in 1 .. 4 : InLine(k, l)
  BY DEF InHeader
<1> DEFINE p == parts[k]
           x == LineStart(k, l)
           val == ValOf(p, l)
           n == Len(val)
<1>2. parts \in PartLists /\ parts' = parts /\ u' = u
  BY DEF Given, ValueEnd, Expect, input
<1>3. c = Whole[i] /\ state = "value almost done"
  BY Looked DEF ValueEnd, Expect
<1>4. l < 4 /\ i = x + 4 + n /\ u = Fed(p, l, Seen(p, l, Left(k)))
  BY <1>1, <1>3 DEF InLine
<1>5. l \in 1 .. 3 /\ HasLine(p, l) /\ p \in Part
  BY <1>1, <1>2, <1>4, InLineIs
<1>6. /\ LineThere(x, KeyOf(l), val, n) /\ x \in Nat \ {0} /\ n \in Nat
      /\ LineStart(k, l + 1) = x + 5 + n
  <2>1. LineThere(x, KeyOf(l), val, n) /\ x \in Nat \ {0} /\ n \in Nat
    BY <1>2, <1>5, LineIs
  <2>2. LineStart(k, l + 1) = x + 5 + n
    BY <1>2, <1>5, LineIs
  <2> QED BY <2>1, <2>2
<1>7. c = LF
  BY <1>3, <1>4, <1>6 DEF LineThere
<1>8. state' = "field start" /\ i' = i + 1
  BY <1>7 DEF ValueEnd, Expect, Advance
<1>9. i' = LineStart(k, l + 1)
  <2>1. x \in Nat /\ n \in Nat /\ i' = (x + 4 + n) + 1
    BY <1>4, <1>6, <1>8
  <2>2. i' = x + 5 + n
    <3> HIDE DEF x, n
    <3> QED BY <2>1
  <2> QED BY <1>6, <2>2, Zenon
<1>10. u' = Seen(p, l + 1, Left(k))
  BY <1>2, <1>4, <1>5, SeenNext
<1>11. l + 1 \in 1 .. 4
  BY <1>5, Lines, Zenon
<1> QED BY <1>2, <1>8, <1>9, <1>10, <1>11, AtLine, Zenon

\* The states of the empty line.
LEMMA EmptyLineState ==
  ASSUME Given, NEW k \in WrittenPart, InHeader(k),
         state = "headers almost done" \/ state = "data start"
  PROVE  /\ u = Seen(parts[k], 4, Left(k))
         /\ state = "headers almost done" => i = LineStart(k, 4) + 1
         /\ state = "data start" => i = LineStart(k, 4) + 2
<1>1. PICK l \in 1 .. 4 : InLine(k, l)
  BY DEF InHeader
<1>2. l = 4 /\ u = Seen(parts[k], 4, Left(k))
      /\ (state = "headers almost done" => i = LineStart(k, l) + 1)
      /\ (state = "data start" => i = LineStart(k, l) + 2)
  BY <1>1 DEF InLine
<1> QED BY <1>2, Zenon

LEMMA HeadersEndStep ==
  ASSUME Given, HeadersEnd, NEW k \in WrittenPart, InHeader(k)
  PROVE  InHeader(k)'
<1> DEFINE x == LineStart(k, 4)
<1>1. parts \in PartLists /\ parts' = parts /\ u' = u
  BY DEF Given, HeadersEnd, Expect, input
<1>2. c = Whole[i] /\ state = "headers almost done"
  BY Looked DEF HeadersEnd, Expect
<1>3. u = Seen(parts[k], 4, Left(k)) /\ i = x + 1
  BY <1>2, EmptyLineState
<1>4. Whole[x + 1] = LF /\ x \in Nat \ {0}
  BY <1>1, EmptyLineIs
<1>5. state' = "data start" /\ i' = i + 1
  BY <1>2, <1>3, <1>4 DEF HeadersEnd, Expect, Advance
<1>6. i' = x + 2
  <2>1. x \in Nat /\ i' = (x + 1) + 1
    BY <1>3, <1>4, <1>5
  <2> HIDE DEF x
  <2> QED BY <2>1
<1>7. LineStart(k, 4)' = LineStart(k, 4) /\ Left(k)' = Left(k)
  BY <1>1, FrozenPlaces
<1>8. InLine(k, 4)'
  BY <1>1, <1>3, <1>5, <1>6, <1>7, Lines, Zenon DEF InLine
<1> QED BY <1>8, Lines, Zenon DEF InHeader

LEMMA DataStartStep ==
  ASSUME Given, DataStart, ~Throw, NEW k \in WrittenPart, InHeader(k)
  PROVE  InData(k)'
<1> DEFINE p == parts[k]
<1>1. parts \in PartLists /\ parts' = parts /\ u' = HandleHeader(u) /\ mark' = i
      /\ state' = "data" /\ i' = i /\ state = "data start"
  BY DEF Given, DataStart, Again, At, input
<1>2. u = Seen(p, 4, Left(k)) /\ i = LineStart(k, 4) + 2
  BY <1>1, EmptyLineState
<1>3. /\ p \in Part /\ DataAt(k) = LineStart(k, 4) + 2 /\ DataAt(k) \in Nat \ {0}
      /\ p.data \in Symbols
  BY <1>1, PartAt
<1>4. u' = Gathered(Leaves(p), <<>>, NameOf(p, Left(k)), FileOf(p, Left(k)))
  <2>1. Left(k) \in {<<>>, <<"other">>}
    BY DEF Left
  <2> QED BY <1>1, <1>2, <1>3, <2>1, HeadersHandled
<1>5. u'.data = <<>>
  BY <1>4 DEF Gathered
<1>6. u' = Gathering(Leaves(p), u'.data, NameOf(p, Left(k)), FileOf(p, Left(k)))
  BY <1>4, <1>5, Zenon DEF Gathered, Gathering
<1>7. <<>> \in Symbols /\ Begins(<<>>, p.data) /\ Len(<<>>) = 0 /\ Len(p.data) \in Nat
  BY <1>3 DEF Symbols, Begins
<1>8. DataAt(k)' = DataAt(k) /\ Left(k)' = Left(k)
  BY <1>1, FrozenPlaces
<1>9. mark' = DataAt(k) + Len(u'.data) /\ i' \in mark' .. DataAt(k) + Len(p.data)
  <2>1. i' = DataAt(k) /\ mark' = DataAt(k)
    BY <1>1, <1>2, <1>3
  <2> QED BY <1>3, <1>5, <1>7, <2>1
<1>10. u'.data \in Symbols /\ Begins(u'.data, p.data)
  BY <1>5, <1>7
<1> QED BY <1>1, <1>6, <1>8, <1>9, <1>10 DEF InData

-----------------------------------------------------------------------------
(***************************************************************************)
(* Inside the data of a part.                                              *)
(***************************************************************************)
LEMMA DelimiterFollows ==
  ASSUME parts \in PartLists, NEW k \in WrittenPart
  PROVE  Reads(DataAt(k) + Len(parts[k].data), Delimiter)
<1>1. k \in 1 .. N /\ N \in Nat /\ Off(k + 1) + 1 = DataAt(k) + Len(parts[k].data)
  BY PartAt, Layout
<1>2. k \in 0 .. N /\ k # 0
  BY <1>1
<1>3. PICK m \in k + 1 .. N + 1 : NextUp(k, m)
  BY <1>2, NextExists
<1>4. Off(m) = Off(k + 1) /\ Reads(Off(m) + 1, Delimiter)
  BY <1>2, <1>3, NextIs
<1> QED BY <1>1, <1>4

\* The place in the data, and what is around it.
LEMMA DataState ==
  ASSUME Given, NEW k \in WrittenPart, InData(k), NEW D, NEW data, NEW L, NEW o,
         D = DataAt(k), data = parts[k].data, L = Len(data), o = Len(u.data)
  PROVE  /\ D \in Nat \ {0} /\ data \in Symbols /\ L \in Nat
         /\ u.data \in Symbols /\ Begins(u.data, data) /\ o \in 0 .. L
         /\ mark = D + o /\ mark \in Nat \ {0}
         /\ Reads(D, data) /\ Reads(D + L, Delimiter)
         /\ i \in Nat /\ parts \in PartLists
         /\ u = Gathering(Leaves(parts[k]), u.data, NameOf(parts[k], Left(k)), FileOf(parts[k], Left(k)))
<1>1. parts \in PartLists /\ i \in Nat
  BY DEF Given
<1>2. D \in Nat \ {0} /\ data \in Symbols /\ Reads(D, data)
  BY <1>1, PartAt
<1>3. Reads(D + L, Delimiter)
  BY <1>1, DelimiterFollows
<1>4. u.data \in Symbols /\ Begins(u.data, data) /\ mark = D + o
      /\ u = Gathering(Leaves(parts[k]), u.data, NameOf(parts[k], Left(k)), FileOf(parts[k], Left(k)))
  BY DEF InData
<1>5. L \in Nat /\ o \in Nat
  BY <1>2, <1>4 DEF Symbols
<1>6. o \in 0 .. L
  BY <1>4, <1>5 DEF Begins
<1>7. mark \in Nat \ {0}
  BY <1>2, <1>4, <1>5
<1> QED BY <1>1, <1>2, <1>3, <1>4, <1>5, <1>6, <1>7

\* The data goes on with what is read after it.
LEMMA DataGrows ==
  ASSUME NEW d \in Symbols, NEW data \in Symbols, Begins(d, data), NEW t \in Symbols,
         NEW D \in Nat \ {0}, Reads(D, data), Reads(D + Len(d), t),
         Len(d) + Len(t) <= Len(data)
  PROVE  d \o t \in Symbols /\ Begins(d \o t, data) /\ Len(d \o t) = Len(d) + Len(t)
<1>1. /\ d \o t \in Symbols /\ Len(d \o t) = Len(d) + Len(t)
      /\ Len(d) \in Nat /\ Len(t) \in Nat
      /\ \A j \in 1 .. Len(d) : (d \o t)[j] = d[j]
      /\ \A j \in 1 .. Len(t) : (d \o t)[Len(d) + j] = t[j]
  BY Concat
<1>2. Len(data) \in Nat
  BY DEF Symbols
<1>3. ASSUME NEW j \in 1 .. Len(d) + Len(t) PROVE (d \o t)[j] = data[j]
  <2>1. CASE j \in 1 .. Len(d)
    BY <1>1, <2>1 DEF Begins
  <2>2. CASE j \notin 1 .. Len(d)
    <3> DEFINE e == j - Len(d)
    <3>1. e \in 1 .. Len(t) /\ Len(d) + e = j /\ j \in 1 .. Len(data)
          /\ (D + Len(d)) - 1 + e = D - 1 + j
      BY <1>1, <1>2, <2>2
    <3> HIDE DEF e
    <3>2. (d \o t)[j] = t[e]
      BY <1>1, <3>1
    <3>3. Whole[D - 1 + j] = t[e] /\ Whole[D - 1 + j] = data[j]
      BY <3>1 DEF Reads
    <3> QED BY <3>2, <3>3
  <2> QED BY <2>1, <2>2
<1> QED BY <1>1, <1>3 DEF Begins

\* What looks like the delimiter and starts in the data ends in the data, because
\* there is no CR in the boundary.
LEMMA NoOverlap ==
  ASSUME NEW D \in Nat \ {0}, NEW L \in Nat, NEW o \in 0 .. L, o # L,
         Reads(D + L, Delimiter), NEW x \in 0 .. Len(Boundary),
         \A j \in 1 .. 2 + x : Whole[D + o - 1 + j] = Delimiter[j]
  PROVE  o + 2 + x <= L
<1> SUFFICES ASSUME o + 2 + x > L PROVE FALSE
  <2>1. x \in Nat
    BY Texts
  <2> QED BY <2>1
<1>1. Len(Boundary) \in Nat /\ x \in Nat /\ Len(Delimiter) = Len(Boundary) + 2
  BY Texts
<1> DEFINE j == L - o + 1
<1>2. j \in 2 .. 2 + x /\ D + o - 1 + j = D + L /\ j \in 1 .. 2 + x /\ j \in Nat
  BY <1>1
<1>3. Whole[D + L] = Delimiter[1]
  <2>1. 1 \in 1 .. Len(Delimiter) /\ (D + L) - 1 + 1 = D + L
    BY <1>1
  <2> QED BY <2>1 DEF Reads
<1> HIDE DEF j
<1>4. Delimiter[j] = CR
  BY <1>2, <1>3, Texts
<1>5. CASE j = 2
  BY <1>4, <1>5, Texts, Distinct
<1>6. CASE j # 2
  <2>1. j - 2 \in 1 .. Len(Boundary) /\ (j - 2) + 2 = j
    BY <1>1, <1>2, <1>6
  <2>2. Boundary[j - 2] # CR /\ Delimiter[(j - 2) + 2] = Boundary[j - 2]
    BY <2>1, Texts
  <2> QED BY <1>4, <2>1, <2>2
<1> QED BY <1>5, <1>6

DataPlace(k, m, at, x) ==
  \/ state' = "data" /\ at \in m .. DataAt(k) + Len(parts[k].data)
  \/ state' = "almost boundary" /\ at = m + 1 /\ Whole[m] = CR
  \/ /\ state' = "boundary" /\ x \in 0 .. Len(Boundary) - 1 /\ at = m + 2 + x
     /\ \A j \in 1 .. 2 + x : Whole[m - 1 + j] = Delimiter[j]

LEMMA StillInData ==
  ASSUME parts' = parts, NEW k \in WrittenPart, NEW d \in Symbols, Begins(d, parts[k].data),
         u' = Gathering(Leaves(parts[k]), d, NameOf(parts[k], Left(k)), FileOf(parts[k], Left(k))),
         mark' = DataAt(k) + Len(d), DataPlace(k, mark', i', index')
  PROVE  InData(k)'
<1>1. u'.data = d
  BY DEF Gathering
<1>2. Whole' = Whole /\ DataAt(k)' = DataAt(k) /\ Left(k)' = Left(k)
  BY Frozen, FrozenPlaces
<1>3. /\ u'.data \in Symbols /\ Begins(u'.data, parts'[k].data)
      /\ u' = Gathering(Leaves(parts'[k]), u'.data, NameOf(parts'[k], Left(k)'), FileOf(parts'[k], Left(k)'))
      /\ mark' = DataAt(k)' + Len(u'.data)
  BY <1>1, <1>2, Zenon
<1>4. \/ state' = "data" /\ i' \in mark' .. DataAt(k)' + Len(parts'[k].data)
      \/ state' = "almost boundary" /\ i' = mark' + 1 /\ Whole'[mark'] = CR
      \/ /\ state' = "boundary" /\ index' \in 0 .. Len(Boundary) - 1
         /\ i' = mark' + 2 + index'
         /\ \A j \in 1 .. 2 + index' : Whole'[mark' - 1 + j] = Delimiter[j]
  BY <1>2, Zenon DEF DataPlace
<1> QED BY <1>3, <1>4, Zenon DEF InData

DataSet(v, h, n, g, w) == [v EXCEPT !.data = w] = Gathering(h, w, n, g)

LEMMA GatheringData ==
  ASSUME NEW v, NEW h, NEW d, NEW n, NEW g, NEW w, v = Gathering(h, d, n, g)
  PROVE  DataSet(v, h, n, g, w)
BY DEF Gathering, DataSet

IsCut(s, e, m, t) ==
  t \in Symbols /\ Len(t) = m /\ \A j \in 1 .. m : t[j] = s[e + j]

LEMMA CutIs ==
  ASSUME NEW s \in Symbols, NEW e \in Nat, NEW m \in Nat, e + m <= Len(s)
  PROVE  IsCut(s, e, m, SubSeq(s, e + 1, e + m))
BY DEF Symbols, IsCut

LEMMA DataStep ==
  ASSUME Given, Data, NEW k \in WrittenPart, InData(k)
  PROVE  InData(k)'
<1> DEFINE p == parts[k]
           D == DataAt(k)
           data == p.data
           L == Len(data)
           o == Len(u.data)
           h == Leaves(p)
           a == NameOf(p, Left(k))
           f == FileOf(p, Left(k))
<1>1. /\ D \in Nat \ {0} /\ data \in Symbols /\ L \in Nat
      /\ u.data \in Symbols /\ Begins(u.data, data) /\ o \in 0 .. L
      /\ mark = D + o /\ mark \in Nat \ {0}
      /\ Reads(D, data) /\ Reads(D + L, Delimiter)
      /\ u = Gathering(h, u.data, a, f)
  BY DataState
<1>2. parts' = parts
  BY DEF Data, input
<1>3. c = Whole[i] /\ state = "data" /\ i \in 1 .. Len(body) /\ Len(body) \in Nat
  BY Looked DEF Data
<1>4. i \in mark .. D + L
  BY <1>3 DEF InData
<1>5. Whole[D + L] = CR
  <2> HIDE DEF D, L
  <2>1. 1 \in 1 .. Len(Delimiter) /\ Delimiter[1] = CR /\ (D + L) - 1 + 1 = D + L
    <3>1. 1 \in 1 .. Len(Delimiter) /\ Delimiter[1] = CR
      BY Texts
    <3>2. D \in Nat /\ L \in Nat
      BY <1>1
    <3>3. (D + L) - 1 + 1 = D + L
      BY <3>2
    <3> QED BY <3>1, <3>3
  <2> QED BY <1>1, <2>1 DEF Reads
<1>6. CASE c # CR
  <2>1. state' = "data" /\ i' = i + 1 /\ u' = u /\ mark' = mark
    BY <1>6 DEF Data, Advance
  <2>2. i + 1 \in mark .. D + L
    <3>1. i # D + L
      BY <1>3, <1>5, <1>6
    <3> HIDE DEF D, L
    <3> QED BY <1>1, <1>3, <1>4, <3>1
  <2>3. DataPlace(k, mark', i', index')
    BY <2>1, <2>2 DEF DataPlace
  <2> QED BY <1>1, <1>2, <2>1, <2>3, StillInData
<1>7. CASE c = CR
  <2>1. state' = "almost boundary" /\ i' = i + 1 /\ mark' = i
        /\ u' = [u EXCEPT !.data = @ \o Text]
    BY <1>7 DEF Data, Advance
  <2> DEFINE n == i - mark
             t == SubSeq(data, o + 1, o + n)
  <2>2. n \in Nat /\ o + n <= L /\ i = D + (o + n)
    <3> HIDE DEF D, L, o
    <3> QED BY <1>1, <1>3, <1>4
  <2>3. t \in Symbols /\ Len(t) = n /\ \A j \in 1 .. n : t[j] = data[o + j]
    <3> HIDE DEF o, n
    <3>1. data \in Symbols /\ o \in Nat /\ n \in Nat /\ o + n <= Len(data)
      BY <1>1, <2>2
    <3>2. IsCut(data, o, n, t)
      BY <3>1, CutIs, Zenon
    <3> QED BY <3>2 DEF IsCut
  <2> HIDE DEF t
  <2>4. Reads(mark, t)
    <3>1. ASSUME NEW j \in 1 .. Len(t) PROVE Whole[mark - 1 + j] = t[j]
      <4> HIDE DEF D, L, o, n, data
      <4>1. o + j \in 1 .. L /\ mark - 1 + j = D - 1 + (o + j) /\ j \in 1 .. n
        BY <1>1, <2>2, <2>3
      <4>2. Whole[D - 1 + (o + j)] = data[o + j]
        BY <1>1, <4>1 DEF Reads, L
      <4> QED BY <2>3, <4>1, <4>2
    <3> QED BY <3>1 DEF Reads
  <2>5. Text = t
    <3>1. i <= Len(body) /\ mark <= i /\ Len(t) = i - mark
      <4> HIDE DEF D, L
      <4> QED BY <1>1, <1>3, <1>4, <2>3
    <3> QED BY <1>1, <2>3, <2>4, <3>1, TextIs
  <2>6. /\ u.data \o t \in Symbols /\ Begins(u.data \o t, data)
        /\ Len(u.data \o t) = o + n
    <3> DEFINE d == u.data
    <3>1. d \in Symbols /\ Begins(d, data) /\ Reads(D + Len(d), t) /\ Len(d) + Len(t) <= Len(data)
      BY <1>1, <2>2, <2>3, <2>4
    <3>2. d \o t \in Symbols /\ Begins(d \o t, data) /\ Len(d \o t) = Len(d) + Len(t)
      <4> HIDE DEF d, D, data
      <4> QED BY <1>1, <2>3, <3>1, DataGrows
    <3> QED BY <2>3, <3>2
  <2>7. u' = Gathering(h, u.data \o t, a, f)
    <3> HIDE DEF a, f
    <3>1. u' = [u EXCEPT !.data = u.data \o t]
      BY <2>1, <2>5
    <3>2. DataSet(u, h, a, f, u.data \o t)
      BY <1>1, GatheringData, Zenon
    <3> QED BY <3>1, <3>2, Zenon DEF DataSet
  <2>8. mark' = D + Len(u.data \o t) /\ Whole[mark'] = CR /\ i' = mark' + 1
    BY <1>3, <1>7, <2>1, <2>2, <2>6, Zenon
  <2>9. DataPlace(k, mark', i', index')
    BY <2>1, <2>8, Zenon DEF DataPlace
  <2> DEFINE q == u.data \o t
  <2>10. q \in Symbols /\ Begins(q, data) /\ u' = Gathering(h, q, a, f) /\ mark' = D + Len(q)
    BY <2>6, <2>7, <2>8
  <2> HIDE DEF q
  <2> QED BY <1>2, <2>9, <2>10, StillInData
<1> QED BY <1>6, <1>7

LEMMA AlmostBoundaryStep ==
  ASSUME Given, AlmostBoundary, NEW k \in WrittenPart, InData(k)
  PROVE  InData(k)'
<1> DEFINE p == parts[k]
           D == DataAt(k)
           data == p.data
           L == Len(data)
           o == Len(u.data)
           h == Leaves(p)
           a == NameOf(p, Left(k))
           f == FileOf(p, Left(k))
<1>1. /\ D \in Nat \ {0} /\ data \in Symbols /\ L \in Nat
      /\ u.data \in Symbols /\ Begins(u.data, data) /\ o \in 0 .. L
      /\ mark = D + o /\ mark \in Nat \ {0}
      /\ Reads(D, data) /\ Reads(D + L, Delimiter)
      /\ u = Gathering(h, u.data, a, f)
  BY DataState
<1>2. parts' = parts
  BY DEF AlmostBoundary, input
<1>3. c = Whole[i] /\ state = "almost boundary" /\ i \in 1 .. Len(body) /\ Len(body) \in Nat
  BY Looked DEF AlmostBoundary
<1>4. i = mark + 1 /\ Whole[mark] = CR
  BY <1>3 DEF InData
<1>5. Len(Boundary) \in Nat \ {0} /\ Len(Delimiter) = Len(Boundary) + 2
      /\ Delimiter[1] = CR /\ Delimiter[2] = LF /\ CR \in Symbol
  BY Texts
<1>6. CASE c = LF
  <2>1. state' = "boundary" /\ i' = i + 1 /\ index' = 0 /\ u' = u /\ mark' = mark
    BY <1>6 DEF AlmostBoundary, Advance
  <2>2. i + 1 = mark + 2 + 0 /\ 0 \in 0 .. Len(Boundary) - 1
    BY <1>1, <1>4, <1>5
  <2>3. ASSUME NEW j \in 1 .. 2 + 0 PROVE Whole[mark - 1 + j] = Delimiter[j]
    <3>1. j = 1 \/ j = 2
      OBVIOUS
    <3>2. mark - 1 + 1 = mark /\ mark - 1 + 2 = mark + 1
      BY <1>1
    <3> QED BY <1>3, <1>4, <1>5, <1>6, <3>1, <3>2
  <2>4. DataPlace(k, mark', i', index')
    BY <2>1, <2>2, <2>3, Zenon DEF DataPlace
  <2> QED BY <1>1, <1>2, <2>1, <2>4, StillInData
<1>7. CASE c # LF
  <2>1. state' = "data" /\ i' = i /\ mark' = i /\ u' = [u EXCEPT !.data = Append(@, CR)]
    BY <1>7 DEF AlmostBoundary, Again
  <2> DEFINE d == u.data
             t == <<CR>>
  <2>2. o + 1 <= L
    <3>1. o # L
      <4> SUFFICES ASSUME o = L PROVE FALSE
        OBVIOUS
      <4>1. 2 \in 1 .. Len(Delimiter) /\ (D + L) - 1 + 2 = mark + 1
        BY <1>1, <1>5, SMTT(30)
      <4>2. Whole[mark + 1] = LF
        BY <1>1, <1>5, <4>1 DEF Reads
      <4> QED BY <1>3, <1>4, <1>7, <4>2
    <3> HIDE DEF o, L
    <3> QED BY <1>1, <3>1
  <2>3. t \in Symbols /\ Len(t) = 1 /\ t[1] = CR
    BY <1>5, Single, Zenon
  <2>4. Append(d, CR) = d \o t
    <3>1. \A S : \A q \in Seq(S) : \A y \in S : Append(q, y) = q \o <<y>>
      OBVIOUS
    <3>2. d \in Seq(Symbol) /\ CR \in Symbol
      BY <1>1, <1>5 DEF Symbols
    <3> QED BY <3>1, <3>2, Zenon
  <2> HIDE DEF t
  <2>5. Reads(D + Len(d), t)
    <3>1. \A j \in 1 .. Len(t) : j = 1
      BY <2>3
    <3>2. (D + Len(d)) - 1 + 1 = mark
      BY <1>1
    <3> QED BY <1>4, <2>3, <3>1, <3>2 DEF Reads
  <2>6. d \o t \in Symbols /\ Begins(d \o t, data) /\ Len(d \o t) = Len(d) + Len(t)
    <3>1. Len(d) + Len(t) <= Len(data)
      BY <2>2, <2>3
    <3> HIDE DEF d, D, data
    <3> QED BY <1>1, <2>3, <2>5, <3>1, DataGrows DEF d
  <2>7. u' = Gathering(h, d \o t, a, f)
    <3> HIDE DEF a, f
    <3>1. u' = [u EXCEPT !.data = d \o t]
      BY <2>1, <2>4
    <3>2. DataSet(u, h, a, f, d \o t)
      BY <1>1, GatheringData, Zenon
    <3> QED BY <3>1, <3>2, Zenon DEF DataSet
  <2>8. Len(d \o t) = o + 1 /\ mark + 1 = D + (o + 1) /\ mark + 1 \in mark + 1 .. D + L
    <3>1. Len(d \o t) = o + 1
      BY <2>3, <2>6
    <3> HIDE DEF o, L, D, d
    <3> QED BY <1>1, <2>2, <3>1
  <2>9. mark' = D + Len(d \o t) /\ i' \in mark' .. D + L
    BY <1>4, <2>1, <2>8, Zenon
  <2>10. DataPlace(k, mark', i', index')
    BY <2>1, <2>9, Zenon DEF DataPlace
  <2> DEFINE q == d \o t
  <2>11. q \in Symbols /\ Begins(q, data) /\ u' = Gathering(h, q, a, f) /\ mark' = D + Len(q)
    BY <2>6, <2>7, <2>9
  <2> HIDE DEF q
  <2> QED BY <1>2, <2>10, <2>11, StillInData
<1> QED BY <1>6, <1>7

\* In the delimiter, or in something that begins like it: m more symbols of the
\* delimiter come after the data that was handed over.
Matched(m) == \A j \in 1 .. m : Whole[mark - 1 + j] = Delimiter[j]

LEMMA BoundaryState ==
  ASSUME Given, InBoundary, NEW k \in WrittenPart, InData(k)
  PROVE  /\ index \in 0 .. Len(Boundary) - 1 /\ i = mark + 2 + index /\ Matched(2 + index)
         /\ c = Whole[i] /\ parts' = parts /\ mark \in Nat
         /\ c = Boundary[index + 1] => Matched(3 + index)
<1>1. c = Whole[i] /\ state = "boundary"
  BY Looked DEF InBoundary
<1>2. parts' = parts
  BY DEF InBoundary, input
<1>3. mark \in Nat
  BY DataState
<1>4. /\ index \in 0 .. Len(Boundary) - 1 /\ i = mark + 2 + index
      /\ \A j \in 1 .. 2 + index : Whole[mark - 1 + j] = Delimiter[j]
  BY <1>1 DEF InData
<1>5. Len(Boundary) \in Nat
  BY Texts
<1>6. ASSUME c = Boundary[index + 1], NEW j \in 1 .. 3 + index
      PROVE  Whole[mark - 1 + j] = Delimiter[j]
  <2>1. CASE j = 3 + index
    <3>1. index + 1 \in 1 .. Len(Boundary) /\ (index + 1) + 2 = j /\ mark - 1 + j = i
      BY <1>3, <1>4, <1>5, <2>1
    <3>2. Delimiter[(index + 1) + 2] = Boundary[index + 1]
      BY <3>1, Texts
    <3> QED BY <1>1, <1>6, <3>1, <3>2
  <2>2. CASE j # 3 + index
    <3>1. j \in 1 .. 2 + index
      BY <1>4, <1>5, <2>2
    <3> QED BY <1>4, <3>1
  <2> QED BY <2>1, <2>2
<1> QED BY <1>1, <1>2, <1>3, <1>4, <1>6 DEF Matched

LEMMA BoundaryGoesOn ==
  ASSUME Given, InBoundary, NEW k \in WrittenPart, InData(k),
         c = Boundary[index + 1], index + 1 # Len(Boundary)
  PROVE  InData(k)' /\ form' = form
<1> DEFINE p == parts[k]
           D == DataAt(k)
           data == p.data
           h == Leaves(p)
           a == NameOf(p, Left(k))
           f == FileOf(p, Left(k))
<1>1. /\ u.data \in Symbols /\ Begins(u.data, data) /\ mark = D + Len(u.data)
      /\ u = Gathering(h, u.data, a, f)
  BY DataState
<1>2. /\ index \in 0 .. Len(Boundary) - 1 /\ i = mark + 2 + index /\ parts' = parts
      /\ mark \in Nat /\ Matched(3 + index)
  BY BoundaryState
<1>3. /\ state' = "boundary" /\ i' = i + 1 /\ index' = index + 1 /\ u' = u /\ mark' = mark
      /\ form' = form
  BY DEF InBoundary, Advance
<1>4. Len(Boundary) \in Nat
  BY Texts
<1>5. index + 1 \in 0 .. Len(Boundary) - 1 /\ i + 1 = mark + 2 + (index + 1)
      /\ 2 + (index + 1) = 3 + index
  BY <1>2, <1>4
<1>6. \A j \in 1 .. 2 + (index + 1) : Whole[mark - 1 + j] = Delimiter[j]
  BY <1>2, <1>5, Zenon DEF Matched
<1>7. DataPlace(k, mark', i', index')
  BY <1>3, <1>5, <1>6, Zenon DEF DataPlace
<1> QED BY <1>1, <1>2, <1>3, <1>7, StillInData

LEMMA NearMiss ==
  ASSUME Given, InBoundary, NEW k \in WrittenPart, InData(k), c # Boundary[index + 1]
  PROVE  InData(k)' /\ form' = form
<1> DEFINE p == parts[k]
           D == DataAt(k)
           data == p.data
           L == Len(data)
           o == Len(u.data)
           h == Leaves(p)
           a == NameOf(p, Left(k))
           f == FileOf(p, Left(k))
           d == u.data
           t == <<CR, LF>> \o SubSeq(Boundary, 1, index)
<1>1. /\ D \in Nat \ {0} /\ data \in Symbols /\ L \in Nat
      /\ u.data \in Symbols /\ Begins(u.data, data) /\ o \in 0 .. L
      /\ mark = D + o /\ mark \in Nat \ {0}
      /\ Reads(D, data) /\ Reads(D + L, Delimiter)
      /\ u = Gathering(h, u.data, a, f)
  BY DataState
<1>2. /\ index \in 0 .. Len(Boundary) - 1 /\ i = mark + 2 + index /\ parts' = parts
      /\ Matched(2 + index) /\ c = Whole[i]
  BY BoundaryState
<1>3. /\ state' = "data" /\ i' = i /\ mark' = i /\ form' = form
      /\ u' = [u EXCEPT !.data = @ \o <<CR, LF>> \o SubSeq(Boundary, 1, index)]
  BY DEF InBoundary, Again
<1>4. /\ Len(Boundary) \in Nat \ {0} /\ Len(Delimiter) = Len(Boundary) + 2 /\ index \in Nat
      /\ Boundary \in Symbols /\ <<CR, LF>> \in Symbols
      /\ Delimiter[1] = CR /\ Delimiter[2] = LF
      /\ \A j \in 1 .. Len(Boundary) : Delimiter[j + 2] = Boundary[j]
  BY <1>2, Texts
<1>5. o # L
  <2> SUFFICES ASSUME o = L PROVE FALSE
    OBVIOUS
  <2>1. index + 1 \in 1 .. Len(Boundary) /\ (index + 1) + 2 \in 1 .. Len(Delimiter)
        /\ (D + L) - 1 + ((index + 1) + 2) = i
    <3>1. D \in Nat /\ L \in Nat /\ mark = D + L
      BY <1>1
    <3>2. index \in 0 .. Len(Boundary) - 1 /\ i = mark + 2 + index
      BY <1>2
    <3>3. Len(Boundary) \in Nat \ {0} /\ Len(Delimiter) = Len(Boundary) + 2
      BY <1>4
    <3> HIDE DEF D, L, o
    <3> QED BY <3>1, <3>2, <3>3
  <2>2. Whole[i] = Delimiter[(index + 1) + 2]
    BY <1>1, <2>1 DEF Reads
  <2> QED BY <1>2, <1>4, <2>1, <2>2
<1>6. o + 2 + index <= L
  <2>1. index \in 0 .. Len(Boundary)
    BY <1>2, <1>4
  <2>2. \A j \in 1 .. 2 + index : Whole[D + o - 1 + j] = Delimiter[j]
    <3>1. mark = D + o /\ \A j \in 1 .. 2 + index : Whole[mark - 1 + j] = Delimiter[j]
      BY <1>1, <1>2 DEF Matched
    <3> HIDE DEF D, o
    <3>2. ASSUME NEW j \in 1 .. 2 + index PROVE Whole[D + o - 1 + j] = Delimiter[j]
      <4>1. D + o - 1 + j = mark - 1 + j
        <5>1. D \in Nat /\ o \in Nat /\ j \in Nat
          BY <1>1, <1>4
        <5> QED BY <3>1, <5>1
      <4> QED BY <3>1, <4>1
    <3> QED BY <3>2
  <2>3. D \in Nat \ {0} /\ L \in Nat /\ o \in 0 .. L /\ Reads(D + L, Delimiter)
    BY <1>1
  <2> HIDE DEF D, L, o
  <2> QED BY <1>5, <2>1, <2>2, <2>3, NoOverlap, Zenon
<1>7. t \in Symbols /\ Len(t) = 2 + index /\ \A j \in 1 .. 2 + index : t[j] = Delimiter[j]
  <2> DEFINE r == <<CR, LF>>
             b == SubSeq(Boundary, 0 + 1, 0 + index)
  <2>1. r \in Symbols /\ Len(r) = 2 /\ r[1] = CR /\ r[2] = LF
    BY <1>4
  <2>2. index \in Nat /\ 0 + index <= Len(Boundary) /\ 0 \in Nat
    BY <1>2, <1>4
  <2>3. IsCut(Boundary, 0, index, b)
    BY <1>4, <2>2, CutIs, Zenon
  <2>4. t = r \o b
    BY <1>4
  <2> HIDE DEF r, b, t
  <2>5. b \in Symbols /\ Len(b) = index /\ \A j \in 1 .. index : b[j] = Boundary[0 + j]
    BY <2>3 DEF IsCut
  <2>6. /\ r \o b \in Symbols /\ Len(r \o b) = Len(r) + Len(b)
        /\ \A j \in 1 .. Len(r) : (r \o b)[j] = r[j]
        /\ \A j \in 1 .. Len(b) : (r \o b)[Len(r) + j] = b[j]
    BY <2>1, <2>5, Concat
  <2>7. ASSUME NEW j \in 1 .. 2 + index PROVE t[j] = Delimiter[j]
    <3>1. CASE j = 1 \/ j = 2
      BY <1>4, <2>1, <2>4, <2>6, <3>1
    <3>2. CASE j # 1 /\ j # 2
      <4>1. j - 2 \in 1 .. index /\ 2 + (j - 2) = j /\ (j - 2) + 2 = j
            /\ j - 2 \in 1 .. Len(Boundary) /\ 0 + (j - 2) = j - 2
        BY <1>2, <1>4, <3>2
      <4>2. t[2 + (j - 2)] = b[j - 2]
        BY <2>1, <2>4, <2>5, <2>6, <4>1
      <4>3. b[j - 2] = Boundary[0 + (j - 2)]
        BY <2>5, <4>1
      <4>4. Delimiter[(j - 2) + 2] = Boundary[j - 2]
        BY <1>4, <4>1
      <4> QED BY <4>1, <4>2, <4>3, <4>4
    <3> QED BY <3>1, <3>2
  <2>8. Len(t) = 2 + index /\ t \in Symbols
    BY <2>1, <2>4, <2>5, <2>6
  <2> QED BY <2>7, <2>8
<1>8. u' = [u EXCEPT !.data = d \o t]
  <2>1. SubSeq(Boundary, 1, index) \in Symbols
    <3>1. 0 + 1 = 1 /\ 0 + index = index /\ 0 + index <= Len(Boundary) /\ 0 \in Nat
      BY <1>2, <1>4
    <3>2. IsCut(Boundary, 0, index, SubSeq(Boundary, 0 + 1, 0 + index))
      BY <1>4, <3>1, CutIs, Zenon
    <3> QED BY <3>1, <3>2 DEF IsCut
  <2>2. (d \o <<CR, LF>>) \o SubSeq(Boundary, 1, index) = d \o t
    <3>1. d \in Symbols /\ <<CR, LF>> \in Symbols
      BY <1>1, <1>4
    <3> QED BY <2>1, <3>1, CatAssoc, Zenon DEF Cat, t
  <2> QED BY <1>3, <2>2
<1> HIDE DEF t
<1>9. Reads(D + Len(d), t)
  BY <1>1, <1>2, <1>7 DEF Reads, Matched
<1>10. d \o t \in Symbols /\ Begins(d \o t, data) /\ Len(d \o t) = Len(d) + Len(t)
  <2>1. Len(d) + Len(t) <= Len(data)
    <3> HIDE DEF o, L
    <3>1. o + (2 + index) <= L
      BY <1>1, <1>4, <1>6
    <3> QED BY <1>7, <3>1 DEF o, L
  <2>2. d \in Symbols /\ Begins(d, data) /\ data \in Symbols /\ D \in Nat \ {0}
    BY <1>1
  <2> HIDE DEF d, D, data
  <2> QED BY <1>1, <1>7, <1>9, <2>1, <2>2, DataGrows
<1>11. u' = Gathering(h, d \o t, a, f)
  <2> HIDE DEF a, f
  <2>1. DataSet(u, h, a, f, d \o t)
    BY <1>1, GatheringData, Zenon
  <2> QED BY <1>8, <2>1, Zenon DEF DataSet
<1>12. i = D + Len(d \o t) /\ i \in i .. D + L
  <2>1. Len(d \o t) = o + (2 + index)
    BY <1>7, <1>10
  <2>2. o \in Nat /\ L \in Nat /\ D \in Nat /\ mark = D + o /\ index \in Nat
        /\ i = mark + 2 + index
    BY <1>1, <1>2, <1>4
  <2> DEFINE n == Len(d \o t)
  <2> HIDE DEF o, L, D, d, n
  <2>3. n = o + (2 + index)
    BY <2>1 DEF n
  <2>4. i = D + n /\ i \in i .. D + L
    BY <1>6, <2>2, <2>3
  <2> QED BY <2>4 DEF n
<1>13. mark' = D + Len(d \o t) /\ i' \in mark' .. D + L
  BY <1>3, <1>12, Zenon
<1>14. DataPlace(k, mark', i', index')
  BY <1>3, <1>13, Zenon DEF DataPlace
<1> DEFINE q == d \o t
<1>15. q \in Symbols /\ Begins(q, data) /\ u' = Gathering(h, q, a, f) /\ mark' = D + Len(q)
  BY <1>10, <1>11, <1>13
<1> HIDE DEF q
<1>16. InData(k)'
  BY <1>2, <1>14, <1>15, StillInData
<1> QED BY <1>3, <1>16

\* The whole delimiter comes only after the whole data.
LEMMA AllData ==
  ASSUME Given, Separable, InBoundary, NEW k \in WrittenPart, InData(k),
         c = Boundary[index + 1], index + 1 = Len(Boundary)
  PROVE  u.data = parts[k].data
<1> DEFINE D == DataAt(k)
           data == parts[k].data
           L == Len(data)
           o == Len(u.data)
<1>1. /\ D \in Nat \ {0} /\ data \in Symbols /\ L \in Nat
      /\ u.data \in Symbols /\ Begins(u.data, data) /\ o \in 0 .. L
      /\ mark = D + o /\ Reads(D, data) /\ Reads(D + L, Delimiter)
  BY DataState
<1>2. index \in 0 .. Len(Boundary) - 1 /\ Matched(3 + index)
  BY BoundaryState
<1>3. Len(Boundary) \in Nat /\ Len(Delimiter) = Len(Boundary) + 2
  BY Texts
<1>4. 3 + index = 2 + Len(Boundary) /\ Len(Boundary) \in 0 .. Len(Boundary)
  BY <1>2, <1>3
<1>5. o = L
  <2> SUFFICES ASSUME o # L PROVE FALSE
    OBVIOUS
  <2>1. \A j \in 1 .. 2 + Len(Boundary) : Whole[D + o - 1 + j] = Delimiter[j]
    <3>1. mark = D + o /\ \A j \in 1 .. 2 + Len(Boundary) : Whole[mark - 1 + j] = Delimiter[j]
      BY <1>1, <1>2, <1>4 DEF Matched
    <3>2. D \in Nat /\ o \in Nat
      BY <1>1
    <3> HIDE DEF D, o
    <3>3. \A j \in 1 .. 2 + Len(Boundary) : D + o - 1 + j = mark - 1 + j
      BY <1>3, <3>1, <3>2
    <3> QED BY <3>1, <3>3
  <2>2. o + 2 + Len(Boundary) <= L
    <3>1. D \in Nat \ {0} /\ L \in Nat /\ o \in 0 .. L /\ Reads(D + L, Delimiter)
      BY <1>1
    <3> HIDE DEF D, L, o
    <3> QED BY <1>4, <2>1, <3>1, NoOverlap, Zenon
  <2>3. o \in 0 .. L - Len(Delimiter)
    <3> HIDE DEF L, o
    <3> QED BY <1>1, <1>3, <2>2
  <2>4. ASSUME NEW j \in 1 .. Len(Delimiter) PROVE data[o + j] = Delimiter[j]
    <3>1. D \in Nat \ {0} /\ L \in Nat /\ o \in Nat /\ j \in Nat
      BY <1>1, <1>3
    <3>2. o + j \in 1 .. L /\ j \in 1 .. 2 + Len(Boundary)
      <4> HIDE DEF L, o
      <4> QED BY <1>3, <2>2, <3>1
    <3>3. D - 1 + (o + j) = D + o - 1 + j
      <4> HIDE DEF D, o
      <4> QED BY <3>1
    <3>4. Whole[D - 1 + (o + j)] = data[o + j]
      BY <1>1, <3>2 DEF Reads
    <3> QED BY <2>1, <3>2, <3>3, <3>4
  <2>5. Holds(data, Delimiter)
    BY <2>3, <2>4 DEF Holds
  <2>6. k \in DOMAIN parts
    <3>1. k \in 1 .. N /\ parts \in Seq(Part) /\ N = Len(parts)
      BY Layout DEF Given, WrittenPart, N
    <3> QED BY <3>1
  <2> QED BY <2>5, <2>6 DEF Separable
<1> HIDE DEF D, data
<1>6. \A s, r \in Symbols : Len(s) = Len(r) /\ Begins(s, r) => s = r
  BY DEF Symbols, Begins
<1>7. u.data = data
  BY <1>1, <1>5, <1>6
<1> QED BY <1>7 DEF data

\* The form gets what is left of part k.
HandsOver(k) ==
  form' = IF NameOf(parts[k], Left(k)) = <<>> THEN form
          ELSE Put(form, NameOf(parts[k], Left(k)),
                   [filename |-> FileOf(parts[k], Left(k)), data |-> parts[k].data])

LEMMA BoundaryFound ==
  ASSUME Given, Separable, InBoundary, NEW k \in WrittenPart, InData(k),
         c = Boundary[index + 1], index + 1 = Len(Boundary)
  PROVE  AfterPart(k)' /\ parts' = parts /\ HandsOver(k)
<1> DEFINE p == parts[k]
           D == DataAt(k)
           data == p.data
           L == Len(data)
           h == Leaves(p)
           a == NameOf(p, Left(k))
           f == FileOf(p, Left(k))
<1>1. u.data = data
  BY AllData
<1>2. /\ D \in Nat \ {0} /\ L \in Nat /\ mark = D + Len(u.data) /\ parts \in PartLists
      /\ u = Gathering(h, u.data, a, f)
  BY DataState
<1>3. index \in 0 .. Len(Boundary) - 1 /\ i = mark + 2 + index /\ parts' = parts
  BY BoundaryState
<1>4. HandleData /\ state' = "almost end" /\ i' = i + 1
  BY DEF InBoundary, Advance
<1>5. u = Gathering(h, data, a, f)
  BY <1>1, <1>2
<1>6. u.name = a /\ u.filename = f /\ u.data = data
  BY <1>5 DEF Gathering
<1>7. u' = Fresh(h)
  <2>1. u' = [u EXCEPT !.name = <<>>, !.filename = <<>>, !.data = <<>>]
    BY <1>4 DEF HandleData
  <2> HIDE DEF data, h, a, f
  <2>2. u' = Gathering(h, <<>>, <<>>, <<>>)
    BY <1>5, <2>1 DEF Gathering
  <2> QED BY <2>2 DEF Gathering, Fresh
<1>8. form' = IF a = <<>> THEN form ELSE Put(form, a, [filename |-> f, data |-> data])
  BY <1>4, <1>6 DEF HandleData
<1>9. k \in 1 .. N /\ N \in Nat /\ Off(k + 1) + 1 = D + L
  BY <1>2, PartAt, Layout
<1>10. k \in 0 .. N /\ k # 0
  BY <1>9
<1>11. PICK m \in k + 1 .. N + 1 : NextUp(k, m)
  BY <1>2, <1>10, NextExists
<1>12. Off(m) = Off(k + 1) /\ Off(m) \in Nat
  BY <1>2, <1>10, <1>11, NextIs
<1>13. i' = (Off(m) + Len(Delimiter)) + 1
  <2>1. Len(Boundary) \in Nat /\ Len(Delimiter) = Len(Boundary) + 2
    BY Texts
  <2>2. /\ D \in Nat /\ L \in Nat /\ mark = D + L /\ i' = i + 1 /\ i = mark + 2 + index
        /\ index \in 0 .. Len(Boundary) - 1 /\ Off(m) + 1 = D + L /\ Off(m) \in Nat
    BY <1>1, <1>2, <1>3, <1>4, <1>9, <1>12
  <2> HIDE DEF D, L
  <2>3. i' = mark + 2 + index + 1 /\ mark = Off(m) + 1 /\ index + 1 = Len(Delimiter) - 2
    BY <2>1, <2>2
  <2> QED BY <2>1, <2>2, <2>3
<1>14. NextUp(k, m)' /\ Off(m)' = Off(m) /\ N' = N
  BY <1>3, <1>11, FrozenNext, FrozenPlaces, Frozen
<1>15. AfterPart(k)'
  <2>1. Leaves(parts'[k]) = h
    BY <1>3
  <2>2. u' = Fresh(Leaves(parts'[k]))
    BY <1>7, <2>1
  <2> QED BY <1>4, <2>2, <1>11, <1>13, <1>14, Zenon DEF AfterPart, Fresh, Leaves
<1> QED BY <1>3, <1>8, <1>15 DEF HandsOver

\* An entry of the form with this name is that of a part.
Sent(name, entry) ==
  \E k \in DOMAIN parts :
    LET d == Disposition[parts[k].value]
    IN  /\ entry.data = parts[k].data
        /\ Holds(DispositionText(d), name) /\ Holds(DispositionText(d), entry.filename)
        /\ Plain(d) => name = d.name /\ entry.filename = d.filename

LEMMA SentIs == NothingMixed <=> (Separable => \A m \in DOMAIN form : Sent(m, form[m]))
BY DEF NothingMixed, Sent

LEMMA PartAdded ==
  ASSUME Given, NothingMixed, Separable, NEW k \in WrittenPart, Handled(k - 1), parts' = parts,
         HandsOver(k)
  PROVE  NothingMixed' /\ Handled(k)'
<1> DEFINE p == parts[k]
           d == Disposition[p.value]
           name == NameOf(p, Left(k))
           file == FileOf(p, Left(k))
           e == [filename |-> file, data |-> p.data]
<1>1. N \in Nat /\ k \in DOMAIN parts /\ p.value \in Values
  <2>1. k \in 1 .. N /\ parts \in Seq(Part) /\ N = Len(parts) /\ N \in Nat
    BY Layout DEF Given, WrittenPart, N
  <2>2. p \in Part
    BY <2>1
  <2> QED BY <2>1, <2>2 DEF Part
<1>2. form' = IF name = <<>> THEN form ELSE Put(form, name, e)
  BY DEF HandsOver
<1>3. /\ Holds(DispositionText(d), NameRead(p.value))
      /\ Holds(DispositionText(d), FileRead(p.value))
      /\ Plain(d) => NameRead(p.value) = d.name /\ FileRead(p.value) = d.filename
  BY <1>1, ReadIs
<1>4. /\ Lost(k) => name = <<>>
      /\ ~Lost(k) => name = NameRead(p.value) /\ file = FileRead(p.value)
  BY LostIs DEF NameOf, FileOf
<1> HIDE DEF name, file
<1>5. Handled(k)'
  <2> SUFFICES ASSUME Agreeable PROVE form' = FormOf(k)
    BY Frozen, FrozenForm DEF Handled
  <2>1. Plain(d)
    BY <1>1 DEF Agreeable
  <2>2. ~Lost(k) => name = d.name /\ file = d.filename
    BY <1>3, <1>4, <2>1
  <2>3. form = FormOf(k - 1)
    BY DEF Handled
  <2>4. Name(k) = d.name
    BY DEF Name
  <2>5. CASE ~Lost(k) /\ d.name # <<>>
    <3>1. form' = Put(FormOf(k - 1), d.name, [filename |-> d.filename, data |-> p.data])
      BY <1>2, <2>2, <2>3, <2>5, Zenon
    <3>2. FormOf(k) = Put(FormOf(k - 1), Name(k), EntryAt(k))
      BY <1>1, <2>4, <2>5, FormGrows
    <3> QED BY <2>4, <3>1, <3>2 DEF EntryAt
  <2>6. CASE Lost(k) \/ d.name = <<>>
    <3>1. name = <<>>
      BY <1>4, <2>2, <2>6
    <3>2. FormOf(k) = FormOf(k - 1)
      BY <1>1, <2>4, <2>6, FormSame
    <3> QED BY <1>2, <2>3, <3>1, <3>2
  <2> QED BY <2>5, <2>6
<1>6. NothingMixed'
  <2>1. \A m \in DOMAIN form : Sent(m, form[m])
    BY SentIs
  <2>2. CASE name = <<>>
    BY <1>2, <2>2, StaysUnmixed
  <2>3. CASE name # <<>>
    <3>1. name = NameRead(p.value) /\ file = FileRead(p.value)
      BY <1>4, <2>3
    <3>2. form' = Put(form, name, e)
      BY <1>2, <2>3
    <3>3. e.data = p.data /\ e.filename = file
      OBVIOUS
    <3> HIDE DEF e
    <3>4. Sent(name, e)
      BY <1>1, <1>3, <3>1, <3>3, Zenon DEF Sent
    <3> HIDE DEF d
    <3>5. DOMAIN form' = DOMAIN form \cup {name} /\ form'[name] = e
          /\ \A m \in DOMAIN form : m # name => form'[m] = form[m]
      BY <3>2 DEF Put
    <3>6. \A m \in DOMAIN form' : Sent(m, form'[m])
      BY <2>1, <3>4, <3>5
    <3>7. (\A m \in DOMAIN form : Sent(m, form[m]))'
      BY <3>6 DEF Sent
    <3> QED BY <3>7 DEF NothingMixed, Sent
  <2> QED BY <2>2, <2>3
<1> QED BY <1>5, <1>6

-----------------------------------------------------------------------------
(***************************************************************************)
(* Between the parts, and at both ends.                                    *)
(***************************************************************************)
HeaderStates ==
  {"field start", "field", "value start", "value", "value almost done", "headers almost done",
   "data start"}
DataStates == {"data", "almost boundary", "boundary"}
AfterStates == {"almost end", "final hyphen", "end"}

LEMMA Where ==
  ASSUME Located
  PROVE  /\ state = "start" => AtStart
         /\ state \in HeaderStates => \E k \in WrittenPart : InHeader(k) /\ Handled(k - 1)
         /\ state \in DataStates => \E k \in WrittenPart : InData(k) /\ Handled(k - 1)
         /\ state = "data end" => \E k \in WrittenPart : AtNext(k) /\ Handled(k - 1)
         /\ state \in AfterStates => \E k \in WrittenPart : AfterPart(k) /\ Handled(k)
<1>1. AtStart => state = "start"
  BY DEF AtStart
<1>2. (Halted => state = "stopped") /\ (Threw => state = "threw")
  BY DEF Halted, Threw
<1>3. \A k \in WrittenPart : InHeader(k) => state \in HeaderStates
  <2>1. \A k \in WrittenPart : \A l \in 1 .. 4 : InLine(k, l) => state \in HeaderStates
    BY DEF InLine, HeaderStates
  <2> QED BY <2>1 DEF InHeader
<1>4. \A k \in WrittenPart : InData(k) => state \in DataStates
  BY DEF InData, DataStates
<1>5. \A k \in WrittenPart : AtNext(k) => state = "data end"
  BY DEF AtNext
<1>6. \A k \in WrittenPart : AfterPart(k) => state \in AfterStates
  BY DEF AfterPart, AfterStates
<1>7. /\ "start" \notin HeaderStates \cup DataStates \cup AfterStates
      /\ "stopped" \notin HeaderStates \cup DataStates \cup AfterStates
      /\ "threw" \notin HeaderStates \cup DataStates \cup AfterStates
      /\ "start" # "threw" /\ "data end" # "threw"
      /\ "data end" \notin HeaderStates \cup DataStates \cup AfterStates
      /\ "start" # "stopped" /\ "data end" # "stopped" /\ "start" # "data end"
      /\ HeaderStates \cap DataStates = {} /\ HeaderStates \cap AfterStates = {}
      /\ DataStates \cap AfterStates = {}
  BY DEF HeaderStates, DataStates, AfterStates
<1> QED BY <1>1, <1>2, <1>3, <1>4, <1>5, <1>6, <1>7 DEF Located, Before

LEMMA StartStep ==
  ASSUME Given, AtStart, Start
  PROVE  Located' /\ form' = form
<1>1. parts \in PartLists /\ parts' = parts /\ form' = form /\ u' = u
  BY DEF Given, Start, input
<1>2. c = Whole[i] /\ i = index + 1 /\ index \in 0 .. Len(Boundary) + 1
      /\ (FirstWritten \/ index = 0) /\ u = Fresh(<<>>) /\ form = EmptyForm
  BY Looked DEF Start, AtStart
<1>3. Len(Boundary) \in Nat \ {0} /\ index \in Nat
  BY <1>2, Texts
<1>4. FirstWritten' <=> FirstWritten
  BY <1>1, Frozen
<1>5. EmptyForm' = EmptyForm
  BY DEF EmptyForm
<1>6. CASE FirstWritten
  <2>1. /\ 1 \in WrittenPart /\ LineStart(1, 1) = Len(Boundary) + 3
        /\ \A j \in 1 .. Len(Boundary) : Whole[j] = Boundary[j]
        /\ Whole[Len(Boundary) + 1] = CR /\ Whole[Len(Boundary) + 2] = LF
    BY <1>1, <1>6, FirstIs
  <2>2. CASE index # Len(Boundary) + 1
    <3>1. state' = "start" /\ i' = i + 1 /\ index' = index + 1
      <4>1. CASE index = Len(Boundary)
        <5>1. c = CR
          BY <1>2, <2>1, <4>1
        <5> QED BY <4>1, <5>1 DEF Start, Advance
      <4>2. CASE index # Len(Boundary)
        <5>1. index + 1 \in 1 .. Len(Boundary)
          BY <1>2, <1>3, <2>2, <4>2
        <5>2. c = Boundary[index + 1]
          BY <1>2, <2>1, <5>1
        <5> QED BY <2>2, <4>2, <5>2 DEF Start, Advance
      <4> QED BY <4>1, <4>2
    <3>2. index + 1 \in 0 .. Len(Boundary) + 1 /\ i + 1 = (index + 1) + 1
      BY <1>2, <1>3, <2>2
    <3>3. AtStart'
      BY <1>1, <1>2, <1>4, <1>5, <1>6, <3>1, <3>2, Zenon DEF AtStart, Fresh
    <3> QED BY <1>1, <3>3 DEF Located
  <2>3. CASE index = Len(Boundary) + 1
    <3>1. c = LF /\ index # Len(Boundary)
      <4>1. i = Len(Boundary) + 2 /\ index # Len(Boundary)
        BY <1>2, <1>3, <2>3
      <4> QED BY <1>2, <2>1, <4>1
    <3>2. state' = "field start" /\ i' = i + 1
      BY <2>3, <3>1 DEF Start, Advance
    <3>3. i' = LineStart(1, 1)
      <4>1. i + 1 = Len(Boundary) + 3
        BY <1>2, <1>3, <2>3
      <4> QED BY <2>1, <3>2, <4>1, Zenon
    <3>4. u' = Seen(parts[1], 1, Left(1))
      BY <1>1, <1>2, NothingLeft DEF Seen
    <3>5. InHeader(1)'
      BY <1>1, <2>1, <3>2, <3>3, <3>4, Lines, AtLine, Zenon
    <3>6. Handled(1 - 1)
      <4>1. 1 - 1 = 0
        OBVIOUS
      <4> QED BY <1>2, <4>1, FormEmpty, Zenon DEF Handled
    <3>7. Before(1)'
      BY <3>5 DEF Before
    <3> QED BY <1>1, <2>1, <3>6, <3>7, StaysBefore, Zenon
  <2> QED BY <2>2, <2>3
<1>7. CASE ~FirstWritten
  <2>1. index = 0 /\ i = 1 /\ 0 # Len(Boundary) /\ 0 # Len(Boundary) + 1
    BY <1>2, <1>3, <1>7
  <2>2. Whole[1] = CR
    <3>1. N \in Nat /\ Off(1) = 0
      BY <1>1, Layout
    <3>2. 0 \in 0 .. N /\ 0 + 1 = 1
      BY <3>1
    <3>3. PICK m \in 0 + 1 .. N + 1 : NextUp(0, m)
      BY <1>1, <3>2, NextExists
    <3>4. Off(m) = Off(0 + 1) /\ Reads(Off(m) + 1, Delimiter)
      BY <1>1, <1>7, <3>2, <3>3, NextIs
    <3>5. Reads(1, Delimiter)
      BY <3>1, <3>2, <3>4
    <3>6. 1 \in 1 .. Len(Delimiter) /\ Delimiter[1] = CR /\ 1 - 1 + 1 = 1
      BY <1>3, Texts
    <3> QED BY <3>5, <3>6 DEF Reads
  <2>3. c # Boundary[index + 1]
    <3>1. 1 \in 1 .. Len(Boundary) /\ index + 1 = 1
      BY <1>3, <2>1
    <3>2. Boundary[1] # CR
      BY <3>1, Texts
    <3> QED BY <1>2, <2>1, <2>2, <3>1, <3>2
  <2>4. state' = "stopped"
    BY <2>1, <2>3 DEF Start, Stop
  <2>5. Halted'
    BY <1>1, <1>2, <1>4, <1>5, <1>7, <2>4, Zenon DEF Halted
  <2> QED BY <1>1, <2>5 DEF Located
<1> QED BY <1>6, <1>7

LEMMA DataEndStep ==
  ASSUME Given, DataEnd, NEW k \in WrittenPart, AtNext(k)
  PROVE  InHeader(k)'
<1>1. parts \in PartLists /\ parts' = parts /\ u' = u
  BY DEF Given, DataEnd, Expect, input
<1>2. c = Whole[i]
  BY Looked DEF DataEnd, Expect
<1>3. k > 1 /\ i = LineStart(k, 1) - 1 /\ u = Fresh(Left(k))
  BY DEF AtNext
<1> DEFINE x == Off(k) + Len(Delimiter)
<1>4. k # 1
  BY <1>3
<1>5. x \in Nat /\ Whole[x + 2] = LF /\ LineStart(k, 1) = x + 3
  BY <1>1, <1>4, OpeningIs
<1> HIDE DEF x
<1>6. i = x + 2 /\ i + 1 = x + 3
  BY <1>3, <1>5
<1>7. c = LF
  BY <1>2, <1>5, <1>6
<1>8. state' = "field start" /\ i' = i + 1
  BY <1>7 DEF DataEnd, Expect, Advance
<1>9. i' = LineStart(k, 1) /\ u' = Seen(parts[k], 1, Left(k))
  <2>1. i' = LineStart(k, 1)
    BY <1>5, <1>6, <1>8, Zenon
  <2>2. u' = Seen(parts[k], 1, Left(k))
    BY <1>1, <1>3 DEF Seen
  <2> QED BY <2>1, <2>2
<1> QED BY <1>1, <1>8, <1>9, Lines, AtLine, Zenon

\* The place after a part, and what is there.
LEMMA AfterState ==
  ASSUME Given, NEW k \in WrittenPart, AfterPart(k)
  PROVE  \E m \in k + 1 .. N + 1 :
           LET x == Off(m) + Len(Delimiter)
           IN  /\ NextUp(k, m) /\ x \in Nat /\ u = Fresh(Leaves(parts[k]))
               /\ \/ state = "almost end" /\ i = x + 1
                  \/ m = N + 1 /\ state = "final hyphen" /\ i = x + 2
                  \/ m = N + 1 /\ state = "end" /\ i >= x + 3
               /\ m = N + 1 => Whole[x + 1] = "-" /\ Whole[x + 2] = "-"
               /\ m # N + 1 => /\ m \in WrittenPart /\ m > 1
                               /\ Whole[x + 1] = CR /\ LineStart(m, 1) = x + 3
<1>1. PICK m \in k + 1 .. N + 1 :
        /\ NextUp(k, m)
        /\ \/ state = "almost end" /\ i = (Off(m) + Len(Delimiter)) + 1
           \/ m = N + 1 /\ state = "final hyphen" /\ i = (Off(m) + Len(Delimiter)) + 2
           \/ m = N + 1 /\ state = "end" /\ i >= (Off(m) + Len(Delimiter)) + 3
  BY DEF AfterPart
<1> DEFINE x == Off(m) + Len(Delimiter)
<1>2. parts \in PartLists /\ u = Fresh(Leaves(parts[k]))
  BY DEF Given, AfterPart
<1>3. N \in Nat /\ k \in 1 .. N
  BY <1>2, Layout DEF WrittenPart
<1>4. k \in 0 .. N /\ k # 0
  BY <1>3
<1>5. /\ x \in Nat
      /\ m = N + 1 => Whole[x + 1] = "-" /\ Whole[x + 2] = "-"
      /\ m <= N => m \in WrittenPart /\ Whole[x + 1] = CR /\ LineStart(m, 1) = x + 3
  <2>1. NextUp(k, m) /\ x = Off(m) + Len(Delimiter)
    BY <1>1
  <2>2. k \in 0 .. N /\ (k = 0 => ~FirstWritten)
    BY <1>4
  <2> HIDE DEF x
  <2>3. /\ x \in Nat /\ (m = N + 1 => Whole[x + 1] = "-" /\ Whole[x + 2] = "-")
        /\ m <= N => /\ m \in WrittenPart /\ m # 1
                     /\ Whole[x + 1] = CR /\ Whole[x + 2] = LF /\ LineStart(m, 1) = x + 3
    BY <1>2, <2>1, <2>2, NextIs
  <2> QED BY <2>3, Zenon
<1>6. (m # N + 1 => m <= N) /\ m > 1
  BY <1>3
<1> QED BY <1>1, <1>2, <1>5, <1>6, Zenon

LEMMA AlmostEndStep ==
  ASSUME Given, AlmostEnd, NEW k \in WrittenPart, AfterPart(k), Handled(k)
  PROVE  Located' /\ form' = form
<1>1. parts' = parts /\ form' = form /\ u' = u /\ parts \in PartLists
  BY DEF AlmostEnd, input, Given
<1>2. c = Whole[i] /\ state = "almost end"
  BY Looked DEF AlmostEnd
<1>3. PICK m \in k + 1 .. N + 1 :
        LET x == Off(m) + Len(Delimiter)
        IN  /\ NextUp(k, m) /\ x \in Nat /\ u = Fresh(Leaves(parts[k])) /\ i = x + 1
            /\ m = N + 1 => Whole[x + 1] = "-"
            /\ m # N + 1 => /\ m \in WrittenPart /\ m > 1
                            /\ Whole[x + 1] = CR /\ LineStart(m, 1) = x + 3
  BY <1>2, AfterState
<1> DEFINE x == Off(m) + Len(Delimiter)
<1>4. NextUp(k, m)' /\ Off(m)' = Off(m) /\ N' = N
  BY <1>1, <1>3, FrozenNext, FrozenPlaces, Frozen
<1>5. CASE m = N + 1
  <2>1. c = "-"
    BY <1>2, <1>3, <1>5
  <2>2. state' = "final hyphen" /\ i' = i + 1
    BY <2>1, Distinct DEF AlmostEnd, Advance
  <2>3. i' = x + 2
    <3>1. x \in Nat /\ i' = (x + 1) + 1
      BY <1>3, <2>2
    <3> HIDE DEF x
    <3> QED BY <3>1
  <2>4. AfterPart(k)'
    BY <1>1, <1>3, <1>4, <1>5, <2>2, <2>3, Zenon DEF AfterPart, Fresh
  <2> QED BY <1>1, <2>4, StaysAfter
<1>6. CASE m # N + 1
  <2>1. c = CR
    BY <1>2, <1>3, <1>6
  <2>2. state' = "data end" /\ i' = i + 1
    BY <2>1, Distinct DEF AlmostEnd, Advance
  <2>3. i' = LineStart(m, 1) - 1
    <3>1. x \in Nat /\ i' = (x + 1) + 1 /\ LineStart(m, 1) = x + 3
      BY <1>3, <1>6, <2>2
    <3> HIDE DEF x
    <3> QED BY <3>1
  <2>4. LineStart(m, 1)' = LineStart(m, 1)
    BY <1>1, FrozenPlaces
  <2>5. AtNext(m)'
    <3>1. Left(m)' = Leaves(parts[k])
      <4>1. N \in Nat
        BY <1>1, Layout
      <4>2. Left(m) = Leaves(parts[k])
        BY <1>3, <4>1, LeftOver
      <4> QED BY <1>1, <4>2, FrozenPlaces
    <3>2. u' = Fresh(Leaves(parts[k]))
      BY <1>1, <1>3
    <3> QED BY <1>1, <1>3, <1>6, <2>2, <2>3, <2>4, <3>1, <3>2, Zenon DEF AtNext
  <2>6. Handled(m - 1)
    <3>1. N \in Nat /\ k \in 0 .. N
      <4>1. N \in Nat /\ k \in 1 .. N
        BY <1>1, Layout DEF WrittenPart
      <4> QED BY <4>1
    <3>2. FormOf(m - 1) = FormOf(k)
      BY <1>3, <3>1, FormStays
    <3> QED BY <3>2 DEF Handled
  <2>7. Before(m)' /\ m \in WrittenPart
    BY <1>3, <1>6, <2>5 DEF Before
  <2> QED BY <1>1, <2>6, <2>7, StaysBefore
<1> QED BY <1>5, <1>6

LEMMA LastHyphenStep ==
  ASSUME Given, LastHyphen, NEW k \in WrittenPart, AfterPart(k)
  PROVE  AfterPart(k)'
<1>1. parts' = parts /\ u' = u /\ parts \in PartLists
  BY DEF LastHyphen, Expect, input, Given
<1>2. c = Whole[i] /\ state = "final hyphen"
  BY Looked DEF LastHyphen, Expect
<1>3. PICK m \in k + 1 .. N + 1 :
        LET x == Off(m) + Len(Delimiter)
        IN  /\ NextUp(k, m) /\ x \in Nat /\ u = Fresh(Leaves(parts[k])) /\ i = x + 2 /\ m = N + 1
            /\ Whole[x + 2] = "-"
  BY <1>2, AfterState
<1> DEFINE x == Off(m) + Len(Delimiter)
<1>4. NextUp(k, m)' /\ Off(m)' = Off(m) /\ N' = N
  BY <1>1, <1>3, FrozenNext, FrozenPlaces, Frozen
<1>5. state' = "end" /\ i' = i + 1
  BY <1>2, <1>3 DEF LastHyphen, Expect, Advance
<1>6. i' >= x + 3
  <2>1. x \in Nat /\ i' = (x + 2) + 1
    BY <1>3, <1>5
  <2> HIDE DEF x
  <2> QED BY <2>1
<1> QED BY <1>1, <1>3, <1>4, <1>5, <1>6, Zenon DEF AfterPart, Fresh

LEMMA EndStep ==
  ASSUME Given, End, NEW k \in WrittenPart, AfterPart(k)
  PROVE  AfterPart(k)'
<1>1. parts' = parts /\ u' = u /\ i \in Nat
  BY DEF End, input, Given
<1>2. state = "end" /\ state' = "end" /\ i' = i + 1
  BY DEF End, At, Advance
<1>3. PICK m \in k + 1 .. N + 1 :
        LET x == Off(m) + Len(Delimiter)
        IN  NextUp(k, m) /\ x \in Nat /\ u = Fresh(Leaves(parts[k])) /\ i >= x + 3 /\ m = N + 1
  BY <1>2, AfterState
<1> DEFINE x == Off(m) + Len(Delimiter)
<1>4. NextUp(k, m)' /\ Off(m)' = Off(m) /\ N' = N
  BY <1>1, <1>3, FrozenNext, FrozenPlaces, Frozen
<1>5. i' >= x + 3
  <2>1. x \in Nat /\ i' = i + 1 /\ i >= x + 3
    BY <1>2, <1>3
  <2> HIDE DEF x
  <2> QED BY <1>1, <2>1
<1> QED BY <1>1, <1>2, <1>3, <1>4, <1>5, Zenon DEF AfterPart, Fresh

-----------------------------------------------------------------------------
(***************************************************************************)
(* All of it.                                                              *)
(***************************************************************************)
LEMMA NextNamed ==
  Next <=> \/ Start \/ FieldStart \/ Field \/ ValueStart \/ Value \/ DataStart \/ Data
           \/ AlmostBoundary \/ InBoundary \/ AlmostEnd \/ End
           \/ HeadersEnd \/ ValueEnd \/ DataEnd \/ LastHyphen
BY DEF Next, HeadersEnd, ValueEnd, DataEnd, LastHyphen

\* No step touches the body, and none goes back.
LEMMA Moves ==
  ASSUME Given, Next
  PROVE  parts' = parts /\ Given'
<1>1. parts' = parts /\ body' = body
  BY DEF Next, input, Start, FieldStart, Field, ValueStart, Value, DataStart, Data,
         AlmostBoundary, InBoundary, AlmostEnd, End, Expect
<1>2. i' = i \/ i' = i + 1
  <2>1. (Start \/ FieldStart \/ Field \/ ValueStart \/ Value) => i' = i \/ i' = i + 1
    BY DEF Start, FieldStart, Field, ValueStart, Value, Advance, Again, Stop, Throw
  <2>2. (DataStart \/ Data \/ AlmostBoundary \/ InBoundary) => i' = i \/ i' = i + 1
    BY DEF DataStart, Data, AlmostBoundary, InBoundary, Advance, Again, Stop, Throw
  <2>3. (AlmostEnd \/ End) => i' = i \/ i' = i + 1
    BY DEF AlmostEnd, End, Advance, Stop
  <2>4. (HeadersEnd \/ ValueEnd \/ DataEnd \/ LastHyphen) => i' = i \/ i' = i + 1
    BY DEF HeadersEnd, ValueEnd, DataEnd, LastHyphen, Expect, Advance, Stop
  <2> QED BY <2>1, <2>2, <2>3, <2>4, NextNamed
<1>3. i \in Nat \ {0}
  BY DEF Given
<1>4. i' \in Nat \ {0}
  BY <1>2, <1>3
<1> QED BY <1>1, <1>4, StaysGiven

LEMMA BoundaryStep ==
  ASSUME Given, Separable, NothingMixed, InBoundary, NEW k \in WrittenPart, InData(k),
         Handled(k - 1)
  PROVE  NothingMixed' /\ Located'
<1>1. parts' = parts
  BY BoundaryState
<1>2. ASSUME InData(k)' /\ form' = form PROVE NothingMixed' /\ Located'
  BY <1>1, <1>2, StaysUnmixed, StaysBefore DEF Before
<1>3. CASE c # Boundary[index + 1]
  BY <1>2, <1>3, NearMiss
<1>4. CASE c = Boundary[index + 1] /\ index + 1 # Len(Boundary)
  BY <1>2, <1>4, BoundaryGoesOn
<1>5. CASE c = Boundary[index + 1] /\ index + 1 = Len(Boundary)
  <2>1. AfterPart(k)' /\ HandsOver(k)
    BY <1>5, BoundaryFound
  <2>2. NothingMixed' /\ Handled(k)'
    BY <1>1, <2>1, PartAdded
  <2>3. k \in WrittenPart'
    BY <1>1, Frozen
  <2> QED BY <2>1, <2>2, <2>3 DEF Located
<1> QED BY <1>3, <1>4, <1>5

LEMMA LocatedStep ==
  ASSUME Given, Separable, NothingMixed, Located, Next
  PROVE  NothingMixed' /\ Located'
<1>1. parts' = parts
  BY Moves
<1>2. ASSUME form' = form, Located' PROVE NothingMixed' /\ Located'
  BY <1>1, <1>2, StaysUnmixed
<1>3. ASSUME NEW k \in WrittenPart, Handled(k - 1), form' = form, InHeader(k)' \/ InData(k)'
      PROVE  NothingMixed' /\ Located'
  BY <1>1, <1>2, <1>3, StaysBefore DEF Before
<1>4. ASSUME NEW k \in WrittenPart, Handled(k), form' = form, AfterPart(k)'
      PROVE  NothingMixed' /\ Located'
  BY <1>1, <1>2, <1>4, StaysAfter
<1>5. CASE Start
  <2>1. AtStart
    BY <1>5, Where DEF Start, At
  <2> QED BY <1>2, <1>5, <2>1, StartStep
<1>6. ASSUME state \in HeaderStates
      PROVE  \E k \in WrittenPart : InHeader(k) /\ Handled(k - 1)
  BY <1>6, Where
<1>7. CASE FieldStart \/ Field \/ ValueStart \/ Value \/ ValueEnd \/ HeadersEnd \/ DataStart
  <2>1. state \in HeaderStates
    BY <1>7 DEF FieldStart, Field, ValueStart, Value, ValueEnd, HeadersEnd, DataStart, Expect,
                At, HeaderStates
  <2>2. PICK k \in WrittenPart : InHeader(k) /\ Handled(k - 1)
    BY <1>6, <2>1
  <2>3. CASE Throw /\ (Field \/ DataStart)
    <3>1. state = "field" \/ state = "data start"
      BY <2>3 DEF Field, DataStart, At
    <3>2. Threw'
      BY <1>1, <2>2, <2>3, <3>1, ThrowStep
    <3>3. form' = EmptyForm
      BY <2>3 DEF Throw
    <3>4. NothingMixed'
      BY <3>3 DEF NothingMixed, EmptyForm
    <3> QED BY <3>2, <3>4 DEF Located
  <2>4. CASE ~(Throw /\ (Field \/ DataStart))
    <3>1. form' = form
      BY <1>7, <2>4 DEF FieldStart, Field, ValueStart, Value, ValueEnd, HeadersEnd, DataStart,
                        Expect
    <3>2. InHeader(k)' \/ InData(k)'
      BY <1>7, <2>2, <2>4, FieldStartStep, FieldStep, ValueStartStep, ValueStep, ValueEndStep,
         HeadersEndStep, DataStartStep
    <3> QED BY <1>3, <2>2, <3>1, <3>2
  <2> QED BY <2>3, <2>4
<1>8. CASE Data \/ AlmostBoundary
  <2>1. state \in DataStates
    BY <1>8 DEF Data, AlmostBoundary, At, DataStates
  <2>2. PICK k \in WrittenPart : InData(k) /\ Handled(k - 1)
    BY <2>1, Where
  <2>3. form' = form
    BY <1>8 DEF Data, AlmostBoundary
  <2>4. InData(k)'
    BY <1>8, <2>2, DataStep, AlmostBoundaryStep
  <2> QED BY <1>3, <2>2, <2>3, <2>4
<1>9. CASE InBoundary
  <2>1. state \in DataStates
    BY <1>9 DEF InBoundary, At, DataStates
  <2>2. PICK k \in WrittenPart : InData(k) /\ Handled(k - 1)
    BY <2>1, Where
  <2> QED BY <1>9, <2>2, BoundaryStep
<1>10. CASE DataEnd
  <2>1. PICK k \in WrittenPart : AtNext(k) /\ Handled(k - 1)
    BY <1>10, Where DEF DataEnd, Expect, At
  <2>2. form' = form
    BY <1>10 DEF DataEnd, Expect
  <2>3. InHeader(k)'
    BY <1>10, <2>1, DataEndStep
  <2> QED BY <1>3, <2>1, <2>2, <2>3
<1>11. CASE AlmostEnd \/ LastHyphen \/ End
  <2>1. state \in AfterStates
    BY <1>11 DEF AlmostEnd, LastHyphen, End, Expect, At, AfterStates
  <2>2. PICK k \in WrittenPart : AfterPart(k) /\ Handled(k)
    BY <2>1, Where
  <2>3. CASE AlmostEnd
    BY <1>2, <2>2, <2>3, AlmostEndStep
  <2>4. CASE LastHyphen \/ End
    <3>1. form' = form
      BY <2>4 DEF LastHyphen, End, Expect
    <3>2. AfterPart(k)'
      BY <2>2, <2>4, LastHyphenStep, EndStep
    <3> QED BY <1>4, <2>2, <3>1, <3>2
  <2> QED BY <1>11, <2>3, <2>4
<1> QED BY <1>5, <1>7, <1>8, <1>9, <1>10, <1>11, NextNamed

LEMMA Stuttering ==
  ASSUME IInv, UNCHANGED vars
  PROVE  IInv'
<1>1. /\ parts' = parts /\ body' = body /\ state' = state /\ i' = i /\ mark' = mark
      /\ index' = index /\ u' = u /\ form' = form
  BY DEF vars, input
<1>2. Given'
  BY <1>1, StaysGiven DEF IInv, Given
<1>3. Separable' <=> Separable
  BY <1>1, Frozen
<1>4. ASSUME Separable PROVE NothingMixed'
  BY <1>1, <1>4, StaysUnmixed DEF IInv
<1>5. ASSUME Located PROVE Located'
  <2>1. ASSUME AtStart PROVE AtStart'
    BY <1>1, <2>1, Frozen DEF AtStart, Fresh, EmptyForm
  <2>2. ASSUME Halted PROVE Halted'
    BY <1>1, <2>2, Frozen DEF Halted, EmptyForm
  <2>3. ASSUME NEW k \in WrittenPart, Before(k) PROVE Before(k)'
    <3>1. Left(k)' = Left(k)
      BY <1>1, FrozenPlaces
    <3> QED BY <1>1, <2>3, <3>1
            DEF Before, InHeader, InLine, InData, AtNext, LineStart, DataAt, Off, Whole
  <2>4. ASSUME NEW k \in WrittenPart, AfterPart(k) PROVE AfterPart(k)'
    BY <1>1, <2>4 DEF AfterPart, NextUp, Off, N
  <2>5. ASSUME Threw PROVE Threw'
    BY <1>1, <2>5, Frozen DEF Threw, EmptyForm
  <2> QED BY <1>1, <1>5, <2>1, <2>2, <2>3, <2>4, <2>5, StaysBefore, StaysAfter DEF Located
<1> QED BY <1>2, <1>3, <1>4, <1>5 DEF IInv

LEMMA NextStep ==
  ASSUME IInv, [Next]_vars
  PROVE  IInv'
<1>1. CASE Next
  <2>1. Given' /\ (Separable' <=> Separable)
    BY <1>1, Moves, Frozen DEF IInv
  <2>2. ASSUME Separable PROVE NothingMixed' /\ Located'
    BY <1>1, <2>2, LocatedStep DEF IInv
  <2> QED BY <2>1, <2>2 DEF IInv
<1>2. CASE UNCHANGED vars
  BY <1>2, Stuttering
<1> QED BY <1>1, <1>2

LEMMA InitStep ==
  ASSUME Init
  PROVE  IInv
<1>1. /\ parts \in PartLists /\ state = "start" /\ i = 1 /\ index = 0 /\ u = Fresh(<<>>)
      /\ form = EmptyForm
  BY DEF Init, Fresh, EmptyForm
<1>2. PICK cut \in Cuts : body = SubSeq(Whole, 1, Len(Whole) - cut)
  BY DEF Init, Whole
<1>3. cut \in Nat /\ Whole \in Symbols /\ Len(Whole) \in Nat /\ Len(Boundary) \in Nat
  <2>1. cut \in Nat
    BY ConstantsAssumption, Zenon
  <2>2. Whole \in Symbols
    BY <1>1, Layout, Zenon
  <2> QED BY <2>1, <2>2, Texts DEF Symbols
<1>4. /\ body \in Symbols /\ Len(body) <= Len(Whole)
      /\ \A j \in 1 .. Len(body) : body[j] = Whole[j]
  <2> DEFINE e == Len(Whole) - cut
  <2>1. e \in Int /\ e <= Len(Whole)
    BY <1>3
  <2>2. CASE e < 1
    <3>1. body = <<>>
      BY <1>2, <1>3, <2>1, <2>2 DEF Symbols
    <3> QED BY <1>3, <3>1 DEF Symbols
  <2>3. CASE e >= 1
    <3>1. e \in 1 .. Len(Whole)
      BY <2>1, <2>3, <1>3
    <3> HIDE DEF e
    <3>2. body = SubSeq(Whole, 1, e)
      BY <1>2 DEF e
    <3> QED BY <1>3, <3>1, <3>2 DEF Symbols
  <2> QED BY <2>1, <2>2, <2>3
<1>5. Given
  BY <1>1, <1>4 DEF Given
<1>6. NothingMixed
  BY <1>1 DEF NothingMixed, EmptyForm
<1>7. AtStart
  <2>1. 0 \in 0 .. Len(Boundary) + 1 /\ 1 = 0 + 1
    BY <1>3
  <2> QED BY <1>1, <2>1, Zenon DEF AtStart
<1> QED BY <1>5, <1>6, <1>7 DEF IInv, Located

\* The parser is always at the place of the body that its state says.
THEOREM Invariance == Spec => []IInv
<1>1. Init => IInv
  BY InitStep
<1>2. IInv /\ [Next]_vars => IInv'
  BY NextStep
<1> QED BY <1>1, <1>2, PTL DEF Spec

\* NothingMixed, for any delimiter, parts and cut: what MultiPartForm stores under
\* a name is all the data of one part, name and file name are in the text of its
\* own Content-Disposition, and they are as they were sent if that is plain.
THEOREM AlwaysNothingMixed == Spec => []NothingMixed
<1>1. IInv => NothingMixed
  <2>1. ~Separable => NothingMixed
    BY DEF NothingMixed
  <2> QED BY <2>1 DEF IInv
<1> QED BY <1>1, Invariance, PTL

-----------------------------------------------------------------------------
(***************************************************************************)
(* The parser is not at the end of the whole body before it has seen the   *)
(* closing delimiter.                                                      *)
(***************************************************************************)
LEMMA Places ==
  ASSUME parts \in PartLists, NEW k \in WrittenPart
  PROVE  /\ \A l \in 1 .. 4 : LineStart(k, l) \in Nat \ {0} /\ LineStart(k, l) <= DataAt(k)
         /\ DataAt(k) \in Nat \ {0} /\ Len(parts[k].data) \in Nat
         /\ DataAt(k) + Len(parts[k].data) + Len(Delimiter) + 3 <= Len(Whole)
<1> DEFINE S(l) == LineStart(k, l)
           L == Len(parts[k].data)
<1>1. /\ k \in 1 .. N /\ \A l \in 1 .. 4 : S(l) \in Nat \ {0}
      /\ DataAt(k) = S(4) + 2 /\ DataAt(k) \in Nat \ {0}
      /\ L \in Nat /\ Off(k + 1) + 1 = DataAt(k) + L
  <2>1. /\ k \in 1 .. N /\ \A l \in 1 .. 4 : S(l) \in Nat \ {0}
        /\ DataAt(k) = S(4) + 2 /\ DataAt(k) \in Nat \ {0}
        /\ parts[k].data \in Symbols /\ Off(k + 1) + 1 = DataAt(k) + L
    BY PartAt, Zenon
  <2>2. L \in Nat
    BY <2>1 DEF Symbols
  <2> QED BY <2>1, <2>2, Zenon
<1>2. \A l \in 1 .. 3 : S(l) <= S(l + 1)
  <2> SUFFICES ASSUME NEW l \in 1 .. 3 PROVE S(l) <= S(l + 1)
    OBVIOUS
  <2> DEFINE n == Len(ValOf(parts[k], l))
  <2>1. S(l) \in Nat /\ n \in Nat /\ (S(l + 1) = S(l) + 5 + n \/ S(l + 1) = S(l))
    <3>1. CASE HasLine(parts[k], l)
      BY <3>1, LineIs
    <3>2. CASE ~HasLine(parts[k], l)
      <4>1. S(l) \in Nat /\ n \in Nat
        BY <1>1, LineIs
      <4> QED BY <3>2, <4>1, LineIs
    <3> QED BY <3>1, <3>2
  <2> HIDE DEF S, n
  <2> QED BY <2>1
<1>3. /\ N \in Nat /\ \A j \in 1 .. N + 1 : Off(j) \in Nat /\ Off(j) <= Off(N + 1)
      /\ Len(Whole) = Off(N + 1) + Len(Closing)
  BY Layout
<1>4. Len(Closing) = Len(Delimiter) + 4 /\ Len(Delimiter) \in Nat
  BY ClosingIs, Texts
<1> HIDE DEF S, L
<1>5. S(1) <= S(2) /\ S(2) <= S(3) /\ S(3) <= S(4)
  BY <1>2
<1>6. \A l \in 1 .. 4 : S(l) \in Nat \ {0} /\ S(l) <= DataAt(k)
  BY <1>1, <1>5
<1>7. Off(k + 1) \in Nat /\ Off(k + 1) <= Off(N + 1) /\ Off(N + 1) \in Nat
  <2>1. k + 1 \in 1 .. N + 1 /\ N + 1 \in 1 .. N + 1
    BY <1>1, <1>3
  <2> QED BY <1>3, <2>1
<1>8. DataAt(k) + L + Len(Delimiter) + 3 <= Len(Whole)
  <2>1. Off(k + 1) + 1 = DataAt(k) + L /\ Len(Whole) = Off(N + 1) + Len(Closing)
        /\ L \in Nat /\ DataAt(k) \in Nat
    BY <1>1, <1>3
  <2>2. ASSUME NEW a \in Nat, NEW b \in Nat, NEW d \in Nat, NEW e \in Nat, NEW f \in Nat,
               a + 1 = d + e, a <= b
        PROVE  d + e + f + 3 <= b + (f + 4)
    BY <2>2
  <2> QED BY <1>4, <1>7, <2>1, <2>2
<1> QED BY <1>1, <1>6, <1>8 DEF S, L

LEMMA HeaderInside ==
  ASSUME parts \in PartLists, NEW k \in WrittenPart, InHeader(k)
  PROVE  i <= DataAt(k)
<1>1. PICK l \in 1 .. 4 : InLine(k, l)
  BY DEF InHeader
<1> DEFINE x == LineStart(k, l)
           n == Len(ValOf(parts[k], l))
<1>2. x \in Nat \ {0} /\ x <= DataAt(k) /\ DataAt(k) \in Nat
  BY Places
<1>3. CASE l < 4
  <2>1. l \in 1 .. 3 /\ HasLine(parts[k], l) /\ l + 1 \in 1 .. 4
    BY <1>1, <1>3, InLineIs
  <2>2. n \in Nat /\ LineStart(k, l + 1) = x + 5 + n
    BY <2>1, LineIs
  <2>3. LineStart(k, l + 1) <= DataAt(k)
    BY <2>1, Places
  <2>4. i \in {x, x + 1, x + 2, x + 3, x + 4 + n} \/ i \in x + 3 .. x + 3 + n
    BY <1>1, <1>3, Zenon DEF InLine
  <2> HIDE DEF x, n
  <2> QED BY <1>2, <2>2, <2>3, <2>4
<1>4. CASE ~(l < 4)
  <2>1. l = 4
    BY <1>4
  <2>2. i \in {x, x + 1, x + 2}
    BY <1>1, <1>4, Zenon DEF InLine
  <2>3. DataAt(k) = x + 2
    BY <2>1, PartAt
  <2> HIDE DEF x
  <2> QED BY <1>2, <2>2, <2>3
<1> QED BY <1>3, <1>4

LEMMA DataInside ==
  ASSUME Given, NEW k \in WrittenPart, InData(k)
  PROVE  i <= DataAt(k) + Len(parts[k].data) + Len(Delimiter)
<1> DEFINE D == DataAt(k)
           L == Len(parts[k].data)
           o == Len(u.data)
<1>1. D \in Nat /\ L \in Nat /\ o \in 0 .. L /\ mark = D + o
  BY DataState
<1>2. Len(Delimiter) = Len(Boundary) + 2 /\ Len(Boundary) \in Nat
  BY Texts
<1>3. \/ i \in mark .. D + L
      \/ i = mark + 1
      \/ index \in 0 .. Len(Boundary) - 1 /\ i = mark + 2 + index
  BY DEF InData
<1> HIDE DEF D, L, o
<1>4. i <= D + L + Len(Delimiter)
  BY <1>1, <1>2, <1>3
<1> QED BY <1>4 DEF D, L

LEMMA BeforeInside ==
  ASSUME Given, NEW k \in WrittenPart, Before(k)
  PROVE  i <= Len(Whole)
<1> DEFINE D == DataAt(k)
           L == Len(parts[k].data)
           S == LineStart(k, 1)
<1>1. /\ D \in Nat \ {0} /\ L \in Nat /\ D + L + Len(Delimiter) + 3 <= Len(Whole)
      /\ S \in Nat \ {0} /\ S <= D
  BY Places DEF Given
<1>2. Len(Delimiter) \in Nat /\ Len(Whole) \in Nat /\ i \in Nat
  <2>1. Whole \in Symbols
    BY Layout DEF Given
  <2> QED BY <2>1, Texts DEF Symbols, Given
<1>3. i <= D \/ i <= D + L + Len(Delimiter) \/ i = S - 1
  BY HeaderInside, DataInside DEF Before, AtNext, Given
<1> HIDE DEF D, L, S
<1> QED BY <1>1, <1>2, <1>3

LEMMA StartInside ==
  ASSUME Given, AtStart
  PROVE  i <= Len(Whole)
<1>1. i = index + 1 /\ index \in 0 .. Len(Boundary) + 1 /\ (FirstWritten \/ index = 0)
  BY DEF AtStart
<1>2. N \in Nat /\ Off(N + 1) \in Nat /\ Len(Whole) = Off(N + 1) + Len(Closing)
  <2>1. N \in Nat /\ N + 1 \in 1 .. N + 1
    BY Layout DEF Given
  <2> QED BY <2>1, Layout DEF Given
<1>3. Len(Closing) = Len(Boundary) + 6 /\ Len(Boundary) \in Nat
  <2>1. Len(Closing) = Len(Delimiter) + 4
    BY ClosingIs
  <2> QED BY <2>1, Texts
<1> QED BY <1>1, <1>2, <1>3

LEMMA AfterInside ==
  ASSUME parts \in PartLists, NEW m \in 1 .. N, NEW y, y = Off(m) + Len(Delimiter) + 1
  PROVE  y <= Len(Whole)
<1>1. /\ N \in Nat /\ \A j \in 1 .. N + 1 : Off(j) \in Nat /\ Off(j) <= Off(N + 1)
      /\ Len(Whole) = Off(N + 1) + Len(Closing)
  BY Layout
<1>2. Len(Closing) = Len(Delimiter) + 4 /\ Len(Delimiter) \in Nat
  BY ClosingIs, Texts
<1>3. Off(m) \in Nat /\ Off(m) <= Off(N + 1) /\ Off(N + 1) \in Nat
  <2>1. m \in 1 .. N + 1 /\ N + 1 \in 1 .. N + 1
    BY <1>1
  <2> QED BY <1>1, <2>1
<1> QED BY <1>1, <1>2, <1>3

\* What RoundTrip says of the first n parts.
Came(n) == n \in 0 .. N /\ form = FormOf(n) /\ (body = Whole => n = N)

LEMMA CameIs ==
  (\E n : Came(n)) => \E n \in 0 .. Len(parts) :
                        form = FormOf(n) /\ (body = Encode(parts) => n = Len(parts))
BY DEF Came, N, Whole

LEMMA AllCame ==
  ASSUME Given, Located, Done, Agreeable
  PROVE  \E n : Came(n)
<1>1. parts \in PartLists /\ N \in Nat /\ N = Len(parts) /\ parts \in Seq(Part)
  BY Layout DEF Given, N
<1>2. 0 \in 0 .. N
  BY <1>1
<1>3. ASSUME i <= Len(Whole), state \notin {"stopped", "threw"} PROVE body # Whole
  <2>1. i > Len(body)
    BY <1>3 DEF Done
  <2>2. i \in Nat /\ Len(body) \in Nat
    BY DEF Given, Symbols
  <2>3. ~(i <= Len(body))
    BY <2>1, <2>2
  <2> QED BY <1>3, <2>3
<1>4. CASE AtStart
  <2>1. state \notin {"stopped", "threw"} /\ form = FormOf(0)
    BY <1>4, FormEmpty DEF AtStart
  <2>2. Came(0)
    BY <1>2, <1>3, <1>4, <2>1, StartInside DEF Came
  <2> QED BY <2>2
<1>5. CASE Halted
  <2>1. N = 0
    <3>1. parts # <<>> => FirstWritten
      <4>1. parts # <<>> => N > 0
        BY <1>1
      <4> QED BY <4>1 DEF Agreeable, FirstWritten
    <3>2. parts = <<>>
      BY <1>5, <3>1 DEF Halted
    <3> QED BY <1>1, <3>2
  <2>2. form = FormOf(0)
    BY <1>5, FormEmpty DEF Halted
  <2>3. Came(0)
    BY <1>2, <2>1, <2>2 DEF Came
  <2> QED BY <2>3
<1>6. ASSUME NEW k \in WrittenPart, Before(k), Handled(k - 1) PROVE \E n : Came(n)
  <2>1. state \notin {"stopped", "threw"}
    BY <1>6 DEF Before, InHeader, InLine, InData, AtNext
  <2>2. form = FormOf(k - 1)
    BY <1>6 DEF Handled
  <2>3. k - 1 \in 0 .. N
    <3>1. k \in 1 .. N
      BY DEF WrittenPart
    <3> QED BY <1>1, <3>1
  <2>4. Came(k - 1)
    BY <1>3, <1>6, <2>1, <2>2, <2>3, BeforeInside DEF Came
  <2> QED BY <2>4
<1>7. ASSUME NEW k \in WrittenPart, AfterPart(k), Handled(k) PROVE \E n : Came(n)
  <2>1. PICK m \in k + 1 .. N + 1 :
          /\ NextUp(k, m)
          /\ m # N + 1 => state = "almost end" /\ i = (Off(m) + Len(Delimiter)) + 1
    BY <1>7 DEF AfterPart
  <2>2. form = FormOf(k) /\ state \notin {"stopped", "threw"}
    BY <1>7 DEF Handled, AfterPart
  <2>3. k \in 0 .. N /\ k \in 1 .. N
    <3>1. k \in 1 .. N
      BY DEF WrittenPart
    <3> QED BY <1>1, <3>1
  <2>4. CASE m = N + 1
    <3>1. m - 1 = N /\ N \in 0 .. N
      BY <1>1, <2>4
    <3>2. FormOf(N) = FormOf(k)
      BY <1>1, <2>1, <2>3, <3>1, FormStays
    <3>3. Came(N)
      BY <2>2, <3>1, <3>2 DEF Came
    <3> QED BY <3>3
  <2>5. CASE m # N + 1
    <3>1. m \in 1 .. N
      BY <1>1, <2>3, <2>5
    <3>2. i <= Len(Whole)
      BY <1>1, <2>1, <2>5, <3>1, AfterInside
    <3>3. Came(k)
      BY <1>3, <2>2, <2>3, <3>2 DEF Came
    <3> QED BY <3>3
  <2> QED BY <2>4, <2>5
<1>8. ~Threw
  BY DEF Threw
<1> QED BY <1>4, <1>5, <1>6, <1>7, <1>8 DEF Located

\* RoundTrip, for any delimiter, parts and cut: once the parser is done, the form
\* is that of the parts that came whole, and of a whole body that of all parts,
\* less exactly the nameless ones and those that an empty header spoils.
THEOREM AlwaysRoundTrip == Spec => []RoundTrip
<1>1. IInv => RoundTrip
  <2> SUFFICES ASSUME IInv, Done, Separable, Agreeable
               PROVE  \E n \in 0 .. Len(parts) :
                        form = FormOf(n) /\ (body = Encode(parts) => n = Len(parts))
    BY DEF RoundTrip
  <2>1. \E n : Came(n)
    BY AllCame DEF IInv
  <2> QED BY <2>1, CameIs
<1> QED BY <1>1, Invariance, PTL
=============================================================================
