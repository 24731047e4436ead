----------------------------- MODULE MultiPart -----------------------------
(***************************************************************************)
(* multipart/form-data in wfrest: the parser MultiPartParser.c with the    *)
(* callbacks of MultiPartForm (HttpContent.cc) that fill the form, and the *)
(* format HttpResp::String(MultiPartEncoder) produces.                     *)
(*                                                                         *)
(* A body is a sequence of symbols.  The separators and the characters of  *)
(* part data are single characters; the name of a header and its value are *)
(* one symbol each.  What the symbol of a Content-Disposition says is a    *)
(* text of its own, which is split into pieces when the header is handled. *)
(***************************************************************************)
EXTENDS Naturals, Sequences

CONSTANTS
  Char,          \* the characters of data and delimiters
  CR, LF,
  Boundary,      \* the delimiter, its leading -- included
  Disposition,   \* values of Content-Disposition: the name, and the filename if
                 \* it is not empty
  PartLists,     \* what bodies are made of, see Parts
  Cuts           \* how many symbols at the end of the body are missing

\* The header names: Content-Disposition, and one that says nothing here.
HeaderNames == {"disposition", "other"}

Values == DOMAIN Disposition
Header == {"none", "empty", "some"}
Part == [value : Values, extra : Header, type : Header, data : Seq(Char), ok : BOOLEAN]

\* What ends the data of a part.
Delimiter == <<CR, LF>> \o Boundary

\* The delimiter is named in a header, so there is no line break in it.
ASSUME ConstantsAssumption ==
  /\ CR \in Char /\ LF \in Char /\ CR # LF
  /\ CR \notin HeaderNames \cup {":", " ", "-", "x"} \cup Values
  /\ " " \notin Values
  /\ Boundary \in Seq(Char \ {CR}) /\ Boundary # <<>>
  /\ Disposition \in [Values -> [name : Seq(STRING), filename : Seq(STRING)]]
  /\ PartLists \subseteq Seq(Part)
  /\ Cuts \subseteq Nat

VARIABLES
  parts, body, \* what was encoded, and the bytes that are parsed
  state,       \* state of the multipart_parser
  i, mark,     \* the place in the body, and where the current text began
  index,       \* how much of the boundary was seen
  u,           \* multipart_parser_userdata
  form         \* the Form: filename and data, by name

input == <<parts, body>>
vars == <<input, state, i, mark, index, u, form>>

(***************************************************************************)
(* The encoder.  A part is [value, extra, type, data, ok]: its Content-    *)
(* Disposition, the other header before it and the one after it (none, one *)
(* with an empty value or with some value), its data, and whether its file *)
(* could be read.  The encoder writes no header before the Content-        *)
(* Disposition; some client may.                                           *)
(***************************************************************************)
Line(key, val) == <<key, ":", " ">> \o val \o <<CR, LF>>

HeaderLine(h) ==
  CASE h = "none"  -> <<>>
    [] h = "empty" -> Line("other", <<>>)
    [] h = "some"  -> Line("other", <<"x">>)

ExtraLine(p) == HeaderLine(p.extra)

\* The Content-Type of a file, which is empty if its suffix tells none.
TypeLine(p) == HeaderLine(p.type)

\* What a Content-Disposition says.
DispositionText(d) ==
  <<"form-data", "semicolon", "name", "equals", "quote">> \o d.name \o <<"quote">>
  \o (IF d.filename = <<>> THEN <<>>
      ELSE <<"semicolon", "filename", "equals", "quote">> \o d.filename \o <<"quote">>)

EncodePart(p) ==
  Boundary \o <<CR, LF>>
  \o ExtraLine(p) \o Line("disposition", <<p.value>>) \o TypeLine(p)
  \o <<CR, LF>> \o p.data

\* A CRLF comes before every part but the one with index 0, written or not.
Piece(ps, k) ==
  IF ~ps[k].ok THEN <<>>
  ELSE (IF k = 1 THEN <<>> ELSE <<CR, LF>>) \o EncodePart(ps[k])

Closing == Delimiter \o <<"-", "-", CR, LF>>

\* The content after each part.
Content(ps) ==
  LET upto[k \in 0 .. Len(ps)] == IF k = 0 THEN <<>> ELSE upto[k-1] \o Piece(ps, k)
  IN  upto

Encode(ps) == Content(ps)[Len(ps)] \o Closing

EmptyForm == [n \in {} |-> 0]

Init ==
  /\ parts \in PartLists
  /\ \E cut \in Cuts : LET whole == Encode(parts)
                       IN  body = SubSeq(whole, 1, Len(whole) - cut)
  /\ state = "start"
  /\ i = 1 /\ mark = 1 /\ index = 0
  /\ u = [field |-> <<>>, value |-> <<>>, data |-> <<>>, name |-> <<>>, filename |-> <<>>]
  /\ form = EmptyForm

(***************************************************************************)
(* The parser, one action per state; a state the code falls through to is  *)
(* part of the action.  What is handed over because the body ends (is_last)*)
(* reaches no part that is complete, and is left out.                      *)
(***************************************************************************)
c == body[i]
At(s) == i <= Len(body) /\ state = s
Advance(s) == state' = s /\ i' = i + 1
Again(s) == state' = s /\ i' = i
Stop == state' = "stopped" /\ i' = i
Text == SubSeq(body, mark, i - 1)

Start ==
  /\ At("start")
  /\ IF index = Len(Boundary)
     THEN IF c = CR THEN Advance("start") /\ index' = index + 1 ELSE Stop /\ UNCHANGED index
     ELSE IF index = Len(Boundary) + 1
     THEN IF c = LF THEN Advance("field start") /\ index' = 0 ELSE Stop /\ UNCHANGED index
     ELSE IF c = Boundary[index + 1] THEN Advance("start") /\ index' = index + 1
     ELSE Stop /\ UNCHANGED index
  /\ UNCHANGED <<input, mark, u, form>>

\* The pieces between ; of a text that set a key: from a to b, begun by the key,
\* with their only = at e.  The spaces around a piece, which are trimmed, are not
\* in the text.
Settings(text, key) ==
  {s \in [a : DOMAIN text, e : DOMAIN text, b : DOMAIN text] :
     /\ s.a = 1 \/ text[s.a - 1] = "semicolon"
     /\ s.b = Len(text) \/ text[s.b + 1] = "semicolon"
     /\ text[s.a] = key /\ s.e \in s.a .. s.b
     /\ \A j \in s.a .. s.b : text[j] # "semicolon" /\ (text[j] = "equals" <=> j = s.e)}

Raw(text, s) == SubSeq(text, s.e + 1, s.b)

\* trim_pairs: a quote at both ends is taken away.
TrimPairs(raw) ==
  IF Len(raw) >= 2 /\ raw[1] = "quote" /\ raw[Len(raw)] = "quote"
  THEN SubSeq(raw, 2, Len(raw) - 1) ELSE raw

\* <<what a text sets a key to, the last time it does>>, or nothing.
LastSet(text, key) ==
  LET all == Settings(text, key)
      last == CHOOSE s \in all : \A t \in all : t.b <= s.b
  IN  IF all = {} THEN <<>> ELSE <<TrimPairs(Raw(text, last))>>

\* A quote alone is both ends of a pair: what is left has the length -1, of which
\* as_string cannot make a string.
Throws(text) ==
  \E key \in {"name", "filename"} : \E s \in Settings(text, key) : Raw(text, s) = <<"quote">>

\* What handle_header reads in each value.
Read ==
  [v \in Values |-> LET text == DispositionText(Disposition[v])
                    IN  [name |-> LastSet(text, "name"),
                         filename |-> LastSet(text, "filename"),
                         throws |-> Throws(text)]]

\* handle_header, which does nothing while the field or the value is empty.
IsDisposition(v) == v.field = <<"disposition">> /\ v.value # <<>>

Assigned(set, old) == IF set = <<>> THEN old ELSE set[1]

HandleHeader(v) ==
  LET r == Read[v.value[1]]
      w == IF ~IsDisposition(v) THEN v
           ELSE [v EXCEPT !.name = Assigned(r.name, @),
                          !.filename = Assigned(r.filename, @)]
  IN  IF v.field = <<>> \/ v.value = <<>> THEN v
      ELSE [w EXCEPT !.field = <<>>, !.value = <<>>]

\* It throws: nobody catches that before parse_multipart, whose form is lost.
ThrowsNow == IsDisposition(u) /\ Read[u.value[1]].throws
Throw ==
  /\ ThrowsNow
  /\ state' = "threw" /\ i' = i
  /\ form' = EmptyForm
  /\ UNCHANGED <<mark, u>>

FieldStart ==
  /\ At("field start")
  /\ mark' = i
  /\ Again("field")
  /\ UNCHANGED <<input, index, u, form>>

\* header_field_cb handles the header before this one.
Field ==
  /\ At("field")
  /\ \/ c = CR /\ Advance("headers almost done") /\ UNCHANGED <<mark, u, form>>
     \/ c = ":" /\ Throw
     \/ /\ c = ":" /\ ~ThrowsNow
        /\ Advance("value start")
        /\ u' = [HandleHeader(u) EXCEPT !.field = @ \o Text]
        /\ UNCHANGED <<mark, form>>
     \/ c \in HeaderNames /\ Advance("field") /\ UNCHANGED <<mark, u, form>>
     \/ c \notin HeaderNames \cup {CR, ":"} /\ Stop /\ UNCHANGED <<mark, u, form>>
  /\ UNCHANGED <<input, index>>

\* A state that accepts one character only.
Expect(s, char, to) ==
  /\ At(s)
  /\ IF c = char THEN Advance(to) ELSE Stop
  /\ UNCHANGED <<input, mark, index, u, form>>

\* Mutant: the first character of the value is looked at for ever.
ValueStartStays ==
  /\ At("value start")
  /\ IF c = " " THEN Advance("value start") ELSE Again("value start")
  /\ UNCHANGED <<input, mark, index, u, form>>

ValueStart ==
  /\ At("value start")
  /\ IF c = " " THEN Advance("value start") /\ UNCHANGED mark ELSE Again("value") /\ mark' = i
  /\ UNCHANGED <<input, index, u, form>>

Value ==
  /\ At("value")
  /\ IF c = CR THEN Advance("value almost done") /\ u' = [u EXCEPT !.value = @ \o Text]
     ELSE Advance("value") /\ UNCHANGED u
  /\ UNCHANGED <<input, mark, index, form>>

\* headers_complete_cb handles the last header.
DataStart ==
  /\ At("data start")
  /\ \/ Throw
     \/ /\ ~ThrowsNow
        /\ u' = HandleHeader(u)
        /\ mark' = i
        /\ Again("data")
        /\ UNCHANGED form
  /\ UNCHANGED <<input, index>>

Data ==
  /\ At("data")
  /\ IF c = CR THEN Advance("almost boundary") /\ u' = [u EXCEPT !.data = @ \o Text]
     ELSE Advance("data") /\ UNCHANGED u
  /\ mark' = IF c = CR THEN i ELSE mark
  /\ UNCHANGED <<input, index, form>>

\* Mutant: the character after a lone CR is not looked at again.
AlmostBoundarySkips ==
  /\ At("almost boundary")
  /\ IF c = LF THEN Advance("boundary") /\ index' = 0 /\ UNCHANGED <<mark, u>>
     ELSE /\ u' = [u EXCEPT !.data = Append(@, CR)]
          /\ mark' = i
          /\ Advance("data")
          /\ UNCHANGED index
  /\ UNCHANGED <<input, form>>

\* A CR was seen: it belongs to the data if no LF comes.
AlmostBoundary ==
  /\ At("almost boundary")
  /\ IF c = LF THEN Advance("boundary") /\ index' = 0 /\ UNCHANGED <<mark, u>>
     ELSE /\ u' = [u EXCEPT !.data = Append(@, CR)]
          /\ mark' = i
          /\ Again("data")
          /\ UNCHANGED index
  /\ UNCHANGED <<input, form>>

\* (*mp)[name] = formdata
Put(f, name, formdata) ==
  [m \in DOMAIN f \cup {name} |-> IF m = name THEN formdata ELSE f[m]]

\* Mutant: the data is not cleared for the next part.
HandleDataKeeps ==
  /\ form' = IF u.name = <<>> THEN form
             ELSE Put(form, u.name, [filename |-> u.filename, data |-> u.data])
  /\ u' = [u EXCEPT !.name = <<>>, !.filename = <<>>]

\* handle_data: a part without a name is dropped, a later part replaces an
\* earlier one of the same name.
HandleData ==
  /\ form' = IF u.name = <<>> THEN form
             ELSE Put(form, u.name, [filename |-> u.filename, data |-> u.data])
  /\ u' = [u EXCEPT !.name = <<>>, !.filename = <<>>, !.data = <<>>]

\* CR LF and index symbols of the boundary were seen: they are in lookbehind, and
\* belong to the data if the boundary does not go on.
InBoundary ==
  /\ At("boundary")
  /\ IF c # Boundary[index + 1]
     THEN /\ u' = [u EXCEPT !.data = @ \o <<CR, LF>> \o SubSeq(Boundary, 1, index)]
          /\ mark' = i
          /\ Again("data")
          /\ UNCHANGED <<index, form>>
     ELSE /\ index' = index + 1
          /\ IF index' = Len(Boundary) THEN HandleData /\ Advance("almost end")
             ELSE Advance("boundary") /\ UNCHANGED <<u, form>>
          /\ UNCHANGED mark
  /\ UNCHANGED input

AlmostEnd ==
  /\ At("almost end")
  /\ CASE c = "-" -> Advance("final hyphen")
       [] c = CR  -> Advance("data end")
       [] OTHER   -> Stop
  /\ UNCHANGED <<input, mark, index, u, form>>

End ==
  /\ At("end")
  /\ Advance("end")
  /\ UNCHANGED <<input, mark, index, u, form>>

Next ==
  \/ Start \/ FieldStart \/ Field \/ ValueStart \/ Value \/ DataStart \/ Data
  \/ AlmostBoundary \/ InBoundary \/ AlmostEnd \/ End
  \/ Expect("headers almost done", LF, "data start")
  \/ Expect("value almost done", LF, "field start")
  \/ Expect("data end", LF, "field start")
  \/ Expect("final hyphen", "-", "end")

Spec == Init /\ [][Next]_vars

FairSpec == Spec /\ WF_vars(Next)

-----------------------------------------------------------------------------
(***************************************************************************)
(* Properties.                                                             *)
(***************************************************************************)
Done == i > Len(body) \/ state \in {"stopped", "threw"}

\* A part is lost if the header that comes right before its Content-Disposition is
\* empty: one of its own, or the last one of the part written before it.
Written(n) == {k \in 1 .. n : parts[k].ok}
Spoilt(k) ==
  \E j \in Written(k - 1) : parts[j].type = "empty" /\ \A h \in Written(k - 1) : h <= j
Lost(k) == parts[k].extra = "empty" \/ (parts[k].extra = "none" /\ Spoilt(k))

\* The form that the first n parts make, by what they are and not by their
\* encoding: those that have a name and are not lost, of several of one name the
\* last.
Name(k) == Disposition[parts[k].value].name
Kept(n) == {k \in Written(n) : ~Lost(k) /\ Name(k) # <<>>}
FormOf(n) ==
  LET Last(m) == CHOOSE k \in Kept(n) :
                   Name(k) = m /\ \A j \in Kept(n) : Name(j) = m => j <= k
  IN  [m \in {Name(k) : k \in Kept(n)} |->
        [filename |-> Disposition[parts[Last(m)].value].filename,
         data |-> parts[Last(m)].data]]

\* No data holds the delimiter.  The encoder, whose delimiter is fixed, does not
\* look for it.
Holds(data, text) ==
  \E a \in 0 .. Len(data) - Len(text) : \A j \in 1 .. Len(text) : data[a + j] = text[j]
Separable == \A k \in DOMAIN parts : ~Holds(parts[k].data, Delimiter)

\* The name and the filename have none of the characters that split the header.
Plain(d) ==
  /\ \A j \in DOMAIN d.name : d.name[j] \notin {"semicolon", "equals"}
  /\ \A j \in DOMAIN d.filename : d.filename[j] \notin {"semicolon", "equals"}

\* The encoder and the parser agree on which part is which, but for names with a ;
\* or a =, and a first part that was not written, which leaves a CRLF before the
\* first boundary.
Agreeable ==
  /\ \A k \in DOMAIN parts : Plain(Disposition[parts[k].value])
  /\ parts # <<>> => parts[1].ok

\* The parsed form is the form that was encoded, less exactly the parts without a
\* name and those that an empty header spoils, whatever CRs, LFs and pieces of the
\* boundary the data holds; of a body that ends early it is the form of the parts
\* that came whole, and never a part that is cut short.
RoundTrip ==
  Done /\ Separable /\ Agreeable => \E n \in 0 .. Len(parts) :
    /\ form = FormOf(n)
    /\ body = Encode(parts) => n = Len(parts)

\* What is stored together came in one part, also where parts are lost and names
\* are cut at a ;, if no data holds the delimiter: the data is all the data of some
\* part, the name and the filename are in the text of its Content-Disposition, and
\* they are the ones that were sent if they hold no ; or =.
NothingMixed ==
  Separable => \A m \in DOMAIN form : \E k \in DOMAIN parts :
    LET d == Disposition[parts[k].value]
    IN  /\ form[m].data = parts[k].data
        /\ Holds(DispositionText(d), m) /\ Holds(DispositionText(d), form[m].filename)
        /\ Plain(d) => m = d.name /\ form[m].filename = d.filename

\* The parser comes to the end of the body, stops at a character it does not
\* expect, or throws, although it looks at some characters twice.
ParserEnds == <>Done
=============================================================================
