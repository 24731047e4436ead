--------------------------- MODULE AccountProofs ---------------------------
(***************************************************************************)
(* Proofs about Account, for any number of requests, users and passwords,  *)
(* any crypt() and any set of faults.                                      *)
(***************************************************************************)
EXTENDS Account, TLAPS

(***************************************************************************)
(* The inductive invariant.                                                *)
(***************************************************************************)
Kinds == {"signup", "signin", "info"}

Pcs == {"new", "crypt", "in crypt", "use", "insert", "inserted", "select", "selected",
        "replace", "replaced", "reply", "done", "lost"}
Results == {"ok", "error", "failed"}
Replies == {"SUCCESS", "FAIL", "OK"}
Ciphers == Cipher \cup {Garbage}
Opt(S) == S \cup {None}

Requests == [pc : Pcs, kind : Opt(Kinds), user : Opt(User), pw : Opt(Password),
             stored : Opt(Ciphers), res : Opt(Results), token : Opt(Tokens),
             reply : Opt(Replies)]

\* Every variable holds what the code can store in it.
TypeOK ==
  /\ req \in [Request -> Requests]
  /\ ctx \in [Request -> {"none", "live", "freed"}]
  /\ buf \in Ciphers
  /\ raced \subseteq Request
  /\ tblUser \in [User -> Opt(Ciphers)]
  /\ tblToken \in [User -> Opt(Tokens)]
  /\ clock \in 0 .. Seconds - 1
  /\ known \subseteq Request
  /\ culprits \subseteq Request

\* What a request is, has read and has answered at each step of the code.
Course(r) ==
  /\ req[r].pc = "new" =>
       /\ req[r].kind = None /\ req[r].stored = None
       /\ req[r].res = None /\ req[r].reply = None
  /\ req[r].pc # "new" => req[r].kind \in Kinds /\ req[r].user \in User
  /\ req[r].pc \in {"crypt", "in crypt", "use"} => req[r].kind \in {"signup", "signin"}
  /\ req[r].kind \in {"signup", "signin"} => req[r].pw \in Password
  /\ req[r].pc \in {"insert", "inserted"} => req[r].kind = "signup" /\ req[r].stored # None
  /\ req[r].pc \in {"select", "selected"} => req[r].kind \in {"signin", "info"}
  /\ req[r].pc = "select" => req[r].stored = None
  /\ req[r].pc \in {"replace", "replaced"} => req[r].kind = "signin" /\ req[r].token \in Tokens

\* The part of ContextAlive that is about one request.
Context(r) ==
  ctx[r] = IF req[r].kind # "signin" \/ req[r].pc = "lost" THEN "none"
           ELSE IF req[r].pc = "done" THEN "freed" ELSE "live"

\* What a signup sends, and what it owns once the INSERT was accepted.
SignupKeeps(r) ==
  req[r].kind = "signup" =>
    /\ req[r].stored # None /\ r \notin raced => req[r].stored = Enc[req[r].pw]
    /\ req[r].pc \in {"crypt", "in crypt", "use", "insert"} => req[r].res = None
    /\ req[r].res = "ok" => /\ req[r].stored # None
                            /\ tblUser[req[r].user] = req[r].stored
    /\ req[r].reply = "SUCCESS" => req[r].res = "ok"

\* What a signin read is what the table has, and its verdict is about that.
SigninKeeps(r) ==
  req[r].kind = "signin" =>
    /\ req[r].stored # None => tblUser[req[r].user] = req[r].stored
    /\ req[r].pc \in {"crypt", "in crypt", "use", "replace", "replaced"}
         => req[r].stored # None /\ req[r].reply = None
    /\ req[r].pc \in {"select", "selected"} => req[r].reply = None
    /\ req[r].reply # None => req[r].stored # None
    /\ r \notin raced =>
         /\ req[r].pc \in {"replace", "replaced"} \/ req[r].reply = "OK"
              => req[r].stored = Enc[req[r].pw]
         /\ req[r].reply \in {"FAIL", "SUCCESS"} => req[r].stored # Enc[req[r].pw]

\* A user who was in the table is in the table, and the query finds the row.
KnownKeeps(r) ==
  /\ r \in known =>
       /\ req[r].pc # "new"
       /\ tblUser[req[r].user] # None
       /\ req[r].pc = "selected" /\ req[r].stored = None => req[r].res = "failed"
  /\ r \in culprits => req[r].pc = "lost" /\ (r \in known => req[r].res = "failed")

RequestOK(r) ==
  Course(r) /\ Context(r) /\ SignupKeeps(r) /\ SigninKeeps(r) /\ KnownKeeps(r)

\* A call of crypt() that was not touched is the only one, and until its result
\* is read the buffer holds it.
CryptAlone ==
  \A r \in Request \ raced :
    /\ req[r].pc = "in crypt" => \A q \in Request : req[q].pc = "in crypt" => q = r
    /\ req[r].pc = "use" => /\ buf = Enc[req[r].pw]
                            /\ \A q \in Request : req[q].pc # "in crypt"

\* The table takes one accepted INSERT per name.
OneOwner ==
  \A r, q \in Kind("signup") :
    /\ r # q
    /\ req[r].res = "ok" /\ req[q].res = "ok"
    => req[r].user # req[q].user

\* The REPLACE of a signin is behind it.
Replaced(r) ==
  req[r].pc = "replaced" \/ (req[r].pc \in {"reply", "done"} /\ req[r].reply = "OK")

\* The token in the table is that of a signin whose REPLACE is behind it, unless
\* one of the signins was lost or its task failed.
TokenOf(u) ==
  /\ \A r \in Signins(u) : req[r].pc # "lost"
  /\ \A r \in Signins(u) : Replaced(r) => req[r].res # "failed"
  /\ \E r \in Signins(u) : Replaced(r)
  => \E r \in Signins(u) : Replaced(r) /\ req[r].token = tblToken[u]

TokenFromSignin == \A u \in User : TokenOf(u)

IInv ==
  /\ TypeOK
  /\ \A r \in Request : RequestOK(r)
  /\ CryptAlone
  /\ OneOwner
  /\ TokenFromSignin

-----------------------------------------------------------------------------
(***************************************************************************)
(* What the steps do to the requests.                                      *)
(***************************************************************************)

\* Nothing but these fields of the requests matters to the other steps.
Becomes(r, kind, user, pw, pc, stored, res, token, reply) ==
  /\ req'[r].kind = kind /\ req'[r].user = user /\ req'[r].pw = pw
  /\ req'[r].pc = pc
  /\ req'[r].stored = stored
  /\ req'[r].res = res
  /\ req'[r].token = token
  /\ req'[r].reply = reply

Others(r) == \A q \in Request \ {r} : req'[q] = req[q]

\* Only r changes, which was new.
Arrives(r, kind, u, p, pc) ==
  /\ Others(r)
  /\ req[r].pc = "new"
  /\ Becomes(r, kind, u, p, pc, req[r].stored, req[r].res, req[r].token, req[r].reply)

\* Only r moves on; it stays the same request.
Moves(r, from, to, stored, res, token, reply) ==
  /\ Others(r)
  /\ req[r].pc = from
  /\ Becomes(r, req[r].kind, req[r].user, req[r].pw, to, stored, res, token, reply)

Goes(r, from, to) == Moves(r, from, to, req[r].stored, req[r].res, req[r].token, req[r].reply)

Answers(r, from, reply) ==
  Moves(r, from, "reply", req[r].stored, req[r].res, req[r].token, reply)

\* The process ends.
Falls ==
  \A q \in Request :
    Becomes(q, req[q].kind, req[q].user, req[q].pw,
            IF req[q].pc \in {"new", "done"} THEN req[q].pc ELSE "lost",
            req[q].stored, req[q].res, req[q].token, req[q].reply)

LEMMA ArriveEffect ==
  ASSUME TypeOK, NEW r \in Request, NEW kind, NEW u, NEW p, NEW pc, Arrive(r, kind, u, p, pc)
  PROVE  Arrives(r, kind, u, p, pc)
<1>1. req \in [Request -> Requests]
  BY DEF TypeOK
<1> QED BY <1>1 DEF Requests, Arrive, Arrives, Others, Becomes

LEMMA CrashEffect == ASSUME TypeOK, NEW r \in Request, Crash(r) PROVE Falls
<1>1. req \in [Request -> Requests]
  BY DEF TypeOK
<1> QED BY <1>1 DEF Requests, Crash, Falls, Becomes

\* A step of a request that does not take the process down.
LEMMA ServeEffect ==
  ASSUME TypeOK, NEW r \in Request
  PROVE  /\ CryptBegin(r) => Goes(r, "crypt", "in crypt")
         /\ CryptEnd(r) => Goes(r, "in crypt", "use")
         /\ SignupSql(r) => /\ req[r].kind = "signup"
                            /\ \E c \in Seen : Moves(r, "use", "insert", c, req[r].res,
                                                     req[r].token, req[r].reply)
         /\ Insert(r) => \E res \in Results :
              /\ Moves(r, "insert", "inserted", req[r].stored, res, req[r].token, req[r].reply)
              /\ \/ /\ tblUser[req[r].user] = None
                    /\ tblUser' = [tblUser EXCEPT ![req[r].user] = req[r].stored]
                 \/ res # "ok" /\ tblUser' = tblUser
         /\ SignupDone(r) => Answers(r, "inserted", SignupReply(req[r].res))
         /\ Select(r) =>
              \/ Moves(r, "select", "selected", tblUser[req[r].user], "ok", req[r].token,
                       req[r].reply)
              \/ Moves(r, "select", "selected", req[r].stored, "failed", req[r].token,
                       req[r].reply)
         /\ SigninRead(r) => /\ req[r].kind = "signin" /\ req[r].stored # None
                             /\ Goes(r, "selected", "crypt")
         /\ SigninCompare(r) => req[r].kind = "signin" /\ \E c \in Seen :
              \/ c # req[r].stored /\ Answers(r, "use", "FAIL")
              \/ c = req[r].stored /\ Moves(r, "use", "replace", req[r].stored, req[r].res,
                                            Token(req[r].user), req[r].reply)
         /\ Replace(r) => \E res \in {"ok", "failed"} :
              /\ Moves(r, "replace", "replaced", req[r].stored, res, req[r].token, req[r].reply)
              /\ \/ tblToken' = [tblToken EXCEPT ![req[r].user] = req[r].token]
                 \/ res = "failed" /\ tblToken' = tblToken
         /\ SigninDone(r) => Answers(r, "replaced", "OK")
         /\ InfoDone(r) => req[r].kind = "info" /\ Answers(r, "selected", "OK")
         /\ Reply(r) => Goes(r, "reply", "done")
<1>0. req \in [Request -> Requests]
  BY DEF TypeOK
<1> USE <1>0 DEF Requests, Moves, Goes, Answers, Others, Becomes
<1>1. CryptBegin(r) => Goes(r, "crypt", "in crypt")
  <2>1. CryptBegin(r) => req[r].pc = "crypt" /\ req' = [req EXCEPT ![r].pc = "in crypt"]
    BY DEF CryptBegin, Goto
  <2> QED BY <2>1
<1>2. CryptEnd(r) => Goes(r, "in crypt", "use")
  <2>1. CryptEnd(r) => req[r].pc = "in crypt" /\ req' = [req EXCEPT ![r].pc = "use"]
    BY DEF CryptEnd, Goto
  <2> QED BY <2>1
<1>3. SignupSql(r) => \E c \in Seen :
        Moves(r, "use", "insert", c, req[r].res, req[r].token, req[r].reply)
  BY DEF SignupSql
<1>4. Insert(r) => \E res \in Results :
        /\ Moves(r, "insert", "inserted", req[r].stored, res, req[r].token, req[r].reply)
        /\ \/ /\ tblUser[req[r].user] = None
              /\ tblUser' = [tblUser EXCEPT ![req[r].user] = req[r].stored]
           \/ res # "ok" /\ tblUser' = tblUser
  BY DEF Insert, Results
<1>5. SignupDone(r) => Answers(r, "inserted", SignupReply(req[r].res))
  BY DEF SignupDone
<1>6. Select(r) =>
        \/ Moves(r, "select", "selected", tblUser[req[r].user], "ok", req[r].token, req[r].reply)
        \/ Moves(r, "select", "selected", req[r].stored, "failed", req[r].token, req[r].reply)
  BY DEF Select
<1>7. SigninRead(r) => Goes(r, "selected", "crypt")
  BY DEF SigninRead, Goto
<1>8. SigninCompare(r) => \E c \in Seen :
        \/ c # req[r].stored /\ Answers(r, "use", "FAIL")
        \/ c = req[r].stored /\ Moves(r, "use", "replace", req[r].stored, req[r].res,
                                      Token(req[r].user), req[r].reply)
  BY DEF SigninCompare
<1>9. Replace(r) => \E res \in {"ok", "failed"} :
        /\ Moves(r, "replace", "replaced", req[r].stored, res, req[r].token, req[r].reply)
        /\ \/ tblToken' = [tblToken EXCEPT ![req[r].user] = req[r].token]
           \/ res = "failed" /\ tblToken' = tblToken
  BY DEF Replace
<1>10. SigninDone(r) => Answers(r, "replaced", "OK")
  BY DEF SigninDone
<1>11. InfoDone(r) => Answers(r, "selected", "OK")
  BY DEF InfoDone
<1>12. Reply(r) => Goes(r, "reply", "done")
  BY DEF Reply, Goto
<1>13. /\ SignupSql(r) => req[r].kind = "signup"
       /\ SigninRead(r) => req[r].kind = "signin" /\ req[r].stored # None
       /\ SigninCompare(r) => req[r].kind = "signin"
       /\ InfoDone(r) => req[r].kind = "info"
  BY DEF SignupSql, SigninRead, SigninCompare, InfoDone
<1> HIDE <1>0 DEF Requests, Moves, Goes, Answers, Others, Becomes
<1> QED BY <1>1, <1>2, <1>3, <1>4, <1>5, <1>6, <1>7, <1>8, <1>9, <1>10, <1>11, <1>12, <1>13

-----------------------------------------------------------------------------
(***************************************************************************)
(* The induction.                                                          *)
(***************************************************************************)

LEMMA Members ==
  /\ "crypt" \in Pcs /\ "in crypt" \in Pcs /\ "use" \in Pcs /\ "insert" \in Pcs
  /\ "inserted" \in Pcs /\ "select" \in Pcs /\ "selected" \in Pcs /\ "replace" \in Pcs
  /\ "replaced" \in Pcs /\ "reply" \in Pcs /\ "done" \in Pcs /\ "lost" \in Pcs
  /\ "ok" \in Opt(Results) /\ "error" \in Opt(Results) /\ "failed" \in Opt(Results)
  /\ "SUCCESS" \in Opt(Replies) /\ "FAIL" \in Opt(Replies) /\ "OK" \in Opt(Replies)
  /\ "signup" \in Opt(Kinds) /\ "signin" \in Opt(Kinds) /\ "info" \in Opt(Kinds)
  /\ None \in Opt(Password)
  /\ \A u \in User : u \in Opt(User)
  /\ \A p \in Password : p \in Opt(Password)
  /\ \A c \in Ciphers : c \in Opt(Ciphers)
  /\ \A t \in Tokens : t \in Opt(Tokens)
  /\ \A p \in Password : Enc[p] \in Ciphers
  /\ Cipher \cup {Garbage} = Ciphers
  /\ Cipher \cup {Garbage, None} = Opt(Ciphers)
  /\ Tokens \cup {None} = Opt(Tokens)
BY ConstantsAssumption DEF Pcs, Results, Replies, Kinds, Opt, Ciphers

LEMMA ArriveTypes ==
  ASSUME TypeOK, NEW r \in Request, NEW kind \in Opt(Kinds), NEW u \in Opt(User),
         NEW p \in Opt(Password), NEW pc \in Pcs, Arrive(r, kind, u, p, pc)
  PROVE  req' \in [Request -> Requests] /\ known' \subseteq Request
<1> DEFINE a == [req EXCEPT ![r].pc = pc]
           b == [a EXCEPT ![r].kind = kind]
           c == [b EXCEPT ![r].user = u]
           d == [c EXCEPT ![r].pw = p]
<1>1. a \in [Request -> Requests]
  BY DEF TypeOK, Requests
<1>2. b \in [Request -> Requests]
  <2> HIDE DEF a
  <2> QED BY <1>1 DEF Requests
<1>3. c \in [Request -> Requests]
  <2> HIDE DEF b
  <2> QED BY <1>2 DEF Requests
<1>4. d \in [Request -> Requests]
  <2> HIDE DEF c
  <2> QED BY <1>3 DEF Requests
<1>5. req' = d
  BY DEF Arrive
<1>6. known' \subseteq Request
  BY DEF Arrive, TypeOK
<1> HIDE DEF d
<1> QED BY <1>4, <1>5, <1>6

LEMMA TypeStep == ASSUME TypeOK, \A x \in Request : RequestOK(x), [Next]_vars PROVE TypeOK'
<1>0. \A x \in Request : Course(x)
  BY DEF RequestOK
<1> USE DEF TypeOK, Requests, cryptVars, dbVars
<1>1. ASSUME NEW r \in Request, NEW u \in User, NEW p \in Password, SignupStart(r, u, p)
      PROVE  TypeOK'
  <2>1. "crypt" \in Pcs /\ "signup" \in Opt(Kinds) /\ u \in Opt(User) /\ p \in Opt(Password)
    BY Members
  <2>2. req' \in [Request -> Requests] /\ known' \subseteq Request
    BY <1>1, <2>1, ArriveTypes DEF SignupStart
  <2> QED BY <1>1, <2>2 DEF SignupStart, Arrive
<1>2. ASSUME NEW r \in Request, NEW u \in User, NEW p \in Password, SigninStart(r, u, p)
      PROVE  TypeOK'
  <2>1. "select" \in Pcs /\ "signin" \in Opt(Kinds) /\ u \in Opt(User) /\ p \in Opt(Password)
    BY Members
  <2>2. req' \in [Request -> Requests] /\ known' \subseteq Request
    BY <1>2, <2>1, ArriveTypes DEF SigninStart
  <2> QED BY <1>2, <2>2 DEF SigninStart, Arrive
<1>3. ASSUME NEW r \in Request, NEW u \in User, InfoStart(r, u) PROVE TypeOK'
  <2>1. "select" \in Pcs /\ "info" \in Opt(Kinds) /\ u \in Opt(User) /\ None \in Opt(Password)
    BY Members
  <2>2. req' \in [Request -> Requests] /\ known' \subseteq Request
    BY <1>3, <2>1, ArriveTypes DEF InfoStart
  <2> QED BY <1>3, <2>2 DEF InfoStart, Arrive
<1>4. ASSUME NEW r \in Request, CryptBegin(r) PROVE TypeOK'
  <2>1. "in crypt" \in Pcs
    BY Members
  <2> QED BY <1>4, <2>1 DEF CryptBegin, Goto, Exposed, InCrypt
<1>5. ASSUME NEW r \in Request, CryptEnd(r) PROVE TypeOK'
  <2>1. "use" \in Pcs
    BY Members
  <2>2. buf' \in Ciphers
    <3>1. req[r].pw \in Password
      BY <1>0, <1>5 DEF CryptEnd, Course
    <3>2. IF r \in raced THEN buf' \in Cipher \cup {Garbage} ELSE buf' = Enc[req[r].pw]
      BY <1>5 DEF CryptEnd
    <3> QED BY <3>1, <3>2, Members
  <2>3. req' \in [Request -> Requests]
    <3>1. req' = [req EXCEPT ![r].pc = "use"]
      BY <1>5 DEF CryptEnd, Goto
    <3> QED BY <2>1, <3>1
  <2> QED BY <1>5, <2>2, <2>3 DEF CryptEnd
<1>6. ASSUME NEW r \in Request, SignupSql(r) PROVE TypeOK'
  <2>1. "insert" \in Pcs
    BY Members
  <2>2. \A c \in Seen : c \in Opt(Ciphers)
    BY Members DEF Seen
  <2> QED BY <1>6, <2>1, <2>2 DEF SignupSql
<1>7. ASSUME NEW r \in Request, Insert(r) PROVE TypeOK'
  <2>1. "inserted" \in Pcs /\ \A res \in Results : res \in Opt(Results)
    BY Members DEF Results
  <2>2. PICK res \in Results : req' = [req EXCEPT ![r].res = res, ![r].pc = "inserted"]
    BY <1>7 DEF Insert, Results
  <2>3. req' \in [Request -> Requests]
    <3>1. [req EXCEPT ![r].res = res] \in [Request -> Requests]
      BY <2>1
    <3> QED BY <2>1, <2>2, <3>1
  <2>4. tblUser' \in [User -> Opt(Ciphers)]
    BY <1>7 DEF Insert
  <2> QED BY <1>7, <2>3, <2>4 DEF Insert
<1>8. ASSUME NEW r \in Request, SignupDone(r) PROVE TypeOK'
  <2>1. "reply" \in Pcs /\ SignupReply(req[r].res) \in Opt(Replies)
    BY Members DEF SignupReply
  <2> QED BY <1>8, <2>1 DEF SignupDone
<1>9. ASSUME NEW r \in Request, Select(r) PROVE TypeOK'
  <2>1. "selected" \in Pcs /\ "ok" \in Opt(Results) /\ "failed" \in Opt(Results)
    BY Members
  <2>2. tblUser[req[r].user] \in Opt(Ciphers)
    <3>1. req[r].user \in User
      BY <1>0, <1>9 DEF Select, Course
    <3> QED BY <3>1
  <2> QED BY <1>9, <2>1, <2>2 DEF Select
<1>10. ASSUME NEW r \in Request, Crash(r) PROVE TypeOK'
  <2>1. "lost" \in Pcs
    BY Members
  <2>2. tblUser' \in [User -> Opt(Ciphers)] /\ tblToken' \in [User -> Opt(Tokens)]
    <3>1. Landed
      BY <1>10 DEF Crash
    <3>2. Cipher \cup {Garbage, None} = Opt(Ciphers) /\ Tokens \cup {None} = Opt(Tokens)
      BY Members
    <3> QED BY <3>1, <3>2 DEF Landed
  <2> QED BY <1>10, <2>1, <2>2 DEF Crash
<1>11. ASSUME NEW r \in Request, SigninRead(r) PROVE TypeOK'
  <2>1. "crypt" \in Pcs
    BY Members
  <2> QED BY <1>11, <2>1 DEF SigninRead, Goto
<1>12. ASSUME NEW r \in Request, SigninCompare(r) PROVE TypeOK'
  <2>1. "reply" \in Pcs /\ "replace" \in Pcs /\ "FAIL" \in Opt(Replies)
    BY Members
  <2>2. Token(req[r].user) \in Opt(Tokens)
    <3>1. req[r].user \in User
      BY <1>0, <1>12, Members DEF SigninCompare, Course
    <3> QED BY <3>1, Members DEF Token, Tokens
  <2> QED BY <1>12, <2>1, <2>2 DEF SigninCompare
<1>13. ASSUME NEW r \in Request, Replace(r) PROVE TypeOK'
  <2>1. "replaced" \in Pcs /\ "ok" \in Opt(Results) /\ "failed" \in Opt(Results)
    BY Members
  <2>2. req[r].user \in User /\ req[r].token \in Opt(Tokens)
    BY <1>0, <1>13 DEF Replace, Course
  <2> QED BY <1>13, <2>1, <2>2 DEF Replace
<1>14. ASSUME NEW r \in Request, SigninDone(r) \/ InfoDone(r) PROVE TypeOK'
  <2>1. "reply" \in Pcs /\ "OK" \in Opt(Replies)
    BY Members
  <2> QED BY <1>14, <2>1 DEF SigninDone, InfoDone
<1>15. ASSUME NEW r \in Request, Reply(r) PROVE TypeOK'
  <2>1. "done" \in Pcs
    BY Members
  <2> QED BY <1>15, <2>1 DEF Reply, Goto
<1>16. CASE Tick
  BY <1>16, ConstantsAssumption DEF Tick
<1>17. CASE UNCHANGED vars
  BY <1>17 DEF vars
<1> HIDE DEF TypeOK, Requests
<1> QED
  BY <1>1, <1>2, <1>3, <1>4, <1>5, <1>6, <1>7, <1>8, <1>9, <1>10, <1>11, <1>12, <1>13,
     <1>14, <1>15, <1>16, <1>17 DEF Next, Serve

\* A name that is in tbl_user keeps its row: no statement of the program changes one.
LEMMA TableGrows ==
  ASSUME TypeOK, \A x \in Request : RequestOK(x), [Next]_vars,
         NEW u \in User, tblUser[u] # None
  PROVE  tblUser'[u] = tblUser[u]
<1>1. ASSUME NEW r \in Request, Insert(r) PROVE tblUser'[u] = tblUser[u]
  BY <1>1 DEF Insert, TypeOK
<1>2. ASSUME NEW r \in Request, Crash(r) PROVE tblUser'[u] = tblUser[u]
  BY <1>2 DEF Crash, Landed
<1>3. CASE UNCHANGED tblUser
  BY <1>3
<1> QED
  BY <1>1, <1>2, <1>3 DEF Next, Serve, SignupStart, SigninStart, InfoStart, Arrive, CryptBegin,
     CryptEnd, SignupSql, SignupDone, Select, SigninRead, SigninCompare, Replace, SigninDone,
     InfoDone, Reply, Tick, vars, dbVars

\* The step of another request leaves a request alone.
LEMMA Bystander ==
  ASSUME NEW x \in Request, RequestOK(x), req'[x] = req[x], ctx'[x] = ctx[x],
         raced \subseteq raced', x \in known' <=> x \in known,
         x \in culprits' <=> x \in culprits,
         \A u \in User : tblUser[u] # None => tblUser'[u] = tblUser[u]
  PROVE  RequestOK(x)'
<1> USE DEF RequestOK
<1>1. Course(x)' /\ Context(x)'
  BY DEF Course, Context
<1>2. SignupKeeps(x)'
  BY DEF Course, SignupKeeps, Kinds
<1>3. SigninKeeps(x)'
  BY DEF Course, SigninKeeps, Kinds
<1>4. KnownKeeps(x)'
  BY DEF Course, KnownKeeps, Kinds
<1> QED BY <1>1, <1>2, <1>3, <1>4

\* What crypt() left is what a request that was not touched reads.
LEMMA SeenRight ==
  ASSUME CryptAlone, NEW r \in Request, req[r].pc = "use", NEW c \in Seen
  PROVE  r \notin raced => c = Enc[req[r].pw]
BY DEF CryptAlone, Seen, InCrypt

LEMMA SeenSome == ASSUME TypeOK, NEW c \in Seen PROVE c # None
BY ConstantsAssumption DEF Seen, TypeOK, Ciphers

\* A request keeps what RequestOK says of it in its own steps.
LEMMA OwnStart ==
  ASSUME TypeOK, NEW r \in Request, RequestOK(r), NEW u \in User,
         \/ \E p \in Password : SignupStart(r, u, p)
         \/ \E p \in Password : SigninStart(r, u, p)
         \/ InfoStart(r, u)
  PROVE  RequestOK(r)'
<1> USE ConstantsAssumption
         DEF RequestOK, Course, Context, SignupKeeps, SigninKeeps, KnownKeeps, Arrives, Becomes,
             Kinds
<1>1. ASSUME NEW p \in Password, SignupStart(r, u, p) PROVE RequestOK(r)'
  <2>1. Arrives(r, "signup", u, p, "crypt")
    BY <1>1, ArriveEffect DEF SignupStart
  <2>2. /\ ctx' = ctx /\ tblUser' = tblUser /\ culprits' = culprits
        /\ known' = IF tblUser[u] # None THEN known \cup {r} ELSE known
    BY <1>1 DEF SignupStart, Arrive, dbVars
  <2> QED BY <2>1, <2>2
<1>2. ASSUME NEW p \in Password, SigninStart(r, u, p) PROVE RequestOK(r)'
  <2>1. Arrives(r, "signin", u, p, "select")
    BY <1>2, ArriveEffect DEF SigninStart
  <2>2. /\ ctx'[r] = "live" /\ tblUser' = tblUser /\ culprits' = culprits
        /\ known' = IF tblUser[u] # None THEN known \cup {r} ELSE known
    BY <1>2 DEF SigninStart, Arrive, dbVars, TypeOK
  <2> QED BY <2>1, <2>2
<1>3. ASSUME InfoStart(r, u) PROVE RequestOK(r)'
  <2>1. Arrives(r, "info", u, None, "select")
    BY <1>3, ArriveEffect DEF InfoStart
  <2>2. /\ ctx' = ctx /\ tblUser' = tblUser /\ culprits' = culprits
        /\ known' = IF tblUser[u] # None THEN known \cup {r} ELSE known
    BY <1>3 DEF InfoStart, Arrive, dbVars
  <2> QED BY <2>1, <2>2
<1> QED BY <1>1, <1>2, <1>3

LEMMA OwnServe ==
  ASSUME TypeOK, CryptAlone, NEW r \in Request, RequestOK(r), Serve(r), ~ Crash(r)
  PROVE  RequestOK(r)'
<1> USE ConstantsAssumption DEF RequestOK, Course, Context, SignupKeeps, SigninKeeps, KnownKeeps,
          Moves, Goes, Answers, Becomes, Kinds, dbVars, cryptVars
<1>1. CASE CryptBegin(r)
  <2>1. Goes(r, "crypt", "in crypt")
    BY <1>1, ServeEffect
  <2>2. /\ ctx' = ctx /\ tblUser' = tblUser /\ culprits' = culprits /\ known' = known
        /\ raced \subseteq raced'
    BY <1>1 DEF CryptBegin
  <2> QED BY <2>1, <2>2
<1>2. CASE CryptEnd(r)
  <2>1. Goes(r, "in crypt", "use")
    BY <1>2, ServeEffect
  <2>2. ctx' = ctx /\ tblUser' = tblUser /\ culprits' = culprits /\ known' = known /\ raced' = raced
    BY <1>2 DEF CryptEnd
  <2> QED BY <2>1, <2>2
<1>3. CASE SignupSql(r)
  <2>1. PICK c \in Seen : Moves(r, "use", "insert", c, req[r].res, req[r].token, req[r].reply)
    BY <1>3, ServeEffect
  <2>2. req[r].kind = "signup" /\ c # None /\ (r \notin raced => c = Enc[req[r].pw])
    BY <1>3, <2>1, SeenRight, SeenSome DEF SignupSql
  <2>3. ctx' = ctx /\ tblUser' = tblUser /\ culprits' = culprits /\ known' = known /\ raced' = raced
    BY <1>3 DEF SignupSql
  <2> QED BY <2>1, <2>2, <2>3
<1>4. CASE Insert(r)
  <2>1. PICK res \in Results :
          /\ Moves(r, "insert", "inserted", req[r].stored, res, req[r].token, req[r].reply)
          /\ \/ /\ tblUser[req[r].user] = None
                /\ tblUser' = [tblUser EXCEPT ![req[r].user] = req[r].stored]
             \/ res # "ok" /\ tblUser' = tblUser
    BY <1>4, ServeEffect
  <2>2. ctx' = ctx /\ culprits' = culprits /\ known' = known /\ raced' = raced
    BY <1>4 DEF Insert
  <2>3. tblUser \in [User -> Opt(Ciphers)]
    BY DEF TypeOK
  <2> QED BY <2>1, <2>2, <2>3
<1>5. CASE SignupDone(r)
  <2>1. Answers(r, "inserted", SignupReply(req[r].res))
    BY <1>5, ServeEffect
  <2>2. ctx' = ctx /\ tblUser' = tblUser /\ culprits' = culprits /\ known' = known /\ raced' = raced
    BY <1>5 DEF SignupDone
  <2> QED BY <2>1, <2>2 DEF SignupReply
<1>6. CASE Select(r)
  <2>1. \/ Moves(r, "select", "selected", tblUser[req[r].user], "ok", req[r].token, req[r].reply)
        \/ Moves(r, "select", "selected", req[r].stored, "failed", req[r].token, req[r].reply)
    BY <1>6, ServeEffect
  <2>2. ctx' = ctx /\ tblUser' = tblUser /\ culprits' = culprits /\ known' = known /\ raced' = raced
    BY <1>6 DEF Select
  <2> QED BY <2>1, <2>2
<1>7. CASE SigninRead(r)
  <2>1. req[r].kind = "signin" /\ req[r].stored # None /\ Goes(r, "selected", "crypt")
    BY <1>7, ServeEffect
  <2>2. ctx' = ctx /\ tblUser' = tblUser /\ culprits' = culprits /\ known' = known /\ raced' = raced
    BY <1>7 DEF SigninRead
  <2> QED BY <2>1, <2>2
<1>8. CASE SigninCompare(r)
  <2>1. PICK c \in Seen :
          \/ c # req[r].stored /\ Answers(r, "use", "FAIL")
          \/ c = req[r].stored /\ Moves(r, "use", "replace", req[r].stored, req[r].res,
                                        Token(req[r].user), req[r].reply)
    BY <1>8, ServeEffect
  <2>2. req[r].kind = "signin" /\ req[r].pc = "use"
    BY <1>8 DEF SigninCompare
  <2>3. r \notin raced => c = Enc[req[r].pw]
    BY <2>2, SeenRight
  <2>4. ctx' = ctx /\ tblUser' = tblUser /\ culprits' = culprits /\ known' = known /\ raced' = raced
    BY <1>8 DEF SigninCompare
  <2>5. Token(req[r].user) \in Tokens
    BY <2>2 DEF TypeOK, Token, Tokens
  <2> QED BY <2>1, <2>2, <2>3, <2>4, <2>5
<1>9. CASE Replace(r)
  <2>1. PICK res \in {"ok", "failed"} :
          Moves(r, "replace", "replaced", req[r].stored, res, req[r].token, req[r].reply)
    BY <1>9, ServeEffect, ZenonT(30)
  <2>2. ctx' = ctx /\ tblUser' = tblUser /\ culprits' = culprits /\ known' = known /\ raced' = raced
    BY <1>9 DEF Replace
  <2> QED BY <2>1, <2>2
<1>10. CASE SigninDone(r)
  <2>1. Answers(r, "replaced", "OK")
    BY <1>10, ServeEffect
  <2>2. ctx' = ctx /\ tblUser' = tblUser /\ culprits' = culprits /\ known' = known /\ raced' = raced
    BY <1>10 DEF SigninDone
  <2> QED BY <2>1, <2>2
<1>11. CASE InfoDone(r)
  <2>1. req[r].kind = "info" /\ Answers(r, "selected", "OK")
    BY <1>11, ServeEffect
  <2>2. ctx' = ctx /\ tblUser' = tblUser /\ culprits' = culprits /\ known' = known /\ raced' = raced
    BY <1>11 DEF InfoDone
  <2> QED BY <2>1, <2>2
<1>12. CASE Reply(r)
  <2>1. Goes(r, "reply", "done")
    BY <1>12, ServeEffect
  <2>2. /\ ctx'[r] = IF ctx[r] = "live" THEN "freed" ELSE ctx[r]
        /\ tblUser' = tblUser /\ culprits' = culprits /\ known' = known /\ raced' = raced
    BY <1>12 DEF Reply, TypeOK
  <2> QED BY <2>1, <2>2
<1> QED BY <1>1, <1>2, <1>3, <1>4, <1>5, <1>6, <1>7, <1>8, <1>9, <1>10, <1>11, <1>12 DEF Serve

\* A step of r concerns r only, unless it takes the process down.
LEMMA Apart ==
  ASSUME TypeOK, NEW r \in Request, NEW x \in Request \ {r},
         \/ \E u \in User : \/ \E p \in Password : SignupStart(r, u, p) \/ SigninStart(r, u, p)
                            \/ InfoStart(r, u)
         \/ Serve(r) /\ ~ Crash(r)
  PROVE  /\ req'[x] = req[x] /\ ctx'[x] = ctx[x] /\ raced \subseteq raced'
         /\ x \in known' <=> x \in known
         /\ x \in culprits' <=> x \in culprits
<1>1. ASSUME NEW u \in User,
             \/ \E p \in Password : SignupStart(r, u, p) \/ SigninStart(r, u, p)
             \/ InfoStart(r, u)
      PROVE  /\ req'[x] = req[x] /\ ctx'[x] = ctx[x] /\ raced \subseteq raced'
             /\ x \in known' <=> x \in known
             /\ x \in culprits' <=> x \in culprits
  <2>1. \E kind, v, p, pc : Arrive(r, kind, v, p, pc)
    BY <1>1 DEF SignupStart, SigninStart, InfoStart
  <2>2. req'[x] = req[x]
    BY <2>1, ArriveEffect DEF Arrives, Others
  <2>3. ctx'[x] = ctx[x]
    BY <1>1 DEF SignupStart, SigninStart, InfoStart, TypeOK
  <2> QED BY <2>1, <2>2, <2>3 DEF Arrive, cryptVars
<1>2. ASSUME Serve(r), ~ Crash(r)
      PROVE  /\ req'[x] = req[x] /\ ctx'[x] = ctx[x] /\ raced \subseteq raced'
             /\ x \in known' <=> x \in known
             /\ x \in culprits' <=> x \in culprits
  <2>1. Others(r)
    BY <1>2, ServeEffect DEF Serve, Goes, Moves, Answers
  <2>2. ctx'[x] = ctx[x]
    BY <1>2 DEF Serve, CryptBegin, CryptEnd, SignupSql, Insert, SignupDone, Select, SigninRead,
       SigninCompare, Replace, SigninDone, InfoDone, Reply, TypeOK
  <2>3. raced \subseteq raced' /\ known' = known /\ culprits' = culprits
    BY <1>2 DEF Serve, CryptBegin, CryptEnd, SignupSql, Insert, SignupDone, Select, SigninRead,
       SigninCompare, Replace, SigninDone, InfoDone, Reply, cryptVars
  <2> QED BY <2>1, <2>2, <2>3 DEF Others
<1> QED BY <1>1, <1>2

\* What the end of the process leaves of a request.
LEMMA CrashKeeps ==
  ASSUME TypeOK, NEW r \in Request, Crash(r), RequestOK(r), NEW x \in Request, RequestOK(x),
         \A u \in User : tblUser[u] # None => tblUser'[u] = tblUser[u]
  PROVE  RequestOK(x)'
<1>1. Becomes(x, req[x].kind, req[x].user, req[x].pw,
              IF req[x].pc \in {"new", "done"} THEN req[x].pc ELSE "lost",
              req[x].stored, req[x].res, req[x].token, req[x].reply)
  BY CrashEffect DEF Falls
<1>2. /\ ctx'[x] = IF req[x].pc \in {"new", "done"} THEN ctx[x] ELSE "none"
      /\ culprits' = culprits \cup {r} /\ known' = known /\ raced' = raced
      /\ req[r].pc = "selected" /\ req[r].stored = None
  BY DEF Crash, cryptVars
<1> USE <1>1, <1>2, ConstantsAssumption DEF RequestOK, Course, Becomes, Kinds
<1>3. Course(x)' /\ Context(x)'
  BY DEF Context
<1>4. SignupKeeps(x)'
  BY DEF SignupKeeps
<1>5. SigninKeeps(x)'
  BY DEF SigninKeeps
<1>6. KnownKeeps(x)'
  BY DEF KnownKeeps
<1> QED BY <1>3, <1>4, <1>5, <1>6

LEMMA RequestStep ==
  ASSUME TypeOK, CryptAlone, \A x \in Request : RequestOK(x), [Next]_vars, NEW x \in Request
  PROVE  RequestOK(x)'
<1>0. \A u \in User : tblUser[u] # None => tblUser'[u] = tblUser[u]
  BY TableGrows
<1>1. ASSUME NEW r \in Request,
             \/ \E u \in User : \/ \E p \in Password : SignupStart(r, u, p) \/ SigninStart(r, u, p)
                                \/ InfoStart(r, u)
             \/ Serve(r) /\ ~ Crash(r)
      PROVE  RequestOK(x)'
  <2>1. CASE x # r
    <3>1. /\ req'[x] = req[x] /\ ctx'[x] = ctx[x] /\ raced \subseteq raced'
          /\ x \in known' <=> x \in known
          /\ x \in culprits' <=> x \in culprits
      BY <1>1, <2>1, Apart
    <3> QED BY <1>0, <3>1, Bystander
  <2>2. CASE x = r
    BY <1>1, <2>2, OwnStart, OwnServe
  <2> QED BY <2>1, <2>2
<1>2. ASSUME NEW r \in Request, Crash(r) PROVE RequestOK(x)'
  BY <1>0, <1>2, CrashKeeps
<1>3. CASE Tick \/ UNCHANGED vars
  <2>1. req' = req /\ ctx' = ctx /\ raced' = raced /\ known' = known /\ culprits' = culprits
    BY <1>3 DEF Tick, vars, cryptVars
  <2> QED BY <1>0, <2>1, Bystander
<1>4. CASE Next
  BY <1>1, <1>2, <1>3, <1>4 DEF Next
<1> QED BY <1>3, <1>4

-----------------------------------------------------------------------------
LEMMA CryptAloneStep ==
  ASSUME TypeOK, CryptAlone, \A x \in Request : RequestOK(x), [Next]_vars
  PROVE  CryptAlone'
<1>1. ASSUME NEW r \in Request, CryptBegin(r) PROVE CryptAlone'
  <2>1. Goes(r, "crypt", "in crypt")
    BY <1>1, ServeEffect
  <2>2. /\ buf' = buf
        /\ raced' = raced \cup Exposed \cup (IF InCrypt # {} THEN {r} ELSE {})
    BY <1>1 DEF CryptBegin
  <2>3. /\ \A q \in Request \ {r} : req'[q] = req[q]
        /\ req'[r].pc = "in crypt"
    BY <2>1 DEF Goes, Moves, Becomes, Others
  <2>4. ASSUME NEW x \in Request \ raced', x # r
        PROVE  req'[x].pc # "in crypt" /\ req'[x].pc # "use"
    BY <2>2, <2>3, <2>4 DEF Exposed
  <2>5. ASSUME r \notin raced', NEW q \in Request, req'[q].pc = "in crypt" PROVE q = r
    BY <2>2, <2>3, <2>5 DEF InCrypt
  <2> QED BY <2>3, <2>4, <2>5 DEF CryptAlone
<1>2. ASSUME NEW r \in Request, CryptEnd(r) PROVE CryptAlone'
  <2>1. Goes(r, "in crypt", "use")
    BY <1>2, ServeEffect
  <2>2. raced' = raced /\ (r \notin raced => buf' = Enc[req[r].pw])
    BY <1>2 DEF CryptEnd
  <2>3. /\ \A q \in Request \ {r} : req'[q] = req[q]
        /\ req[r].pc = "in crypt" /\ req'[r].pc = "use" /\ req'[r].pw = req[r].pw
    BY <2>1 DEF Goes, Moves, Becomes, Others
  <2>4. ASSUME NEW x \in Request \ raced', x # r
        PROVE  req'[x].pc # "in crypt" /\ req'[x].pc # "use"
    BY <2>2, <2>3, <2>4 DEF CryptAlone
  <2>5. ASSUME r \notin raced'
        PROVE  buf' = Enc[req'[r].pw] /\ \A q \in Request : req'[q].pc # "in crypt"
    BY <2>2, <2>3, <2>5 DEF CryptAlone
  <2> QED BY <2>3, <2>4, <2>5 DEF CryptAlone
<1>3. ASSUME buf' = buf, raced' = raced,
             \A q \in Request : req'[q].pc \in {"in crypt", "use"}
                                  => req'[q].pc = req[q].pc /\ req'[q].pw = req[q].pw
      PROVE  CryptAlone'
  BY <1>3 DEF CryptAlone
<1>4. ASSUME NEW r \in Request,
             \/ \E u \in User : \/ \E p \in Password : SignupStart(r, u, p) \/ SigninStart(r, u, p)
                                \/ InfoStart(r, u)
      PROVE  CryptAlone'
  <2>1. PICK kind, v, p, pc : pc \notin {"in crypt", "use"} /\ Arrive(r, kind, v, p, pc)
    BY <1>4 DEF SignupStart, SigninStart, InfoStart
  <2>2. \A q \in Request : req'[q].pc \in {"in crypt", "use"} => req'[q] = req[q]
    <3>1. Arrives(r, kind, v, p, pc)
      BY <2>1, ArriveEffect
    <3> QED BY <2>1, <3>1 DEF Arrives, Others, Becomes
  <2>3. buf' = buf /\ raced' = raced
    BY <2>1 DEF Arrive, cryptVars
  <2> QED BY <1>3, <2>2, <2>3
<1>5. ASSUME NEW r \in Request, Serve(r), ~ Crash(r), ~ CryptBegin(r), ~ CryptEnd(r)
      PROVE  CryptAlone'
  <2>1. Others(r) /\ req'[r].pc \notin {"in crypt", "use"}
    <3>1. \E from, to, stored, res, token, reply :
            to \notin {"in crypt", "use"} /\ Moves(r, from, to, stored, res, token, reply)
      <4>1. CASE SignupSql(r) \/ Insert(r) \/ SignupDone(r) \/ Select(r)
        BY <4>1, ServeEffect DEF Answers
      <4>2. CASE SigninRead(r) \/ SigninCompare(r) \/ Replace(r)
        BY <4>2, ServeEffect DEF Answers, Goes
      <4>3. CASE SigninDone(r) \/ InfoDone(r) \/ Reply(r)
        BY <4>3, ServeEffect DEF Answers, Goes
      <4> QED BY <1>5, <4>1, <4>2, <4>3 DEF Serve
    <3> QED BY <3>1 DEF Moves, Becomes
  <2>2. buf' = buf /\ raced' = raced
    BY <1>5 DEF Serve, SignupSql, Insert, SignupDone, Select, SigninRead,
       SigninCompare, Replace, SigninDone, InfoDone, Reply, cryptVars
  <2> QED BY <1>3, <2>1, <2>2 DEF Others
<1>6. ASSUME NEW r \in Request, Crash(r) PROVE CryptAlone'
  <2>1. \A q \in Request : req'[q].pc \in {"in crypt", "use"} => FALSE
    BY <1>6, CrashEffect DEF Falls, Becomes
  <2>2. buf' = buf /\ raced' = raced
    BY <1>6 DEF Crash, cryptVars
  <2> QED BY <1>3, <2>1, <2>2
<1>7. CASE Tick \/ UNCHANGED vars
  BY <1>3, <1>7 DEF Tick, vars, cryptVars
<1> QED BY <1>1, <1>2, <1>4, <1>5, <1>6, <1>7 DEF Next

\* No step changes who a request is once it has arrived.
LEMMA OneOwnerStep ==
  ASSUME TypeOK, CryptAlone, \A x \in Request : RequestOK(x), OneOwner, [Next]_vars
  PROVE  OneOwner'
<1>0. \A x \in Request : Course(x) /\ SignupKeeps(x)
  BY DEF RequestOK
<1>1. ASSUME \A q \in Request : req'[q].kind = "signup" /\ req'[q].res = "ok" =>
               /\ req[q].kind = "signup" /\ req[q].res = "ok"
               /\ req'[q].user = req[q].user
      PROVE  OneOwner'
  BY <1>1 DEF OneOwner, Kind
<1>2. ASSUME NEW r \in Request, Insert(r) PROVE OneOwner'
  <2>1. PICK res \in Results :
          /\ Moves(r, "insert", "inserted", req[r].stored, res, req[r].token, req[r].reply)
          /\ \/ /\ tblUser[req[r].user] = None
                /\ tblUser' = [tblUser EXCEPT ![req[r].user] = req[r].stored]
             \/ res # "ok" /\ tblUser' = tblUser
    BY <1>2, ServeEffect
  <2>2. /\ \A q \in Request \ {r} : req'[q] = req[q]
        /\ req'[r].kind = req[r].kind /\ req'[r].user = req[r].user /\ req'[r].res = res
    BY <2>1 DEF Moves, Others, Becomes
  <2>3. CASE res # "ok"
    BY <1>1, <2>2, <2>3
  <2>4. CASE res = "ok"
    <3>1. tblUser[req[r].user] = None
      BY <2>1, <2>4
    <3>2. \A q \in Request : req[q].kind = "signup" /\ req[q].res = "ok"
            => req[q].user # req[r].user
      BY <1>0, <3>1 DEF SignupKeeps
    <3> QED BY <2>2, <3>2 DEF OneOwner, Kind
  <2> QED BY <2>3, <2>4
<1>3. ASSUME NEW r \in Request, NEW kind, NEW v, NEW p, NEW pc, Arrive(r, kind, v, p, pc)
      PROVE  OneOwner'
  <2>1. Arrives(r, kind, v, p, pc)
    BY <1>3, ArriveEffect
  <2>2. req[r].res # "ok"
    BY <1>0, <2>1, ConstantsAssumption DEF Arrives, Course
  <2>3. \A q \in Request \ {r} : req'[q] = req[q]
    BY <2>1 DEF Arrives, Others
  <2>4. req'[r].res = req[r].res
    BY <2>1 DEF Arrives, Becomes
  <2> QED BY <1>1, <2>2, <2>3, <2>4
<1>4. ASSUME NEW r \in Request, Serve(r), ~ Crash(r), ~ Insert(r) PROVE OneOwner'
  <2>1. /\ Others(r)
        /\ req'[r].kind = req[r].kind /\ req'[r].user = req[r].user
        /\ req'[r].res = req[r].res \/ req[r].kind # "signup"
    <3> USE DEF Answers, Goes
    <3>1. CASE \/ CryptBegin(r) \/ CryptEnd(r) \/ SignupDone(r) \/ SigninRead(r)
               \/ SigninDone(r) \/ InfoDone(r) \/ Reply(r)
      BY <3>1, ServeEffect DEF Moves, Becomes
    <3>2. CASE SignupSql(r)
      BY <3>2, ServeEffect DEF Moves, Becomes
    <3>3. CASE SigninCompare(r)
      BY <3>3, ServeEffect DEF Moves, Becomes
    <3>4. CASE Select(r)
      <4>1. req[r].kind # "signup"
        BY <1>0, <3>4 DEF Select, Course
      <4> QED BY <3>4, <4>1, ServeEffect DEF Moves, Becomes
    <3>5. CASE Replace(r)
      <4>1. req[r].kind # "signup"
        BY <1>0, <3>5 DEF Replace, Course
      <4> QED BY <3>5, <4>1, ServeEffect DEF Moves, Becomes
    <3> QED BY <1>4, <3>1, <3>2, <3>3, <3>4, <3>5 DEF Serve
  <2> QED BY <1>1, <2>1 DEF Others
<1>5. ASSUME NEW r \in Request, Crash(r) PROVE OneOwner'
  <2>1. \A q \in Request : /\ req'[q].kind = req[q].kind /\ req'[q].user = req[q].user
                           /\ req'[q].res = req[q].res
    BY <1>5, CrashEffect DEF Falls, Becomes
  <2> QED BY <1>1, <2>1
<1>6. CASE Tick \/ UNCHANGED vars
  BY <1>1, <1>6 DEF Tick, vars
<1> QED BY <1>2, <1>3, <1>4, <1>5, <1>6 DEF Next, SignupStart, SigninStart, InfoStart

\* As far as the token of its user goes, the step of q did not happen.
SameSignin(q) ==
  \/ req'[q] = req[q]
  \/ /\ req[q].pc # "lost"
     /\ ~ (req[q].kind = "signin" /\ Replaced(q))
     /\ ~ (req'[q].kind = "signin" /\ Replaced(q)')
  \/ /\ req[q].pc # "lost"
     /\ req'[q].kind = req[q].kind /\ req'[q].user = req[q].user
     /\ req'[q].res = req[q].res /\ req'[q].token = req[q].token
     /\ Replaced(q) <=> Replaced(q)'

LEMMA SameToken ==
  ASSUME NEW u \in User, TokenOf(u), tblToken'[u] = tblToken[u],
         \A q \in Request : SameSignin(q)
  PROVE  TokenOf(u)'
<1> SUFFICES ASSUME \A r \in Signins(u)' : req'[r].pc # "lost",
                    \A r \in Signins(u)' : Replaced(r)' => req'[r].res # "failed",
                    \E r \in Signins(u)' : Replaced(r)'
             PROVE  \E r \in Signins(u)' : Replaced(r)' /\ req'[r].token = tblToken'[u]
  BY DEF TokenOf
<1>1. ASSUME NEW q \in Signins(u)', Replaced(q)'
      PROVE  /\ q \in Signins(u) /\ Replaced(q)
             /\ req'[q].res = req[q].res /\ req'[q].token = req[q].token
  BY <1>1 DEF SameSignin, Signins, Kind, Replaced
<1>2. ASSUME NEW q \in Signins(u), Replaced(q) PROVE q \in Signins(u)' /\ Replaced(q)'
  BY <1>2 DEF SameSignin, Signins, Kind, Replaced
<1>3. ASSUME NEW q \in Signins(u) PROVE req[q].pc # "lost"
  BY <1>3 DEF SameSignin, Signins, Kind
<1>4. PICK r \in Signins(u) : Replaced(r) /\ req[r].token = tblToken[u]
  BY <1>1, <1>2, <1>3 DEF TokenOf
<1> QED BY <1>1, <1>2, <1>4

LEMMA TokenStep ==
  ASSUME TypeOK, \A x \in Request : RequestOK(x), [Next]_vars, NEW u \in User, TokenOf(u)
  PROVE  TokenOf(u)'
<1>0. \A x \in Request : Course(x)
  BY DEF RequestOK
<1>1. ASSUME NEW r \in Request, NEW kind, NEW v, NEW p, NEW pc, pc \in {"crypt", "select"},
             Arrive(r, kind, v, p, pc)
      PROVE  TokenOf(u)'
  <2>1. Arrives(r, kind, v, p, pc)
    BY <1>1, ArriveEffect
  <2>2. tblToken' = tblToken
    BY <1>1 DEF Arrive, dbVars
  <2>3. req[r].pc = "new" /\ req'[r].pc = pc /\ \A q \in Request \ {r} : req'[q] = req[q]
    BY <2>1 DEF Arrives, Others, Becomes
  <2>4. SameSignin(r)
    BY <1>1, <2>3 DEF SameSignin, Replaced
  <2>5. \A q \in Request \ {r} : SameSignin(q)
    BY <2>3 DEF SameSignin
  <2> QED BY <2>2, <2>4, <2>5, SameToken
<1>2. ASSUME NEW r \in Request, Serve(r), ~ Crash(r), ~ Replace(r) PROVE TokenOf(u)'
  <2>1. Others(r) /\ SameSignin(r)
    <3>1. CASE CryptBegin(r) \/ CryptEnd(r) \/ SigninRead(r)
      <4>1. Others(r) /\ req[r].pc \notin {"replaced", "reply", "done", "lost"}
                      /\ req'[r].pc \notin {"replaced", "reply", "done", "lost"}
        BY <3>1, ServeEffect DEF Goes, Moves, Becomes
      <4> QED BY <4>1 DEF SameSignin, Replaced
    <3>2. CASE SignupSql(r) \/ Insert(r) \/ Select(r)
      <4>1. Others(r) /\ req[r].pc \notin {"replaced", "reply", "done", "lost"}
                      /\ req'[r].pc \notin {"replaced", "reply", "done", "lost"}
        BY <3>2, ServeEffect DEF Moves, Becomes
      <4> QED BY <4>1 DEF SameSignin, Replaced
    <3>3. CASE SignupDone(r) \/ InfoDone(r)
      <4>1. \E reply : Answers(r, req[r].pc, reply)
        BY <3>3, ServeEffect DEF Answers, Moves
      <4>2. req[r].kind # "signin" /\ req[r].pc # "lost"
        BY <1>0, <3>3 DEF SignupDone, InfoDone, Course
      <4>3. Others(r) /\ req'[r].kind = req[r].kind
        BY <4>1 DEF Answers, Moves, Becomes
      <4> QED BY <4>2, <4>3 DEF SameSignin
    <3>4. CASE SigninCompare(r)
      <4>1. \/ Answers(r, "use", "FAIL")
            \/ Moves(r, "use", "replace", req[r].stored, req[r].res, Token(req[r].user),
                     req[r].reply)
        BY <3>4, ServeEffect
      <4>2. /\ Others(r) /\ req[r].pc = "use"
            /\ \/ req'[r].pc = "reply" /\ req'[r].reply = "FAIL"
               \/ req'[r].pc = "replace"
        BY <4>1 DEF Answers, Moves, Becomes
      <4> QED BY <4>2 DEF SameSignin, Replaced
    <3>5. CASE SigninDone(r)
      <4>1. Answers(r, "replaced", "OK")
        BY <3>5, ServeEffect
      <4> QED BY <4>1 DEF Answers, Moves, Becomes, SameSignin, Replaced
    <3>6. CASE Reply(r)
      <4>1. Goes(r, "reply", "done")
        BY <3>6, ServeEffect
      <4> QED BY <4>1 DEF Goes, Moves, Becomes, SameSignin, Replaced
    <3> QED BY <1>2, <3>1, <3>2, <3>3, <3>4, <3>5, <3>6 DEF Serve
  <2>2. tblToken' = tblToken
    BY <1>2 DEF Serve, CryptBegin, CryptEnd, SignupSql, Insert, SignupDone, Select, SigninRead,
       SigninCompare, SigninDone, InfoDone, Reply, dbVars
  <2>3. \A q \in Request \ {r} : SameSignin(q)
    BY <2>1 DEF SameSignin, Others
  <2> QED BY <2>1, <2>2, <2>3, SameToken
<1>3. ASSUME NEW r \in Request, Replace(r) PROVE TokenOf(u)'
  <2>1. PICK res \in {"ok", "failed"} :
          /\ Moves(r, "replace", "replaced", req[r].stored, res, req[r].token, req[r].reply)
          /\ \/ tblToken' = [tblToken EXCEPT ![req[r].user] = req[r].token]
             \/ res = "failed" /\ tblToken' = tblToken
    BY <1>3, ServeEffect
  <2>2. /\ \A q \in Request \ {r} : req'[q] = req[q]
        /\ req[r].pc = "replace" /\ req'[r].pc = "replaced" /\ req'[r].res = res
        /\ req'[r].kind = req[r].kind /\ req'[r].user = req[r].user
        /\ req'[r].token = req[r].token
    BY <2>1 DEF Moves, Others, Becomes
  <2>3. req[r].kind = "signin" /\ tblToken \in [User -> Opt(Tokens)]
    BY <1>0, <2>2 DEF Course, TypeOK
  <2>4. CASE req[r].user = u
    <3>1. r \in Signins(u)' /\ Replaced(r)'
      BY <2>2, <2>3, <2>4 DEF Signins, Kind, Replaced
    <3>2. CASE res = "failed"
      BY <2>2, <3>1, <3>2 DEF TokenOf
    <3>3. CASE res # "failed"
      <4>1. tblToken'[u] = req[r].token
        BY <2>1, <2>3, <2>4, <3>3
      <4> QED BY <2>2, <3>1, <4>1 DEF TokenOf
    <3> QED BY <3>2, <3>3
  <2>5. CASE req[r].user # u
    <3>1. tblToken'[u] = tblToken[u]
      BY <2>1, <2>3, <2>5
    <3>2. /\ Signins(u)' = Signins(u) /\ r \notin Signins(u)
          /\ \A q \in Signins(u) : q \in Request
      BY <2>2, <2>5 DEF Signins, Kind
    <3>3. \A q \in Signins(u) : Replaced(q)' <=> Replaced(q)
      BY <2>2, <3>2 DEF Replaced
    <3> QED BY <2>2, <3>1, <3>2, <3>3 DEF TokenOf
  <2> QED BY <2>4, <2>5
<1>4. ASSUME NEW r \in Request, Crash(r) PROVE TokenOf(u)'
  <2>1. \A q \in Request :
          Becomes(q, req[q].kind, req[q].user, req[q].pw,
                  IF req[q].pc \in {"new", "done"} THEN req[q].pc ELSE "lost",
                  req[q].stored, req[q].res, req[q].token, req[q].reply)
    BY <1>4, CrashEffect DEF Falls
  <2>2. \/ tblToken'[u] = tblToken[u]
        \/ \E q \in Request : req[q].pc = "replace" /\ req[q].user = u
    BY <1>4 DEF Crash, Landed
  <2>3. CASE \E q \in Signins(u) : req[q].pc \notin {"new", "done"}
    <3>1. PICK q \in Signins(u) : req[q].pc \notin {"new", "done"}
      BY <2>3
    <3>2. q \in Signins(u)' /\ req'[q].pc = "lost"
      BY <2>1, <3>1 DEF Signins, Kind, Becomes
    <3> QED BY <3>2 DEF TokenOf
  <2>4. CASE \A q \in Signins(u) : req[q].pc \in {"new", "done"}
    <3>1. tblToken'[u] = tblToken[u]
      BY <1>0, <2>2, <2>4 DEF Course, Signins, Kind
    <3>2. /\ Signins(u)' = Signins(u)
          /\ \A q \in Signins(u) : /\ req'[q].pc = req[q].pc /\ req'[q].res = req[q].res
                                   /\ req'[q].token = req[q].token
                                   /\ req'[q].reply = req[q].reply
      BY <2>1, <2>4 DEF Signins, Kind, Becomes
    <3>3. \A q \in Signins(u) : Replaced(q)' <=> Replaced(q)
      BY <3>2 DEF Replaced
    <3> QED BY <3>1, <3>2, <3>3 DEF TokenOf
  <2> QED BY <2>3, <2>4
<1>5. CASE Tick \/ UNCHANGED vars
  <2>1. req' = req /\ tblToken' = tblToken
    BY <1>5 DEF Tick, vars, dbVars
  <2> QED BY <2>1, SameToken DEF SameSignin
<1> QED BY <1>1, <1>2, <1>3, <1>4, <1>5 DEF Next, SignupStart, SigninStart, InfoStart

-----------------------------------------------------------------------------
(***************************************************************************)
(* The theorems.                                                           *)
(***************************************************************************)
LEMMA InitOK == Init => IInv
<1> SUFFICES ASSUME Init PROVE IInv
  OBVIOUS
<1> USE DEF Init, Fresh
<1>1. TypeOK
  <2>1. Fresh \in Requests
    BY DEF Requests, Pcs, Opt
  <2>2. req \in [Request -> Requests]
    <3>1. req = [r \in Request |-> Fresh]
      OBVIOUS
    <3> HIDE DEF Fresh, Init
    <3> QED BY <2>1, <3>1
  <2>3. tblUser \in [User -> Opt(Ciphers)] /\ tblToken \in [User -> Opt(Tokens)]
    BY DEF Opt, Ciphers
  <2> HIDE DEF Fresh
  <2> QED BY <2>2, <2>3, ConstantsAssumption DEF TypeOK, Ciphers
<1>2. ASSUME NEW r \in Request PROVE RequestOK(r)
  <2>1. /\ req[r].pc = "new" /\ req[r].kind = None /\ req[r].stored = None
        /\ req[r].res = None /\ req[r].reply = None /\ ctx[r] = "none"
    OBVIOUS
  <2>2. known = {} /\ culprits = {}
    OBVIOUS
  <2> HIDE DEF Init, Fresh
  <2> QED BY <2>1, <2>2, ConstantsAssumption
     DEF RequestOK, Course, Context, SignupKeeps, SigninKeeps, KnownKeeps
<1>3. \A r \in Request : req[r].pc = "new" /\ req[r].kind = None
  OBVIOUS
<1>4. CryptAlone
  BY <1>3 DEF CryptAlone
<1>5. OneOwner
  BY <1>3, ConstantsAssumption DEF OneOwner, Kind
<1>6. TokenFromSignin
  BY <1>3, ConstantsAssumption DEF TokenFromSignin, TokenOf, Signins, Kind
<1> QED BY <1>1, <1>2, <1>4, <1>5, <1>6 DEF IInv

\* The inductive invariant holds: what RequestOK, CryptAlone, OneOwner and
\* TokenFromSignin say of the handlers of main.cc survives every step of every
\* request, and the end of the process.
THEOREM Invariance == Spec => []IInv
<1>1. IInv /\ [Next]_vars => IInv'
  <2> SUFFICES ASSUME IInv, [Next]_vars PROVE IInv'
    OBVIOUS
  <2>1. TypeOK /\ CryptAlone /\ OneOwner /\ TokenFromSignin /\ \A r \in Request : RequestOK(r)
    BY DEF IInv
  <2>2. TypeOK' /\ CryptAlone' /\ OneOwner'
    BY <2>1, TypeStep, CryptAloneStep, OneOwnerStep
  <2>3. \A r \in Request : RequestOK(r)'
    BY <2>1, RequestStep
  <2>4. TokenFromSignin'
    BY <2>1, TokenStep DEF TokenFromSignin
  <2> QED BY <2>2, <2>3, <2>4 DEF IInv
<1> QED BY <1>1, InitOK, PTL DEF Spec

\* Every variable holds what the handlers can store in it.
THEOREM AlwaysTypeOK == Spec => []TypeOK
<1>1. IInv => TypeOK
  BY DEF IInv
<1> QED BY <1>1, Invariance, PTL

\* A signup that is answered SUCCESS owns its name, and the table has the
\* encrypted form of its password unless another call of crypt() got in between.
THEOREM AlwaysSignupOwnsName == Spec => []SignupOwnsName
<1>1. IInv => SignupOwnsName
  BY DEF IInv, RequestOK, SignupKeeps, OneOwner, SignupOwnsName, Kind
<1> QED BY <1>1, Invariance, PTL

\* While no two uses of crypt() overlap, a signin is let in exactly if the table
\* has the encrypted form of its password.
THEOREM AlwaysSigninVerdict == Spec => []SigninVerdict
<1>1. IInv => SigninVerdict
  <2> SUFFICES ASSUME IInv, raced = {}, NEW r \in Kind("signin"), req[r].reply # None
               PROVE  (req[r].reply = "OK") = (tblUser[req[r].user] = Enc[req[r].pw])
    BY DEF SigninVerdict
  <2>1. r \in Request /\ req[r].kind = "signin" /\ r \notin raced
    BY DEF Kind
  <2>2. req[r].reply \in {"OK", "FAIL", "SUCCESS"}
    <3>1. req \in [Request -> Requests]
      BY DEF IInv, TypeOK
    <3>2. req[r].reply \in Opt(Replies)
      BY <2>1, <3>1 DEF Requests
    <3> QED BY <3>2 DEF Opt, Replies
  <2>3. SigninKeeps(r)
    BY <2>1 DEF IInv, RequestOK
  <2> QED BY <2>1, <2>2, <2>3 DEF SigninKeeps
<1> QED BY <1>1, Invariance, PTL

\* The context of a signin is there for every callback of the series and gone
\* after it.
THEOREM AlwaysContextAlive == Spec => []ContextAlive
<1>1. IInv => ContextAlive
  BY DEF IInv, RequestOK, Context, ContextAlive
<1> QED BY <1>1, Invariance, PTL

\* A user who was in the table does not end the process with a query that worked.
THEOREM AlwaysKnownUserSafe == Spec => []KnownUserSafe
<1>1. IInv => KnownUserSafe
  BY DEF IInv, TypeOK, RequestOK, KnownKeeps, KnownUserSafe
<1> QED BY <1>1, Invariance, PTL

\* When the signins of a user are over and none of their tasks failed, the token
\* in the table is one that a client was told.
THEOREM AlwaysTokenKnown == Spec => []TokenKnown
<1>1. IInv => TokenKnown
  <2> SUFFICES ASSUME IInv, NEW u \in User,
                      \A r \in Signins(u) : req[r].pc = "done" /\ req[r].res # "failed",
                      \E r \in Signins(u) : req[r].reply = "OK"
               PROVE  \E r \in Signins(u) : req[r].reply = "OK" /\ req[r].token = tblToken[u]
    BY DEF TokenKnown
  <2>1. \A r \in Signins(u) : Replaced(r) <=> req[r].reply = "OK"
    BY DEF Replaced
  <2> QED BY <2>1 DEF IInv, TokenFromSignin, TokenOf
<1> QED BY <1>1, Invariance, PTL
=============================================================================
