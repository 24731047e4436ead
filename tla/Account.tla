------------------------------ MODULE Account ------------------------------
(***************************************************************************)
(* The account side of the cloud disk, day12/project/main.cc: the routes   *)
(* POST /user/signup, /user/signin and /user/info.                         *)
(*                                                                         *)
(* Handlers and the callbacks of MySQL tasks run concurrently in the       *)
(* threads of the server.  Both signup and signin call crypt(), which      *)
(* returns a pointer to one static buffer and is not reentrant: the call,  *)
(* and the use of what it returned, are steps of their own here.  So are   *)
(* what the database does for a task and the callback that sees the        *)
(* result.                                                                 *)
(***************************************************************************)
EXTENDS Naturals

CONSTANTS
  Request,     \* requests to the three routes
  User,        \* user names
  Password,    \* passwords
  Cipher,      \* results of crypt()
  Enc,         \* crypt() with the one salt of the program, run alone
  Garbage,     \* what else a reader of the static buffer may see
  Seconds,     \* after how many seconds the time in a token repeats
  Faults,      \* what may go wrong: "mysql"
  None

ASSUME ConstantsAssumption ==
  /\ Enc \in [Password -> Cipher]
  /\ Garbage \notin Cipher
  /\ None \notin Cipher \cup {Garbage}
  /\ None \notin {"signup", "signin", "info", "ok", "failed", "SUCCESS", "FAIL", "OK"}
  /\ Seconds \in Nat \ {0}

VARIABLES
  req,         \* the requests
  ctx,         \* the UserInfo that signin hangs into its series
  buf,         \* the static buffer of crypt()
  raced,       \* requests whose result of crypt() another call touched
  tblUser,     \* tbl_user: the user_pwd of a user_name
  tblToken,    \* tbl_user_token: the user_token of a user_name
  clock,       \* time(NULL), as far as a token shows it
  \* History, for the properties only.
  known,       \* requests that came when their user was in tbl_user
  culprits     \* requests that took the process down

dbVars == <<tblUser, tblToken>>
cryptVars == <<buf, raced>>
vars == <<req, ctx, cryptVars, dbVars, clock, known, culprits>>

MayFail(what) == what \in Faults

\* stored: the user_pwd that signup sends or that signin and info get;
\* res: what its last MySQL task came back with; only signup looks at it.
Fresh == [pc |-> "new", kind |-> None, user |-> None, pw |-> None,
          stored |-> None, res |-> None, token |-> None, reply |-> None]

Init ==
  /\ req = [r \in Request |-> Fresh]
  /\ ctx = [r \in Request |-> "none"]
  /\ buf = Garbage
  /\ raced = {}
  /\ tblUser \in [User -> Cipher \cup {None}]  \* of earlier runs of the server
  /\ tblToken = [u \in User |-> None]
  /\ clock = 0
  /\ known = {}
  /\ culprits = {}

Goto(r, pc) == req' = [req EXCEPT ![r].pc = pc]

\* The request arrives, and its handler runs to its first blocking point.
Arrive(r, kind, u, p, pc) ==
  /\ req[r].pc = "new"
  /\ req' = [req EXCEPT ![r].pc = pc, ![r].kind = kind, ![r].user = u, ![r].pw = p]
  /\ known' = IF tblUser[u] # None THEN known \cup {r} ELSE known
  /\ UNCHANGED <<cryptVars, dbVars, clock, culprits>>

(***************************************************************************)
(* crypt(): one computation in static storage.                             *)
(***************************************************************************)
InCrypt == {q \in Request : req[q].pc = "in crypt"}

\* Requests in crypt(), or with a pointer into the buffer still to be read.
Exposed == {q \in Request : req[q].pc \in {"in crypt", "use"}}

\* Mutant: crypt() under a lock that signup never gives back.
CryptBeginLocked(r) ==
  /\ req[r].pc = "crypt"
  /\ \A q \in Request \ {r} : req[q].kind = "signup" => req[q].pc = "crypt"
  /\ raced' = raced \cup Exposed \cup (IF InCrypt # {} THEN {r} ELSE {})
  /\ Goto(r, "in crypt")
  /\ UNCHANGED <<ctx, buf, dbVars, clock, known, culprits>>

CryptBegin(r) ==
  /\ req[r].pc = "crypt"
  /\ raced' = raced \cup Exposed \cup (IF InCrypt # {} THEN {r} ELSE {})
  /\ Goto(r, "in crypt")
  /\ UNCHANGED <<ctx, buf, dbVars, clock, known, culprits>>

CryptEnd(r) ==
  /\ req[r].pc = "in crypt"
  /\ IF r \in raced THEN buf' \in Cipher \cup {Garbage} ELSE buf' = Enc[req[r].pw]
  /\ Goto(r, "use")
  /\ UNCHANGED <<ctx, raced, dbVars, clock, known, culprits>>

\* What a thread may see through the pointer that crypt() returned.
Seen == IF InCrypt = {} THEN {buf} ELSE Cipher \cup {Garbage}

(***************************************************************************)
(* POST /user/signup.                                                      *)
(***************************************************************************)
SignupStart(r, u, p) == Arrive(r, "signup", u, p, "crypt") /\ UNCHANGED ctx

\* The text of the INSERT is put together, and the task queued.
SignupSql(r) ==
  /\ req[r].pc = "use" /\ req[r].kind = "signup"
  /\ \E c \in Seen : req' = [req EXCEPT ![r].stored = c, ![r].pc = "insert"]
  /\ UNCHANGED <<ctx, cryptVars, dbVars, clock, known, culprits>>

\* The database inserts the row, or rejects a name that it has; a task may also
\* fail, before or after that.
Insert(r) ==
  /\ req[r].pc = "insert"
  /\ LET isNew == tblUser[req[r].user] = None
     IN  \E res \in {IF isNew THEN "ok" ELSE "error"}
                      \cup (IF MayFail("mysql") THEN {"failed"} ELSE {}) :
           /\ req' = [req EXCEPT ![r].res = res, ![r].pc = "inserted"]
           /\ \/ /\ isNew
                 /\ tblUser' = [tblUser EXCEPT ![req[r].user] = req[r].stored]
              \/ res # "ok" /\ UNCHANGED tblUser
  /\ UNCHANGED <<ctx, cryptVars, tblToken, clock, known, culprits>>

\* Mutant: an error packet is not told from success.
SignupReplyState(res) == IF res = "failed" THEN "FAIL" ELSE "SUCCESS"

\* The body appended for the outcome of the task.
SignupReply(res) == IF res = "ok" THEN "SUCCESS" ELSE "FAIL"

SignupDone(r) ==
  /\ req[r].pc = "inserted"
  /\ req' = [req EXCEPT ![r].reply = SignupReply(req[r].res), ![r].pc = "reply"]
  /\ UNCHANGED <<ctx, cryptVars, dbVars, clock, known, culprits>>

(***************************************************************************)
(* POST /user/signin.                                                      *)
(***************************************************************************)
SigninStart(r, u, p) ==
  /\ Arrive(r, "signin", u, p, "select")
  /\ ctx' = [ctx EXCEPT ![r] = "live"]

\* Mutant: the query asks for the password, too.
SelectWithPassword(r) ==
  /\ req[r].pc = "select"
  /\ req' = [req EXCEPT ![r].pc = "selected",
                        ![r].stored = IF /\ req[r].pw # None
                                         /\ tblUser[req[r].user] # Enc[req[r].pw]
                                      THEN None ELSE tblUser[req[r].user],
                        ![r].res = "ok"]
  /\ UNCHANGED <<ctx, cryptVars, dbVars, clock, known, culprits>>

\* The database answers the SELECT of signin or of info with a row or none; when
\* the task fails there is none.
Select(r) ==
  /\ req[r].pc = "select"
  /\ \/ req' = [req EXCEPT ![r].stored = tblUser[req[r].user], ![r].res = "ok",
                           ![r].pc = "selected"]
     \/ /\ MayFail("mysql")
        /\ req' = [req EXCEPT ![r].res = "failed", ![r].pc = "selected"]
  /\ UNCHANGED <<ctx, cryptVars, dbVars, clock, known, culprits>>

Tokens == [user : User, at : 0 .. Seconds - 1]

\* What the MySQL tasks under way may make of the tables when nobody waits for
\* them any more.
Landed ==
  /\ tblUser' \in {t \in [User -> Cipher \cup {Garbage, None}] : \A u \in User :
       \/ t[u] = tblUser[u]
       \/ /\ tblUser[u] = None
          /\ \E q \in Request : req[q].pc = "insert" /\ req[q].user = u /\ t[u] = req[q].stored}
  /\ tblToken' \in {t \in [User -> Tokens \cup {None}] : \A u \in User :
       \/ t[u] = tblToken[u]
       \/ \E q \in Request : req[q].pc = "replace" /\ req[q].user = u /\ t[u] = req[q].token}

\* Both callbacks take rows[0] without asking whether there is one: the process
\* ends, with every request in it; INSERTs and REPLACEs on their way may still
\* take effect.
Crash(r) ==
  /\ req[r].pc = "selected"
  /\ req[r].stored = None
  /\ req' = [q \in Request |-> IF req[q].pc \in {"new", "done"} THEN req[q]
                               ELSE [req[q] EXCEPT !.pc = "lost"]]
  /\ ctx' = [q \in Request |-> IF req[q].pc \in {"new", "done"} THEN ctx[q] ELSE "none"]
  /\ culprits' = culprits \cup {r}
  /\ Landed
  /\ UNCHANGED <<cryptVars, clock, known>>

SigninRead(r) ==
  /\ req[r].pc = "selected" /\ req[r].kind = "signin"
  /\ req[r].stored # None
  /\ Goto(r, "crypt")
  /\ UNCHANGED <<ctx, cryptVars, dbVars, clock, known, culprits>>

\* The token is the user name, hashed with the salt, and the time.
Token(u) == [user |-> u, at |-> clock]

\* Mutant: a refused signin deletes the context at once.
SigninCompareDeletes(r) ==
  /\ req[r].pc = "use" /\ req[r].kind = "signin"
  /\ \E c \in Seen :
       IF c # req[r].stored
       THEN /\ req' = [req EXCEPT ![r].reply = "FAIL", ![r].pc = "reply"]
            /\ ctx' = [ctx EXCEPT ![r] = "freed"]
       ELSE /\ req' = [req EXCEPT ![r].token = Token(req[r].user), ![r].pc = "replace"]
            /\ UNCHANGED ctx
  /\ UNCHANGED <<cryptVars, dbVars, clock, known, culprits>>

\* Mutant: the two branches of strcmp are swapped.
SigninCompareSwapped(r) ==
  /\ req[r].pc = "use" /\ req[r].kind = "signin"
  /\ \E c \in Seen :
       req' = IF c = req[r].stored
              THEN [req EXCEPT ![r].reply = "FAIL", ![r].pc = "reply"]
              ELSE [req EXCEPT ![r].token = Token(req[r].user), ![r].pc = "replace"]
  /\ UNCHANGED <<ctx, cryptVars, dbVars, clock, known, culprits>>

\* strcmp with what crypt() left; on a match the token is made and the second
\* task queued.
SigninCompare(r) ==
  /\ req[r].pc = "use" /\ req[r].kind = "signin"
  /\ \E c \in Seen :
       req' = IF c # req[r].stored
              THEN [req EXCEPT ![r].reply = "FAIL", ![r].pc = "reply"]
              ELSE [req EXCEPT ![r].token = Token(req[r].user), ![r].pc = "replace"]
  /\ UNCHANGED <<ctx, cryptVars, dbVars, clock, known, culprits>>

\* The database replaces the token of the user.
Replace(r) ==
  /\ req[r].pc = "replace"
  /\ \E res \in {"ok"} \cup (IF MayFail("mysql") THEN {"failed"} ELSE {}) :
       /\ req' = [req EXCEPT ![r].res = res, ![r].pc = "replaced"]
       /\ \/ tblToken' = [tblToken EXCEPT ![req[r].user] = req[r].token]
          \/ res = "failed" /\ UNCHANGED tblToken
  /\ UNCHANGED <<ctx, cryptVars, tblUser, clock, known, culprits>>

\* Mutant: the token is made anew for the answer.
SigninDoneNewToken(r) ==
  /\ req[r].pc = "replaced"
  /\ req' = [req EXCEPT ![r].token = Token(req[r].user), ![r].reply = "OK", ![r].pc = "reply"]
  /\ UNCHANGED <<ctx, cryptVars, dbVars, clock, known, culprits>>

\* The answer carries the token, whatever became of the REPLACE.
SigninDone(r) ==
  /\ req[r].pc = "replaced"
  /\ req' = [req EXCEPT ![r].reply = "OK", ![r].pc = "reply"]
  /\ UNCHANGED <<ctx, cryptVars, dbVars, clock, known, culprits>>

(***************************************************************************)
(* POST /user/info.                                                        *)
(***************************************************************************)
InfoStart(r, u) == Arrive(r, "info", u, None, "select") /\ UNCHANGED ctx

InfoDone(r) ==
  /\ req[r].pc = "selected" /\ req[r].kind = "info"
  /\ req[r].stored # None
  /\ req' = [req EXCEPT ![r].reply = "OK", ![r].pc = "reply"]
  /\ UNCHANGED <<ctx, cryptVars, dbVars, clock, known, culprits>>

\* The series is through: the answer is sent, then the callback of the series
\* deletes the context.
Reply(r) ==
  /\ req[r].pc = "reply"
  /\ ctx' = [ctx EXCEPT ![r] = IF @ = "live" THEN "freed" ELSE @]
  /\ Goto(r, "done")
  /\ UNCHANGED <<cryptVars, dbVars, clock, known, culprits>>

\* A second passes; the token shows the day of the month, hour, minute, second.
Tick ==
  /\ clock' = (clock + 1) % Seconds
  /\ UNCHANGED <<req, ctx, cryptVars, dbVars, known, culprits>>

\* The steps of a request once it has arrived.
Serve(r) ==
  \/ CryptBegin(r) \/ CryptEnd(r)
  \/ SignupSql(r) \/ Insert(r) \/ SignupDone(r)
  \/ Select(r) \/ Crash(r)
  \/ SigninRead(r) \/ SigninCompare(r) \/ Replace(r) \/ SigninDone(r)
  \/ InfoDone(r)
  \/ Reply(r)

Next ==
  \/ \E r \in Request, u \in User, p \in Password : SignupStart(r, u, p)
  \/ \E r \in Request, u \in User, p \in Password : SigninStart(r, u, p)
  \/ \E r \in Request, u \in User : InfoStart(r, u)
  \/ \E r \in Request : Serve(r)
  \/ Tick

Spec == Init /\ [][Next]_vars

\* The threads of the server and the MySQL tasks get on.
FairSpec == Spec /\ \A r \in Request : WF_vars(Serve(r))

-----------------------------------------------------------------------------
(***************************************************************************)
(* Properties.                                                             *)
(***************************************************************************)
Kind(k) == {r \in Request : req[r].kind = k}

\* A signup that is answered SUCCESS owns the name: no other signup of that name
\* is, and the table has the encrypted form of the password it sent, unless
\* another call of crypt() touched the static buffer before it was read.
SignupOwnsName ==
  \A r \in Kind("signup") : req[r].reply = "SUCCESS" =>
    /\ \A q \in Kind("signup") :
         q # r /\ req[q].user = req[r].user => req[q].reply # "SUCCESS"
    /\ r \notin raced => tblUser[req[r].user] = Enc[req[r].pw]

\* As long as no two uses of crypt() overlap, a signin is let in exactly if the
\* table has the encrypted form of its password for the name, whatever else is
\* going on between the query, the comparison and the answer.
SigninVerdict ==
  raced = {} =>
    \A r \in Kind("signin") : req[r].reply # None =>
      (req[r].reply = "OK") = (tblUser[req[r].user] = Enc[req[r].pw])

\* The context of a signin lives for as long as a callback may use it, and it is
\* gone when the series is.
ContextAlive ==
  \A r \in Request :
    ctx[r] = IF req[r].kind # "signin" \/ req[r].pc = "lost" THEN "none"
             ELSE IF req[r].pc = "done" THEN "freed" ELSE "live"

\* A signin or info of a user who was in the table when the request arrived does
\* not end the process, unless its query failed.
KnownUserSafe == \A r \in culprits \cap known : req[r].res = "failed"

Signins(u) == {r \in Kind("signin") : req[r].user = u}

\* When the signins of a user are over and no task of theirs failed, the token
\* in the table is one that a client was told, in whatever order the REPLACEs
\* came, and also if the process went down before or in between.
TokenKnown ==
  \A u \in User :
    /\ \A r \in Signins(u) : req[r].pc = "done" /\ req[r].res # "failed"
    /\ \E r \in Signins(u) : req[r].reply = "OK"
    => \E r \in Signins(u) : req[r].reply = "OK" /\ req[r].token = tblToken[u]

\* Every request that arrives is answered, or lost with the process.
RequestsEnd ==
  \A r \in Request : req[r].pc # "new" ~> req[r].pc \in {"done", "lost"}
=============================================================================
