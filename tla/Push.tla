-------------------------------- MODULE Push --------------------------------
(***************************************************************************)
(* Server push of wfrest, HttpResp::Push in core/HttpMsg.cc.               *)
(*                                                                         *)
(* The handler sends the header of the response itself and leaves a named  *)
(* conditional in the series of the request.  Each time the application    *)
(* signals the name, push_func asks it for a body, writes as much of the   *)
(* chunk as the socket takes, puts a timer that retries the rest in FRONT  *)
(* of the series and appends the next conditional to it.                   *)
(*                                                                         *)
(* A chunk is its length, framing included, and a byte of the wire is      *)
(* identified with the number of the chunk and the position it was read    *)
(* from; a position below 1 is memory before the buffer.                   *)
(***************************************************************************)
EXTENDS Integers, Sequences

CONSTANTS
  BodyLen,     \* lengths a chunk may have, framing included
  HeaderLen,   \* length of the header
  SizeT,       \* a size_t holds 0 .. SizeT-1
  MaxBodies,   \* bound: bodies the application signals before it stops the server
  MaxRefused,  \* bound: writes that fail
  Faults       \* what may go wrong: "header", "refuse", "peer"

ASSUME ConstantsAssumption ==
  /\ BodyLen \subseteq Nat \ {0}
  /\ HeaderLen \in Nat
  /\ SizeT \in Nat \ {0}
  /\ MaxBodies \in Nat
  /\ MaxRefused \in Nat
  /\ \A n \in BodyLen : n + MaxRefused < SizeT

VARIABLES
  pc,          \* what the series is at
  keepAlive,   \* is_keep_alive() of the request
  closeFlag,   \* close_flag_ of the server
  peer,        \* the client still reads
  cond,        \* the conditional with the name of the stream
  nleft,       \* nleft of the PushChunkData, 0 if there is none
  bodies,      \* the chunks made so far
  header,      \* bytes of the header that were sent
  wire,        \* the bytes of chunks that were sent
  refused      \* History: writes that failed

vars == <<pc, keepAlive, closeFlag, peer, cond, nleft, bodies, header, wire, refused>>

MayFail(what) == what \in Faults

Init ==
  /\ pc = "new"
  /\ keepAlive \in BOOLEAN
  /\ closeFlag = FALSE
  /\ peer = TRUE
  /\ cond = "none"
  /\ nleft = 0
  /\ bodies = <<>>
  /\ header = 0
  /\ wire = <<>>
  /\ refused = 0

\* Push: what server_task->push() says of the header is not looked at.
Push ==
  /\ pc = "new"
  /\ header' \in IF MayFail("header") THEN 0 .. HeaderLen ELSE {HeaderLen}
  /\ cond' = "waiting"
  /\ pc' = "cond"
  /\ UNCHANGED <<keepAlive, closeFlag, peer, nleft, bodies, wire, refused>>

\* sse_signal.  A conditional can be signalled as soon as it is created, also
\* while it is still queued; without one the signal is lost.
Signal ==
  /\ cond = "waiting"
  /\ Len(bodies) < MaxBodies \/ closeFlag
  /\ cond' = "signalled"
  /\ UNCHANGED <<pc, keepAlive, closeFlag, peer, nleft, bodies, header, wire, refused>>

\* The conditional is over and hands over to the timer of 0 seconds it wraps.
CondDone ==
  /\ pc = "cond"
  /\ cond = "signalled"
  /\ cond' = "none"
  /\ pc' = "push"
  /\ UNCHANGED <<keepAlive, closeFlag, peer, nleft, bodies, header, wire, refused>>

\* What server_task->push() of n bytes may return.
PushResults(n) ==
  (IF peer THEN 1 .. n ELSE {}) \cup
  (IF ~peer \/ MayFail("refuse") THEN {-1} ELSE {})

\* Mutant: the difference is not that of size_t.
MinusWide(n, result) == n - (result % SizeT)

\* nleft - nwritten.  nwritten is a size_t: -1 is its largest value, the test
\* nwritten >= 0 holds for it too, and the branches for errno are dead.
Minus(n, result) == (n - (result % SizeT)) % SizeT

\* Mutant: the rest is not kept for a retry.
WriteForgets(k, n, result) ==
  LET pos == bodies'[k] - n
      sent == IF result = -1 THEN 0 ELSE result
  IN  /\ wire' = wire \o [i \in 1 .. sent |-> [body |-> k, pos |-> pos + i]]
      /\ nleft' = 0
      /\ pc' = "cond"
      /\ refused' = refused + (IF result = -1 THEN 1 ELSE 0)
      /\ refused' <= MaxRefused

\* Mutant: the retry starts at the beginning of the data.
WriteFromStart(k, n, result) ==
  LET sent == IF result = -1 THEN 0 ELSE result
  IN  /\ wire' = wire \o [i \in 1 .. sent |-> [body |-> k, pos |-> i]]
      /\ nleft' = Minus(n, result)
      /\ pc' = IF nleft' > 0 THEN "retry" ELSE "cond"
      /\ refused' = refused + (IF result = -1 THEN 1 ELSE 0)
      /\ refused' <= MaxRefused

\* Write the last n bytes of chunk k.
Write(k, n, result) ==
  LET pos == bodies'[k] - n
      sent == IF result = -1 THEN 0 ELSE result
  IN  /\ wire' = wire \o [i \in 1 .. sent |-> [body |-> k, pos |-> pos + i]]
      /\ nleft' = Minus(n, result)
      /\ pc' = IF nleft' > 0 THEN "retry" ELSE "cond"
      /\ refused' = refused + (IF result = -1 THEN 1 ELSE 0)
      /\ refused' <= MaxRefused

\* Mutant: close_flag is not looked at.
PushFuncClosesNever ==
  /\ pc = "push"
  /\ ~keepAlive
  /\ pc' = "reply"
  /\ UNCHANGED <<keepAlive, closeFlag, peer, cond, nleft, bodies, header, wire, refused>>

\* push_func: nothing is queued, and the series comes to its end.
PushFuncCloses ==
  /\ pc = "push"
  /\ ~keepAlive \/ closeFlag
  /\ pc' = "reply"
  /\ UNCHANGED <<keepAlive, closeFlag, peer, cond, nleft, bodies, header, wire, refused>>

\* push_func: body(), the first write, and the next conditional.
PushFunc ==
  /\ pc = "push"
  /\ keepAlive /\ ~closeFlag
  /\ \E len \in BodyLen :
       /\ bodies' = Append(bodies, len)
       /\ \E result \in PushResults(len) : Write(Len(bodies'), len, result)
  /\ cond' = "waiting"
  /\ UNCHANGED <<keepAlive, closeFlag, peer, header>>

\* Mutant: the conditional is created again.
PushRetryRearms(result) ==
  /\ pc = "retry"
  /\ UNCHANGED bodies
  /\ Write(Len(bodies), nleft, result)
  /\ cond' = "waiting"
  /\ UNCHANGED <<keepAlive, closeFlag, peer, header>>

\* push_retry_callback.
PushRetry(result) ==
  /\ pc = "retry"
  /\ UNCHANGED bodies
  /\ Write(Len(bodies), nleft, result)
  /\ UNCHANGED <<keepAlive, closeFlag, peer, cond, header>>

Retry == \E result \in PushResults(nleft) : PushRetry(result)

\* The last task of the series: noreply, the connection is shut down and the
\* callback deletes the PushTaskCtx.
Finish ==
  /\ pc = "reply"
  /\ pc' = "ended"
  /\ UNCHANGED <<keepAlive, closeFlag, peer, cond, nleft, bodies, header, wire, refused>>

\* HttpServer::stop sets the flag; nothing signals the conditional.
Stop ==
  /\ ~closeFlag
  /\ closeFlag' = TRUE
  /\ UNCHANGED <<pc, keepAlive, peer, cond, nleft, bodies, header, wire, refused>>

PeerLeaves ==
  /\ MayFail("peer")
  /\ peer
  /\ peer' = FALSE
  /\ UNCHANGED <<pc, keepAlive, closeFlag, cond, nleft, bodies, header, wire, refused>>

Next ==
  \/ Push \/ Signal \/ CondDone \/ PushFunc \/ PushFuncCloses \/ Retry \/ Finish
  \/ Stop \/ PeerLeaves

Spec == Init /\ [][Next]_vars

\* Workflow runs the tasks of a series, and a client that reads makes room in the
\* socket.  The application need not signal.
Fairness ==
  /\ WF_vars(CondDone) /\ WF_vars(PushFunc) /\ WF_vars(PushFuncCloses)
  /\ WF_vars(\E result \in PushResults(nleft) \ {-1} : PushRetry(result))
  /\ WF_vars(Finish)

FairSpec == Spec /\ Fairness

-----------------------------------------------------------------------------
(***************************************************************************)
(* Properties.                                                             *)
(***************************************************************************)
\* Every variable holds what the code can store in it.
TypeOK ==
  /\ pc \in {"new", "cond", "push", "retry", "reply", "ended"}
  /\ keepAlive \in BOOLEAN /\ closeFlag \in BOOLEAN /\ peer \in BOOLEAN
  /\ cond \in {"none", "waiting", "signalled"}
  /\ nleft \in 0 .. SizeT-1
  /\ bodies \in Seq(BodyLen)
  /\ header \in 0 .. HeaderLen
  /\ wire \in Seq([body : Nat \ {0}, pos : Int])
  /\ refused \in 0 .. MaxRefused

\* The length of the first k chunks together.
Total(k) == LET sum[i \in 0 .. k] == IF i = 0 THEN 0 ELSE bodies[i] + sum[i-1]
            IN  sum[k]

\* A refused write, which moves the reader one byte back instead of leaving it
\* where it is, costs exactly one byte too many: what is on the wire and what is
\* still to be written differ from the chunks made by the writes refused.
RefusalCostsAByte == Len(wire) + nleft = Total(Len(bodies)) + refused

\* A signal that finds the conditional makes a body, also while the last one is
\* still being sent, unless the stream ends or the client is gone.
SignalServed ==
  \A k \in 0 .. MaxBodies-1 :
    cond = "signalled" /\ Len(bodies) = k
      ~> Len(bodies) > k \/ pc = "ended" \/ ~peer

\* Once the server is being stopped, the next signal ends the stream, if the
\* client is still there.
StopEnds == closeFlag /\ cond = "signalled" ~> pc = "ended" \/ ~peer

\* What the comment in push_retry_callback and the documentation say: when the
\* PushChunkData is deleted its data has been sent, as chunks and nothing else.
SentIsTheData ==
  nleft = 0 => \A i \in DOMAIN wire, j \in DOMAIN wire :
    wire[i].pos > 0 /\ (i # j => wire[i] # wire[j])
=============================================================================
