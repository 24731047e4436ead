---------------------------- MODULE ChunkStream ----------------------------
(***************************************************************************)
(* What HttpResp::Push promises to the client of a pushed stream: the      *)
(* bodies arrive one after the other, the next one is made only when the   *)
(* last one has arrived, and the stream ends between two bodies.           *)
(*                                                                         *)
(* A body is its length.  A byte is identified with the number of its body *)
(* and its position there.                                                 *)
(***************************************************************************)
EXTENDS Naturals, Sequences

CONSTANT BodyLen   \* lengths of a body, the framing of a chunk included

VARIABLES
  bodies,    \* the bodies made so far
  left,      \* bytes of the last body that have not arrived
  arrived,   \* the bytes the client has
  open       \* the stream may go on

vars == <<bodies, left, arrived, open>>

Bytes(k, a, b) == [i \in 1 .. b - a |-> [body |-> k, pos |-> a + i]]

Init == bodies = <<>> /\ left = 0 /\ arrived = <<>> /\ open = TRUE

\* A body is made, and the first part of it arrives at once.
Make(len) ==
  /\ open
  /\ left = 0
  /\ bodies' = Append(bodies, len)
  /\ left' \in 0 .. len
  /\ arrived' = arrived \o Bytes(Len(bodies'), 0, len - left')
  /\ UNCHANGED open

\* More of the last body arrives.
Arrive ==
  /\ left' \in 0 .. left - 1
  /\ LET len == bodies[Len(bodies)]
     IN  arrived' = arrived \o Bytes(Len(bodies), len - left, len - left')
  /\ UNCHANGED <<bodies, open>>

Close ==
  /\ open
  /\ left = 0
  /\ open' = FALSE
  /\ UNCHANGED <<bodies, left, arrived>>

Next == (\E len \in BodyLen : Make(len)) \/ Arrive \/ Close

Spec == Init /\ [][Next]_vars
=============================================================================
