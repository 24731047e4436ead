----------------------------- MODULE PushStream -----------------------------
(***************************************************************************)
(* Push implements ChunkStream, if the client disregards bytes sent again  *)
(* and bytes from before the buffer.                                       *)
(***************************************************************************)
EXTENDS Push, FiniteSets

\* The bytes of bodies in w, in the order in which they come for the first time.
Fresh(w, i) == w[i].pos > 0 /\ \A j \in 1 .. i-1 : w[j] # w[i]
FirstBytes(w) ==
  LET upto[i \in 0 .. Len(w)] ==
        IF i = 0 THEN <<>>
        ELSE upto[i-1] \o (IF Fresh(w, i) THEN <<w[i]>> ELSE <<>>)
  IN  upto[Len(w)]

Arrived == FirstBytes(wire)

\* The number of bytes of the last body that have not been sent.
Sent(k, p) == \E i \in 1 .. Len(wire) : wire[i] = [body |-> k, pos |-> p]
Outstanding ==
  LET k == Len(bodies)
  IN  IF k = 0 THEN 0 ELSE Cardinality({p \in 1 .. bodies[k] : ~Sent(k, p)})

\* The bytes of the bodies reach the client as ChunkStream says, however the
\* writes are cut, refused and retried and whenever signals come: none is lost
\* or overtaken by a later body, and the stream ends between two bodies.
Stream == INSTANCE ChunkStream WITH
  left <- Outstanding, arrived <- Arrived, open <- pc # "ended"
StreamSpec == Stream!Spec
=============================================================================
