----------------------------- MODULE MCMUpload -----------------------------
(***************************************************************************)
(* Instances of MUpload for TLC.  ChunkSize is 2 and IntHalf 4.            *)
(***************************************************************************)
EXTENDS MUpload, TLC

CONSTANTS h1, h2

\* A file of two chunks and one of one chunk.
SmallFiles == (h1 :> 3) @@ (h2 :> 2)

\* A file of two chunks, and one of five whose size is 1 as an int.
WrappingFiles == (h1 :> 3) @@ (h2 :> 9)

\* A file of two chunks alone.
TwoChunkFile == h1 :> 3

\* No definition of MUpload tells one client from another.
Symmetry == Permutations(Client)
=============================================================================
