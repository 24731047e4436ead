----------------------------- MODULE MCAccount -----------------------------
(***************************************************************************)
(* Instances of Account for TLC.                                           *)
(***************************************************************************)
EXTENDS Account, TLC

CONSTANTS p1, p2, p3, c1, c2

\* Two passwords with one encrypted form: the salt of the program chooses the
\* traditional crypt(), which looks at eight characters.
ShortCrypt == [p \in Password |-> IF p \in {p1, p2} THEN c1 ELSE c2]

Symmetry == Permutations(Request) \cup Permutations(User)
=============================================================================
