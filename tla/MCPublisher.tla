---------------------------- MODULE MCPublisher ----------------------------
(***************************************************************************)
(* Values that the configurations give to the constants of Publisher.      *)
(***************************************************************************)
EXTENDS Publisher, TLC

CONSTANTS g1, g2, s1, s2, u1, u2, i1, i2, h1, h2, h3

(* h1 and h3 are the first thread's, h2 the second one's. *)
Owners == [h \in Handles |-> IF h = h2 THEN u2 ELSE u1]

Symmetry == Permutations(Managers) \cup Permutations(Segments) \cup Permutations(Impls)
=============================================================================
