------------------------ MODULE MCSharedMemoryBlock ------------------------
(***************************************************************************)
(* Values that the configurations give to the constants of                 *)
(* SharedMemoryBlock.                                                      *)
(***************************************************************************)
EXTENDS SharedMemoryBlock, TLC

CONSTANTS p1, p2, s1, s2, m1, r1, t1, t2, a1, a2, a3

(* Every process on one topic. *)
OneTopic == [p \in Publishers \cup Subscribers \cup Releasers |-> t1]

(* p2 on a topic of its own, everybody else on the other. *)
TwoTopics == [p \in Publishers \cup Subscribers \cup Releasers |->
                IF p = p2 THEN t2 ELSE t1]

(* The addresses are interchangeable, and so are the publishers and the      *)
(* subscribers of one topic.                                                 *)
SymmetryOneTopic ==
  Permutations(Addresses) \cup Permutations(Publishers) \cup Permutations(Subscribers)

SymmetryAddresses == Permutations(Addresses)
=============================================================================
