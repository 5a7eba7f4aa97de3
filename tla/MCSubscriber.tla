---------------------------- MODULE MCSubscriber ----------------------------
(***************************************************************************)
(* Values that the configurations give to the constants of Subscriber.     *)
(***************************************************************************)
EXTENDS Subscriber, TLC

CONSTANTS u1, u2, i1, i2, h1, h2, h3

(* h1 is the first user's, h2 the second one's, h3 is kept by the callback.  *)
Owners == [h \in Handles |->
             CASE h = h1 -> u1 [] h = h2 -> u2 [] OTHER -> Callback]

SymmetryImpls == Permutations(Impls)
=============================================================================
