--------------------------- MODULE MCReleasePool ---------------------------
(***************************************************************************)
(* Model values for the configurations of ReleasePool.                     *)
(***************************************************************************)
EXTENDS ReleasePool

CONSTANTS u1, u2, u3, o1, o2
=============================================================================
