--------------------------- MODULE MC_SocketClaim ---------------------------
(* Two instances of this version and a daemon of an older one.             *)
EXTENDS SocketClaim, TLC

CONSTANTS p1, p2, old

MCProcs == {p1, p2}
MCLegacy == {old}

\* The instances are alike.
Symmetry == Permutations(MCProcs)
=============================================================================
