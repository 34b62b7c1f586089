----------------------------- MODULE MCMPSCQueue -----------------------------
(* MPSCQueue with small blocks.                                            *)
EXTENDS MPSCQueue

CONSTANTS p1, p2
=============================================================================
