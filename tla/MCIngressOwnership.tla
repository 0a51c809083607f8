------------------------- MODULE MCIngressOwnership -------------------------
(* Small instances of IngressOwnership for TLC.                            *)
EXTENDS IngressOwnership, TLC

CONSTANTS a, b

Interchangeable == Permutations(Projects)
=============================================================================
