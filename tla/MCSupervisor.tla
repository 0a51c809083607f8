---------------------------- MODULE MCSupervisor ----------------------------
(* Instances of Supervisor for TLC.                                        *)
EXTENDS Supervisor, TLC

MCSymmetry == Permutations(Handles) \cup Permutations(Workers)
=============================================================================
