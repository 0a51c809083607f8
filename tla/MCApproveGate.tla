--------------------------- MODULE MCApproveGate ---------------------------
(* Small instances of ApproveGate for TLC.                                 *)
EXTENDS ApproveGate, TLC

CONSTANTS user, other, t

Optionals == <<"devm.yaml", "devm.me.yaml">>

Everybody ==
    user :> {"review"} @@ other :> {"start", "reconcile", "propose", "watch"}
=============================================================================
