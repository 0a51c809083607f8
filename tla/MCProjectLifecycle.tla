------------------------- MODULE MCProjectLifecycle -------------------------
(* Small instances of ProjectLifecycle for TLC.                            *)
EXTENDS ProjectLifecycle, TLC

CONSTANTS cli, other

Everything == {"shell", "stop", "teardown", "reconcile"}

OneOfEach == cli :> Everything
Stops == cli :> {"shell", "stop"}
Reconciles == cli :> {"shell", "stop", "reconcile"}
Race == cli :> {"shell"} @@ other :> {"teardown"}

Interchangeable == Permutations(Handles) \cup Permutations(Workers)

\* What the steps of a run that checks StopIsUndisturbed can still depend on: not
\* a handle that has ended unless the registry has it, a dead worker's job, an
\* idle caller's command, and what is only ever written or read by others.
Kept(h) == phase[h] # "ended" \/ \E k \in Keys : h \in {entry[k], gateOf[k]}

Relevant ==
    <<entry, gateOf, adopted, childPID, phase, alive, stray, stopping, polling,
      {<<h, keyOf[h], gate[h], child[h]>> : h \in {g \in Handles : Kept(g)}},
      {<<w, job[w]>> : w \in alive}, {h \in hooked : Kept(h)},
      {<<c, command[c]>> : c \in {d \in Callers : at[d] # "idle"}},
      lock, at, rowProxy, files, up>>
=============================================================================
