---------------------------- MODULE MCMutagenSync --------------------------
(* Small instances of MutagenSync for TLC.                                 *)
EXTENDS MutagenSyncInvariant

CONSTANTS one, two, here, there, home, away

Volume(l, p, i) == [kind |-> "volume", label |-> l, path |-> p, ignore |-> i, mirrored |-> TRUE]
Repo(l, p, m) == [kind |-> "repo", label |-> l, path |-> p, ignore |-> 0, mirrored |-> m]

\* Nothing changes path and label at once, nor from a volume to a repo.
Moved == {Undeclared, Volume(one, here, 0), Volume(one, there, 0), Volume(one, there, 1)}
Renamed == {Undeclared, Volume(one, here, 0), Volume(two, here, 0)}
Repos == {Undeclared, Repo(one, home, TRUE), Repo(one, home, FALSE), Repo(two, away, TRUE)}
OneAtATime == {Moved, Renamed, Repos}
AllAtOnce == {Moved \cup Renamed \cup Repos}

\* What the theorems assume holds of the run.
ASSUME RunIsUndisturbed == Undisturbed
=============================================================================
