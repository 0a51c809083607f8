--------------------------- MODULE MCEgressPolicy ---------------------------
(* Instances of EgressPolicy for TLC.                                      *)
EXTENDS EgressPolicy, TLC

CONSTANT r0     \* the request record an old gdevm left behind

MCDuration == [r \in Requests |-> IF r = r0 THEN 0 ELSE 1]

\* Which project, which timer, which request with a duration and which URL makes
\* no difference.
MCSymmetry ==
    UNION {Permutations(S) : S \in {Projects, Timers, Requests \ {r0}, Urls}}
=============================================================================
