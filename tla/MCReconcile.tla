----------------------------- MODULE MCReconcile ----------------------------
(* Small instances of Reconcile for TLC.                                   *)
EXTENDS Reconcile

CONSTANTS web, declared, other, repo, hub

Unit == [env |-> 0, unit |-> 1, port |-> 1, direct |-> 0, template |-> 1]

First == [env |-> 1, packages |-> 1, volumes |-> 1, repos |-> 1, memory |-> 1, url |-> 1,
          docker |-> 0, secret |-> 1, network |-> {declared},
          services |-> [s \in Services |-> Unit]]

\* Edits that the stages and the buckets tell apart.
Edited ==
    {First,
     [First EXCEPT !.env = 2, !.packages = 2, !.memory = 2, !.url = 2, !.secret = 2,
                   !.services = [s \in Services |-> [f \in ServiceFields |-> 2]]],
     [First EXCEPT !.repos = 2, !.url = 2, !.volumes = 0, !.network = {other}, !.docker = 1],
     [First EXCEPT !.services = [s \in Services |-> Gone]],
     [First EXCEPT !.services = [s \in Services |-> [Unit EXCEPT !.direct = 1, !.template = 0]]]}
=============================================================================
