----------------------------- MODULE Supervisor -----------------------------
(***************************************************************************)
(* The daemon's process supervisor (internal/supervisor/supervisor.go):    *)
(* pexec-managed children, restarted after a backoff unless their restart  *)
(* gate is set, and children adopted from the daemon before.               *)
(*                                                                         *)
(* A worker is the process a key is about: `tart run` for a VM, the real   *)
(* iron-proxy for a proxy.  A shimmed key's worker is not pexec's child    *)
(* but that of devm-setsid-shim, which pexec can only SIGKILL; the worker  *)
(* has a session of its own and outlives its shim, and the daemon.  A      *)
(* handle is one pexec managed process, with the restart gate its Spawn    *)
(* made; pexec restarts it whatever the registry says by then.             *)
(***************************************************************************)
EXTENDS Naturals, FiniteSets

CONSTANTS
    Keys,       \* (project, role) pairs
    Shimmed,    \* keys whose worker runs behind the setsid shim
    Crashing,   \* keys whose managed workers may die on their own
    Handles,    \* bound: managed processes alive at once
    Workers,    \* bound: PIDs in use at once
    None

ASSUME SupervisorAssumption ==
    /\ Shimmed \subseteq Keys
    /\ Crashing \subseteq Keys
    /\ None \notin Handles \cup Workers

VARIABLES
    entry,      \* pexec's registry
    gateOf,     \* disableRestart: the handle whose gate a key leads to
    adopted,    \* adopted
    childPID,   \* childPIDs
    phase,      \* of a handle: "running", in "backoff", or "ended"
    keyOf,      \* the key a handle was spawned for
    gate,       \* its *atomic.Bool: do not restart
    child,      \* the worker it started last
    alive,      \* workers the machine runs
    job,        \* the key a worker works for
    stray,      \* workers of an earlier daemon that this one did not adopt
    stopping,   \* keys in the middle of Stop, which holds s.mu
    polling     \* keys spawned, their grandchild not discovered yet

registry == <<entry, gateOf, adopted, childPID>>
handles == <<phase, keyOf, gate, child>>
machine == <<alive, job, stray>>
calls == <<stopping, polling>>
vars == <<registry, handles, machine, calls>>

TypeOK ==
    /\ entry \in [Keys -> Handles \cup {None}]
    /\ gateOf \in [Keys -> Handles \cup {None}]
    /\ adopted \in [Keys -> Workers \cup {None}]
    /\ childPID \in [Keys -> Workers \cup {None}]
    /\ phase \in [Handles -> {"running", "backoff", "ended"}]
    /\ keyOf \in [Handles -> Keys]
    /\ gate \in [Handles -> BOOLEAN]
    /\ child \in [Handles -> Workers \cup {None}]
    /\ alive \subseteq Workers
    /\ job \in [Workers -> Keys]
    /\ stray \subseteq alive
    /\ stopping \subseteq Keys
    /\ polling \subseteq Keys

Init ==
    /\ entry = [k \in Keys |-> None]
    /\ gateOf = [k \in Keys |-> None]
    /\ adopted = [k \in Keys |-> None]
    /\ childPID = [k \in Keys |-> None]
    /\ phase = [h \in Handles |-> "ended"]
    /\ keyOf \in [Handles -> Keys]
    /\ gate = [h \in Handles |-> FALSE]
    /\ child = [h \in Handles |-> None]
    /\ alive = {}
    /\ job \in [Workers -> Keys]
    /\ stray = {}
    /\ stopping = {}
    /\ polling = {}

-----------------------------------------------------------------------------
(* The machine.                                                            *)

\* A PID nobody runs under or remembers.
Fresh(w) ==
    /\ w \notin alive
    /\ \A k \in Keys : w # adopted[k] /\ w # childPID[k]

Starts(h, w) ==
    /\ Fresh(w)
    /\ phase' = [phase EXCEPT ![h] = "running"]
    /\ child' = [child EXCEPT ![h] = w]
    /\ alive' = alive \cup {w}
    /\ UNCHANGED stray

\* Mutant: an expected exit leaves the handle in a state of its own.
AfterExit_Unreaped(dead, g) ==
    [h \in Handles |->
        IF phase[h] = "running" /\ child[h] \in dead
        THEN IF g[h] THEN "exited" ELSE "backoff"
        ELSE phase[h]]

\* What the handles come to when the workers in dead exit and g holds the
\* gates: without its gate a handle calls onUnexpectedExit and backs off.
AfterExit(dead, g) ==
    [h \in Handles |->
        IF phase[h] = "running" /\ child[h] \in dead
        THEN IF g[h] THEN "ended" ELSE "backoff"
        ELSE phase[h]]

\* A worker exits, and pexec asks its handle whether to restart it.
Dies(w) ==
    /\ w \in alive
    /\ alive' = alive \ {w}
    /\ stray' = stray \ {w}
    /\ phase' = AfterExit({w}, gate)
    /\ UNCHANGED <<registry, keyOf, gate, child, job, calls>>

\* One that is no handle's or of a crashing key dies at any time, a gated one
\* because it was asked to (the guest's poweroff ends `tart run`).
Exits(w) ==
    /\ \/ job[w] \in Crashing
       \/ adopted[job[w]] = w \/ w \in stray
       \/ \E h \in Handles : child[h] = w /\ phase[h] = "running" /\ gate[h]
    /\ Dies(w)

\* The backoff is over and pexec starts the process again: the gate was read
\* before the sleep, and is not read again.
Respawn(h) ==
    /\ phase[h] = "backoff"
    /\ \E w \in Workers :
          /\ Starts(h, w)
          /\ job' = [job EXCEPT ![w] = keyOf[h]]
    /\ UNCHANGED <<registry, keyOf, gate, calls>>

-----------------------------------------------------------------------------
(* The supervisor's operations.  All but DisableRestart hold s.mu.         *)

\* AddProcessFromConfig replaces the key's registry entry, whatever it was.
Spawn(k) ==
    /\ stopping = {}
    /\ k \notin polling
    /\ \E h \in Handles, w \in Workers :
          /\ phase[h] = "ended" /\ \A j \in Keys : entry[j] # h
          /\ Starts(h, w)
          /\ keyOf' = [keyOf EXCEPT ![h] = k]
          /\ gate' = [gate EXCEPT ![h] = FALSE]
          /\ job' = [job EXCEPT ![w] = k]
          /\ entry' = [entry EXCEPT ![k] = h]
          /\ gateOf' = [gateOf EXCEPT ![k] = h]
    /\ polling' = IF k \in Shimmed THEN polling \cup {k} ELSE polling
    /\ UNCHANGED <<adopted, childPID, stopping>>

\* SpawnIronProxy found a process of its project's in ps.
SetChildPID(k) ==
    /\ k \in polling
    /\ stopping = {}
    /\ \E w \in alive :
          /\ job[w] = k
          /\ childPID' = [childPID EXCEPT ![k] = w]
    /\ polling' = polling \ {k}
    /\ UNCHANGED <<entry, gateOf, adopted, handles, machine, stopping>>

\* It found none before its deadline.
GivesUp(k) ==
    /\ k \in polling
    /\ \A w \in alive : job[w] # k
    /\ polling' = polling \ {k}
    /\ UNCHANGED <<registry, handles, machine, stopping>>

DisableRestart(k) ==
    /\ gateOf[k] # None
    /\ gate' = [gate EXCEPT ![gateOf[k]] = TRUE]
    /\ UNCHANGED <<registry, phase, keyOf, child, machine, calls>>

\* The gates once a Stop with a PID to signal has set the key's.
Gated(k) == [h \in Handles |-> IF gateOf[k] = h THEN TRUE ELSE gate[h]]

\* Stop, the key adopted: signal the PID, forget it.  Nothing else is looked at.
StopAdopted(k) ==
    /\ stopping = {}
    /\ k \notin polling
    /\ adopted[k] # None
    /\ alive' = alive \ {adopted[k]}
    /\ stray' = stray \ {adopted[k]}
    /\ gate' = Gated(k)
    /\ phase' = AfterExit({adopted[k]} \cap alive, Gated(k))
    /\ adopted' = [adopted EXCEPT ![k] = None]
    /\ gateOf' = [gateOf EXCEPT ![k] = None]
    /\ UNCHANGED <<entry, childPID, keyOf, child, job, calls>>

\* Mutant: the restart gate is not set first.
StopSignals_Ungated(k) ==
    /\ stopping = {}
    /\ k \notin polling
    /\ adopted[k] = None /\ childPID[k] # None
    /\ alive' = alive \ {childPID[k]}
    /\ stray' = stray \ {childPID[k]}
    /\ phase' = AfterExit({childPID[k]} \cap alive, gate)
    /\ stopping' = {k}
    /\ UNCHANGED <<registry, keyOf, gate, child, job, polling>>

\* Stop, the grandchild known: set the gate, signal the PID, wait until it is
\* gone (a PID that already is counts as stopped) ...
StopSignals(k) ==
    /\ stopping = {}
    /\ k \notin polling
    /\ adopted[k] = None /\ childPID[k] # None
    /\ alive' = alive \ {childPID[k]}
    /\ stray' = stray \ {childPID[k]}
    /\ gate' = Gated(k)
    /\ phase' = AfterExit({childPID[k]} \cap alive, Gated(k))
    /\ stopping' = {k}
    /\ UNCHANGED <<registry, keyOf, child, job, polling>>

\* What is left of a handle once pexec's own Stop is through with it.
Closed(h) == [phase EXCEPT ![h] = "ended"]

\* ... and take the shim out of the registry and stop it.
StopReaps(k) ==
    /\ k \in stopping
    /\ stopping' = {}
    /\ childPID' = [childPID EXCEPT ![k] = None]
    /\ gateOf' = [gateOf EXCEPT ![k] = None]
    /\ entry' = [entry EXCEPT ![k] = None]
    /\ phase' = IF entry[k] = None THEN phase ELSE Closed(entry[k])
    /\ UNCHANGED <<adopted, keyOf, gate, child, machine, polling>>

\* Mutant: only a running process is stopped, a sleeping restart is not.
StopDirect_NotSleeping(k) ==
    /\ stopping = {}
    /\ k \notin polling
    /\ adopted[k] = None /\ childPID[k] = None /\ entry[k] # None
    /\ alive' = IF k \in Shimmed \/ phase[entry[k]] # "running"
                THEN alive ELSE alive \ {child[entry[k]]}
    /\ stray' = stray \cap alive'
    /\ phase' = IF phase[entry[k]] = "running" THEN Closed(entry[k]) ELSE phase
    /\ entry' = [entry EXCEPT ![k] = None]
    /\ gateOf' = [gateOf EXCEPT ![k] = None]
    /\ UNCHANGED <<adopted, childPID, keyOf, gate, child, job, calls>>

\* Stop, no PID known: pexec stops its direct child, which for a shimmed key is
\* only the shim.
StopDirect(k) ==
    /\ stopping = {}
    /\ k \notin polling
    /\ adopted[k] = None /\ childPID[k] = None /\ entry[k] # None
    /\ alive' = IF k \in Shimmed \/ phase[entry[k]] # "running"
                THEN alive ELSE alive \ {child[entry[k]]}
    /\ stray' = stray \cap alive'
    /\ phase' = Closed(entry[k])
    /\ entry' = [entry EXCEPT ![k] = None]
    /\ gateOf' = [gateOf EXCEPT ![k] = None]
    /\ UNCHANGED <<adopted, childPID, keyOf, gate, child, job, calls>>

\* Status drops an adopted PID that is gone.
StatusReaps(k) ==
    /\ stopping = {}
    /\ adopted[k] # None
    /\ adopted[k] \notin alive
    /\ adopted' = [adopted EXCEPT ![k] = None]
    /\ UNCHANGED <<entry, gateOf, childPID, handles, machine, calls>>

\* A new daemon: any of the processes may have survived the old one, and each
\* shimmed key adopts a survivor it finds.  VMs are not adopted.
DaemonRestart ==
    \E survivors \in SUBSET alive :
    \E found \in [Keys -> Workers \cup {None}] :
    /\ \A k \in Keys :
          LET mine == {w \in survivors : job[w] = k} IN
          IF mine = {} \/ k \notin Shimmed THEN found[k] = None ELSE found[k] \in mine
    /\ adopted' = found
    /\ alive' = survivors
    /\ stray' = {w \in survivors : found[job[w]] # w}
    /\ entry' = [k \in Keys |-> None]
    /\ gateOf' = [k \in Keys |-> None]
    /\ childPID' = [k \in Keys |-> None]
    /\ phase' = [h \in Handles |-> "ended"]
    /\ stopping' = {}
    /\ polling' = {}
    /\ UNCHANGED <<keyOf, gate, child, job>>

-----------------------------------------------------------------------------
(* The supervisor with callers that stop a key before they spawn it again, *)
(* as Spawn expects of them, and start no VM that tart says is running.    *)

Unoccupied(k) ==
    /\ entry[k] = None /\ adopted[k] = None
    /\ \A w \in stray : job[w] # k

Next ==
    \/ \E k \in Keys :
          \/ Unoccupied(k) /\ Spawn(k)
          \/ SetChildPID(k) \/ GivesUp(k)
          \/ DisableRestart(k)
          \/ StopAdopted(k) \/ StopSignals(k) \/ StopReaps(k) \/ StopDirect(k)
          \/ StatusReaps(k)
    \/ \E w \in Workers : Exits(w)
    \/ \E h \in Handles : Respawn(h)
    \/ DaemonRestart

Spec == Init /\ [][Next]_vars

-----------------------------------------------------------------------------
(* Properties.                                                             *)

\* "One process per (project_id, role)" (Key): whatever crashed, was
\* restarted, stopped or adopted, a key never has two workers.
OneWorkerPerKey ==
    \A v, w \in alive : job[v] = job[w] => v = w

\* What the supervisor does not know any more is dead: once Stop is through
\* with a key, nothing works for it until it is spawned again, unless an
\* earlier daemon left it a VM.
StoppedIsDead ==
    \A w \in alive :
        \/ entry[job[w]] # None
        \/ adopted[job[w]] # None
        \/ w \in stray /\ job[w] \notin Shimmed

\* pexec restarts a process only while the registry still leads to it, so a
\* Stop that overlaps a backoff is not undone when the sleep ends.
OnlyRegisteredRespawn ==
    [][\A h \in Handles : Respawn(h) => entry[keyOf[h]] = h]_vars

-----------------------------------------------------------------------------
(* What a comment in the code says, and its behaviour does not keep.       *)

\* After DisableRestart "the next (or currently pending) OnUnexpectedExit
\* callback for this key returns false".
DisabledIsNotRespawned ==
    [][\A h \in Handles : Respawn(h) => ~gate[h]]_vars
=============================================================================
