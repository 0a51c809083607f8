-------------------------- MODULE ProjectLifecycle --------------------------
(***************************************************************************)
(* One project's life in the daemon: the CLI commands that start, stop,    *)
(* tear down and reconcile it, the /vm/start, /vm/stop and                 *)
(* /vm/apply-iron-proxy handlers behind them, which queue for the          *)
(* project's lock, the watchdog's iron-proxy and VM checks, crashes, and   *)
(* restarts of the daemon, all over the Supervisor.                        *)
(*                                                                         *)
(* A stage is a point where an actor waits for something, so where others  *)
(* act; what lies between two is one step.  A command decides on what the  *)
(* CLI read before it queued for the lock.                                 *)
(***************************************************************************)
EXTENDS Naturals, FiniteSets

CONSTANTS
    Vm, Proxy,  \* the project's two supervised keys
    Callers,    \* CLI processes
    Asks,       \* the commands each of them may run
    Watchdog,   \* the watchdog's goroutine
    Faults,     \* what happens of "restart", "refuse", "stuck" and "watch"
    Crashing, Handles, Workers, None    \* as in Supervisor

Keys == {Vm, Proxy}
Shimmed == {Proxy}

ASSUME LifecycleAssumption ==
    /\ Vm # Proxy
    /\ Watchdog \notin Callers
    /\ None \notin Handles \cup Workers \cup Callers \cup {Watchdog}
    /\ Asks \in [Callers -> SUBSET {"shell", "stop", "teardown", "reconcile"}]

VARIABLES
    entry, gateOf, adopted, childPID, phase, keyOf, gate, child, alive, job,
    stray, stopping, polling,   \* as in Supervisor
    lock,       \* who holds the project's lock
    at,         \* the stage of each caller and of the watchdog
    command,    \* what a caller is doing
    rowVM,      \* the project's StateCache row: VMState ...
    rowProxy,   \* ... and IronProxyHealth.Status, "" until first written
    listed,     \* the VM state the watchdog read from tart list
    disk,       \* tart knows the VM
    saved,      \* the project's state snapshot exists
    config,     \* its iron-proxy config file exists
    hooked,     \* handles whose crash writes the cache
    stopped,    \* history: no process was asked for since the last stop
    up          \* the warmup pass is over and the daemon serves requests

S == INSTANCE Supervisor

processes == <<entry, gateOf, adopted, childPID, phase, keyOf, gate, child,
               alive, job, stray, stopping, polling>>
row == <<rowVM, rowProxy>>
files == <<disk, saved, config>>
vars == <<processes, lock, at, command, row, listed, files, hooked, stopped, up>>

Actors == Callers \cup {Watchdog}

TypeOK ==
    /\ S!TypeOK
    /\ lock \in Actors \cup {None}
    /\ at \in [Actors ->
                {"idle", "start", "boot", "provision",
                 "stop", "reap", "poweroff", "graceful", "delete", "forget",
                 "apply", "swap", "spawn", "look", "adopt", "drift", "vms", "list"}]
    /\ command \in [Callers ->
                {"shell", "recover", "adopt", "fail", "stop", "teardown", "reconcile"}]
    /\ rowVM \in {"", "absent", "stopped", "running"}
    /\ rowProxy \in {"", "ok", "missing"}
    /\ listed \in {"absent", "stopped", "running"}
    /\ {disk, saved, config, stopped, up} \subseteq BOOLEAN
    /\ hooked \subseteq Handles

Init ==
    /\ S!Init
    /\ keyOf = [h \in Handles |-> Vm] /\ job = [w \in Workers |-> Vm]
    /\ lock = None
    /\ at = [a \in Actors |-> "idle"]
    /\ command = [c \in Callers |-> "stop"]
    /\ rowVM = "" /\ rowProxy = "" /\ listed = "absent"
    /\ disk = FALSE /\ saved = FALSE /\ config = FALSE
    /\ hooked = {}
    /\ stopped = TRUE
    /\ up = TRUE

-----------------------------------------------------------------------------
(* Observations.                                                           *)

\* tart list's Running.
VMUp == \E w \in alive : job[w] = Vm

\* Mutant: a project that is not in the list keeps the zero value.
VMState_Unmapped == IF VMUp THEN "running" ELSE IF disk THEN "stopped" ELSE ""

\* vmCheck's observed state: a project that is not in the list is absent.
VMState == IF VMUp THEN "running" ELSE IF disk THEN "stopped" ELSE "absent"

\* Supervisor.Status's Present and Running for the proxy.
ProxyRunning ==
    IF adopted[Proxy] # None
    THEN adopted[Proxy] \in alive
    ELSE entry[Proxy] # None /\ phase[entry[Proxy]] = "running"

\* ComputeProxyHealth, of a proxy of the embedded version.
ProxyHealth == IF ProxyRunning /\ config THEN "ok" ELSE "missing"

\* Status waits for Stop, and forgets an adopted proxy that is gone.
AsksStatus ==
    /\ stopping = {}
    /\ IF adopted[Proxy] # None /\ adopted[Proxy] \notin alive
       THEN S!StatusReaps(Proxy)
       ELSE UNCHANGED processes

-----------------------------------------------------------------------------
(* The lock, the stages, and the commands that begin.                      *)

Goes(a, from, to) == at[a] = from /\ at' = [at EXCEPT ![a] = to]

Locks(a) == lock = None /\ lock' = a

Unlocks == lock' = None

Begins(c, what, stage) ==
    /\ up
    /\ Goes(c, "idle", stage)
    /\ command' = [command EXCEPT ![c] = what]
    /\ UNCHANGED <<processes, lock, row, listed, files, hooked, stopped, up>>

\* RunShell: a cold start if tart says the VM is not running, else attach to it
\* (no change), tear down what is half provisioned, or adopt it in place.
ShellBegins(c) ==
    /\ "shell" \in Asks[c]
    /\ \/ ~VMUp /\ Begins(c, "shell", "start")
       \/ VMUp /\ Begins(c, "recover", "stop")
       \/ VMUp /\ Begins(c, "adopt", "apply")

\* RunStop, of both commands.
StopBegins(c) ==
    \E what \in {"stop", "teardown"} \cap Asks[c] : Begins(c, what, "stop")

\* RunReconcile with an egress change: the daemon's answer lists it whether the
\* VM is running or not, and the CLI applies what is listed.
ReconcileBegins(c) == "reconcile" \in Asks[c] /\ Begins(c, "reconcile", "apply")

-----------------------------------------------------------------------------
(* /vm/start, and the CLI's provisioning after it.                         *)

\* It fails before anything is spawned; the clone may have been made.
StartRefused(c) ==
    /\ "refuse" \in Faults
    /\ lock = None
    /\ Goes(c, "start", "idle")
    /\ disk' \in {disk, TRUE}
    /\ UNCHANGED <<processes, lock, command, row, listed, saved, config, hooked, stopped, up>>

\* Clone if absent, and run.
StartVM(c) ==
    /\ Goes(c, "start", "boot")
    /\ Locks(c)
    /\ S!Spawn(Vm)
    /\ disk' = TRUE
    /\ stopped' = FALSE
    /\ UNCHANGED <<command, row, listed, saved, config, hooked, up>>

\* SpawnIronProxy up to its wait: the config file, and the managed process.
SpawnsProxy(hook) ==
    /\ S!Spawn(Proxy)
    /\ config' = TRUE
    /\ hooked' = IF hook THEN hooked \cup {entry'[Proxy]} ELSE hooked \ {entry'[Proxy]}

\* Its wait is over.
Discovers == S!SetChildPID(Proxy) \/ S!GivesUp(Proxy)

\* The guest agent answers.
StartProxy(c) ==
    /\ Goes(c, "boot", "look")
    /\ SpawnsProxy(TRUE)
    /\ UNCHANGED <<lock, command, row, listed, disk, saved, stopped, up>>

StartEnds(c) ==
    /\ command[c] \in {"shell", "recover"}
    /\ Goes(c, "look", "provision")
    /\ Discovers
    /\ Unlocks
    /\ rowVM' = "running" /\ rowProxy' = "ok"
    /\ UNCHANGED <<command, listed, files, hooked, stopped, up>>

\* The guest never answers, or a later step fails: what was spawned stays.
StartFails(c) ==
    /\ "refuse" \in Faults
    /\ \/ Goes(c, "boot", "idle") /\ UNCHANGED processes
       \/ command[c] \in {"shell", "recover"} /\ Goes(c, "look", "idle") /\ Discovers
    /\ Unlocks
    /\ UNCHANGED <<command, row, listed, files, hooked, stopped, up>>

\* Without the lock: the CLI seeds the snapshot at the end; a failure before
\* the guest's install tears the VM down, a later one keeps it as it is.
Provisions(c) ==
    /\ \/ VMUp /\ Goes(c, "provision", "idle") /\ saved' = TRUE /\ UNCHANGED command
       \/ "refuse" \in Faults /\ Goes(c, "provision", "idle") /\ UNCHANGED <<saved, command>>
       \/ /\ "refuse" \in Faults \/ ~VMUp
          /\ up
          /\ Goes(c, "provision", "stop")
          /\ command' = [command EXCEPT ![c] = "fail"]
          /\ UNCHANGED saved
    /\ UNCHANGED <<processes, lock, row, listed, disk, config, hooked, stopped, up>>

-----------------------------------------------------------------------------
(* /vm/stop, and what RunStop and teardownVM do after it.                  *)

Destroys(c) == command[c] \in {"teardown", "recover", "fail"}

\* Supervisor.Stop of the proxy; one it knows nothing of is as good as stopped.
StopsProxy ==
    \/ S!StopAdopted(Proxy) \/ S!StopDirect(Proxy)
    \/ /\ stopping = {} /\ Proxy \notin polling
       /\ adopted[Proxy] = None /\ childPID[Proxy] = None /\ entry[Proxy] = None
       /\ UNCHANGED processes

\* Either it is over at once or it waits for the proxy's PID to be gone.
Replaces(c, busy, over) ==
    \/ Goes(c, at[c], over) /\ StopsProxy
    \/ Goes(c, at[c], busy) /\ S!StopSignals(Proxy)

\* The proxy cannot be stopped, and /vm/stop returns 500, which RunStop ignores.
StopRefused(c) ==
    /\ "stuck" \in Faults
    /\ lock = None
    /\ Goes(c, "stop", IF Destroys(c) THEN "delete" ELSE "idle")
    /\ UNCHANGED <<processes, lock, command, row, listed, files, hooked, stopped, up>>

StopProxy(c) ==
    /\ at[c] = "stop"
    /\ Locks(c)
    /\ Replaces(c, "reap", "poweroff")
    /\ UNCHANGED <<command, row, listed, files, hooked, stopped, up>>

StopReaps(c) ==
    /\ Goes(c, "reap", "poweroff")
    /\ S!StopReaps(Proxy)
    /\ UNCHANGED <<lock, command, row, listed, files, hooked, stopped, up>>

\* Mutant: pexec is left to restart what the poweroff ends.
StopGracefully_Armed(c) ==
    /\ Goes(c, "poweroff", "graceful")
    /\ UNCHANGED <<processes, lock, command, row, listed, files, hooked, stopped, up>>

\* DisableRestart, then the guest's own poweroff, up to 45 seconds of it.
StopGracefully(c) ==
    /\ Goes(c, "poweroff", "graceful")
    /\ IF gateOf[Vm] = None THEN UNCHANGED processes ELSE S!DisableRestart(Vm)
    /\ UNCHANGED <<lock, command, row, listed, files, hooked, stopped, up>>

\* Mutant: the wait for the guest's poweroff has no end of its own.
StopEnds_GuestDown(c) ==
    /\ ~VMUp
    /\ Goes(c, "graceful", IF Destroys(c) THEN "delete" ELSE "idle")
    /\ IF entry[Vm] = None THEN stopping = {} /\ UNCHANGED processes ELSE S!StopDirect(Vm)
    /\ rowVM' = IF Destroys(c) THEN "" ELSE "stopped"
    /\ rowProxy' = IF Destroys(c) THEN "" ELSE "missing"
    /\ Unlocks
    /\ stopped' = TRUE
    /\ UNCHANGED <<command, listed, files, hooked, up>>

\* Whatever is left of tart run is stopped, if this daemon started it.
StopEnds(c) ==
    /\ Goes(c, "graceful", IF Destroys(c) THEN "delete" ELSE "idle")
    /\ IF entry[Vm] = None THEN stopping = {} /\ UNCHANGED processes ELSE S!StopDirect(Vm)
    /\ rowVM' = IF Destroys(c) THEN "" ELSE "stopped"
    /\ rowProxy' = IF Destroys(c) THEN "" ELSE "missing"
    /\ Unlocks
    /\ stopped' = TRUE
    /\ UNCHANGED <<command, listed, files, hooked, up>>

\* tart delete, which fails on a running VM.
Deletes(c) ==
    /\ Goes(c, "delete",
            IF VMUp \/ command[c] = "fail" THEN "idle"
            ELSE IF command[c] = "recover" THEN "start" ELSE "forget")
    /\ disk' = (disk /\ VMUp)
    /\ UNCHANGED <<processes, lock, command, row, listed, saved, config, hooked, stopped, up>>

\* RunStop goes on to the snapshot and the iron-proxy config.
Forgets(c) ==
    /\ Goes(c, "forget", "idle")
    /\ saved' = FALSE /\ config' = FALSE
    /\ UNCHANGED <<processes, lock, command, row, listed, disk, hooked, stopped, up>>

-----------------------------------------------------------------------------
(* /vm/apply-iron-proxy.                                                   *)

\* Without a config file there is nothing to apply; adoption then fails.
ApplyNothing(c) ==
    /\ lock = None
    /\ ~config
    /\ Goes(c, "apply", "idle")
    /\ UNCHANGED <<processes, lock, command, row, listed, files, hooked, stopped, up>>

\* A proxy that is not running is not stopped first.
Applies(c) ==
    /\ at[c] = "apply"
    /\ config
    /\ Locks(c)
    /\ IF ProxyRunning
       THEN Replaces(c, "swap", "spawn")
       ELSE Goes(c, "apply", "spawn") /\ AsksStatus
    /\ UNCHANGED <<command, row, listed, files, hooked, stopped, up>>

ApplyReaps(c) ==
    /\ Goes(c, "swap", "spawn")
    /\ S!StopReaps(Proxy)
    /\ UNCHANGED <<lock, command, row, listed, files, hooked, stopped, up>>

ApplySpawns(c) ==
    /\ Goes(c, "spawn", "look")
    /\ SpawnsProxy(FALSE)
    /\ stopped' = FALSE
    /\ UNCHANGED <<lock, command, row, listed, disk, saved, up>>

\* The new proxy serves, or does not; only adoption goes on to provision.
ApplyEnds(c) ==
    /\ command[c] \in {"adopt", "reconcile"}
    /\ \/ Goes(c, "look", IF command[c] = "adopt" THEN "provision" ELSE "idle")
       \/ "refuse" \in Faults /\ Goes(c, "look", "idle")
    /\ Discovers
    /\ Unlocks
    /\ UNCHANGED <<command, row, listed, files, hooked, stopped, up>>

-----------------------------------------------------------------------------
(* The watchdog's pass.                                                    *)

\* ironProxyCheck compares the row with what it observes, without the lock; a
\* row that is merely behind is rewritten, a missing proxy is to be respawned.
WatchReads ==
    /\ "watch" \in Faults \/ ~up
    /\ AsksStatus
    /\ IF ~saved \/ rowProxy = ProxyHealth
       THEN Goes(Watchdog, "idle", "vms") /\ UNCHANGED rowProxy
       ELSE IF ProxyHealth = "missing"
       THEN Goes(Watchdog, "idle", "drift") /\ UNCHANGED rowProxy
       ELSE Goes(Watchdog, "idle", "vms") /\ rowProxy' = ProxyHealth
    /\ UNCHANGED <<lock, command, rowVM, listed, files, hooked, stopped, up>>

\* RespawnIronProxyForWatchdog, with the lock: there is no need any more, no
\* snapshot or config, or the rebuild fails; the row gets what was observed.
WatchDeclines ==
    /\ lock = None
    /\ AsksStatus
    /\ ProxyHealth = "ok" \/ ~saved \/ ~config \/ "refuse" \in Faults
    /\ Goes(Watchdog, "drift", "vms")
    /\ rowProxy' = ProxyHealth
    /\ UNCHANGED <<lock, command, rowVM, listed, files, hooked, stopped, up>>

\* Mutant: the project's lock is not taken.
WatchRespawns_Unlocked ==
    /\ Goes(Watchdog, "drift", "look")
    /\ ProxyHealth = "missing" /\ saved /\ config
    /\ SpawnsProxy(FALSE)
    /\ UNCHANGED <<lock, command, row, listed, disk, saved, stopped, up>>

\* The proxy is still missing, and is spawned, with no Stop before.
WatchRespawns ==
    /\ Goes(Watchdog, "drift", "look")
    /\ Locks(Watchdog)
    /\ ProxyHealth = "missing" /\ saved /\ config
    /\ SpawnsProxy(FALSE)
    /\ UNCHANGED <<command, row, listed, disk, saved, stopped, up>>

WatchRepaired ==
    /\ Goes(Watchdog, "look", "vms")
    /\ Discovers
    /\ Unlocks
    /\ rowProxy' = ProxyHealth
    /\ UNCHANGED <<command, rowVM, listed, files, hooked, stopped, up>>

\* vmCheck: tart list ...
WatchLists ==
    /\ Goes(Watchdog, "vms", "list")
    /\ listed' = VMState
    /\ UNCHANGED <<processes, lock, command, row, files, hooked, stopped, up>>

\* Mutant: the loop is over the VMs in the list, not the projects.
WatchWrites_OnlyListed ==
    /\ Goes(Watchdog, "list", "idle")
    /\ rowVM' = IF saved /\ listed # "absent" THEN listed ELSE rowVM
    /\ listed' = "absent"
    /\ up' = TRUE
    /\ UNCHANGED <<processes, lock, command, rowProxy, files, hooked, stopped>>

\* ... and the row written from it.  The warmup pass is over.
WatchWrites ==
    /\ Goes(Watchdog, "list", "idle")
    /\ rowVM' = IF saved THEN listed ELSE rowVM
    /\ listed' = "absent"
    /\ up' = TRUE
    /\ UNCHANGED <<processes, lock, command, rowProxy, files, hooked, stopped>>

-----------------------------------------------------------------------------
(* What happens on its own.                                                *)

\* A process exits.  Unless that was to be expected, its callback writes the
\* row, the VM's always and the proxy's if it was spawned with the cache.
Exits(w) ==
    /\ S!Exits(w)
    /\ LET crashed == {h \in Handles : phase[h] = "running" /\ child[h] = w /\ ~gate[h]} IN
       /\ rowVM' = IF job[w] = Vm /\ crashed # {} THEN "stopped" ELSE rowVM
       /\ rowProxy' = IF job[w] = Proxy /\ crashed \cap hooked # {} THEN "missing" ELSE rowProxy
    /\ UNCHANGED <<lock, at, command, listed, files, hooked, stopped, up>>

Respawns ==
    /\ \E h \in Handles : S!Respawn(h)
    /\ UNCHANGED <<lock, at, command, row, listed, files, hooked, stopped, up>>

\* Where a request of the daemon before leaves its CLI: it fails, and of a
\* failed /vm/stop a teardown takes no notice.
Disconnected(c) ==
    IF at[c] \in {"stop", "reap", "poweroff", "graceful"} /\ Destroys(c) THEN "delete"
    ELSE IF at[c] \in {"provision", "delete", "forget"} THEN at[c]
    ELSE "idle"

\* A new daemon: GCOrphanedProjects, AdoptIronProxies, an empty cache.
DaemonRestarts ==
    /\ "restart" \in Faults
    /\ S!DaemonRestart
    /\ saved' = (saved /\ disk)
    /\ config' = (config /\ (saved => disk))
    /\ at' = [a \in Actors |-> IF a = Watchdog THEN "adopt" ELSE Disconnected(a)]
    /\ lock' = None
    /\ rowVM' = "" /\ rowProxy' = "" /\ listed' = "absent"
    /\ hooked' = {}
    /\ up' = FALSE
    /\ UNCHANGED <<command, disk, stopped>>

\* adoptOneIronProxy stops a proxy whose VM tart does not know; warmup follows.
Adopts ==
    /\ Goes(Watchdog, "adopt", "idle")
    /\ IF ~disk /\ adopted[Proxy] # None THEN S!StopAdopted(Proxy) ELSE UNCHANGED processes
    /\ UNCHANGED <<lock, command, row, listed, files, hooked, stopped, up>>

-----------------------------------------------------------------------------

Asking(c) == ShellBegins(c) \/ StopBegins(c) \/ ReconcileBegins(c)

\* Steps that wait for the project's lock.
Queueing(c) ==
    \/ StartRefused(c) \/ StartVM(c)
    \/ StopRefused(c) \/ StopProxy(c)
    \/ ApplyNothing(c) \/ Applies(c)

Proceeding(c) ==
    \/ StartProxy(c) \/ StartEnds(c) \/ StartFails(c) \/ Provisions(c)
    \/ StopReaps(c) \/ StopGracefully(c) \/ StopEnds(c) \/ Deletes(c) \/ Forgets(c)
    \/ ApplyReaps(c) \/ ApplySpawns(c) \/ ApplyEnds(c)

Watching == WatchReads \/ WatchRepaired \/ WatchLists \/ WatchWrites \/ Adopts

Next ==
    \/ \E c \in Callers : Asking(c) \/ Queueing(c) \/ Proceeding(c)
    \/ Watching \/ WatchDeclines \/ WatchRespawns
    \/ \E w \in Workers : Exits(w)
    \/ Respawns
    \/ DaemonRestarts

Spec == Init /\ [][Next]_vars

\* A sync.Mutex starves nobody, and every wait of a handler is bounded.  A
\* rebuild of the proxy that can succeed does if it is tried again and again.
Fairness ==
    /\ \A c \in Callers : SF_vars(Queueing(c)) /\ WF_vars(Proceeding(c))
    /\ WF_vars(Watching)
    /\ SF_vars(WatchDeclines \/ WatchRespawns) /\ SF_vars(WatchRespawns)

FairSpec == Spec /\ Fairness

-----------------------------------------------------------------------------
(* Properties.                                                             *)

\* While /vm/stop waits for the guest to power off the project has no proxy that
\* could be restarted, and a tart run that exits does not boot the VM again.
StopHolds ==
    \A c \in Callers : at[c] = "graceful" =>
        /\ entry[Proxy] = None /\ adopted[Proxy] = None /\ Proxy \notin polling
        /\ entry[Vm] # None => gate[entry[Vm]]

\* From the moment it has stopped the proxy until the VM is down, /vm/stop is
\* alone: neither a queued start or apply nor the watchdog, which decided to
\* respawn the proxy before it took the lock, has the supervisor know a process.
StopIsUndisturbed ==
    [][\A c \in Callers :
        at[c] \in {"poweroff", "graceful"} /\ at'[c] = at[c] =>
            entry' = entry /\ adopted' = adopted /\ childPID' = childPID]_vars

\* Every command ends once the daemon stays up: no stage waits for a lock that
\* is not released, nor for the answer of a daemon that is gone.
RequestsEnd == <>[]up => \A c \in Callers : []<>(at[c] = "idle")

\* When nobody asks for anything any more, the row of a known project comes to
\* say what is the case, whatever was written to it by whom before.
CacheSettles ==
    <>[](up /\ saved /\ \A c \in Callers : at[c] = "idle")
        => <>[](rowVM = VMState /\ rowProxy = ProxyHealth)

-----------------------------------------------------------------------------
(* What comments in the code say, and its behaviour does not keep.         *)

\* One iron-proxy per project: what a proxy replaces is stopped first, "or it
\* leaks as an orphan holding the old ports" (apply_iron_proxy.go).
OneProxy ==
    \A v, w \in alive : job[v] = Proxy /\ job[w] = Proxy => v = w

\* After a stop or teardown the project has no iron-proxy until a command asks
\* for one: the watchdog's repair is not for "a project that may be stopping".
StopIsFinal == stopped => \A w \in alive : job[w] # Proxy

\* /vm/start "is only called against a non-running sandbox".
StartsOnlyStoppedVM == [][\A c \in Callers : StartVM(c) => ~VMUp]_vars

\* Reconciling a project whose VM does not run starts no iron-proxy: "If not
\* running, don't apply anything".
AppliesToRunningVM ==
    [][\A c \in Callers : ApplySpawns(c) /\ command[c] = "reconcile" => VMUp]_vars

\* The watchdog starts no proxy for a project whose VM is deleted: of the files a
\* teardown leaves "the daemon [would] spawn iron-proxy for a ghost project".
SpawnsForNoGhost ==
    [][WatchRespawns /\ (\A c \in Callers : at[c] = "idle") => disk]_vars

\* The watchdog "respawns iron-proxy for any project whose observed status is
\* ProxyMissing", on every tick: with its VM, snapshot and config there, a
\* project's proxy comes back.
MissingProxyIsRespawned ==
    <>[](up /\ saved /\ config /\ VMUp /\ \A c \in Callers : at[c] = "idle")
        => []<>(ProxyHealth = "ok")
=============================================================================
