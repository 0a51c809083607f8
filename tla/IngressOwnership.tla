-------------------------- MODULE IngressOwnership --------------------------
(***************************************************************************)
(* Who owns a loopback address of the project pool: AllocateProjectIP and  *)
(* ReleaseProjectIP, the daemon's :80/:443 listeners, softnet's listeners, *)
(* the port claims, and the snapshot that carries an address across a      *)
(* restart of the daemon, in /vm/start, /vm/stop, /vm/apply-iron-proxy,    *)
(* reconcile's heal, the watchdog and the startup goroutines.              *)
(*                                                                         *)
(* A handler has its project's lock from its first step to its last, so    *)
(* "idle" is a free lock.  The goroutines of a starting daemon take none.  *)
(* Every endpoint of a project is on its address, which stands for them.   *)
(***************************************************************************)
EXTENDS Naturals

CONSTANTS
    Projects,
    IPs,        \* cfg.PoolStart .. cfg.PoolEnd
    Faults      \* what happens of "restart", "crash", "foreign" and "helper"

NoIP == 0       \* the empty ProjectIP

ASSUME PoolAssumption == IPs \subseteq Nat \ {0}

VARIABLES
    present,    \* projects with an ironProxyState entry ...
    ip,         \* ... and the ProjectIP in it
    snapshots,  \* projects with a state snapshot on disk ...
    saved,      \* ... and the ProjectIP in it
    seed,       \* the address with which a CLI is about to seed a snapshot
    configured, \* projects with an iron-proxy config on disk
    proxy,      \* projects whose iron-proxy is alive
    front,      \* where the daemon's :80/:443 pair of a project listens
    running,    \* projects whose VM, and so whose softnet, runs
    bound,      \* where a project's softnet listens
    claim,      \* exposeClaims: whose endpoints a project has
    foreign,    \* addresses whose :22 something else on the host listens on
    at,         \* where the handler that has a project's lock is
    arg, info,  \* its projectIP, and the ProjectIP of its copy of the entry
    goes,       \* where a project's rebindProjectListeners goroutine is ...
    copy,       \* ... and its projectIP, then its copy of the entry
    push        \* the address a discoverSoftnet goroutine is about to push

registry == <<present, ip>>
disk == <<snapshots, saved, configured>>
listening == <<front, bound, claim>>
handler == <<at, arg, info>>
startup == <<goes, copy, push>>
vars == <<registry, disk, seed, proxy, listening, running, foreign, handler, startup>>

MaybeIP == IPs \cup {NoIP}

TypeOK ==
    /\ present \subseteq Projects /\ snapshots \subseteq Projects
    /\ configured \subseteq Projects /\ proxy \subseteq Projects
    /\ running \subseteq Projects /\ foreign \subseteq IPs
    /\ ip \in [Projects -> MaybeIP] /\ saved \in [Projects -> MaybeIP]
    /\ seed \in [Projects -> MaybeIP] /\ front \in [Projects -> MaybeIP]
    /\ bound \in [Projects -> MaybeIP] /\ claim \in [Projects -> MaybeIP]
    /\ arg \in [Projects -> MaybeIP] /\ info \in [Projects -> MaybeIP]
    /\ copy \in [Projects -> MaybeIP] /\ push \in [Projects -> MaybeIP]
    /\ at \in [Projects ->
            {"idle", "allocate", "expose", "spawn", "listen", "record",
             "close", "release", "forget", "poweroff",
             "reallocate", "relisten", "reexpose", "adopt", "reopen"}]
    /\ goes \in [Projects -> {"ended", "bind", "read", "write"}]

Nowhere == [p \in Projects |-> NoIP]

\* A first daemon on a host with no project.
Init ==
    /\ present = {} /\ snapshots = {} /\ configured = {} /\ proxy = {}
    /\ running = {} /\ foreign = {}
    /\ ip = Nowhere /\ saved = Nowhere /\ seed = Nowhere
    /\ front = Nowhere /\ bound = Nowhere /\ claim = Nowhere
    /\ at = [p \in Projects |-> "idle"]
    /\ arg = Nowhere /\ info = Nowhere
    /\ goes = [p \in Projects |-> "ended"]
    /\ copy = Nowhere /\ push = Nowhere

-----------------------------------------------------------------------------
(* The allocator, the listeners and the claims.                            *)

\* Something not of the daemon, or another project's softnet, answers i:22.
Taken(p, i) == i \in foreign \/ \E q \in Projects \ {p} : bound[q] = i

\* Mutant: no probe.
Free_Unprobed == {i \in IPs : \A q \in Projects : ip[q] # i}

\* Addresses no entry holds and probeIPInUse finds nothing on.
Free ==
    {i \in IPs : /\ \A q \in Projects : ip[q] # i /\ bound[q] # i
                 /\ i \notin foreign}

\* AllocateProjectIP returns i.
Allocates(p, i) ==
    \/ /\ ip[p] # NoIP /\ i = ip[p]
       /\ UNCHANGED <<ip, saved>>
    \/ /\ ip[p] = NoIP
       /\ i \in Free /\ \A j \in Free : i <= j
       /\ ip' = [ip EXCEPT ![p] = i]
       /\ saved' = IF p \in snapshots THEN [saved EXCEPT ![p] = i] ELSE saved

\* AllocateProjectIP fails.
Exhausted(p) == ip[p] = NoIP /\ Free = {}

Releases(p) ==
    /\ ip' = [ip EXCEPT ![p] = NoIP]
    /\ saved' = [saved EXCEPT ![p] = NoIP]

\* StartProjectListeners returns nil: a pair that is there is left alone.
Listens(p, i) ==
    IF front[p] # NoIP
    THEN UNCHANGED front
    ELSE /\ \A q \in Projects : front[q] # i
         /\ front' = [front EXCEPT ![p] = i]

\* The helper cannot bind :80 of i, or is not there.
ListenFails(p, i) ==
    /\ front[p] = NoIP
    /\ "helper" \in Faults \/ \E q \in Projects : front[q] = i
    /\ UNCHANGED front

\* pushExposeMap returns nil.
Exposes(p, i) ==
    /\ p \in running
    /\ \A q \in Projects \ {p} : claim[q] # i
    /\ ~Taken(p, i)
    /\ claim' = [claim EXCEPT ![p] = i]
    /\ bound' = [bound EXCEPT ![p] = i]

\* It returns an error: another project's claim stops it before anything is
\* changed, softnet does not answer, or softnet cannot bind the address.
ExposeFails(p, i) ==
    \/ /\ \E q \in Projects \ {p} : claim[q] = i
       /\ UNCHANGED <<claim, bound>>
    \/ /\ \A q \in Projects \ {p} : claim[q] # i
       /\ claim' = [claim EXCEPT ![p] = i]
       /\ \/ UNCHANGED bound
          \/ p \in running /\ Taken(p, i) /\ bound' = [bound EXCEPT ![p] = NoIP]

\* The handler of p is at the stage from, and goes on or returns.
Steps(p, from, to) == at[p] = from /\ at' = [at EXCEPT ![p] = to]

\* It returns, and forgets its locals.
Returns(p) ==
    /\ at' = [at EXCEPT ![p] = "idle"]
    /\ arg' = [arg EXCEPT ![p] = NoIP]
    /\ info' = [info EXCEPT ![p] = NoIP]

-----------------------------------------------------------------------------
(* /vm/start of a VM that does not run.                                    *)

\* tart run, whose softnet listens nowhere yet.
StartVM(p) ==
    /\ Steps(p, "idle", "allocate")
    /\ p \notin running
    /\ running' = running \cup {p}
    /\ UNCHANGED <<registry, disk, seed, proxy, listening, foreign, arg, info, startup>>

StartAllocates(p) ==
    /\ Steps(p, "allocate", "expose")
    /\ \E i \in IPs :
          /\ Allocates(p, i)
          /\ arg' = [arg EXCEPT ![p] = i]
    /\ present' = present \cup {p}
    /\ UNCHANGED <<snapshots, configured, seed, proxy, listening, running, foreign, info, startup>>

StartExposes(p) ==
    /\ Steps(p, "expose", "spawn")
    /\ Exposes(p, arg[p])
    /\ UNCHANGED <<registry, disk, seed, proxy, front, running, foreign, arg, info, startup>>

\* The push fails, or the guest never answered before it.
StartUnexposed(p) ==
    /\ at[p] = "expose"
    /\ ExposeFails(p, arg[p]) \/ UNCHANGED <<claim, bound>>
    /\ Returns(p)
    /\ UNCHANGED <<registry, disk, seed, proxy, front, running, foreign, startup>>

\* SpawnIronProxy, and the handler's copy of the entry it merges the ports into.
StartSpawns(p) ==
    /\ Steps(p, "spawn", "listen")
    /\ proxy' = proxy \cup {p}
    /\ configured' = configured \cup {p}
    /\ present' = present \cup {p}
    /\ info' = [info EXCEPT ![p] = ip[p]]
    /\ UNCHANGED <<ip, snapshots, saved, seed, listening, running, foreign, arg, startup>>

\* The daemon's listeners; a failure is logged.
StartListens(p) ==
    /\ Steps(p, "listen", "record")
    /\ Listens(p, arg[p]) \/ ListenFails(p, arg[p])
    /\ UNCHANGED <<registry, disk, seed, proxy, bound, claim, running, foreign, arg, info, startup>>

\* The guest-origin ports go into the copy and the copy into the store; the CLI
\* is told the address and provisions.
StartRecords(p) ==
    /\ at[p] = "record"
    /\ present' = present \cup {p}
    /\ ip' = [ip EXCEPT ![p] = info[p]]
    /\ seed' = [seed EXCEPT ![p] = arg[p]]
    /\ Returns(p)
    /\ UNCHANGED <<disk, proxy, listening, running, foreign, startup>>

\* No address, no ports, no iron-proxy, no script in the guest, no guest-origin
\* pair: an error, and what was done stays.
StartFails(p) ==
    /\ \/ at[p] = "allocate" /\ Exhausted(p)
       \/ at[p] \in {"spawn", "listen", "record"}
    /\ Returns(p)
    /\ UNCHANGED <<registry, disk, seed, proxy, listening, running, foreign, startup>>

\* Provisioning, in a guest that is up, succeeded: the CLI, with no lock, writes
\* the snapshot.
Seeds(p) ==
    /\ seed[p] # NoIP
    /\ p \in running
    /\ snapshots' = snapshots \cup {p}
    /\ saved' = [saved EXCEPT ![p] = seed[p]]
    /\ seed' = [seed EXCEPT ![p] = NoIP]
    /\ UNCHANGED <<registry, configured, proxy, listening, running, foreign, handler, startup>>

\* Provisioning failed.
SeedsNothing(p) ==
    /\ seed[p] # NoIP
    /\ seed' = [seed EXCEPT ![p] = NoIP]
    /\ UNCHANGED <<registry, disk, proxy, listening, running, foreign, handler, startup>>

-----------------------------------------------------------------------------
(* /vm/stop.                                                               *)

\* Mutant: the address goes first.
StopProxy_Releases(p) ==
    /\ Steps(p, "idle", "close")
    /\ proxy' = proxy \ {p}
    /\ Releases(p)
    /\ UNCHANGED <<present, snapshots, configured, seed, listening, running, foreign, arg, info, startup>>

StopProxy(p) ==
    /\ Steps(p, "idle", "close")
    /\ proxy' = proxy \ {p}
    /\ UNCHANGED <<registry, disk, seed, listening, running, foreign, arg, info, startup>>

StopProjectListeners(p) ==
    /\ Steps(p, "close", "release")
    /\ front' = [front EXCEPT ![p] = NoIP]
    /\ UNCHANGED <<registry, disk, seed, proxy, bound, claim, running, foreign, arg, info, startup>>

ReleaseProjectIP(p) ==
    /\ Steps(p, "release", "forget")
    /\ Releases(p)
    /\ UNCHANGED <<present, snapshots, configured, seed, proxy, listening, running, foreign, arg, info, startup>>

StopForgets(p) ==
    /\ Steps(p, "forget", "poweroff")
    /\ present' = present \ {p}
    /\ ip' = [ip EXCEPT ![p] = NoIP]
    /\ claim' = [claim EXCEPT ![p] = NoIP]
    /\ UNCHANGED <<disk, seed, proxy, front, bound, running, foreign, arg, info, startup>>

\* Mutant: an orphan that listens nowhere is taken for one that does.
StopPowersOff_Nowhere(p) ==
    /\ Steps(p, "poweroff", "idle")
    /\ running' = running \ {p}
    /\ bound' = [bound EXCEPT ![p] = NoIP]
    /\ \/ UNCHANGED foreign
       \/ "foreign" \in Faults /\ foreign' = foreign \cup {bound[p]}
    /\ UNCHANGED <<registry, disk, seed, proxy, front, claim, arg, info, startup>>

\* The guest is down; softnet exits when asked, or stays behind as an orphan.
StopPowersOff(p) ==
    /\ Steps(p, "poweroff", "idle")
    /\ running' = running \ {p}
    /\ bound' = [bound EXCEPT ![p] = NoIP]
    /\ \/ UNCHANGED foreign
       \/ "foreign" \in Faults /\ foreign' = foreign \cup ({bound[p]} \ {NoIP})
    /\ UNCHANGED <<registry, disk, seed, proxy, front, claim, arg, info, startup>>

-----------------------------------------------------------------------------
(* /vm/reconcile of a project whose address is answered by another's sshd.  *)

HealReleases(p) ==
    /\ Steps(p, "idle", "reallocate")
    /\ p \in running
    /\ ip[p] # NoIP /\ Taken(p, ip[p])
    /\ Releases(p)
    /\ UNCHANGED <<present, snapshots, configured, seed, proxy, listening, running, foreign, arg, info, startup>>

HealAllocates(p) ==
    /\ Steps(p, "reallocate", "relisten")
    /\ \E i \in IPs :
          /\ Allocates(p, i)
          /\ arg' = [arg EXCEPT ![p] = i]
    /\ present' = present \cup {p}
    /\ UNCHANGED <<snapshots, configured, seed, proxy, listening, running, foreign, info, startup>>

\* rebindProjectListeners, here under the lock: its copy of the entry goes back
\* as it came.
HealListens(p) ==
    /\ Steps(p, "relisten", "reexpose")
    /\ Listens(p, arg[p])
    /\ UNCHANGED <<registry, disk, seed, proxy, bound, claim, running, foreign, arg, info, startup>>

HealExposes(p) ==
    /\ at[p] = "reexpose"
    /\ Exposes(p, arg[p])
    /\ Returns(p)
    /\ UNCHANGED <<registry, disk, seed, proxy, front, running, foreign, startup>>

HealFails(p) ==
    /\ \/ at[p] = "reallocate" /\ Exhausted(p) /\ UNCHANGED listening
       \/ at[p] = "relisten" /\ ListenFails(p, arg[p]) /\ UNCHANGED <<bound, claim>>
       \/ at[p] = "reexpose" /\ ExposeFails(p, arg[p]) /\ UNCHANGED front
    /\ Returns(p)
    /\ UNCHANGED <<registry, disk, seed, proxy, running, foreign, startup>>

-----------------------------------------------------------------------------
(* /vm/apply-iron-proxy, of a reconcile and of a VM adopted in place.      *)

ApplyAllocates(p) ==
    /\ Steps(p, "idle", "adopt")
    /\ p \in configured
    /\ proxy' = proxy \cup {p}
    /\ present' = present \cup {p}
    /\ \E i \in IPs :
          /\ Allocates(p, i)
          /\ arg' = [arg EXCEPT ![p] = i]
    /\ UNCHANGED <<snapshots, configured, seed, listening, running, foreign, info, startup>>

\* No address, or a peer service of an unknown project: the new iron-proxy stays.
ApplyFails(p) ==
    /\ at[p] = "idle" /\ UNCHANGED at
    /\ p \in configured
    /\ proxy' = proxy \cup {p}
    /\ present' = present \cup {p}
    /\ UNCHANGED <<ip, disk, seed, listening, running, foreign, arg, info, startup>>

\* The snapshot's map is pushed, a failure logged; an adopting CLI provisions.
ApplyExposes(p) ==
    /\ at[p] = "adopt"
    /\ IF p \in snapshots
       THEN Exposes(p, arg[p]) \/ ExposeFails(p, arg[p])
       ELSE UNCHANGED <<claim, bound>>
    /\ \/ UNCHANGED seed
       \/ p \in running /\ seed' = [seed EXCEPT ![p] = arg[p]]
    /\ Returns(p)
    /\ UNCHANGED <<registry, disk, proxy, front, running, foreign, startup>>

\* No guest-origin pair: an error.
ApplyUnexposed(p) ==
    /\ at[p] = "adopt"
    /\ Returns(p)
    /\ UNCHANGED <<registry, disk, seed, proxy, listening, running, foreign, startup>>

-----------------------------------------------------------------------------
(* The watchdog.                                                           *)

\* Nothing of the daemon's answers on the project's address.
Unreachable(p) ==
    /\ p \in running
    /\ ip[p] # NoIP
    /\ \A q \in Projects : front[q] # ip[p]

\* Mutant: StartProjectListeners alone.
RespawnCloses_Kept(p) ==
    /\ Steps(p, "idle", "reopen")
    /\ p \in running
    /\ p \in present /\ ip[p] # NoIP
    /\ info' = [info EXCEPT ![p] = ip[p]]
    /\ UNCHANGED <<registry, disk, seed, proxy, listening, running, foreign, arg, startup>>

\* RespawnProxyListeners, after a probe that failed for this or another reason.
RespawnCloses(p) ==
    /\ Steps(p, "idle", "reopen")
    /\ p \in running
    /\ p \in present /\ ip[p] # NoIP
    /\ front' = [front EXCEPT ![p] = NoIP]
    /\ info' = [info EXCEPT ![p] = ip[p]]
    /\ UNCHANGED <<registry, disk, seed, proxy, bound, claim, running, foreign, arg, startup>>

RespawnListens(p) ==
    /\ at[p] = "reopen"
    /\ Listens(p, info[p])
    /\ present' = present \cup {p}
    /\ ip' = [ip EXCEPT ![p] = info[p]]
    /\ Returns(p)
    /\ UNCHANGED <<disk, seed, proxy, bound, claim, running, foreign, startup>>

\* The :80/:443 pair or the guest-origin pair cannot be bound.
RespawnFails(p) ==
    /\ at[p] = "reopen"
    /\ Listens(p, info[p]) \/ ListenFails(p, info[p])
    /\ Returns(p)
    /\ UNCHANGED <<registry, disk, seed, proxy, bound, claim, running, foreign, startup>>

\* RespawnIronProxyForWatchdog asks for a snapshot, not for a VM.
RespawnIronProxy(p) ==
    /\ at[p] = "idle"
    /\ p \notin proxy /\ p \in snapshots /\ p \in configured
    /\ proxy' = proxy \cup {p}
    /\ UNCHANGED <<registry, disk, seed, listening, running, foreign, handler, startup>>

-----------------------------------------------------------------------------
(* The host.                                                               *)

ProxyExits(p) ==
    /\ "crash" \in Faults
    /\ p \in proxy
    /\ proxy' = proxy \ {p}
    /\ UNCHANGED <<registry, disk, seed, listening, running, foreign, handler, startup>>

\* tart run exits and its softnet with it; the supervisor may run it again.
VMExits(p) ==
    /\ "crash" \in Faults
    /\ p \in running
    /\ running' \in {running, running \ {p}}
    /\ bound' = [bound EXCEPT ![p] = NoIP]
    /\ UNCHANGED <<registry, disk, seed, proxy, front, claim, foreign, handler, startup>>

ForeignListens(i) ==
    /\ "foreign" \in Faults
    /\ \A q \in Projects : bound[q] # i
    /\ foreign' = foreign \cup {i}
    /\ UNCHANGED <<registry, disk, seed, proxy, listening, running, handler, startup>>

ForeignGoes(i) ==
    /\ i \in foreign
    /\ foreign' = foreign \ {i}
    /\ UNCHANGED <<registry, disk, seed, proxy, listening, running, handler, startup>>

-----------------------------------------------------------------------------
(* A new daemon.                                                           *)

\* AdoptIronProxies recovers the entry of every project whose iron-proxy is
\* alive, with the address of its snapshot; two goroutines per project follow.
DaemonRestarts ==
    /\ "restart" \in Faults
    /\ present' = proxy
    /\ ip' = [p \in Projects |-> IF p \in proxy THEN saved[p] ELSE NoIP]
    /\ front' = Nowhere /\ claim' = Nowhere
    /\ at' = [p \in Projects |-> "idle"]
    /\ arg' = Nowhere /\ info' = Nowhere
    /\ goes' = [p \in Projects |-> IF ip'[p] = NoIP THEN "ended" ELSE "bind"]
    /\ copy' = ip'
    /\ push' = ip'
    /\ UNCHANGED <<disk, seed, proxy, running, bound, foreign>>

\* discoverSoftnet's goroutine; a failure is logged.
DiscoverExposes(p) ==
    /\ push[p] # NoIP
    /\ Exposes(p, push[p]) \/ ExposeFails(p, push[p])
    /\ push' = [push EXCEPT ![p] = NoIP]
    /\ UNCHANGED <<registry, disk, seed, proxy, front, running, foreign, handler, goes, copy>>

\* rebindProjectListeners, which has no lock; it tries three times.
RebindListens(p) ==
    /\ goes[p] = "bind" /\ goes' = [goes EXCEPT ![p] = "read"]
    /\ Listens(p, copy[p])
    /\ UNCHANGED <<registry, disk, seed, proxy, bound, claim, running, foreign, handler, copy, push>>

RebindFails(p) ==
    /\ goes[p] = "bind" /\ goes' = [goes EXCEPT ![p] = "ended"]
    /\ ListenFails(p, copy[p])
    /\ copy' = [copy EXCEPT ![p] = NoIP]
    /\ UNCHANGED <<registry, disk, seed, proxy, bound, claim, running, foreign, handler, push>>

RebindReads(p) ==
    /\ goes[p] = "read"
    /\ \/ /\ p \in present
          /\ goes' = [goes EXCEPT ![p] = "write"]
          /\ copy' = [copy EXCEPT ![p] = ip[p]]
       \/ /\ goes' = [goes EXCEPT ![p] = "ended"]   \* or no guest-origin pair
          /\ copy' = [copy EXCEPT ![p] = NoIP]
    /\ UNCHANGED <<registry, disk, seed, proxy, listening, running, foreign, handler, push>>

\* The copy, with the fresh guest-origin ports.
RebindWrites(p) ==
    /\ goes[p] = "write" /\ goes' = [goes EXCEPT ![p] = "ended"]
    /\ present' = present \cup {p}
    /\ ip' = [ip EXCEPT ![p] = copy[p]]
    /\ copy' = [copy EXCEPT ![p] = NoIP]
    /\ UNCHANGED <<disk, seed, proxy, listening, running, foreign, handler, push>>

-----------------------------------------------------------------------------

Starting(p) ==
    \/ StartAllocates(p) \/ StartExposes(p) \/ StartUnexposed(p)
    \/ StartSpawns(p) \/ StartListens(p) \/ StartRecords(p) \/ StartFails(p)

Stopping(p) ==
    \/ StopProjectListeners(p) \/ ReleaseProjectIP(p) \/ StopForgets(p)
    \/ StopPowersOff(p)

Healing(p) ==
    \/ HealAllocates(p) \/ HealListens(p) \/ HealExposes(p) \/ HealFails(p)

Startup(p) ==
    \/ DiscoverExposes(p)
    \/ RebindListens(p) \/ RebindFails(p) \/ RebindReads(p) \/ RebindWrites(p)

Next ==
    \/ \E p \in Projects :
          \/ StartVM(p) \/ Starting(p) \/ Seeds(p) \/ SeedsNothing(p)
          \/ StopProxy(p) \/ Stopping(p)
          \/ HealReleases(p) \/ Healing(p)
          \/ ApplyAllocates(p) \/ ApplyFails(p)
          \/ ApplyExposes(p) \/ ApplyUnexposed(p)
          \/ RespawnCloses(p) \/ RespawnListens(p) \/ RespawnFails(p)
          \/ RespawnIronProxy(p)
          \/ ProxyExits(p) \/ VMExits(p)
          \/ Startup(p)
    \/ \E i \in IPs : ForeignListens(i) \/ ForeignGoes(i)
    \/ DaemonRestarts

Spec == Init /\ [][Next]_vars

\* Every wait of a handler and of a startup goroutine is bounded, a mutex starves
\* nobody, the watchdog probes every running project again and again, and the
\* helper it asks again and again binds an address some time.
Fairness ==
    \A p \in Projects :
        /\ WF_vars(Starting(p) \/ Stopping(p) \/ Healing(p)
                     \/ ApplyExposes(p) \/ ApplyUnexposed(p)
                     \/ RespawnListens(p) \/ RespawnFails(p))
        /\ WF_vars(Startup(p))
        /\ SF_vars(Unreachable(p) /\ RespawnCloses(p))
        /\ SF_vars(RespawnListens(p))

FairSpec == Spec /\ Fairness

-----------------------------------------------------------------------------
(* Properties.                                                             *)

\* No two projects hold one address: allocMu makes choosing and recording it one
\* step, and nothing else gives a project an address.
OneHolder ==
    \A p, q \in Projects : ip[p] = ip[q] /\ ip[p] # NoIP => p = q

\* An address that a project is given is one no other project still listens on:
\* /vm/stop closes its listeners before it releases, and the probe sees a softnet.
HandsOverSilent ==
    [][\A p, q \in Projects :
          /\ ip[p] = NoIP /\ ip'[p] # NoIP
          /\ at'[p] \in {"expose", "relisten", "adopt"}
          /\ p # q
          => front[q] # ip'[p] /\ bound[q] # ip'[p]]_vars

\* The addresses on which the daemon or its softnet listens for a project.
listensOn == [p \in Projects |-> {front[p], bound[p]} \ {NoIP}]

Pool == INSTANCE AddressPool
            WITH Clients <- Projects, Addresses <- IPs, None <- NoIP,
                 held <- ip, uses <- listensOn

\* AllocateProjectIP, its probe, the order of /vm/stop and the project locks
\* together keep the promise of AddressPool: each step that writes ip is an
\* acquisition of an address nobody else holds or listens on or a release of
\* it, and nobody starts to listen on an address that is not its own.
ImplementsPool == Pool!Spec

\* The project that /vm/stop is powering off has no entry, listener or claim.
StopLeavesNothing ==
    \A p \in Projects : at[p] = "poweroff" =>
        p \notin present /\ ip[p] = NoIP /\ front[p] = NoIP /\ claim[p] = NoIP

\* The claims tell who listens where: no project's endpoint is claimed by another.
ClaimsTellTheOwner ==
    \A p, q \in Projects : bound[p] # NoIP /\ claim[q] = bound[p] => p = q

\* A running project with an address gets listeners on it again, whatever heals and
\* restarts left behind, once the daemon stays up: the watchdog closes before it binds.
ListenersReturn ==
    <>[][~DaemonRestarts]_vars =>
        \A p \in Projects : Unreachable(p) ~> ~Unreachable(p)

-----------------------------------------------------------------------------
(* What comments in the code say, and its behaviour does not keep.         *)

\* An address a new daemon restores from a snapshot is one no other project uses.
RestoresOwnAddress ==
    [][\A p, q \in Projects :
          DaemonRestarts /\ ip'[p] # NoIP /\ p # q => ip[q] # ip'[p] /\ bound[q] # ip'[p]]_vars

\* After a heal that succeeds the daemon listens for the project on its address.
HealMovesListeners ==
    [][\A p \in Projects : HealExposes(p) => front'[p] = ip'[p]]_vars
=============================================================================
