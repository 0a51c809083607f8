------------------------------- MODULE Routing -----------------------------
(***************************************************************************)
(* Who answers a request for a hostname: the route table, the browsers'    *)
(* listeners on a project's address, the guest-origin listeners on the     *)
(* Mac's loopback, the port softnet forwards a guest's .test traffic to,   *)
(* and the declared peers.                                                 *)
(*                                                                         *)
(* /vm/start, /vm/stop and the watchdog's respawn hold the project's lock  *)
(* and are stages of task; /routes/apply takes no lock, nor do the         *)
(* goroutines that a starting daemon leaves behind. A project's own name   *)
(* stands for its reserved hostnames (_devm., files., preview.).           *)
(***************************************************************************)
EXTENDS Naturals, FiniteSets

CONSTANTS
    Projects, Hosts, IPs, Ports, None,
    Zone,       \* a hostname's <project>.<tld>
    Peers,      \* a project's peer_services
    Decls,      \* what a project may send to /routes/apply
    Faults,     \* what happens of "restart", "straddle", "overlap", "reuse"
    MaxCalls    \* bound on the /routes/apply under way at a time

Names == Hosts \cup Projects
ZoneOf(h) == IF h \in Projects THEN h ELSE Zone[h]

ASSUME RoutingAssumption ==
    /\ None \notin IPs \cup Ports \cup Names
    /\ Projects \cap Hosts = {}
    /\ MaxCalls \in Nat
    /\ Zone \in [Hosts -> Projects]
    /\ Peers \in [Projects -> SUBSET Projects] /\ \A p \in Projects : p \notin Peers[p]
    /\ \A p \in Projects : \A decl \in Decls[p] :
          /\ DOMAIN decl \subseteq Hosts
          /\ decl \in [DOMAIN decl -> [mode : {"vm", "local", "direct"}, lan : BOOLEAN]]

VARIABLES
    routes,     \* Routes: hostname -> route
    entry,      \* ironProxyState: the project's address and guest-origin port
    peers,      \* peersIndex
    pair,       \* the address :80 and :443 are bound on
    guest,      \* the guest-origin pair: its port, and the address its handler dials
    lanUp,      \* is the LAN listener bound?
    at,         \* the address a running VM's softnet exposes its services on
    target,     \* the port its softnet forwards .test traffic to
    pushes,     \* setPolicy calls under way without the project's lock
    snap,       \* the state snapshot: address and routes
    task,       \* the handler that has the project's lock
    cli,        \* what a command that does not hold the lock does next
    call,       \* the project's /routes/apply
    rebind,     \* its rebindProjectListeners goroutine: the address it binds
    booting     \* running projects a starting daemon has not adopted yet

memory == <<routes, entry, peers, pair, guest, lanUp>>
softnet == <<at, target, pushes>>
steps == <<task, cli, call, rebind, booting>>
vars == <<memory, softnet, snap, steps>>

NoRoute == [project |-> None, mode |-> "none", ip |-> None, lan |-> FALSE]
NoEntry == [ip |-> None, port |-> None]
NoGuest == [port |-> None, ip |-> None]
NoCall == [at |-> "no", items |-> <<>>, lan |-> FALSE, ip |-> None]

Init ==
    /\ routes = [n \in Names |-> NoRoute]
    /\ entry = [p \in Projects |-> NoEntry]
    /\ peers = [p \in Projects |-> {}]
    /\ pair = [p \in Projects |-> None]
    /\ guest = [p \in Projects |-> NoGuest]
    /\ lanUp = FALSE
    /\ at = [p \in Projects |-> None]
    /\ target = [p \in Projects |-> None]
    /\ pushes = [p \in Projects |-> {}]
    /\ snap = [p \in Projects |-> [ip |-> None, routes |-> <<>>]]
    /\ task = [p \in Projects |-> "idle"]
    /\ cli = [p \in Projects |-> "no"]
    /\ call = [p \in Projects |-> NoCall]
    /\ rebind = [p \in Projects |-> None]
    /\ booting = {}

-----------------------------------------------------------------------------
(* The route table. The LAN map is the exposed part of it: Apply and       *)
(* Remove change both under one mutex.                                     *)

Owned(p) == {n \in Names : routes[n].project = p}
Exposed(table) == \E n \in Names : table[n].lan

\* Atomic: one hostname of another project and nothing changes.
Collides(table, p, items) == \E h \in DOMAIN items : table[h].project \notin {None, p}

\* Mutant: the swap drops the project's reserved routes too.
Applied_DropsReserved(table, p, items) ==
    [n \in Names |-> IF n \in DOMAIN items THEN items[n]
                     ELSE IF table[n].project = p THEN NoRoute ELSE table[n]]

\* The project's user-declared routes become `items`; its reserved ones stay.
Applied(table, p, items) ==
    [n \in Names |-> IF n \in DOMAIN items THEN items[n]
                     ELSE IF table[n].project = p /\ n # p THEN NoRoute ELSE table[n]]

Reserved(p, ip) == [project |-> p, mode |-> "vm", ip |-> ip, lan |-> FALSE]

\* Routes.Lookup: direct routes are never dialled, other projects' refused.
Lookup(h, p) == routes[h].mode \in {"vm", "local"} /\ routes[h].project = p

-----------------------------------------------------------------------------
(* Listeners.                                                              *)

Idle(p) == task[p] = "idle" /\ booting = {}
Goes(p, stage) == task' = [task EXCEPT ![p] = stage]

\* Has what the starting daemon left behind for the project ended? With
\* "straddle" stops, starts and respawns do not wait for that.
Settled(p) == (rebind[p] = None /\ pushes[p] = {}) \/ "straddle" \in Faults

FreeIPs == IPs \ ({entry[q].ip : q \in Projects} \cup {at[q] : q \in Projects})

\* The kernel gives no port that is bound; without "reuse", none either that
\* something still remembers.
BoundPorts == {guest[q].port : q \in Projects}
FreePorts == Ports \ (BoundPorts \cup (IF "reuse" \in Faults THEN {}
                 ELSE {target[q] : q \in Projects} \cup {entry[q].port : q \in Projects}
                      \cup UNION {pushes[q] : q \in Projects}))

\* StartProjectListeners keeps the pair it finds.
Listens(p, ip) == pair' = [pair EXCEPT ![p] = IF @ = None THEN ip ELSE @]

\* So does StartGuestOriginListeners, whose caller records the port.
GuestListens(p, ip) ==
    /\ \E port \in FreePorts :
           guest' = [guest EXCEPT ![p] = IF @ = NoGuest THEN [port |-> port, ip |-> ip] ELSE @]
    /\ entry' = [entry EXCEPT ![p].port = IF entry[p].ip = None THEN @ ELSE guest'[p].port]

\* Mutant: the guest-origin pair survives.
Closes_KeepsGuest(p) == /\ pair' = [pair EXCEPT ![p] = None]
                        /\ UNCHANGED guest

\* StopProjectListeners.
Closes(p) == /\ pair' = [pair EXCEPT ![p] = None]
             /\ guest' = [guest EXCEPT ![p] = NoGuest]

\* Mutant: an unbound pair is pushed as port 0.
Sets_Zero(p, port) == target' = [target EXCEPT ![p] = IF at[p] = None THEN @
                                                     ELSE IF port = None THEN 0 ELSE port]

\* setPolicy with the endpoint of the entry, to a softnet that is there.
Sets(p, port) == target' = [target EXCEPT ![p] = IF at[p] = None THEN @ ELSE port]

-----------------------------------------------------------------------------
(* A cold start: /vm/start under the project's lock, then the CLI's        *)
(* /vm/begin-provisioning and its seed of the state snapshot.              *)

\* AllocateProjectIP keeps an address and takes any free one (the probe may
\* skip the lowest); the expose map puts the booting VM, LOCKED, on it.
StartAllocates(p) ==
    /\ Idle(p) /\ cli[p] = "no" /\ at[p] = None /\ Settled(p)
    /\ \E ip \in IF entry[p].ip = None THEN FreeIPs ELSE {entry[p].ip} :
          /\ entry' = [entry EXCEPT ![p].ip = ip]
          /\ at' = [at EXCEPT ![p] = ip]
          /\ snap' = [snap EXCEPT ![p].ip = ip]
    /\ target' = [target EXCEPT ![p] = None]
    /\ Goes(p, "listens")
    /\ UNCHANGED <<routes, peers, pair, guest, lanUp, pushes, cli, call, rebind, booting>>

\* The peers, both pairs of listeners and the reserved routes.
StartListens(p) ==
    /\ task[p] = "listens"
    /\ peers' = [peers EXCEPT ![p] = Peers[p]]
    /\ Listens(p, entry[p].ip)
    /\ GuestListens(p, entry[p].ip)
    /\ routes' = [routes EXCEPT ![p] = Reserved(p, entry[p].ip)]
    /\ Goes(p, "idle")
    /\ cli' = [cli EXCEPT ![p] = "opens"]
    /\ UNCHANGED <<lanUp, softnet, snap, call, rebind, booting>>

\* /vm/begin-provisioning.
StartOpens(p) ==
    /\ Idle(p) /\ cli[p] = "opens"
    /\ Sets(p, entry[p].port)
    /\ cli' = [cli EXCEPT ![p] = "seeds"]
    /\ UNCHANGED <<memory, at, pushes, snap, task, call, rebind, booting>>

\* The CLI's snapshot names the address and no routes.
StartSeeds(p) ==
    /\ cli[p] = "seeds"
    /\ snap' = [snap EXCEPT ![p] = [ip |-> at[p], routes |-> <<>>]]
    /\ cli' = [cli EXCEPT ![p] = "no"]
    /\ UNCHANGED <<memory, softnet, task, call, rebind, booting>>

-----------------------------------------------------------------------------
(* /routes/remove and /vm/stop. A stop leaves the project's routes.        *)

\* `devm teardown` removes the routes before it stops the VM.
Removes(p) ==
    /\ Idle(p) /\ cli[p] = "no"
    /\ routes' = [n \in Names |-> IF n \in Owned(p) THEN NoRoute ELSE routes[n]]
    /\ lanUp' = Exposed(routes')
    /\ snap' = [snap EXCEPT ![p].routes = <<>>]
    /\ cli' = [cli EXCEPT ![p] = "teardown"]
    /\ UNCHANGED <<entry, peers, pair, guest, softnet, task, call, rebind, booting>>

StopCloses(p) ==
    /\ Idle(p) /\ Settled(p)
    /\ cli[p] = "teardown" \/ (cli[p] = "no" /\ at[p] # None)
    /\ Closes(p)
    /\ Goes(p, "releases")
    /\ UNCHANGED <<routes, entry, peers, lanUp, softnet, snap, cli, call, rebind, booting>>

StopReleases(p) ==
    /\ task[p] = "releases"
    /\ snap' = [snap EXCEPT ![p].ip = None]
    /\ entry' = [entry EXCEPT ![p] = NoEntry]
    /\ peers' = [peers EXCEPT ![p] = {}]
    /\ Goes(p, "poweroff")
    /\ UNCHANGED <<routes, pair, guest, lanUp, softnet, cli, call, rebind, booting>>

\* The guest powers off; softnet goes with it.
StopPowersOff(p) ==
    /\ task[p] = "poweroff"
    /\ at' = [at EXCEPT ![p] = None]
    /\ target' = [target EXCEPT ![p] = None]
    /\ Goes(p, "idle")
    /\ cli' = [cli EXCEPT ![p] = "no"]
    /\ UNCHANGED <<memory, pushes, snap, call, rebind, booting>>

-----------------------------------------------------------------------------
(* The watchdog's respawn of a project whose listeners did not answer.     *)

RespawnCloses(p) ==
    /\ Idle(p) /\ Settled(p) /\ entry[p].ip # None
    /\ Closes(p)
    /\ Goes(p, "respawns")
    /\ UNCHANGED <<routes, entry, peers, lanUp, softnet, snap, cli, call, rebind, booting>>

RespawnBinds(p) ==
    /\ task[p] = "respawns"
    /\ Listens(p, entry[p].ip)
    /\ GuestListens(p, entry[p].ip)
    /\ Sets(p, entry'[p].port)
    /\ Goes(p, "idle")
    /\ UNCHANGED <<routes, peers, lanUp, at, pushes, snap, cli, call, rebind, booting>>

-----------------------------------------------------------------------------
(* /routes/apply, from `devm route`, `devm shell` or `devm reconcile`,     *)
(* and the snapshot /vm/reconcile writes before the CLI sends the routes   *)
(* again: none of its fields are the routes.                               *)

Reconciles(p) ==
    /\ Idle(p) /\ cli[p] = "no" /\ at[p] # None
    /\ snap' = [snap EXCEPT ![p] = [ip |-> entry[p].ip, routes |-> <<>>]]
    /\ UNCHANGED <<memory, softnet, steps>>

CallGoes(p, new) == call' = [call EXCEPT ![p] = new]

\* The address is substituted into vm-mode routes: none, and it is a 400.
ApplyReads(p) ==
    /\ booting = {} /\ call[p].at = "no"
    /\ Cardinality({q \in Projects : call[q].at # "no"}) < MaxCalls
    /\ \E decl \in Decls[p] :
          /\ (\E h \in DOMAIN decl : decl[h].mode = "vm") => entry[p].ip # None
          /\ CallGoes(p, [NoCall EXCEPT !.at = "installs", !.items =
                 [h \in DOMAIN decl |->
                     [project |-> p, mode |-> decl[h].mode, lan |-> decl[h].lan,
                      ip |-> IF decl[h].mode = "vm" THEN entry[p].ip ELSE None]]])
    /\ UNCHANGED <<memory, softnet, snap, task, cli, rebind, booting>>

\* Routes.Apply, then reconcileLAN's count.
ApplyInstalls(p) ==
    /\ call[p].at = "installs"
    /\ IF Collides(routes, p, call[p].items)
       THEN /\ CallGoes(p, NoCall)
            /\ UNCHANGED routes
       ELSE /\ routes' = Applied(routes, p, call[p].items)
            /\ CallGoes(p, [call[p] EXCEPT !.at = "listens", !.lan = Exposed(routes')])
    /\ UNCHANGED <<entry, peers, pair, guest, lanUp, softnet, snap, task, cli, rebind, booting>>

\* The listener is started or stopped by the count, and the mirror reads the
\* snapshot.
ApplyListens(p) ==
    /\ call[p].at = "listens"
    /\ lanUp' = call[p].lan
    /\ CallGoes(p, [call[p] EXCEPT !.at = "mirrors", !.ip = snap[p].ip])
    /\ UNCHANGED <<routes, entry, peers, pair, guest, softnet, snap, task, cli, rebind, booting>>

\* The mirror writes what it read, and the routes. Without "overlap" nothing
\* else writes the snapshot in between.
ApplyMirrors(p) ==
    /\ call[p].at = "mirrors"
    /\ snap' = [snap EXCEPT ![p] =
           [ip |-> IF "overlap" \in Faults THEN call[p].ip ELSE @.ip, routes |-> call[p].items]]
    /\ CallGoes(p, NoCall)
    /\ UNCHANGED <<memory, softnet, task, cli, rebind, booting>>

-----------------------------------------------------------------------------
(* The daemon is restarted, between two handlers of the lock. Its memory   *)
(* and its listeners are gone, the VMs and their softnets go on.           *)

Restart ==
    /\ "restart" \in Faults /\ booting = {}
    /\ \A p \in Projects : task[p] = "idle" /\ cli[p] = "no"
    /\ \E p \in Projects : at[p] # None
    /\ routes' = [n \in Names |-> NoRoute]
    /\ entry' = [p \in Projects |-> NoEntry]
    /\ peers' = [p \in Projects |-> {}]
    /\ pair' = [p \in Projects |-> None]
    /\ guest' = [p \in Projects |-> NoGuest]
    /\ lanUp' = FALSE
    /\ pushes' = [p \in Projects |-> {}]
    /\ call' = [p \in Projects |-> NoCall]
    /\ rebind' = [p \in Projects |-> None]
    /\ booting' = {p \in Projects : at[p] # None}
    /\ UNCHANGED <<at, target, snap, task, cli>>

\* recoverProjectState replays the snapshot; reconcileLAN counts when the last
\* project is back; bindSoftnetListenersForAdopt starts a push without a
\* guest-origin port.
Recovers(p) ==
    /\ p \in booting
    /\ booting' = booting \ {p}
    /\ entry' = [entry EXCEPT ![p].ip = snap[p].ip]
    /\ peers' = [peers EXCEPT ![p] = Peers[p]]
    /\ LET replayed == IF Collides(routes, p, snap[p].routes) THEN routes
                       ELSE Applied(routes, p, snap[p].routes)
       IN  routes' = IF snap[p].ip = None THEN replayed
                     ELSE [replayed EXCEPT ![p] = Reserved(p, snap[p].ip)]
    /\ lanUp' = Exposed(routes')
    /\ rebind' = [rebind EXCEPT ![p] = snap[p].ip]
    /\ pushes' = [pushes EXCEPT ![p] = {None}]
    /\ UNCHANGED <<pair, guest, at, target, snap, task, cli, call>>

\* rebindProjectListeners binds both pairs without the lock, pushes what it
\* recorded, and to the project's dependents what is recorded for them.
Rebinds(p) ==
    /\ booting = {} /\ rebind[p] # None
    /\ Listens(p, rebind[p])
    /\ GuestListens(p, rebind[p])
    /\ pushes' = [q \in Projects |->
           pushes[q] \cup IF entry[p].ip # None /\ entry[q].ip # None /\ (q = p \/ p \in peers[q])
                         THEN {entry'[q].port} ELSE {}]
    /\ rebind' = [rebind EXCEPT ![p] = None]
    /\ UNCHANGED <<routes, peers, lanUp, at, target, snap, task, cli, call, booting>>

\* Nothing orders two pushes that are under way.
PushLands(p) ==
    /\ \E port \in pushes[p] :
          /\ Sets(p, port)
          /\ pushes' = [pushes EXCEPT ![p] = @ \ {port}]
    /\ UNCHANGED <<memory, at, snap, steps>>

-----------------------------------------------------------------------------

Next ==
    \/ Restart
    \/ \E p \in Projects :
          \/ StartAllocates(p) \/ StartListens(p) \/ StartOpens(p) \/ StartSeeds(p)
          \/ Removes(p) \/ StopCloses(p) \/ StopReleases(p) \/ StopPowersOff(p)
          \/ RespawnCloses(p) \/ RespawnBinds(p)
          \/ Reconciles(p)
          \/ ApplyReads(p) \/ ApplyInstalls(p) \/ ApplyListens(p) \/ ApplyMirrors(p)
          \/ Recovers(p) \/ Rebinds(p) \/ PushLands(p)

Spec == Init /\ [][Next]_vars

-----------------------------------------------------------------------------
(* Who answers.                                                            *)

\* Where a connection to an address ends: the softnet that exposes on it.
VMsAt(ip) == {q \in Projects : ip # None /\ at[q] = ip}

\* guestOriginBackend dials the address of the listener, not the route's.
Own(q, h) == IF Lookup(h, q) THEN VMsAt(guest[q].ip) ELSE {}

\* A declared peer's zone is spliced to the port the peer recorded, where a
\* listener answers as for its own guest.
Spliced(q, h) ==
    UNION {Own(w, h) : w \in {w \in Projects :
        /\ ZoneOf(h) \in peers[q]
        /\ entry[ZoneOf(h)].port # None /\ guest[w].port = entry[ZoneOf(h)].port}}

\* guestOriginHandler, and the SNI mux in front of it for HTTPS.
AnswersHTTP(q, h) == IF Lookup(h, q) THEN Own(q, h) ELSE Spliced(q, h)
AnswersHTTPS(q, h) == IF ZoneOf(h) = q THEN AnswersHTTP(q, h) ELSE Spliced(q, h)

\* A guest's request, through its softnet.
Answers(p, h) ==
    UNION {AnswersHTTP(w, h) \cup AnswersHTTPS(w, h) :
        w \in {w \in Projects : target[p] # None /\ guest[w].port = target[p]}}

\* A browser's, to the address of a project: projectByIP, then the route's own
\* backend (a local one is the Mac's loopback).
Browses(p, h) ==
    IF /\ entry[p].ip # None /\ \E q \in Projects : pair[q] = entry[p].ip
       /\ Lookup(h, p) /\ routes[h].mode = "vm"
    THEN VMsAt(routes[h].ip) ELSE {}

-----------------------------------------------------------------------------
(* Properties.                                                             *)

Routes == [project : Projects \cup {None}, mode : {"none", "vm", "local", "direct"},
           ip : IPs \cup {None}, lan : BOOLEAN]
Items == UNION {[hs -> Routes] : hs \in SUBSET Hosts}

\* Every variable has the kind of value its Go type allows.
TypeOK ==
    /\ routes \in [Names -> Routes]
    /\ entry \in [Projects -> [ip : IPs \cup {None}, port : Ports \cup {None}]]
    /\ peers \in [Projects -> SUBSET Projects]
    /\ pair \in [Projects -> IPs \cup {None}]
    /\ guest \in [Projects -> [ip : IPs \cup {None}, port : Ports \cup {None}]]
    /\ lanUp \in BOOLEAN
    /\ at \in [Projects -> IPs \cup {None}]
    /\ target \in [Projects -> Ports \cup {None}]
    /\ pushes \in [Projects -> SUBSET (Ports \cup {None})]
    /\ snap \in [Projects -> [ip : IPs \cup {None}, routes : Items]]
    /\ task \in [Projects -> {"idle", "listens", "releases", "poweroff", "respawns"}]
    /\ cli \in [Projects -> {"no", "opens", "seeds", "teardown"}]
    /\ call \in [Projects -> [at : {"no", "installs", "listens", "mirrors"}, items : Items,
                              lan : BOOLEAN, ip : IPs \cup {None}]]
    /\ rebind \in [Projects -> IPs \cup {None}]
    /\ booting \subseteq Projects

\* A guest that asks for a hostname is answered by the VM of the project that
\* has the route for it, and only if that is the guest's own project or a peer
\* it declares: through the port its softnet holds, the listener bound there,
\* the peers and the route table, each with an age of its own (guestorigin.go
\* and hairpin_sni.go, fail-closed on everything else).
GuestStaysInside ==
    \A p \in Projects, h \in Names :
        Answers(p, h) \subseteq {routes[h].project} \cap ({p} \cup Peers[p])

\* A project with an address has its reserved routes, with that address,
\* across calls of /routes/apply, reconciles and restarts: without them the
\* watchdog's probe fails and it rebinds the listeners on every tick
\* (recoverProjectState's comment).
ProbeHasItsRoute ==
    \A p \in Projects :
        Idle(p) /\ cli[p] # "teardown" /\ entry[p].ip # None => routes[p] = Reserved(p, entry[p].ip)

\* A browser's request to a project's address never reaches the VM of another:
\* Lookup's "isolation guarantee that keeps one project's proxy dispatch from
\* ever reaching another project's backend".
HostStaysInside == \A p \in Projects, h \in Names : Browses(p, h) \subseteq {p}

\* A daemon that goes down leaves a running project's routes in its snapshot:
\* `devm route` "survives without a manual re-issue" (RegisterRoutesHandlers).
RoutesSurvive ==
    [][Restart => \A p \in Projects : at[p] # None /\ call[p] = NoCall =>
           DOMAIN snap[p].routes = Owned(p) \ {p}]_vars

\* The softnet of a project at rest after a restart holds the port of its
\* guest-origin listener: discoverSoftnet calls the rebind pass "the sole
\* post-restart pusher".
RebindIsHeard ==
    \A p \in Projects :
        Idle(p) /\ cli[p] = "no" /\ rebind[p] = None /\ pushes[p] = {} /\ at[p] # None
            => target[p] = guest[p].port

\* The LAN listener is bound exactly when a route is exposed and no call is
\* under way: "the listener lifecycle tracks the opt-in set".
LanFollowsRoutes ==
    (booting = {} /\ \A p \in Projects : call[p] = NoCall) => lanUp = Exposed(routes)
=============================================================================
