---------------------------- MODULE RoutingProofs --------------------------
(***************************************************************************)
(* Routing for any projects, hostnames, addresses, ports and any number of *)
(* calls of /routes/apply under way: its types, that the watchdog's probe  *)
(* has its route, and that a guest's request stays inside its project and  *)
(* the declared peers.                                                     *)
(***************************************************************************)
EXTENDS Routing, TLAPS

\* The last is about a daemon whose handlers wait for what it left behind, whose
\* writers of the snapshot do not overlap, on a kernel that gives no port that
\* something still remembers; with any of them TLC refutes GuestStaysInside.
Orderly == Faults \cap {"straddle", "overlap", "reuse"} = {}

-----------------------------------------------------------------------------
(* Who holds what.                                                         *)

\* The ports a project's parts hold or remember, and a push is about to set.
Holds(p) == {guest[p].port, target[p], entry[p].port} \cup pushes[p]
PortsInv == \A p, q \in Projects : p # q => Holds(p) \cap Holds(q) \subseteq {None}

\* Whatever names an address for a project names the one its VM is exposed on;
\* a VM that powers off leaves none that does.
Addressed(p) ==
    /\ {entry[p].ip, snap[p].ip, guest[p].ip, rebind[p]} \subseteq {None, at[p]}
    /\ task[p] # "idle" => booting = {} /\ rebind[p] = None
    /\ task[p] \in {"releases", "poweroff"} => guest[p].ip = None /\ cli[p] # "seeds"
    /\ task[p] = "poweroff" => entry[p].ip = None /\ snap[p].ip = None
AddressInv ==
    /\ \A p, q \in Projects : at[p] = at[q] /\ at[p] # None => p = q
    /\ \A p \in Projects : Addressed(p)

PeersInv == \A p \in Projects : peers[p] \subseteq Peers[p]

OrderInv == TypeOK /\ PortsInv /\ AddressInv /\ PeersInv

\* A project's reserved name is nobody else's, and has its route from the start's
\* second step until a teardown, also while a starting daemon adopts.
Probed(p) ==
    /\ routes[p].project \in {None, p}
    /\ entry[p].ip # None /\ cli[p] # "teardown" /\ task[p] # "listens"
          => routes[p] = Reserved(p, entry[p].ip)
    /\ task[p] = "poweroff" => entry[p].ip = None
    /\ task[p] # "idle" => booting = {}
ProbeInv == TypeOK /\ \A p \in Projects : Probed(p)

-----------------------------------------------------------------------------
(* Types.                                                                  *)

IP == IPs \cup {None}
Port == Ports \cup {None}
Entries == [ip : IP, port : Port]
Calls == [at : {"no", "installs", "listens", "mirrors"}, items : Items, lan : BOOLEAN, ip : IP]
Snaps == [ip : IP, routes : Items]

LEMMA ItemsAre == \A f : f \in Items <=> DOMAIN f \subseteq Hosts /\ f \in [DOMAIN f -> Routes]
BY DEF Items

LEMMA RecordsTyped ==
    /\ NoRoute \in Routes /\ NoEntry \in Entries /\ NoGuest \in Entries
    /\ <<>> \in Items /\ NoCall \in Calls
    /\ \A p \in Projects, ip \in IP : Reserved(p, ip) \in Routes
<1>1. <<>> \in Items
  <2>1. DOMAIN <<>> = {} /\ <<>> \in [{} -> Routes]
    OBVIOUS
  <2> QED
    BY <2>1, ItemsAre
<1> QED
  BY <1>1 DEF NoRoute, NoEntry, NoGuest, NoCall, Calls, Routes, Entries, IP, Port, Reserved

\* The swap of a project's routes gives a table of routes.
LEMMA AppliedTyped ==
    \A table \in [Names -> Routes], p \in Projects, items \in Items :
        Applied(table, p, items) \in [Names -> Routes]
BY RecordsTyped, ItemsAre DEF Applied

LEMMA FieldsTyped ==
    ASSUME NEW snaps \in [Projects -> Snaps], NEW entries \in [Projects -> Entries],
           NEW p \in Projects, NEW ip \in IP, NEW items \in Items
    PROVE  /\ [snaps EXCEPT ![p].ip = ip] \in [Projects -> Snaps]
           /\ [snaps EXCEPT ![p].routes = items] \in [Projects -> Snaps]
           /\ [entries EXCEPT ![p].ip = ip] \in [Projects -> Entries]
<1>1. /\ [snaps[p] EXCEPT !.ip = ip] \in Snaps
      /\ [snaps[p] EXCEPT !.routes = items] \in Snaps
      /\ [entries[p] EXCEPT !.ip = ip] \in Entries
  BY DEF Snaps, Entries
<1> QED
  BY <1>1

LEMMA ListensTyped ==
    ASSUME TypeOK, NEW p \in Projects, NEW ip \in IP
    PROVE  /\ Listens(p, ip) => pair' \in [Projects -> IP]
           /\ GuestListens(p, ip) => /\ guest' \in [Projects -> Entries]
                                     /\ entry' \in [Projects -> Entries]
           /\ Closes(p) => pair' \in [Projects -> IP] /\ guest' \in [Projects -> Entries]
           /\ \A port \in Port : Sets(p, port) => target' \in [Projects -> Port]
<1>1. Listens(p, ip) => pair' \in [Projects -> IP]
  BY DEF Listens, TypeOK, IP
<1>2. ASSUME GuestListens(p, ip)
      PROVE  guest' \in [Projects -> Entries] /\ entry' \in [Projects -> Entries]
  <2>1. guest' \in [Projects -> Entries]
    <3>1. PICK port \in Ports :
             guest' = [guest EXCEPT ![p] = IF @ = NoGuest THEN [port |-> port, ip |-> ip] ELSE @]
      BY <1>2 DEF GuestListens, FreePorts
    <3> QED
      BY <3>1 DEF TypeOK, Entries, IP, Port
  <2>2. guest'[p].port \in Port
    BY <2>1 DEF Entries
  <2> QED
    BY <1>2, <2>1, <2>2 DEF GuestListens, TypeOK, Entries, IP, Port
<1>3. Closes(p) => pair' \in [Projects -> IP] /\ guest' \in [Projects -> Entries]
  BY RecordsTyped DEF Closes, TypeOK, IP, Port, Entries
<1>4. \A port \in Port : Sets(p, port) => target' \in [Projects -> Port]
  BY DEF Sets, TypeOK, Port
<1> QED
  BY <1>1, <1>2, <1>3, <1>4

LEMMA RoutingTypeInit == Init => TypeOK
<1> SUFFICES ASSUME Init PROVE TypeOK
  OBVIOUS
<1>1. snap \in [Projects -> Snaps]
  BY RecordsTyped DEF Init, Snaps, IP
<1> QED
  BY <1>1, RecordsTyped DEF Init, TypeOK, IP, Port, Entries, Calls, Snaps

\* A start, a stop and a respawn.
LEMMA TasksTyped ==
    ASSUME TypeOK, NEW p \in Projects,
           \/ StartAllocates(p) \/ StartListens(p) \/ StartOpens(p) \/ StartSeeds(p)
           \/ Removes(p) \/ StopCloses(p) \/ StopReleases(p) \/ StopPowersOff(p)
           \/ RespawnCloses(p) \/ RespawnBinds(p) \/ Reconciles(p)
    PROVE  TypeOK'
<1> USE RoutingAssumption, RecordsTyped
<1>1. CASE StartAllocates(p)
  <2>1. PICK ip \in IPs \cup {entry[p].ip} :
           /\ entry' = [entry EXCEPT ![p].ip = ip]
           /\ at' = [at EXCEPT ![p] = ip]
           /\ snap' = [snap EXCEPT ![p].ip = ip]
    BY <1>1 DEF StartAllocates, FreeIPs
  <2>2. ip \in IPs \cup {None}
    BY DEF TypeOK
  <2>3. snap' \in [Projects -> Snaps] /\ entry' \in [Projects -> Entries]
    BY <2>1, <2>2, FieldsTyped DEF TypeOK, Snaps, Entries, IP, Port
  <2> QED
    BY <1>1, <2>1, <2>2, <2>3 DEF StartAllocates, Goes, TypeOK, Snaps, Entries, IP, Port
<1>2. CASE StartListens(p)
  <2>1. entry[p].ip \in IP
    BY DEF TypeOK, IP
  <2>2. routes' \in [Names -> Routes]
    BY <1>2, <2>1 DEF StartListens, TypeOK
  <2>3. /\ pair' \in [Projects -> IP] /\ guest' \in [Projects -> Entries]
        /\ entry' \in [Projects -> Entries]
    BY <1>2, <2>1, ListensTyped DEF StartListens
  <2> QED
    BY <1>2, <2>2, <2>3 DEF StartListens, Goes, TypeOK, softnet, IP, Port, Entries
<1>3. CASE StartOpens(p)
  <2>1. entry[p].port \in Port
    BY DEF TypeOK, Port
  <2>2. target' \in [Projects -> Port]
    BY <1>3, <2>1, ListensTyped DEF StartOpens, IP
  <2> QED
    BY <1>3, <2>2 DEF StartOpens, TypeOK, memory, Port
<1>4. CASE StartSeeds(p)
  <2>1. snap' \in [Projects -> Snaps]
    BY <1>4 DEF StartSeeds, TypeOK, Snaps, IP
  <2> QED
    BY <1>4, <2>1 DEF StartSeeds, TypeOK, memory, softnet, Snaps, IP
<1>5. CASE Removes(p)
  <2>1. routes' \in [Names -> Routes] /\ lanUp' \in BOOLEAN
    BY <1>5 DEF Removes, TypeOK, Exposed
  <2>2. snap' \in [Projects -> Snaps]
    BY <1>5, FieldsTyped DEF Removes, TypeOK, Snaps, Entries, IP, Port
  <2> QED
    BY <1>5, <2>1, <2>2 DEF Removes, TypeOK, softnet, Snaps, IP
<1>6. CASE StopCloses(p)
  <2>1. pair' \in [Projects -> IP] /\ guest' \in [Projects -> Entries]
    BY <1>6, ListensTyped DEF StopCloses, IP
  <2> QED
    BY <1>6, <2>1 DEF StopCloses, Goes, TypeOK, softnet, IP, Port, Entries
<1>7. CASE StopReleases(p)
  <2>1. snap' \in [Projects -> Snaps] /\ entry' \in [Projects -> Entries]
    BY <1>7, FieldsTyped DEF StopReleases, TypeOK, Snaps, Entries, IP, Port
  <2> QED
    BY <1>7, <2>1 DEF StopReleases, Goes, TypeOK, softnet, Snaps, Entries, IP, Port
<1>8. CASE StopPowersOff(p)
  BY <1>8 DEF StopPowersOff, Goes, TypeOK, memory
<1>9. CASE RespawnCloses(p)
  <2>1. pair' \in [Projects -> IP] /\ guest' \in [Projects -> Entries]
    BY <1>9, ListensTyped DEF RespawnCloses, IP
  <2> QED
    BY <1>9, <2>1 DEF RespawnCloses, Goes, TypeOK, softnet, IP, Port, Entries
<1>10. CASE RespawnBinds(p)
  <2>1. entry[p].ip \in IP
    BY DEF TypeOK, IP
  <2>2. /\ pair' \in [Projects -> IP] /\ guest' \in [Projects -> Entries]
        /\ entry' \in [Projects -> Entries]
    BY <1>10, <2>1, ListensTyped DEF RespawnBinds
  <2>3. entry'[p].port \in Port
    BY <2>2 DEF Entries
  <2>4. target' \in [Projects -> Port]
    BY <1>10, <2>1, <2>3, ListensTyped DEF RespawnBinds
  <2> QED
    BY <1>10, <2>2, <2>4 DEF RespawnBinds, Goes, TypeOK, IP, Port, Entries
<1>11. CASE Reconciles(p)
  <2>1. snap' \in [Projects -> Snaps]
    BY <1>11 DEF Reconciles, TypeOK, Snaps, IP
  <2> QED
    BY <1>11, <2>1 DEF Reconciles, TypeOK, memory, softnet, steps, Snaps, IP
<1> QED
  BY <1>1, <1>2, <1>3, <1>4, <1>5, <1>6, <1>7, <1>8, <1>9, <1>10, <1>11

\* The stages of /routes/apply.
LEMMA CallTyped ==
    ASSUME TypeOK, NEW p \in Projects,
           ApplyReads(p) \/ ApplyInstalls(p) \/ ApplyListens(p) \/ ApplyMirrors(p)
    PROVE  TypeOK'
<1>1. call \in [Projects -> Calls] /\ snap \in [Projects -> Snaps]
  BY DEF TypeOK, Calls, Snaps, IP
<1>2. ASSUME NEW new \in Calls, CallGoes(p, new) PROVE call' \in [Projects -> Calls]
  BY <1>1, <1>2 DEF CallGoes
<1>3. CASE ApplyReads(p)
  <2>1. PICK decl \in Decls[p] : CallGoes(p, [NoCall EXCEPT !.at = "installs", !.items =
                 [h \in DOMAIN decl |->
                     [project |-> p, mode |-> decl[h].mode, lan |-> decl[h].lan,
                      ip |-> IF decl[h].mode = "vm" THEN entry[p].ip ELSE None]]])
    BY <1>3 DEF ApplyReads
  <2> DEFINE items == [h \in DOMAIN decl |->
                 [project |-> p, mode |-> decl[h].mode, lan |-> decl[h].lan,
                  ip |-> IF decl[h].mode = "vm" THEN entry[p].ip ELSE None]]
  <2>2. items \in Items
    <3>1. \A h \in DOMAIN decl : decl[h].mode \in {"vm", "local", "direct"} /\ decl[h].lan \in BOOLEAN
      BY RoutingAssumption
    <3>2. entry[p].ip \in IPs \cup {None}
      BY DEF TypeOK
    <3>3. \A h \in DOMAIN decl : items[h] \in Routes
      BY <3>1, <3>2 DEF Routes
    <3>4. DOMAIN items \subseteq Hosts
      BY RoutingAssumption
    <3> HIDE DEF items
    <3>5. items \in [DOMAIN items -> Routes]
      BY <3>3 DEF items
    <3> QED
      BY <3>4, <3>5, ItemsAre
  <2>3. CallGoes(p, [NoCall EXCEPT !.at = "installs", !.items = items])
    BY <2>1
  <2> HIDE DEF items
  <2>4. [NoCall EXCEPT !.at = "installs", !.items = items] \in Calls
    BY <2>2 DEF NoCall, Calls, IP
  <2>5. call' \in [Projects -> Calls]
    BY <1>2, <2>3, <2>4
  <2> QED
    BY <1>3, <2>5 DEF ApplyReads, TypeOK, memory, softnet, Calls, IP
<1>4. CASE ApplyInstalls(p)
  <2>1. NoCall \in Calls /\ [call[p] EXCEPT !.at = "listens", !.lan = Exposed(routes')] \in Calls
    <3>1. Exposed(routes') \in BOOLEAN
      BY DEF Exposed
    <3> QED
      BY <1>1, <3>1, RecordsTyped DEF Calls
  <2>2. call' \in [Projects -> Calls]
    BY <1>2, <1>4, <2>1 DEF ApplyInstalls
  <2>3. routes' \in [Names -> Routes]
    <3>1. routes' = routes \/ routes' = Applied(routes, p, call[p].items)
      BY <1>4 DEF ApplyInstalls
    <3>2. call[p].items \in Items /\ routes \in [Names -> Routes]
      BY <1>1 DEF TypeOK, Calls
    <3> QED
      BY <3>1, <3>2, AppliedTyped
  <2> QED
    BY <1>4, <2>2, <2>3 DEF ApplyInstalls, TypeOK, softnet, Calls, IP
<1>5. CASE ApplyListens(p)
  <2>1. [call[p] EXCEPT !.at = "mirrors", !.ip = snap[p].ip] \in Calls
    BY <1>1 DEF Calls, Snaps
  <2>2. call' \in [Projects -> Calls]
    BY <1>2, <1>5, <2>1 DEF ApplyListens
  <2>3. lanUp' \in BOOLEAN
    BY <1>1, <1>5 DEF ApplyListens, Calls
  <2> QED
    BY <1>5, <2>2, <2>3 DEF ApplyListens, TypeOK, softnet, Calls, IP
<1>6. CASE ApplyMirrors(p)
  <2>1. call' \in [Projects -> Calls]
    BY <1>2, <1>6, RecordsTyped DEF ApplyMirrors
  <2>2. snap' \in [Projects -> Snaps]
    BY <1>1, <1>6 DEF ApplyMirrors, Snaps, Calls
  <2> QED
    BY <1>6, <2>1, <2>2 DEF ApplyMirrors, TypeOK, memory, softnet, Calls, Snaps, IP
<1> QED
  BY <1>3, <1>4, <1>5, <1>6

\* A restart of the daemon and what it leaves behind.
LEMMA RestartTyped ==
    ASSUME TypeOK, Restart \/ \E p \in Projects : Recovers(p) \/ Rebinds(p) \/ PushLands(p)
    PROVE  TypeOK'
<1>1. CASE Restart
  BY <1>1, RecordsTyped DEF Restart, TypeOK, Calls, Entries, IP, Port
<1>2. ASSUME NEW p \in Projects, Recovers(p) PROVE TypeOK'
  <2>1. snap[p].ip \in IP /\ snap[p].routes \in Items
    BY DEF TypeOK, IP
  <2>2. routes' \in [Names -> Routes]
    <3> DEFINE replayed == IF Collides(routes, p, snap[p].routes) THEN routes
                           ELSE Applied(routes, p, snap[p].routes)
    <3>1. replayed \in [Names -> Routes]
      BY <2>1, AppliedTyped DEF TypeOK
    <3>2. routes' = IF snap[p].ip = None THEN replayed
                    ELSE [replayed EXCEPT ![p] = Reserved(p, snap[p].ip)]
      BY <1>2 DEF Recovers
    <3> HIDE DEF replayed
    <3> QED
      BY <2>1, <3>1, <3>2, RecordsTyped
  <2>3. entry' \in [Projects -> Entries]
    BY <1>2, <2>1, FieldsTyped, RecordsTyped, ZenonT(60) DEF Recovers, TypeOK, Entries, IP, Port
  <2>4. lanUp' \in BOOLEAN
    BY <1>2 DEF Recovers, Exposed
  <2>5. peers' \in [Projects -> SUBSET Projects] /\ booting' \subseteq Projects
    BY <1>2, RoutingAssumption DEF Recovers, TypeOK
  <2> QED
    BY <1>2, <2>1, <2>2, <2>3, <2>4, <2>5 DEF Recovers, TypeOK, Entries, IP, Port
<1>3. ASSUME NEW p \in Projects, Rebinds(p) PROVE TypeOK'
  <2>1. rebind[p] \in IP
    BY DEF TypeOK, IP
  <2>2. /\ pair' \in [Projects -> IP] /\ guest' \in [Projects -> Entries]
        /\ entry' \in [Projects -> Entries]
    BY <1>3, <2>1, ListensTyped DEF Rebinds
  <2>3. pushes' \in [Projects -> SUBSET Port]
    <3>1. \A q \in Projects : entry'[q].port \in Port
      BY <2>2 DEF Entries
    <3> QED
      BY <1>3, <3>1 DEF Rebinds, TypeOK, Port
  <2> QED
    BY <1>3, <2>2, <2>3 DEF Rebinds, TypeOK, Entries, IP, Port
<1>4. ASSUME NEW p \in Projects, PushLands(p) PROVE TypeOK'
  <2>1. PICK port \in pushes[p] : Sets(p, port) /\ pushes' = [pushes EXCEPT ![p] = @ \ {port}]
    BY <1>4 DEF PushLands
  <2>2. port \in Port
    BY DEF TypeOK, Port
  <2>3. target' \in [Projects -> Port]
    BY <2>1, <2>2, ListensTyped, RecordsTyped DEF IP
  <2> QED
    BY <1>4, <2>1, <2>3 DEF PushLands, TypeOK, memory, steps, Port
<1> QED
  BY <1>1, <1>2, <1>3, <1>4

LEMMA RoutingTypeStep == TypeOK /\ [Next]_vars => TypeOK'
<1>1. TypeOK /\ UNCHANGED vars => TypeOK'
  BY DEF TypeOK, vars, memory, softnet, steps
<1> QED
  BY <1>1, TasksTyped, CallTyped, RestartTyped DEF Next

\* Types, whatever the projects, their calls and the faults.
THEOREM RoutingTyped == Spec => []TypeOK
BY RoutingTypeInit, RoutingTypeStep, PTL DEF Spec

-----------------------------------------------------------------------------
(* The probe's route.                                                      *)

\* Nothing but the project's own start, adoption and teardown changes the route
\* of its reserved name.
LEMMA AppliedKeeps ==
    ASSUME NEW table \in [Names -> Routes], NEW items \in Items,
           NEW q \in Projects, NEW p \in Projects, table[p].project \in {None, p}
    PROVE  Applied(table, q, items)[p] = table[p]
<1>1. p \notin DOMAIN items /\ p \in Names /\ q # None
  BY ItemsAre, RoutingAssumption DEF Names
<1> QED
  BY <1>1 DEF Applied

LEMMA ListeningKeepsAddresses ==
    ASSUME TypeOK, NEW q \in Projects, NEW ip, GuestListens(q, ip), NEW p \in Projects
    PROVE  entry'[p].ip = entry[p].ip
BY DEF GuestListens, TypeOK

LEMMA ProbeStep ==
    ASSUME ProbeInv, [Next]_vars, NEW p \in Projects
    PROVE  Probed(p)'
<1> USE DEF ProbeInv, Probed, Goes, softnet, memory, steps
<1>1. p \in Names /\ p # None /\ TypeOK
  BY RoutingAssumption DEF Names
<1>2. CASE UNCHANGED vars
  BY <1>2 DEF vars
<1>3. CASE Restart
  BY <1>1, <1>3 DEF Restart, NoRoute, NoEntry, TypeOK
<1>4. ASSUME NEW q \in Projects, StartAllocates(q) PROVE Probed(p)'
  BY <1>4 DEF StartAllocates, Idle, TypeOK
<1>5. ASSUME NEW q \in Projects, StartListens(q) PROVE Probed(p)'
  <2>1. entry'[p].ip = entry[p].ip
    BY <1>1, <1>5, ListeningKeepsAddresses DEF StartListens
  <2> QED
    BY <1>1, <1>5, <2>1 DEF StartListens, TypeOK, Reserved
<1>6. ASSUME NEW q \in Projects, StartOpens(q) \/ StartSeeds(q) \/ StopCloses(q) PROVE Probed(p)'
  BY <1>6 DEF StartOpens, StartSeeds, StopCloses, Idle, TypeOK
<1>7. ASSUME NEW q \in Projects, Removes(q) PROVE Probed(p)'
  <2>1. /\ task' = task /\ entry' = entry /\ booting' = booting
        /\ cli' = [cli EXCEPT ![q] = "teardown"] /\ task[q] = "idle"
    BY <1>7 DEF Removes, Idle
  <2>2. routes'[p] = IF routes[p].project = q THEN NoRoute ELSE routes[p]
    BY <1>1, <1>7 DEF Removes, Owned
  <2>3. q # None
    BY RoutingAssumption DEF Names
  <2>4. CASE p = q
    BY <1>1, <2>1, <2>2, <2>4 DEF NoRoute, TypeOK
  <2>5. CASE p # q
    BY <1>1, <2>1, <2>2, <2>3, <2>5 DEF TypeOK, Reserved
  <2> QED
    BY <2>4, <2>5
<1>8. ASSUME NEW q \in Projects, StopReleases(q) \/ StopPowersOff(q) PROVE Probed(p)'
  <2>1. CASE StopReleases(q)
    BY <2>1 DEF StopReleases, NoEntry, TypeOK
  <2>2. CASE StopPowersOff(q)
    <3>1. entry[q].ip = None
      BY <2>2 DEF StopPowersOff
    <3> QED
      BY <2>2, <3>1 DEF StopPowersOff, TypeOK, Reserved
  <2> QED
    BY <1>8, <2>1, <2>2
<1>9. ASSUME NEW q \in Projects, RespawnCloses(q) \/ Reconciles(q) PROVE Probed(p)'
  BY <1>9 DEF RespawnCloses, Reconciles, Idle, TypeOK
<1>10. ASSUME NEW q \in Projects, RespawnBinds(q) PROVE Probed(p)'
  <2>1. entry'[p].ip = entry[p].ip
    BY <1>1, <1>10, ListeningKeepsAddresses DEF RespawnBinds
  <2> QED
    BY <1>10, <2>1 DEF RespawnBinds, TypeOK
<1>11. ASSUME NEW q \in Projects, ApplyReads(q) \/ ApplyListens(q) \/ ApplyMirrors(q)
       PROVE  Probed(p)'
  BY <1>11 DEF ApplyReads, ApplyListens, ApplyMirrors
<1>12. ASSUME NEW q \in Projects, ApplyInstalls(q) PROVE Probed(p)'
  <2>1. routes' = routes \/ routes' = Applied(routes, q, call[q].items)
    BY <1>12 DEF ApplyInstalls
  <2>2. call[q].items \in Items /\ routes \in [Names -> Routes]
    BY <1>1 DEF TypeOK
  <2>3. routes'[p] = routes[p]
    BY <2>1, <2>2, AppliedKeeps
  <2> QED
    BY <1>12, <2>3 DEF ApplyInstalls
<1>13. ASSUME NEW q \in Projects, Recovers(q) PROVE Probed(p)'
  <2> DEFINE replayed == IF Collides(routes, q, snap[q].routes) THEN routes
                         ELSE Applied(routes, q, snap[q].routes)
  <2>1. snap[q].routes \in Items /\ snap[q].ip \in IP /\ routes \in [Names -> Routes]
    BY <1>1 DEF TypeOK, IP
  <2>2. replayed[p] = routes[p] /\ replayed \in [Names -> Routes]
    BY <2>1, AppliedKeeps, AppliedTyped
  <2>3. routes' = IF snap[q].ip = None THEN replayed
                  ELSE [replayed EXCEPT ![q] = Reserved(q, snap[q].ip)]
    BY <1>13 DEF Recovers
  <2>4. entry'[p].ip = IF p = q THEN snap[q].ip ELSE entry[p].ip
    BY <1>1, <1>13 DEF Recovers, TypeOK
  <2>a. /\ task' = task /\ cli' = cli /\ booting' = booting \ {q} /\ q \in booting
    BY <1>13 DEF Recovers
  <2> HIDE DEF replayed
  <2>5. CASE p # q
    <3>1. routes'[p] = routes[p]
      BY <2>2, <2>3, <2>5
    <3> QED
      BY <2>4, <2>5, <2>a, <3>1 DEF Reserved
  <2>6. CASE p = q /\ snap[q].ip = None
    <3>1. routes'[p] = routes[p] /\ entry'[p].ip = None
      BY <2>2, <2>3, <2>4, <2>6
    <3> QED
      BY <2>a, <3>1
  <2>7. CASE p = q /\ snap[q].ip # None
    <3>1. routes'[p] = Reserved(p, snap[p].ip) /\ entry'[p].ip = snap[p].ip
      BY <1>1, <2>2, <2>3, <2>4, <2>7
    <3>2. task'[p] = "idle"
      BY <2>7, <2>a
    <3>3. routes'[p].project = p
      BY <3>1 DEF Reserved
    <3> QED
      BY <3>1, <3>2, <3>3 DEF Reserved
  <2> QED
    BY <2>5, <2>6, <2>7
<1>14. ASSUME NEW q \in Projects, Rebinds(q) PROVE Probed(p)'
  <2>1. entry'[p].ip = entry[p].ip
    BY <1>1, <1>14, ListeningKeepsAddresses DEF Rebinds
  <2> QED
    BY <1>14, <2>1 DEF Rebinds
<1>15. ASSUME NEW q \in Projects, PushLands(q) PROVE Probed(p)'
  BY <1>15 DEF PushLands
<1> QED
  BY <1>2, <1>3, <1>4, <1>5, <1>6, <1>7, <1>8, <1>9, <1>10, <1>11, <1>12, <1>13, <1>14,
     <1>15 DEF Next

LEMMA ProbeInit == Init => ProbeInv
<1> SUFFICES ASSUME Init PROVE \A p \in Projects : Probed(p)
  BY RoutingTypeInit DEF ProbeInv
<1> QED
  BY DEF Init, Probed, NoRoute, NoEntry, Names

\* A project with an address has the route its watchdog probes, with that
\* address, between any two steps of starts, stops, respawns, calls of
\* /routes/apply and restarts of the daemon, whichever of them overlap
\* (recoverProjectState and Routes.Apply keep the reserved routes).
THEOREM ProbesAreAnswered == Spec => []ProbeHasItsRoute
<1>1. ProbeInv /\ [Next]_vars => ProbeInv'
  BY ProbeStep, RoutingTypeStep DEF ProbeInv
<1>2. ProbeInv => ProbeHasItsRoute
  BY DEF ProbeInv, Probed, ProbeHasItsRoute, Idle
<1> QED
  BY <1>1, <1>2, ProbeInit, PTL DEF Spec

-----------------------------------------------------------------------------
(* Ports and addresses stay apart.                                         *)

\* A listener takes a free port, or keeps its own, and its entry follows it.
LEMMA ListenersTake ==
    ASSUME TypeOK, NEW p \in Projects, NEW ip, GuestListens(p, ip)
    PROVE  /\ \E port \in FreePorts : guest'[p].port \in {guest[p].port, port}
           /\ guest'[p].ip \in {guest[p].ip, ip}
           /\ entry'[p].port \in {entry[p].port, guest'[p].port}
           /\ \A q \in Projects \ {p} : guest'[q] = guest[q] /\ entry'[q] = entry[q]
<1>1. PICK port \in FreePorts :
         guest' = [guest EXCEPT ![p] = IF @ = NoGuest THEN [port |-> port, ip |-> ip] ELSE @]
  BY DEF GuestListens
<1>2. /\ guest'[p] \in {guest[p], [port |-> port, ip |-> ip]}
      /\ \A q \in Projects \ {p} : guest'[q] = guest[q]
  BY <1>1 DEF TypeOK
<1>3. /\ entry'[p].port \in {entry[p].port, guest'[p].port}
      /\ \A q \in Projects \ {p} : entry'[q] = entry[q]
  BY DEF GuestListens, TypeOK
<1> QED
  BY <1>2, <1>3

\* A step that gives one project a free port, and no other project any.
LEMMA OneTakes ==
    ASSUME PortsInv, "reuse" \notin Faults, NEW p \in Projects, NEW port \in FreePorts \cup {None},
           Holds(p)' \subseteq Holds(p) \cup {None, port},
           \A q \in Projects \ {p} : Holds(q)' \subseteq Holds(q) \cup {None}
    PROVE  PortsInv'
<1>1. \A q \in Projects : port \in Holds(q) => port = None
  BY DEF FreePorts, BoundPorts, Holds
<1>2. ASSUME NEW q \in Projects, NEW r \in Projects, q # r
      PROVE  Holds(q)' \cap Holds(r)' \subseteq {None}
  <2>1. CASE q = p
    BY <1>1, <1>2, <2>1 DEF PortsInv
  <2>2. CASE r = p
    BY <1>1, <1>2, <2>2 DEF PortsInv
  <2>3. CASE q # p /\ r # p
    BY <1>2, <2>3 DEF PortsInv
  <2> QED
    BY <2>1, <2>2, <2>3
<1> QED
  BY <1>2 DEF PortsInv

\* The steps in which nobody takes a port.
LEMMA NobodyTakes ==
    ASSUME PortsInv, \A q \in Projects : Holds(q)' \subseteq Holds(q) \cup {None}
    PROVE  PortsInv'
BY DEF PortsInv

LEMMA PortsStep ==
    ASSUME TypeOK, PortsInv, "reuse" \notin Faults, [Next]_vars
    PROVE  PortsInv'
<1>1. CASE UNCHANGED vars
  BY <1>1, NobodyTakes DEF vars, memory, softnet, Holds
<1>2. CASE Restart
  BY <1>2, NobodyTakes DEF Restart, NoEntry, NoGuest, Holds
<1>3. ASSUME NEW p \in Projects, NEW ip, entry' = [entry EXCEPT ![p].ip = ip],
             pushes' = pushes, guest' = guest,
             target' = target \/ target' = [target EXCEPT ![p] = None]
      PROVE  PortsInv'
  <2>1. \A q \in Projects : entry'[q].port = entry[q].port
    BY <1>3 DEF TypeOK
  <2>2. \A q \in Projects : target'[q] \in {target[q], None}
    BY <1>3 DEF TypeOK
  <2> QED
    BY <1>3, <2>1, <2>2, NobodyTakes DEF Holds
<1>4. ASSUME NEW p \in Projects, StartAllocates(p) PROVE PortsInv'
  BY <1>3, <1>4 DEF StartAllocates
<1>5. ASSUME NEW p \in Projects, StopReleases(p) PROVE PortsInv'
  <2>1. \A q \in Projects : entry'[q].port \in {entry[q].port, None}
    <3>1. entry' = [entry EXCEPT ![p] = NoEntry]
      BY <1>5 DEF StopReleases
    <3> QED
      BY <3>1 DEF NoEntry, TypeOK
  <2> QED
    BY <1>5, <2>1, NobodyTakes DEF StopReleases, softnet, Holds
<1>6. ASSUME NEW p \in Projects, StopPowersOff(p) PROVE PortsInv'
  BY <1>6, NobodyTakes DEF StopPowersOff, memory, Holds, TypeOK
<1>7. ASSUME NEW p \in Projects, StartOpens(p) PROVE PortsInv'
  BY <1>7, NobodyTakes DEF StartOpens, Sets, memory, Holds, TypeOK
<1>8. ASSUME NEW p \in Projects, StopCloses(p) \/ RespawnCloses(p) PROVE PortsInv'
  <2>1. \A q \in Projects : guest'[q].port \in {guest[q].port, None}
    <3>1. guest' = [guest EXCEPT ![p] = NoGuest]
      BY <1>8 DEF StopCloses, RespawnCloses, Closes
    <3> QED
      BY <3>1 DEF NoGuest, TypeOK
  <2> QED
    BY <1>8, <2>1, NobodyTakes DEF StopCloses, RespawnCloses, softnet, Holds
<1>9. ASSUME NEW p \in Projects,
             \/ StartSeeds(p) \/ Removes(p) \/ Reconciles(p) \/ ApplyReads(p)
             \/ ApplyInstalls(p) \/ ApplyListens(p) \/ ApplyMirrors(p)
      PROVE PortsInv'
  BY <1>9, NobodyTakes
     DEF StartSeeds, Removes, Reconciles, ApplyReads, ApplyInstalls, ApplyListens,
         ApplyMirrors, memory, softnet, Holds
<1>10. ASSUME NEW p \in Projects, StartListens(p) \/ RespawnBinds(p) PROVE PortsInv'
  <2>1. PICK port \in FreePorts : guest'[p].port \in {guest[p].port, port}
    BY <1>10, ListenersTake DEF StartListens, RespawnBinds
  <2>2. /\ entry'[p].port \in {entry[p].port, guest'[p].port}
        /\ \A q \in Projects \ {p} : guest'[q] = guest[q] /\ entry'[q] = entry[q]
    BY <1>10, ListenersTake DEF StartListens, RespawnBinds
  <2>3. /\ pushes' = pushes /\ target'[p] \in {target[p], entry'[p].port}
        /\ \A q \in Projects \ {p} : target'[q] = target[q]
    BY <1>10 DEF StartListens, RespawnBinds, Sets, softnet, TypeOK
  <2>4. /\ Holds(p)' \subseteq Holds(p) \cup {None, port}
        /\ \A q \in Projects \ {p} : Holds(q)' \subseteq Holds(q) \cup {None}
    BY <2>1, <2>2, <2>3 DEF Holds
  <2> QED
    BY <2>4, OneTakes
<1>11. ASSUME NEW p \in Projects, Recovers(p) PROVE PortsInv'
  <2>1. /\ guest' = guest /\ target' = target /\ pushes' = [pushes EXCEPT ![p] = {None}]
        /\ entry' = [entry EXCEPT ![p].ip = snap[p].ip]
    BY <1>11 DEF Recovers
  <2>2. \A q \in Projects : entry'[q].port = entry[q].port
    BY <2>1 DEF TypeOK
  <2> QED
    BY <2>1, <2>2, NobodyTakes DEF Holds, TypeOK
<1>12. ASSUME NEW p \in Projects, Rebinds(p) PROVE PortsInv'
  <2>1. PICK port \in FreePorts : guest'[p].port \in {guest[p].port, port}
    BY <1>12, ListenersTake DEF Rebinds
  <2>2. /\ entry'[p].port \in {entry[p].port, guest'[p].port}
        /\ \A q \in Projects \ {p} : guest'[q] = guest[q] /\ entry'[q] = entry[q]
    BY <1>12, ListenersTake DEF Rebinds
  <2>3. target' = target /\ \A q \in Projects : pushes'[q] \subseteq pushes[q] \cup {entry'[q].port}
    BY <1>12 DEF Rebinds
  <2>4. /\ Holds(p)' \subseteq Holds(p) \cup {None, port}
        /\ \A q \in Projects \ {p} : Holds(q)' \subseteq Holds(q) \cup {None}
    BY <2>1, <2>2, <2>3 DEF Holds
  <2> QED
    BY <2>4, OneTakes
<1>13. ASSUME NEW p \in Projects, PushLands(p) PROVE PortsInv'
  BY <1>13, NobodyTakes DEF PushLands, Sets, memory, Holds, TypeOK
<1> QED
  BY <1>1, <1>2, <1>4, <1>5, <1>6, <1>7, <1>8, <1>9, <1>10, <1>11, <1>12, <1>13 DEF Next

\* What names an address for a project does so from the start that allocates it
\* to the stop that powers its VM off.
LEMMA AddressStep ==
    ASSUME TypeOK, AddressInv, Faults \cap {"straddle", "overlap"} = {}, [Next]_vars
    PROVE  AddressInv'
<1> USE DEF AddressInv, Addressed, Goes, Settled, Idle
<1>1. CASE UNCHANGED vars
  BY <1>1 DEF vars, memory, softnet, steps
<1>2. CASE Restart
  BY <1>2 DEF Restart, NoEntry, NoGuest
<1>3. ASSUME NEW p \in Projects, StartAllocates(p) PROVE AddressInv'
  <2>1. PICK ip \in IF entry[p].ip = None THEN FreeIPs ELSE {entry[p].ip} :
          /\ entry' = [entry EXCEPT ![p].ip = ip]
          /\ at' = [at EXCEPT ![p] = ip]
          /\ snap' = [snap EXCEPT ![p].ip = ip]
    BY <1>3 DEF StartAllocates
  <2>2. at[p] = None /\ entry[p].ip = None
    BY <1>3 DEF StartAllocates
  <2>3. \A q \in Projects : at[q] # ip
    BY <2>1, <2>2, RoutingAssumption DEF FreeIPs
  <2>4. \A q \in Projects : /\ at'[q] = IF q = p THEN ip ELSE at[q]
                            /\ entry'[q].ip = IF q = p THEN ip ELSE entry[q].ip
                            /\ snap'[q].ip = IF q = p THEN ip ELSE snap[q].ip
    BY <2>1 DEF TypeOK
  <2>5. guest' = guest /\ rebind' = rebind /\ booting' = booting
        /\ task' = [task EXCEPT ![p] = "listens"] /\ booting = {} /\ rebind[p] = None
        /\ cli' = cli
    BY <1>3 DEF StartAllocates
  <2>6. Addressed(p)'
    BY <2>2, <2>4, <2>5 DEF TypeOK
  <2>7. ASSUME NEW q \in Projects \ {p} PROVE Addressed(q)'
    BY <2>4, <2>5, <2>7 DEF TypeOK
  <2> QED
    BY <2>3, <2>4, <2>6, <2>7
<1>4. ASSUME NEW p \in Projects, StartListens(p) \/ RespawnBinds(p) PROVE AddressInv'
  <2>1. guest'[p].ip \in {guest[p].ip, entry[p].ip} /\ \A q \in Projects \ {p} : guest'[q] = guest[q]
    BY <1>4, ListenersTake DEF StartListens, RespawnBinds
  <2>2. \A q \in Projects : entry'[q].ip = entry[q].ip
    BY <1>4, ListeningKeepsAddresses DEF StartListens, RespawnBinds
  <2>3. /\ at' = at /\ snap' = snap /\ rebind' = rebind /\ booting' = booting
        /\ task' = [task EXCEPT ![p] = "idle"] /\ \A q \in Projects \ {p} : cli'[q] = cli[q]
    BY <1>4 DEF StartListens, RespawnBinds, softnet, TypeOK
  <2>4. ASSUME NEW q \in Projects PROVE Addressed(q)'
    <3>1. guest'[q].ip \in {guest[q].ip, entry[q].ip} /\ (q = p \/ guest'[q] = guest[q])
      BY <2>1
    <3> QED
      BY <2>2, <2>3, <3>1 DEF TypeOK
  <2> QED
    BY <2>3, <2>4
<1>5. ASSUME NEW p \in Projects, StartOpens(p) \/ Removes(p) PROVE AddressInv'
  <2>1. \A q \in Projects : snap'[q].ip = snap[q].ip
    <3> DEFINE cleared == [snap EXCEPT ![p].routes = <<>>]
    <3>1. snap' = snap \/ snap' = cleared
      BY <1>5 DEF StartOpens, Removes
    <3>2. cleared[p] = [snap[p] EXCEPT !.routes = <<>>] /\ \A q \in Projects \ {p} : cleared[q] = snap[q]
      BY DEF TypeOK
    <3>3. snap[p] \in [ip : IPs \cup {None}, routes : Items]
      BY DEF TypeOK
    <3>4. cleared[p].ip = snap[p].ip
      BY <3>2, <3>3
    <3> HIDE DEF cleared
    <3> QED
      BY <3>1, <3>2, <3>4
  <2>2. /\ entry' = entry /\ guest' = guest /\ at' = at /\ rebind' = rebind
        /\ booting' = booting /\ task' = task /\ task[p] = "idle"
    <3>1. CASE StartOpens(p)
      BY <3>1 DEF StartOpens, memory
    <3>2. CASE Removes(p)
      BY <3>2 DEF Removes, softnet
    <3> QED
      BY <1>5, <3>1, <3>2
  <2>3. \A q \in Projects \ {p} : cli'[q] = cli[q]
    BY <1>5 DEF StartOpens, Removes, TypeOK
  <2>4. ASSUME NEW q \in Projects PROVE Addressed(q)'
    <3>1. q = p \/ cli'[q] = cli[q]
      BY <2>3
    <3> QED
      BY <2>1, <2>2, <3>1
  <2> QED
    BY <2>2, <2>4
<1>6. ASSUME NEW p \in Projects, StartSeeds(p) \/ Reconciles(p) PROVE AddressInv'
  <2>1. /\ snap'[p].ip \in {at[p], entry[p].ip}
        /\ \A q \in Projects \ {p} : snap'[q] = snap[q] /\ cli'[q] = cli[q]
    BY <1>6 DEF StartSeeds, Reconciles, steps, TypeOK
  <2>2. /\ entry' = entry /\ guest' = guest /\ at' = at /\ rebind' = rebind
        /\ booting' = booting /\ task' = task /\ cli'[p] = "no"
        /\ task[p] \notin {"releases", "poweroff"}
    BY <1>6 DEF StartSeeds, Reconciles, memory, softnet, steps, TypeOK
  <2>3. ASSUME NEW q \in Projects PROVE Addressed(q)'
    <3>1. CASE q = p
      BY <2>1, <2>2, <3>1
    <3>2. CASE q # p
      BY <2>1, <2>2, <3>2
    <3> QED
      BY <3>1, <3>2
  <2> QED
    BY <2>2, <2>3
<1>7. ASSUME NEW p \in Projects, StopCloses(p) \/ RespawnCloses(p) PROVE AddressInv'
  <2>1. guest'[p].ip = None /\ \A q \in Projects \ {p} : guest'[q] = guest[q]
    BY <1>7 DEF StopCloses, RespawnCloses, Closes, NoGuest, TypeOK
  <2>2. /\ at' = at /\ entry' = entry /\ snap' = snap /\ rebind' = rebind /\ booting' = booting
        /\ \A q \in Projects \ {p} : task'[q] = task[q]
        /\ task'[p] \in {"releases", "respawns"} /\ booting = {} /\ rebind[p] = None
        /\ cli' = cli /\ (task'[p] = "releases" => cli[p] # "seeds")
    BY <1>7 DEF StopCloses, RespawnCloses, softnet, TypeOK
  <2> QED
    BY <2>1, <2>2
<1>8. ASSUME NEW p \in Projects, StopReleases(p) PROVE AddressInv'
  BY <1>8 DEF StopReleases, softnet, NoEntry, TypeOK
<1>9. ASSUME NEW p \in Projects, StopPowersOff(p) PROVE AddressInv'
  BY <1>9 DEF StopPowersOff, memory, TypeOK
<1>10. ASSUME NEW p \in Projects, ApplyReads(p) \/ ApplyInstalls(p) \/ ApplyListens(p)
       PROVE  AddressInv'
  BY <1>10, ZenonT(60) DEF ApplyReads, ApplyInstalls, ApplyListens, memory, softnet
<1>11. ASSUME NEW p \in Projects, ApplyMirrors(p) PROVE AddressInv'
  <2>1. \A q \in Projects : snap'[q].ip = snap[q].ip
    BY <1>11 DEF ApplyMirrors, TypeOK
  <2> QED
    BY <1>11, <2>1 DEF ApplyMirrors, memory, softnet
<1>12. ASSUME NEW p \in Projects, Recovers(p) PROVE AddressInv'
  <2>1. /\ entry' = [entry EXCEPT ![p].ip = snap[p].ip]
        /\ rebind' = [rebind EXCEPT ![p] = snap[p].ip]
        /\ guest' = guest /\ at' = at /\ snap' = snap /\ task' = task
        /\ booting' = booting \ {p} /\ p \in booting /\ cli' = cli
    BY <1>12 DEF Recovers
  <2>2. \A q \in Projects : /\ entry'[q].ip = IF q = p THEN snap[q].ip ELSE entry[q].ip
                            /\ rebind'[q] = IF q = p THEN snap[q].ip ELSE rebind[q]
    BY <2>1 DEF TypeOK
  <2>3. \A q \in Projects : task[q] = "idle"
    BY <2>1
  <2> QED
    BY <2>1, <2>2, <2>3
<1>13. ASSUME NEW p \in Projects, Rebinds(p) PROVE AddressInv'
  <2>1. guest'[p].ip \in {guest[p].ip, rebind[p]} /\ \A q \in Projects \ {p} : guest'[q] = guest[q]
    BY <1>13, ListenersTake DEF Rebinds
  <2>2. \A q \in Projects : entry'[q].ip = entry[q].ip
    BY <1>13, ListeningKeepsAddresses DEF Rebinds
  <2>3. /\ at' = at /\ snap' = snap /\ task' = task /\ booting' = booting
        /\ \A q \in Projects : rebind'[q] = IF q = p THEN None ELSE rebind[q]
        /\ task[p] = "idle" /\ cli' = cli
    BY <1>13 DEF Rebinds, TypeOK
  <2>4. ASSUME NEW q \in Projects PROVE Addressed(q)'
    <3>1. guest'[q].ip \in {guest[q].ip, rebind[q]} /\ (q = p \/ guest'[q] = guest[q])
      BY <2>1
    <3> QED
      BY <2>2, <2>3, <3>1
  <2> QED
    BY <2>3, <2>4
<1>14. ASSUME NEW p \in Projects, PushLands(p) PROVE AddressInv'
  BY <1>14 DEF PushLands, memory, steps
<1> QED
  BY <1>1, <1>2, <1>3, <1>4, <1>5, <1>6, <1>7, <1>8, <1>9, <1>10, <1>11, <1>12, <1>13,
     <1>14 DEF Next

LEMMA PeersStep == TypeOK /\ PeersInv /\ [Next]_vars => PeersInv'
<1> SUFFICES ASSUME TypeOK, PeersInv, [Next]_vars, NEW q \in Projects
             PROVE  peers'[q] \in {peers[q], Peers[q], {}}
  BY DEF PeersInv
<1>1. peers' = peers \/ (\E p \in Projects : peers' \in {[peers EXCEPT ![p] = Peers[p]], [peers EXCEPT ![p] = {}]})
         \/ peers' = [p \in Projects |-> {}]
  BY ZenonT(60) DEF Next, vars, memory, Restart, StartAllocates, StartListens, StartOpens, StartSeeds,
     Removes, StopCloses, StopReleases, StopPowersOff, RespawnCloses, RespawnBinds,
     Reconciles, ApplyReads, ApplyInstalls, ApplyListens, ApplyMirrors, Recovers, Rebinds,
     PushLands
<1> QED
  BY <1>1 DEF TypeOK

-----------------------------------------------------------------------------
(* Who answers a guest.                                                    *)

\* A listener's address is its project's VM's and no other's.
LEMMA OwnIsOwn ==
    ASSUME OrderInv, NEW w \in Projects, NEW h \in Names
    PROVE  Own(w, h) \subseteq {routes[h].project} \cap {w}
BY ZenonT(60) DEF OrderInv, AddressInv, Addressed, Own, Lookup, VMsAt

\* What a project's softnet, or its peer's entry, names is that project's listener.
LEMMA PortsName ==
    ASSUME OrderInv, NEW p \in Projects, NEW w \in Projects, guest[w].port # None,
           guest[w].port \in {target[p], entry[p].port}
    PROVE  w = p
BY SMTT(30) DEF OrderInv, PortsInv, Holds

LEMMA SplicedToPeers ==
    ASSUME OrderInv, NEW p \in Projects, NEW h \in Names
    PROVE  Spliced(p, h) \subseteq {routes[h].project} \cap Peers[p]
<1>1. ASSUME NEW w \in Projects, ZoneOf(h) \in peers[p], entry[ZoneOf(h)].port # None,
             guest[w].port = entry[ZoneOf(h)].port
      PROVE  Own(w, h) \subseteq {routes[h].project} \cap Peers[p]
  <2>1. ZoneOf(h) \in Projects /\ ZoneOf(h) \in Peers[p]
    BY <1>1 DEF OrderInv, PeersInv, TypeOK
  <2>2. w = ZoneOf(h)
    BY <1>1, <2>1, PortsName
  <2> QED
    BY <2>1, <2>2, OwnIsOwn
<1> QED
  BY <1>1 DEF Spliced

LEMMA OrderKeepsInside == OrderInv => GuestStaysInside
<1> SUFFICES ASSUME OrderInv, NEW p \in Projects, NEW h \in Names
             PROVE  Answers(p, h) \subseteq {routes[h].project} \cap ({p} \cup Peers[p])
  BY DEF GuestStaysInside
<1>1. ASSUME NEW w \in Projects, target[p] # None, guest[w].port = target[p]
      PROVE  AnswersHTTP(w, h) \cup AnswersHTTPS(w, h)
                 \subseteq {routes[h].project} \cap ({p} \cup Peers[p])
  <2>1. w = p
    BY <1>1, PortsName
  <2>2. AnswersHTTP(w, h) \cup AnswersHTTPS(w, h) \subseteq Own(w, h) \cup Spliced(w, h)
    BY DEF AnswersHTTP, AnswersHTTPS
  <2> QED
    BY <2>1, <2>2, OwnIsOwn, SplicedToPeers
<1> QED
  BY <1>1 DEF Answers

LEMMA OrderInit == Init => OrderInv
<1> SUFFICES ASSUME Init PROVE OrderInv
  OBVIOUS
<1>1. AddressInv
  BY DEF Init, AddressInv, Addressed, NoEntry, NoGuest
<1>2. PortsInv /\ PeersInv
  BY DEF Init, PortsInv, Holds, PeersInv, NoEntry, NoGuest
<1> QED
  BY <1>1, <1>2, RoutingTypeInit DEF OrderInv

\* A guest's request ends at the VM of the project that has the route, which is
\* its own or a declared peer: whatever the addresses, the ports and the order of
\* starts, stops, respawns, adoptions, pushes and route changes (guestorigin.go,
\* hairpin_sni.go), if they are orderly.
THEOREM GuestsStayInside == ASSUME Orderly PROVE Spec => []GuestStaysInside
<1>1. "reuse" \notin Faults /\ Faults \cap {"straddle", "overlap"} = {}
  BY Orderly DEF Orderly
<1>2. OrderInv /\ [Next]_vars => OrderInv'
  BY <1>1, RoutingTypeStep, PortsStep, AddressStep, PeersStep DEF OrderInv
<1> QED
  BY <1>2, OrderInit, OrderKeepsInside, PTL DEF Spec
=============================================================================
