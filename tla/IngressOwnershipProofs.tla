----------------------- MODULE IngressOwnershipProofs -----------------------
(***************************************************************************)
(* What IngressOwnership guarantees for every set of projects and every    *)
(* pool: type correctness; as long as the daemon does not restart, one     *)
(* holder for each address, claims that tell who listens where, and a stop *)
(* that leaves nothing; and, if besides nothing foreign takes an address   *)
(* of the pool, that none is handed over while its last holder listens.    *)
(***************************************************************************)
EXTENDS IngressOwnership, TLAPS

\* An allocation stays within the pool.
LEMMA AllocatesTyped ==
    ASSUME TypeOK, NEW p \in Projects, NEW i \in IPs, Allocates(p, i)
    PROVE  ip' \in [Projects -> MaybeIP] /\ saved' \in [Projects -> MaybeIP]
BY DEF TypeOK, MaybeIP, Allocates

\* So do the pushes of an expose map.
LEMMA ExposesTyped ==
    ASSUME TypeOK, NEW p \in Projects, NEW i \in MaybeIP,
           Exposes(p, i) \/ ExposeFails(p, i)
    PROVE  claim' \in [Projects -> MaybeIP] /\ bound' \in [Projects -> MaybeIP]
BY DEF TypeOK, MaybeIP, Exposes, ExposeFails

\* And the daemon's listeners.
LEMMA ListensTyped ==
    ASSUME TypeOK, NEW p \in Projects, NEW i \in MaybeIP,
           Listens(p, i) \/ ListenFails(p, i)
    PROVE  front' \in [Projects -> MaybeIP]
BY DEF TypeOK, MaybeIP, Listens, ListenFails

\* Every action only moves the variables within their types.
LEMMA TypeStep == TypeOK /\ [Next]_vars => TypeOK'
<1> SUFFICES ASSUME TypeOK, [Next]_vars PROVE TypeOK'
  OBVIOUS
<1>a. NoIP \in MaybeIP /\ IPs \subseteq MaybeIP /\ Nowhere \in [Projects -> MaybeIP]
  BY DEF MaybeIP, Nowhere
<1> USE DEF Steps, Returns, Releases, registry, disk, listening, handler, startup, vars
<1>1. ASSUME NEW p \in Projects, StartVM(p)
     PROVE TypeOK'
  BY <1>1, <1>a DEF StartVM, TypeOK
<1>2. ASSUME NEW p \in Projects, StartAllocates(p)
     PROVE TypeOK'
  <2>1. PICK i \in IPs : Allocates(p, i) /\ arg' = [arg EXCEPT ![p] = i]
    BY <1>2 DEF StartAllocates
  <2>2. ip' \in [Projects -> MaybeIP] /\ saved' \in [Projects -> MaybeIP]
    BY <2>1, AllocatesTyped
  <2> QED
    BY <1>2, <1>a, <2>1, <2>2 DEF StartAllocates, TypeOK
<1>3. ASSUME NEW p \in Projects, StartExposes(p)
     PROVE TypeOK'
  <2>1. arg[p] \in MaybeIP
    BY DEF TypeOK
  <2>2. claim' \in [Projects -> MaybeIP] /\ bound' \in [Projects -> MaybeIP]
    BY <1>3, <2>1, ExposesTyped DEF StartExposes, TypeOK
  <2> QED
    BY <1>3, <1>a, <2>1, <2>2 DEF StartExposes, TypeOK
<1>4. ASSUME NEW p \in Projects, StartUnexposed(p)
     PROVE TypeOK'
  <2>1. arg[p] \in MaybeIP
    BY DEF TypeOK
  <2>2. claim' \in [Projects -> MaybeIP] /\ bound' \in [Projects -> MaybeIP]
    BY <1>4, <2>1, ExposesTyped DEF StartUnexposed, TypeOK
  <2> QED
    BY <1>4, <1>a, <2>1, <2>2 DEF StartUnexposed, TypeOK
<1>5. ASSUME NEW p \in Projects, StartSpawns(p)
     PROVE TypeOK'
  BY <1>5, <1>a DEF StartSpawns, TypeOK
<1>6. ASSUME NEW p \in Projects, StartListens(p)
     PROVE TypeOK'
  <2>1. arg[p] \in MaybeIP
    BY DEF TypeOK
  <2>2. front' \in [Projects -> MaybeIP]
    BY <1>6, <2>1, ListensTyped DEF StartListens
  <2> QED
    BY <1>6, <1>a, <2>1, <2>2 DEF StartListens, TypeOK
<1>7. ASSUME NEW p \in Projects, StartRecords(p)
     PROVE TypeOK'
  BY <1>7, <1>a DEF StartRecords, TypeOK
<1>8. ASSUME NEW p \in Projects, StartFails(p)
     PROVE TypeOK'
  BY <1>8, <1>a DEF StartFails, TypeOK
<1>9. ASSUME NEW p \in Projects, Seeds(p)
     PROVE TypeOK'
  BY <1>9, <1>a DEF Seeds, TypeOK
<1>10. ASSUME NEW p \in Projects, SeedsNothing(p)
      PROVE TypeOK'
  BY <1>10, <1>a DEF SeedsNothing, TypeOK
<1>11. ASSUME NEW p \in Projects, StopProxy(p)
      PROVE TypeOK'
  BY <1>11, <1>a DEF StopProxy, TypeOK
<1>12. ASSUME NEW p \in Projects, StopProjectListeners(p)
      PROVE TypeOK'
  BY <1>12, <1>a DEF StopProjectListeners, TypeOK
<1>13. ASSUME NEW p \in Projects, ReleaseProjectIP(p)
      PROVE TypeOK'
  BY <1>13, <1>a DEF ReleaseProjectIP, TypeOK
<1>14. ASSUME NEW p \in Projects, StopForgets(p)
      PROVE TypeOK'
  BY <1>14, <1>a DEF StopForgets, TypeOK
<1>15. ASSUME NEW p \in Projects, StopPowersOff(p)
      PROVE TypeOK'
  <2>1. bound[p] \in IPs \cup {NoIP}
    BY DEF TypeOK, MaybeIP
  <2>2. {bound[p]} \ {NoIP} \subseteq IPs
    BY <2>1
  <2>3. foreign' \subseteq IPs
    BY <1>15, <2>2 DEF StopPowersOff, TypeOK
  <2> QED
    BY <1>15, <1>a, <2>3 DEF StopPowersOff, TypeOK
<1>16. ASSUME NEW p \in Projects, HealReleases(p)
      PROVE TypeOK'
  BY <1>16, <1>a DEF HealReleases, TypeOK
<1>17. ASSUME NEW p \in Projects, HealAllocates(p)
      PROVE TypeOK'
  <2>1. PICK i \in IPs : Allocates(p, i) /\ arg' = [arg EXCEPT ![p] = i]
    BY <1>17 DEF HealAllocates
  <2>2. ip' \in [Projects -> MaybeIP] /\ saved' \in [Projects -> MaybeIP]
    BY <2>1, AllocatesTyped
  <2> QED
    BY <1>17, <1>a, <2>1, <2>2 DEF HealAllocates, TypeOK
<1>18. ASSUME NEW p \in Projects, HealListens(p)
      PROVE TypeOK'
  <2>1. arg[p] \in MaybeIP
    BY DEF TypeOK
  <2>2. front' \in [Projects -> MaybeIP]
    BY <1>18, <2>1, ListensTyped DEF HealListens
  <2> QED
    BY <1>18, <1>a, <2>1, <2>2 DEF HealListens, TypeOK
<1>19. ASSUME NEW p \in Projects, HealExposes(p)
      PROVE TypeOK'
  <2>1. arg[p] \in MaybeIP
    BY DEF TypeOK
  <2>2. claim' \in [Projects -> MaybeIP] /\ bound' \in [Projects -> MaybeIP]
    BY <1>19, <2>1, ExposesTyped DEF HealExposes, TypeOK
  <2> QED
    BY <1>19, <1>a, <2>1, <2>2 DEF HealExposes, TypeOK
<1>20. ASSUME NEW p \in Projects, HealFails(p)
      PROVE TypeOK'
  <2>1. arg[p] \in MaybeIP
    BY DEF TypeOK
  <2>2. /\ front' \in [Projects -> MaybeIP]
       /\ claim' \in [Projects -> MaybeIP] /\ bound' \in [Projects -> MaybeIP]
    BY <1>20, <2>1, ExposesTyped, ListensTyped DEF HealFails, TypeOK
  <2> QED
    BY <1>20, <1>a, <2>1, <2>2 DEF HealFails, TypeOK
<1>21. ASSUME NEW p \in Projects, ApplyAllocates(p)
      PROVE TypeOK'
  <2>1. PICK i \in IPs : Allocates(p, i) /\ arg' = [arg EXCEPT ![p] = i]
    BY <1>21 DEF ApplyAllocates
  <2>2. ip' \in [Projects -> MaybeIP] /\ saved' \in [Projects -> MaybeIP]
    BY <2>1, AllocatesTyped
  <2> QED
    BY <1>21, <1>a, <2>1, <2>2 DEF ApplyAllocates, TypeOK
<1>22. ASSUME NEW p \in Projects, ApplyFails(p)
      PROVE TypeOK'
  BY <1>22, <1>a DEF ApplyFails, TypeOK
<1>23. ASSUME NEW p \in Projects, ApplyExposes(p)
      PROVE TypeOK'
  <2>1. arg[p] \in MaybeIP
    BY DEF TypeOK
  <2>2. claim' \in [Projects -> MaybeIP] /\ bound' \in [Projects -> MaybeIP]
    BY <1>23, <2>1, ExposesTyped DEF ApplyExposes, TypeOK
  <2> QED
    BY <1>23, <1>a, <2>1, <2>2 DEF ApplyExposes, TypeOK
<1>24. ASSUME NEW p \in Projects, ApplyUnexposed(p)
      PROVE TypeOK'
  BY <1>24, <1>a DEF ApplyUnexposed, TypeOK
<1>25. ASSUME NEW p \in Projects, RespawnCloses(p)
      PROVE TypeOK'
  BY <1>25, <1>a DEF RespawnCloses, TypeOK
<1>26. ASSUME NEW p \in Projects, RespawnListens(p)
      PROVE TypeOK'
  <2>1. info[p] \in MaybeIP
    BY DEF TypeOK
  <2>2. front' \in [Projects -> MaybeIP]
    BY <1>26, <2>1, ListensTyped DEF RespawnListens
  <2> QED
    BY <1>26, <1>a, <2>1, <2>2 DEF RespawnListens, TypeOK
<1>27. ASSUME NEW p \in Projects, RespawnFails(p)
      PROVE TypeOK'
  <2>1. info[p] \in MaybeIP
    BY DEF TypeOK
  <2>2. front' \in [Projects -> MaybeIP]
    BY <1>27, <2>1, ListensTyped DEF RespawnFails
  <2> QED
    BY <1>27, <1>a, <2>1, <2>2 DEF RespawnFails, TypeOK
<1>28. ASSUME NEW p \in Projects, RespawnIronProxy(p)
      PROVE TypeOK'
  BY <1>28, <1>a DEF RespawnIronProxy, TypeOK
<1>29. ASSUME NEW p \in Projects, ProxyExits(p)
      PROVE TypeOK'
  BY <1>29, <1>a DEF ProxyExits, TypeOK
<1>30. ASSUME NEW p \in Projects, VMExits(p)
      PROVE TypeOK'
  BY <1>30, <1>a DEF VMExits, TypeOK
<1>31. ASSUME NEW p \in Projects, DiscoverExposes(p)
      PROVE TypeOK'
  <2>1. push[p] \in MaybeIP
    BY DEF TypeOK
  <2>2. claim' \in [Projects -> MaybeIP] /\ bound' \in [Projects -> MaybeIP]
    BY <1>31, <2>1, ExposesTyped DEF DiscoverExposes, TypeOK
  <2> QED
    BY <1>31, <1>a, <2>1, <2>2 DEF DiscoverExposes, TypeOK
<1>32. ASSUME NEW p \in Projects, RebindListens(p)
      PROVE TypeOK'
  <2>1. copy[p] \in MaybeIP
    BY DEF TypeOK
  <2>2. front' \in [Projects -> MaybeIP]
    BY <1>32, <2>1, ListensTyped DEF RebindListens
  <2> QED
    BY <1>32, <1>a, <2>1, <2>2 DEF RebindListens, TypeOK
<1>33. ASSUME NEW p \in Projects, RebindFails(p)
      PROVE TypeOK'
  <2>1. copy[p] \in MaybeIP
    BY DEF TypeOK
  <2>2. front' \in [Projects -> MaybeIP]
    BY <1>33, <2>1, ListensTyped DEF RebindFails
  <2> QED
    BY <1>33, <1>a, <2>1, <2>2 DEF RebindFails, TypeOK
<1>34. ASSUME NEW p \in Projects, RebindReads(p)
      PROVE TypeOK'
  BY <1>34, <1>a DEF RebindReads, TypeOK
<1>35. ASSUME NEW p \in Projects, RebindWrites(p)
      PROVE TypeOK'
  BY <1>35, <1>a DEF RebindWrites, TypeOK
<1>36. ASSUME NEW i \in IPs, ForeignListens(i) \/ ForeignGoes(i)
       PROVE TypeOK'
  BY <1>36 DEF ForeignListens, ForeignGoes, TypeOK
<1>37. CASE DaemonRestarts
  BY <1>37, <1>a DEF DaemonRestarts, TypeOK
<1>38. CASE UNCHANGED vars
  BY <1>38 DEF TypeOK
<1> HIDE DEF Steps, Returns, Releases, registry, disk, listening, handler, startup, vars
<1> QED
  BY <1>1, <1>2, <1>3, <1>4, <1>5, <1>6, <1>7, <1>8, <1>9, <1>10, <1>11,
     <1>12, <1>13, <1>14, <1>15, <1>16, <1>17, <1>18, <1>19, <1>20, <1>21,
     <1>22, <1>23, <1>24, <1>25, <1>26, <1>27, <1>28, <1>29, <1>30, <1>31,
     <1>32, <1>33, <1>34, <1>35, <1>36, <1>37, <1>38
     DEF Next, Starting, Stopping, Healing, Startup

\* Type correctness of the ingress state, for every set of projects and pool.
THEOREM TypeCorrect == Spec => []TypeOK
<1>1. Init => TypeOK
  BY DEF Init, TypeOK, MaybeIP, Nowhere
<1> QED
  BY <1>1, TypeStep, PTL DEF Spec

-----------------------------------------------------------------------------
(* The handlers of a daemon that does not restart.                         *)

\* Its startup goroutines have ended.
Quiet == \A p \in Projects : goes[p] = "ended" /\ push[p] = NoIP

\* What a handler remembers is what the entry says: its lock is held.
Named(p) ==
    /\ at[p] \in {"expose", "spawn", "listen", "record", "adopt", "relisten", "reexpose"}
       => arg[p] = ip[p] /\ ip[p] # NoIP
    /\ at[p] \in {"listen", "record", "reopen"} => info[p] = ip[p]

\* What /vm/stop has already undone is still undone.
Stopped(p) ==
    /\ at[p] \in {"release", "forget", "poweroff"} => front[p] = NoIP
    /\ at[p] \in {"forget", "poweroff"} => ip[p] = NoIP
    /\ at[p] = "poweroff" => p \notin present /\ claim[p] = NoIP

\* Nobody else holds or claims an address that p holds or listens on.
Apart(p, q) ==
    /\ ip[p] # NoIP => ip[q] # ip[p]
    /\ bound[p] # NoIP => ip[q] # bound[p] /\ claim[q] # bound[p]

\* The inductive invariant: the last conjunct gives OneHolder and
\* ClaimsTellTheOwner, and needs the first two to survive a step that writes
\* back an address its handler read earlier.
Safe ==
    /\ TypeOK /\ Quiet
    /\ \A p \in Projects : Named(p) /\ Stopped(p)
    /\ \A p, q \in Projects : p # q => Apart(p, q)

\* A step moves nothing of q.
Still(q) ==
    /\ at'[q] = at[q] /\ arg'[q] = arg[q] /\ info'[q] = info[q]
    /\ ip'[q] = ip[q] /\ front'[q] = front[q]
    /\ bound'[q] = bound[q] /\ claim'[q] = claim[q]
    /\ q \in present' <=> q \in present

\* A step of p moves nothing of the others and leaves p as Safe asks.
Local(p) ==
    /\ Quiet' /\ Named(p)' /\ Stopped(p)'
    /\ \A q \in Projects \ {p} : Still(q) /\ Apart(p, q)' /\ Apart(q, p)'

\* A local step preserves the invariant.
LEMMA LocalIsSafe ==
    ASSUME Safe, TypeOK', NEW p \in Projects, Local(p)
    PROVE  Safe'
<1>1. \A q \in Projects : Named(q)' /\ Stopped(q)'
  BY DEF Safe, Local, Still, Named, Stopped
<1>2. ASSUME NEW q \in Projects, NEW r \in Projects, q # r PROVE Apart(q, r)'
  <2>1. CASE q = p \/ r = p
    BY <1>2, <2>1 DEF Local
  <2>2. CASE q # p /\ r # p
    BY <1>2, <2>2 DEF Safe, Local, Still, Apart
  <2> QED
    BY <2>1, <2>2
<1> QED
  BY <1>1, <1>2 DEF Safe, Local

\* Every action of a handler or of the host on a project is local to it.
LEMMA ActionsAreLocal ==
    ASSUME Safe, NEW p \in Projects,
           \/ StartVM(p) \/ Starting(p) \/ Seeds(p) \/ SeedsNothing(p)
           \/ StopProxy(p) \/ Stopping(p)
           \/ HealReleases(p) \/ Healing(p)
           \/ ApplyAllocates(p) \/ ApplyFails(p)
           \/ ApplyExposes(p) \/ ApplyUnexposed(p)
           \/ RespawnCloses(p) \/ RespawnListens(p) \/ RespawnFails(p)
           \/ RespawnIronProxy(p)
           \/ ProxyExits(p) \/ VMExits(p)
    PROVE  Local(p)
<1>a. /\ Quiet /\ Named(p) /\ Stopped(p)
      /\ \A q \in Projects \ {p} : Apart(p, q) /\ Apart(q, p)
  BY DEF Safe
<1>b. /\ at = [q \in Projects |-> at[q]] /\ ip \in [Projects -> MaybeIP]
      /\ front \in [Projects -> MaybeIP] /\ bound \in [Projects -> MaybeIP]
      /\ claim \in [Projects -> MaybeIP] /\ arg \in [Projects -> MaybeIP]
      /\ info \in [Projects -> MaybeIP]
  BY DEF Safe, TypeOK
<1>c. NoIP \notin IPs
  BY PoolAssumption DEF NoIP
<1> USE DEF Steps, Returns, Releases, registry, disk, listening, handler, startup,
            Local, Still, Quiet, Named, Stopped, Apart
<1>1. CASE StartVM(p)
  BY <1>1, <1>a, <1>b, <1>c DEF StartVM
<1>2. CASE StartAllocates(p)
  BY <1>2, <1>a, <1>b, <1>c DEF StartAllocates, Allocates, Free
<1>3. CASE StartExposes(p)
  BY <1>3, <1>a, <1>b, <1>c DEF StartExposes, Exposes, Taken
<1>4. CASE StartUnexposed(p)
  BY <1>4, <1>a, <1>b, <1>c DEF StartUnexposed, ExposeFails, Taken
<1>5. CASE StartSpawns(p)
  BY <1>5, <1>a, <1>b, <1>c DEF StartSpawns
<1>6. CASE StartListens(p)
  BY <1>6, <1>a, <1>b, <1>c DEF StartListens, Listens, ListenFails
<1>7. CASE StartRecords(p)
  BY <1>7, <1>a, <1>b, <1>c DEF StartRecords
<1>8. CASE StartFails(p)
  BY <1>8, <1>a, <1>b, <1>c DEF StartFails
<1>9. CASE Seeds(p)
  BY <1>9, <1>a, <1>b, <1>c DEF Seeds
<1>10. CASE SeedsNothing(p)
  BY <1>10, <1>a, <1>b, <1>c DEF SeedsNothing
<1>11. CASE StopProxy(p)
  BY <1>11, <1>a, <1>b, <1>c DEF StopProxy
<1>12. CASE StopProjectListeners(p)
  BY <1>12, <1>a, <1>b, <1>c DEF StopProjectListeners
<1>13. CASE ReleaseProjectIP(p)
  BY <1>13, <1>a, <1>b, <1>c DEF ReleaseProjectIP
<1>14. CASE StopForgets(p)
  BY <1>14, <1>a, <1>b, <1>c DEF StopForgets
<1>15. CASE StopPowersOff(p)
  BY <1>15, <1>a, <1>b, <1>c DEF StopPowersOff
<1>16. CASE HealReleases(p)
  BY <1>16, <1>a, <1>b, <1>c DEF HealReleases
<1>17. CASE HealAllocates(p)
  BY <1>17, <1>a, <1>b, <1>c DEF HealAllocates, Allocates, Free
<1>18. CASE HealListens(p)
  BY <1>18, <1>a, <1>b, <1>c DEF HealListens, Listens
<1>19. CASE HealExposes(p)
  BY <1>19, <1>a, <1>b, <1>c DEF HealExposes, Exposes, Taken
<1>20. CASE HealFails(p)
  BY <1>20, <1>a, <1>b, <1>c DEF HealFails, ExposeFails, ListenFails, Taken
<1>21. CASE ApplyAllocates(p)
  BY <1>21, <1>a, <1>b, <1>c DEF ApplyAllocates, Allocates, Free
<1>22. CASE ApplyFails(p)
  BY <1>22, <1>a, <1>b, <1>c DEF ApplyFails
<1>23. CASE ApplyExposes(p)
  BY <1>23, <1>a, <1>b, <1>c DEF ApplyExposes, Exposes, ExposeFails, Taken
<1>24. CASE ApplyUnexposed(p)
  BY <1>24, <1>a, <1>b, <1>c DEF ApplyUnexposed
<1>25. CASE RespawnCloses(p)
  BY <1>25, <1>a, <1>b, <1>c DEF RespawnCloses
<1>26. CASE RespawnListens(p)
  BY <1>26, <1>a, <1>b, <1>c DEF RespawnListens, Listens
<1>27. CASE RespawnFails(p)
  BY <1>27, <1>a, <1>b, <1>c DEF RespawnFails, Listens, ListenFails
<1>28. CASE RespawnIronProxy(p)
  BY <1>28, <1>a, <1>b, <1>c DEF RespawnIronProxy
<1>29. CASE ProxyExits(p)
  BY <1>29, <1>a, <1>b, <1>c DEF ProxyExits
<1>30. CASE VMExits(p)
  BY <1>30, <1>a, <1>b, <1>c DEF VMExits
<1> HIDE DEF Steps, Returns, Releases, registry, disk, listening, handler, startup,
            Local, Still, Quiet, Named, Stopped, Apart
<1> QED
  BY <1>1, <1>2, <1>3, <1>4, <1>5, <1>6, <1>7, <1>8, <1>9, <1>10, <1>11,
     <1>12, <1>13, <1>14, <1>15, <1>16, <1>17, <1>18, <1>19, <1>20, <1>21,
     <1>22, <1>23, <1>24, <1>25, <1>26, <1>27, <1>28, <1>29, <1>30
     DEF Starting, Stopping, Healing

\* Without restarts every step preserves the invariant.
LEMMA SafeStep ==
    ASSUME "restart" \notin Faults, Safe, [Next]_vars
    PROVE  Safe'
<1>1. TypeOK'
  BY TypeStep DEF Safe
<1>2. ASSUME NEW p \in Projects, Startup(p) PROVE FALSE
  BY <1>2 DEF Safe, Quiet, Startup, DiscoverExposes, RebindListens, RebindFails,
              RebindReads, RebindWrites
<1>3. CASE DaemonRestarts
  BY <1>3 DEF DaemonRestarts
<1>4. CASE \E i \in IPs : ForeignListens(i) \/ ForeignGoes(i)
  BY <1>1, <1>4 DEF Safe, ForeignListens, ForeignGoes, Quiet, Named, Stopped, Apart,
                    registry, listening, handler, startup
<1>5. CASE UNCHANGED vars
  BY <1>1, <1>5 DEF Safe, Quiet, Named, Stopped, Apart, vars, registry, listening,
                    handler, startup
<1>6. ASSUME NEW p \in Projects, Local(p) PROVE Safe'
  BY <1>1, <1>6, LocalIsSafe
<1> QED
  BY <1>2, <1>3, <1>4, <1>5, <1>6, ActionsAreLocal DEF Next

\* It holds at first.
LEMMA SafeInit == Init => Safe
<1>1. Init => TypeOK
  BY DEF Init, TypeOK, MaybeIP, Nowhere
<1> QED
  BY <1>1 DEF Init, Safe, Quiet, Named, Stopped, Apart, Nowhere

\* The invariant of a daemon that stays up.
THEOREM StaysSafe ==
    ASSUME "restart" \notin Faults
    PROVE  Spec => []Safe
BY SafeInit, SafeStep, PTL DEF Spec

\* AllocateProjectIP gives no two projects one address, whatever sshd comes and
\* goes on the pool, whatever crashes, and however starts, stops, heals, applies
\* and the watchdog interleave.
THEOREM OneHolderPerAddress ==
    ASSUME "restart" \notin Faults
    PROVE  Spec => []OneHolder
<1>1. Safe => OneHolder
  BY DEF Safe, Apart, OneHolder
<1> QED
  BY <1>1, StaysSafe, PTL

\* exposeClaims never blames a project for an endpoint another's softnet has.
THEOREM ClaimsAreTheOwners ==
    ASSUME "restart" \notin Faults
    PROVE  Spec => []ClaimsTellTheOwner
<1>1. Safe => ClaimsTellTheOwner
  BY DEF Safe, Apart, ClaimsTellTheOwner
<1> QED
  BY <1>1, StaysSafe, PTL

\* What /vm/stop has undone when it powers off stays undone to its end.
THEOREM StopUndoesAll ==
    ASSUME "restart" \notin Faults
    PROVE  Spec => []StopLeavesNothing
<1>1. Safe => StopLeavesNothing
  BY DEF Safe, Stopped, StopLeavesNothing
<1> QED
  BY <1>1, StaysSafe, PTL

-----------------------------------------------------------------------------
(* The handlers on a pool that nothing foreign takes an address of.        *)

\* Nobody heals: only a foreign sshd makes a project look taken.
Unhealed ==
    /\ foreign = {}
    /\ \A p \in Projects : at[p] \notin {"reallocate", "relisten", "reexpose"}

\* The daemon listens for p on its address or not at all.
Fronted(p) == front[p] \in {NoIP, ip[p]}

\* The inductive invariant of a pool that is devm's alone.
Silent == Safe /\ Unhealed /\ \A p \in Projects : Fronted(p)

\* A step of p leaves the pool to devm and the daemon on p's address.
LEMMA ActionsAreSilent ==
    ASSUME "foreign" \notin Faults, Silent, NEW p \in Projects,
           \/ StartVM(p) \/ Starting(p) \/ Seeds(p) \/ SeedsNothing(p)
           \/ StopProxy(p) \/ Stopping(p)
           \/ HealReleases(p) \/ Healing(p)
           \/ ApplyAllocates(p) \/ ApplyFails(p)
           \/ ApplyExposes(p) \/ ApplyUnexposed(p)
           \/ RespawnCloses(p) \/ RespawnListens(p) \/ RespawnFails(p)
           \/ RespawnIronProxy(p)
           \/ ProxyExits(p) \/ VMExits(p)
    PROVE  Unhealed' /\ Fronted(p)'
<1>a. /\ Unhealed /\ Named(p) /\ Stopped(p) /\ Fronted(p)
      /\ \A q \in Projects \ {p} : Apart(p, q) /\ Apart(q, p)
  BY DEF Silent, Safe
<1>b. /\ at = [q \in Projects |-> at[q]] /\ ip \in [Projects -> MaybeIP]
      /\ front \in [Projects -> MaybeIP] /\ bound \in [Projects -> MaybeIP]
      /\ arg \in [Projects -> MaybeIP] /\ info \in [Projects -> MaybeIP]
  BY DEF Silent, Safe, TypeOK
<1>c. NoIP \notin IPs
  BY PoolAssumption DEF NoIP
<1> USE DEF Steps, Returns, Releases, registry, disk, listening, handler, startup,
            Unhealed, Named, Stopped, Apart, Fronted
<1>1. CASE StartVM(p)
  BY <1>1, <1>a, <1>b, <1>c DEF StartVM
<1>2. CASE StartAllocates(p)
  BY <1>2, <1>a, <1>b, <1>c DEF StartAllocates, Allocates, Free
<1>3. CASE StartExposes(p)
  BY <1>3, <1>a, <1>b, <1>c DEF StartExposes, Exposes, Taken
<1>4. CASE StartUnexposed(p)
  BY <1>4, <1>a, <1>b, <1>c DEF StartUnexposed, ExposeFails, Taken
<1>5. CASE StartSpawns(p)
  BY <1>5, <1>a, <1>b, <1>c DEF StartSpawns
<1>6. CASE StartListens(p)
  BY <1>6, <1>a, <1>b, <1>c DEF StartListens, Listens, ListenFails
<1>7. CASE StartRecords(p)
  BY <1>7, <1>a, <1>b, <1>c DEF StartRecords
<1>8. CASE StartFails(p)
  BY <1>8, <1>a, <1>b, <1>c DEF StartFails
<1>9. CASE Seeds(p)
  BY <1>9, <1>a, <1>b, <1>c DEF Seeds
<1>10. CASE SeedsNothing(p)
  BY <1>10, <1>a, <1>b, <1>c DEF SeedsNothing
<1>11. CASE StopProxy(p)
  BY <1>11, <1>a, <1>b, <1>c DEF StopProxy
<1>12. CASE StopProjectListeners(p)
  BY <1>12, <1>a, <1>b, <1>c DEF StopProjectListeners
<1>13. CASE ReleaseProjectIP(p)
  BY <1>13, <1>a, <1>b, <1>c DEF ReleaseProjectIP
<1>14. CASE StopForgets(p)
  BY <1>14, <1>a, <1>b, <1>c DEF StopForgets
<1>15. CASE StopPowersOff(p)
  BY <1>15, <1>a, <1>b, <1>c DEF StopPowersOff
<1>16. CASE HealReleases(p)
  BY <1>16, <1>a, <1>b, <1>c DEF HealReleases, Taken
<1>17. CASE Healing(p)
  BY <1>17, <1>a, <1>b, <1>c DEF Healing, HealAllocates, HealListens,
     HealExposes, HealFails
<1>18. CASE ApplyAllocates(p)
  BY <1>18, <1>a, <1>b, <1>c DEF ApplyAllocates, Allocates, Free
<1>19. CASE ApplyFails(p)
  BY <1>19, <1>a, <1>b, <1>c DEF ApplyFails
<1>20. CASE ApplyExposes(p)
  BY <1>20, <1>a, <1>b, <1>c DEF ApplyExposes, Exposes, ExposeFails, Taken
<1>21. CASE ApplyUnexposed(p)
  BY <1>21, <1>a, <1>b, <1>c DEF ApplyUnexposed
<1>22. CASE RespawnCloses(p)
  BY <1>22, <1>a, <1>b, <1>c DEF RespawnCloses
<1>23. CASE RespawnListens(p)
  BY <1>23, <1>a, <1>b, <1>c DEF RespawnListens, Listens
<1>24. CASE RespawnFails(p)
  BY <1>24, <1>a, <1>b, <1>c DEF RespawnFails, Listens, ListenFails
<1>25. CASE RespawnIronProxy(p)
  BY <1>25, <1>a, <1>b, <1>c DEF RespawnIronProxy
<1>26. CASE ProxyExits(p)
  BY <1>26, <1>a, <1>b, <1>c DEF ProxyExits
<1>27. CASE VMExits(p)
  BY <1>27, <1>a, <1>b, <1>c DEF VMExits
<1> HIDE DEF Steps, Returns, Releases, registry, disk, listening, handler, startup,
            Unhealed, Named, Stopped, Apart, Fronted
<1> QED
  BY <1>1, <1>2, <1>3, <1>4, <1>5, <1>6, <1>7, <1>8, <1>9, <1>10, <1>11,
     <1>12, <1>13, <1>14, <1>15, <1>16, <1>17, <1>18, <1>19, <1>20, <1>21,
     <1>22, <1>23, <1>24, <1>25, <1>26, <1>27
     DEF Starting, Stopping

\* Every step preserves the invariant.
LEMMA SilentStep ==
    ASSUME "restart" \notin Faults, "foreign" \notin Faults, Silent, [Next]_vars
    PROVE  Silent'
<1>1. Safe'
  BY SafeStep DEF Silent
<1>2. ASSUME NEW p \in Projects, Startup(p) PROVE FALSE
  BY <1>2 DEF Silent, Safe, Quiet, Startup, DiscoverExposes, RebindListens,
              RebindFails, RebindReads, RebindWrites
<1>3. CASE DaemonRestarts
  BY <1>3 DEF DaemonRestarts
<1>4. CASE \E i \in IPs : ForeignListens(i) \/ ForeignGoes(i)
  BY <1>4 DEF Silent, Unhealed, ForeignListens, ForeignGoes
<1>5. CASE UNCHANGED vars
  BY <1>1, <1>5 DEF Silent, Unhealed, Fronted, vars, registry, listening, handler
<1>6. ASSUME NEW p \in Projects, Local(p), Unhealed' /\ Fronted(p)' PROVE Silent'
  BY <1>1, <1>6 DEF Silent, Local, Still, Fronted
<1> QED
  BY <1>2, <1>3, <1>4, <1>5, <1>6, ActionsAreLocal, ActionsAreSilent
     DEF Next, Silent

\* An address that is given out is one nobody listens on.
LEMMA GivesSilentAddresses ==
    ASSUME "restart" \notin Faults, Silent, [Next]_vars,
           NEW p \in Projects, NEW q \in Projects, p # q,
           ip[p] = NoIP, ip'[p] # NoIP,
           at'[p] \in {"expose", "relisten", "adopt"}
    PROVE  front[q] # ip'[p] /\ bound[q] # ip'[p]
<1>1. ASSUME \/ StartVM(p) \/ Starting(p) \/ Seeds(p) \/ SeedsNothing(p)
             \/ StopProxy(p) \/ Stopping(p)
             \/ HealReleases(p) \/ Healing(p)
             \/ ApplyAllocates(p) \/ ApplyFails(p)
             \/ ApplyExposes(p) \/ ApplyUnexposed(p)
             \/ RespawnCloses(p) \/ RespawnListens(p) \/ RespawnFails(p)
             \/ RespawnIronProxy(p)
             \/ ProxyExits(p) \/ VMExits(p)
      PROVE  ip'[p] \in Free
  <2>a. /\ at = [r \in Projects |-> at[r]] /\ ip \in [Projects -> MaybeIP]
    BY DEF Silent, Safe, TypeOK
  <2> USE DEF Steps, Returns, Releases, registry, disk, listening, handler, startup
  <2>1. CASE StartVM(p) \/ Seeds(p) \/ SeedsNothing(p) \/ StopProxy(p)
    BY <2>1, <2>a DEF StartVM, Seeds, SeedsNothing, StopProxy
  <2>2. CASE Starting(p)
    BY <2>2, <2>a DEF Starting, StartAllocates, StartExposes,
       StartUnexposed, StartSpawns, StartListens, StartRecords, StartFails,
       Allocates
  <2>3. CASE Stopping(p)
    BY <2>3, <2>a DEF Stopping, StopProjectListeners, ReleaseProjectIP,
       StopForgets, StopPowersOff
  <2>4. CASE HealReleases(p) \/ Healing(p)
    BY <2>4, <2>a DEF HealReleases, Healing, HealAllocates, HealListens,
       HealExposes, HealFails, Allocates
  <2>5. CASE ApplyAllocates(p) \/ ApplyFails(p) \/ ApplyExposes(p) \/ ApplyUnexposed(p)
    BY <2>5, <2>a DEF ApplyAllocates, ApplyFails, ApplyExposes,
       ApplyUnexposed, Allocates
  <2>6. CASE RespawnCloses(p) \/ RespawnListens(p) \/ RespawnFails(p) \/ RespawnIronProxy(p)
    BY <2>6, <2>a DEF RespawnCloses, RespawnListens, RespawnFails,
       RespawnIronProxy
  <2>7. CASE ProxyExits(p) \/ VMExits(p)
    BY <2>7, <2>a DEF ProxyExits, VMExits
  <2> QED
    BY <1>1, <2>1, <2>2, <2>3, <2>4, <2>5, <2>6, <2>7
<1>2. ip'[p] \in Free => front[q] # ip'[p] /\ bound[q] # ip'[p]
  BY PoolAssumption DEF Free, Silent, Fronted, NoIP
<1>3. ASSUME NEW r \in Projects, r # p, Local(r) PROVE FALSE
  BY <1>3 DEF Local, Still
<1>4. ASSUME NEW r \in Projects, Startup(r) PROVE FALSE
  BY <1>4 DEF Silent, Safe, Quiet, Startup, DiscoverExposes, RebindListens,
              RebindFails, RebindReads, RebindWrites
<1>5. ~DaemonRestarts
  BY DEF DaemonRestarts
<1>6. ASSUME \E i \in IPs : ForeignListens(i) \/ ForeignGoes(i) PROVE FALSE
  BY <1>6 DEF ForeignListens, ForeignGoes, registry
<1>7. ~UNCHANGED vars
  BY DEF vars, registry
<1>8. Safe
  BY DEF Silent
<1> QED
  BY <1>1, <1>2, <1>3, <1>4, <1>5, <1>6, <1>7, <1>8, ActionsAreLocal DEF Next

\* /vm/start, heal and apply never give a project an address on which the
\* daemon or a softnet still listens for another, however stops, starts and
\* crashes interleave.
THEOREM HandsOverSilentAddresses ==
    ASSUME "restart" \notin Faults, "foreign" \notin Faults
    PROVE  Spec => HandsOverSilent
<1>1. Init => Silent
  BY SafeInit DEF Init, Silent, Unhealed, Fronted, Nowhere
<1>2. Silent /\ [Next]_vars =>
        [\A p, q \in Projects :
            /\ ip[p] = NoIP /\ ip'[p] # NoIP
            /\ at'[p] \in {"expose", "relisten", "adopt"}
            /\ p # q
            => front[q] # ip'[p] /\ bound[q] # ip'[p]]_vars
  BY GivesSilentAddresses
<1> QED
  BY <1>1, <1>2, SilentStep, PTL DEF Spec, HandsOverSilent

-----------------------------------------------------------------------------
(* The refinement of AddressPool.                                          *)

\* A step of p is one the pool's clients may take, or moves nothing of the pool.
LEMMA ActionsAreThePools ==
    ASSUME "foreign" \notin Faults, Silent, NEW p \in Projects,
           \/ StartVM(p) \/ Starting(p) \/ Seeds(p) \/ SeedsNothing(p)
           \/ StopProxy(p) \/ Stopping(p)
           \/ HealReleases(p) \/ Healing(p)
           \/ ApplyAllocates(p) \/ ApplyFails(p)
           \/ ApplyExposes(p) \/ ApplyUnexposed(p)
           \/ RespawnCloses(p) \/ RespawnListens(p) \/ RespawnFails(p)
           \/ RespawnIronProxy(p)
           \/ ProxyExits(p) \/ VMExits(p)
    PROVE  \/ UNCHANGED <<ip, front, bound>>
           \/ \E i \in IPs :
                 /\ ip[p] = NoIP /\ i \in Free
                 /\ ip' = [ip EXCEPT ![p] = i]
                 /\ UNCHANGED <<front, bound>>
           \/ ip' = [ip EXCEPT ![p] = NoIP] /\ UNCHANGED <<front, bound>>
           \/ /\ UNCHANGED ip
              /\ \E i \in {front[p], ip[p], NoIP} : front' = [front EXCEPT ![p] = i]
              /\ \E i \in {bound[p], ip[p], NoIP} : bound' = [bound EXCEPT ![p] = i]
<1>a. Unhealed /\ Named(p) /\ Stopped(p) /\ Fronted(p)
  BY DEF Silent, Safe
<1>b. /\ at = [q \in Projects |-> at[q]] /\ ip \in [Projects -> MaybeIP]
      /\ front \in [Projects -> MaybeIP] /\ bound \in [Projects -> MaybeIP]
  BY DEF Silent, Safe, TypeOK
<1> USE DEF Steps, Returns, Releases, registry, disk, listening, handler, startup,
            Unhealed, Named, Stopped, Fronted
<1>1. CASE StartVM(p) \/ Seeds(p) \/ SeedsNothing(p) \/ StopProxy(p)
  BY <1>1 DEF StartVM, Seeds, SeedsNothing, StopProxy
<1>2. CASE StartAllocates(p)
  BY <1>2, <1>b DEF StartAllocates, Allocates
<1>3. CASE StartExposes(p)
  BY <1>3, <1>a, <1>b DEF StartExposes, Exposes
<1>4. CASE StartUnexposed(p)
  BY <1>4, <1>a, <1>b DEF StartUnexposed, ExposeFails
<1>5. CASE StartSpawns(p) \/ StartFails(p)
  BY <1>5 DEF StartSpawns, StartFails
<1>6. CASE StartListens(p)
  BY <1>6, <1>a, <1>b DEF StartListens, Listens, ListenFails
<1>7. CASE StartRecords(p)
  BY <1>7, <1>a, <1>b DEF StartRecords
<1>8. CASE Stopping(p)
  BY <1>8, <1>a, <1>b DEF Stopping, StopProjectListeners, ReleaseProjectIP,
     StopForgets, StopPowersOff
<1>9. CASE HealReleases(p)
  BY <1>9 DEF HealReleases
<1>10. CASE Healing(p)
  BY <1>10, <1>a DEF Healing, HealAllocates, HealListens, HealExposes, HealFails
<1>11. CASE ApplyAllocates(p)
  BY <1>11, <1>b DEF ApplyAllocates, Allocates
<1>12. CASE ApplyFails(p) \/ ApplyUnexposed(p)
  BY <1>12 DEF ApplyFails, ApplyUnexposed
<1>13. CASE ApplyExposes(p)
  BY <1>13, <1>a, <1>b DEF ApplyExposes, Exposes, ExposeFails
<1>14. CASE RespawnCloses(p)
  BY <1>14, <1>b DEF RespawnCloses
<1>15. CASE RespawnListens(p)
  BY <1>15, <1>a, <1>b DEF RespawnListens, Listens
<1>16. CASE RespawnFails(p)
  BY <1>16, <1>a, <1>b DEF RespawnFails, Listens, ListenFails
<1>17. CASE RespawnIronProxy(p) \/ ProxyExits(p)
  BY <1>17 DEF RespawnIronProxy, ProxyExits
<1>18. CASE VMExits(p)
  BY <1>18, <1>b DEF VMExits
<1> HIDE DEF Steps, Returns, Releases, registry, disk, listening, handler, startup,
            Unhealed, Named, Stopped, Fronted
<1> QED
  BY <1>1, <1>2, <1>3, <1>4, <1>5, <1>6, <1>7, <1>8, <1>9, <1>10, <1>11,
     <1>12, <1>13, <1>14, <1>15, <1>16, <1>17, <1>18 DEF Starting

\* So every step of the system is one of the pool's.
LEMMA PoolStep ==
    ASSUME "restart" \notin Faults, "foreign" \notin Faults, Silent, [Next]_vars
    PROVE  [Pool!Next]_<<ip, listensOn>>
<1>a. /\ ip \in [Projects -> MaybeIP]
      /\ front \in [Projects -> MaybeIP] /\ bound \in [Projects -> MaybeIP]
  BY DEF Silent, Safe, TypeOK
<1>1. ASSUME NEW p \in Projects, NEW i \in IPs,
             ip[p] = NoIP, i \in Free, ip' = [ip EXCEPT ![p] = i],
             UNCHANGED <<front, bound>>
      PROVE  Pool!Acquire(p, i)
  <2>1. \A q \in Projects : ip[q] # i /\ bound[q] # i /\ front[q] # i
    BY <1>1, <1>a, PoolAssumption DEF Free, Silent, Fronted, NoIP
  <2> QED
    BY <1>1, <2>1 DEF Pool!Acquire, listensOn
<1>2. ASSUME NEW p \in Projects, ip' = [ip EXCEPT ![p] = NoIP],
             UNCHANGED <<front, bound>>
      PROVE  Pool!Release(p)
  BY <1>2 DEF Pool!Release, listensOn
<1>3. ASSUME NEW p \in Projects, UNCHANGED ip,
             NEW i \in {front[p], ip[p], NoIP}, front' = [front EXCEPT ![p] = i],
             NEW j \in {bound[p], ip[p], NoIP}, bound' = [bound EXCEPT ![p] = j]
      PROVE  Pool!Listen(p) \/ Pool!Leave(p)
  <2> DEFINE left == ({i, j} \ {NoIP}) \cap listensOn[p]
             now  == {i, j} \ {NoIP}
  <2>1. listensOn[p] = {front[p], bound[p]} \ {NoIP}
    BY DEF listensOn
  <2>2. now \subseteq listensOn[p] \cup ({ip[p]} \ {NoIP})
    BY <1>3, <2>1
  <2>3. listensOn' = [listensOn EXCEPT ![p] = now]
    BY <1>3, <1>a DEF listensOn
  <2>4. CASE now \subseteq listensOn[p]
    BY <1>3, <2>3, <2>4 DEF Pool!Leave
  <2>5. CASE ~(now \subseteq listensOn[p])
    <3>1. now = left \cup ({ip[p]} \ {NoIP})
      BY <2>2, <2>5
    <3> QED
      BY <1>3, <2>3, <3>1 DEF Pool!Listen
  <2> QED
    BY <2>4, <2>5
<1>4. ASSUME NEW p \in Projects, Startup(p) PROVE FALSE
  BY <1>4 DEF Silent, Safe, Quiet, Startup, DiscoverExposes, RebindListens,
              RebindFails, RebindReads, RebindWrites
<1>5. ~DaemonRestarts
  BY DEF DaemonRestarts
<1>6. CASE UNCHANGED <<ip, front, bound>>
  BY <1>6 DEF listensOn
<1>7. CASE \E i \in IPs : ForeignListens(i) \/ ForeignGoes(i)
  BY <1>7, <1>6 DEF ForeignListens, ForeignGoes, registry, listening
<1>8. CASE UNCHANGED vars
  BY <1>8, <1>6 DEF vars, registry, listening
<1> QED
  BY <1>1, <1>2, <1>3, <1>4, <1>5, <1>6, <1>7, <1>8, ActionsAreThePools
     DEF Next, Pool!Next

\* However starts, stops, crashes and the watchdog interleave, the daemon keeps
\* the promise of AddressPool to every project.
THEOREM KeepsThePromise ==
    ASSUME "restart" \notin Faults, "foreign" \notin Faults
    PROVE  Spec => ImplementsPool
<1>1. Init => Silent /\ Pool!Init
  BY SafeInit DEF Init, Silent, Unhealed, Fronted, Nowhere, Pool!Init, listensOn
<1>2. Silent /\ [Next]_vars => [Pool!Next]_<<ip, listensOn>>
  BY PoolStep
<1> QED
  BY <1>1, <1>2, SilentStep, PTL DEF Spec, ImplementsPool, Pool!Spec, Pool!pool

\* The shape of the pool's state, which no step of the pool changes.
Shaped ==
    /\ ip \in [Projects -> MaybeIP]
    /\ listensOn \in [Projects -> SUBSET IPs]

\* A step of the pool keeps its shape and the addresses apart.
LEMMA ExclusiveStep ==
    ASSUME Shaped, Pool!Exclusive, [Pool!Next]_<<ip, listensOn>>
    PROVE  Shaped' /\ Pool!Exclusive'
<1> DEFINE held == ip
           uses == listensOn
<1> USE PoolAssumption DEF Shaped, MaybeIP, NoIP, Pool!Exclusive
<1> HIDE DEF uses
<1>0. uses = listensOn /\ uses' = listensOn'
  BY DEF uses
<1>1. ASSUME NEW c \in Projects, NEW i \in IPs, Pool!Acquire(c, i)
      PROVE  Shaped' /\ Pool!Exclusive'
  BY <1>0, <1>1 DEF Pool!Acquire
<1>2. ASSUME NEW c \in Projects, Pool!Release(c)
      PROVE  Shaped' /\ Pool!Exclusive'
  BY <1>0, <1>2 DEF Pool!Release
<1>3. ASSUME NEW c \in Projects, Pool!Listen(c) \/ Pool!Leave(c)
      PROVE  Shaped' /\ Pool!Exclusive'
  <2>1. PICK left \in SUBSET (uses[c] \cup ({held[c]} \ {NoIP})) :
           uses' = [uses EXCEPT ![c] = left]
    BY <1>0, <1>3 DEF Pool!Listen, Pool!Leave
  <2>2. held' = held
    BY <1>3 DEF Pool!Listen, Pool!Leave
  <2>3. uses' \in [Projects -> SUBSET IPs]
    BY <1>0, <2>1
  <2>4. \A d \in Projects : uses'[d] \subseteq uses[d] \cup ({held[d]} \ {NoIP})
    BY <1>0, <2>1
  <2> QED
    BY <1>0, <2>2, <2>3, <2>4
<1> QED
  BY <1>1, <1>2, <1>3 DEF Pool!Next

\* Whoever keeps the promise of AddressPool never has an address that is two
\* projects': AllocateProjectIP's callers may bind what they are given, and whoever
\* follows finds it free.
THEOREM StaysExclusive == ImplementsPool => []Pool!Exclusive
<1>1. Pool!Init => Shaped /\ Pool!Exclusive
  BY DEF Pool!Init, Shaped, MaybeIP, Pool!Exclusive
<1> QED
  BY <1>1, ExclusiveStep, PTL DEF ImplementsPool, Pool!Spec, Pool!pool

\* No address of the pool is ever two projects', whether an entry holds it or
\* only a listener is still on it.
THEOREM AddressesAreExclusive ==
    ASSUME "restart" \notin Faults, "foreign" \notin Faults
    PROVE  Spec => []Pool!Exclusive
BY KeepsThePromise, StaysExclusive, PTL
=============================================================================
