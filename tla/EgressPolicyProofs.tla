------------------------- MODULE EgressPolicyProofs -------------------------
(***************************************************************************)
(* What EgressPolicy guarantees for every set of projects, URLs, requests  *)
(* and timers: type correctness, the pairing of windows and timers, that   *)
(* only an expired window is taken away by a restore callback, that denial *)
(* rows are unresolved, and, when no stop fails and no CLI is killed, that *)
(* passthrough is always supervised.                                       *)
(***************************************************************************)
EXTENDS EgressPolicy, TLAPS

\* Every action only moves the variables within their types.
LEMMA TypeStep == TypeOK /\ [Next]_vars => TypeOK'
<1> SUFFICES ASSUME TypeOK, [Next]_vars PROVE TypeOK'
  OBVIOUS
<1> USE ConstantsAssumption DEF TypeOK, LockStates, Modes, vars, policyVars,
        timerVars, requestVars, hostVars
<1>1. ASSUME NEW p \in Projects, NEW d \in OpenFor, PassthroughEgress(p, d)
      PROVE TypeOK'
  BY <1>1 DEF PassthroughEgress, OpenPassthroughWindow, SetMode
<1>2. ASSUME NEW p \in Projects, RestrictEgress(p)
      PROVE TypeOK'
  BY <1>2 DEF RestrictEgress, DropWindow, SetMode
<1>3. ASSUME NEW p \in Projects, NEW r \in Requests, PassthroughRequest(p, r)
      PROVE TypeOK'
  BY <1>3 DEF PassthroughRequest
<1>4. ASSUME NEW p \in Projects, ApproveOpens(p)
      PROVE TypeOK'
  BY <1>4 DEF ApproveOpens, OpenPassthroughWindow, SetMode
<1>5. ASSUME NEW p \in Projects, ApproveClears(p) \/ PassthroughDeny(p)
      PROVE TypeOK'
  BY <1>5 DEF ApproveClears, PassthroughDeny
<1>6. ASSUME NEW p \in Projects, NEW list \in SUBSET Urls, NEW ok \in BOOLEAN,
             StartVM(p, list, ok)
      PROVE TypeOK'
  BY <1>6 DEF StartVM, SetAllowlist, EnsureServing
<1>7. ASSUME NEW p \in Projects, NEW list \in SUBSET Urls, NEW ok \in BOOLEAN,
             RespawnIronProxy(p, list, ok)
      PROVE TypeOK'
  BY <1>7 DEF RespawnIronProxy, SetAllowlist, EnsureServing
<1>8. ASSUME NEW p \in Projects, NEW list \in SUBSET Urls,
             ReconcileAllow(p, list)
      PROVE TypeOK'
  BY <1>8 DEF ReconcileAllow, SetAllowlist
<1>9. ASSUME NEW p \in Projects, BeginProvisioning(p)
      PROVE TypeOK'
  BY <1>9 DEF BeginProvisioning, SetMode
<1>10. ASSUME NEW p \in Projects, PushEnds(p) \/ StopBegins(p)
       PROVE TypeOK'
  BY <1>10 DEF PushEnds, StopBegins
<1>11. ASSUME NEW p \in Projects, EndProvisioning(p) \/ CliKilled(p)
       PROVE TypeOK'
  <2>1. CASE EndProvisioning(p)
    BY <2>1 DEF EndProvisioning, SetMode
  <2>2. CASE CliKilled(p)
    BY <2>2 DEF CliKilled
  <2> QED
    BY <1>11, <2>1, <2>2
<1>12. ASSUME NEW p \in Projects, RemoveStateCfg(p)
       PROVE TypeOK'
  BY <1>12 DEF RemoveStateCfg
<1>13. ASSUME NEW p \in Projects, StopFails(p)
       PROVE TypeOK'
  BY <1>13 DEF StopFails, DropWindow
<1>14. ASSUME NEW p \in Projects, StopServing(p) \/ PurgeProject(p)
       PROVE TypeOK'
  <2>1. CASE StopServing(p)
    BY <2>1 DEF StopServing, SetMode
  <2>2. CASE PurgeProject(p)
    BY <2>2 DEF PurgeProject, SetMode
  <2> QED
    BY <1>14, <2>1, <2>2
<1>15. ASSUME NEW p \in Projects, StopEnds(p)
       PROVE TypeOK'
  BY <1>15 DEF StopEnds, DropWindow
<1>16. ASSUME NEW p \in Projects, NEW u \in Urls,
              RequestArrives(p, u) \/ Decide(p, u)
       PROVE TypeOK'
  BY <1>16 DEF RequestArrives, Decide
<1>17. ASSUME NEW t \in Timers, TimerFires(t) \/ RestoreCallback(t)
       PROVE TypeOK'
  BY <1>17 DEF TimerFires, RestoreCallback, SetMode
<1>18. CASE Tick
  BY <1>18 DEF Tick, Less
<1>19. CASE DaemonRestart
  BY <1>19 DEF DaemonRestart
<1>20. CASE UNCHANGED vars
  BY <1>20
<1> HIDE DEF TypeOK, vars, policyVars, timerVars, requestVars, hostVars
<1> QED
  BY <1>1, <1>2, <1>3, <1>4, <1>5, <1>6, <1>7, <1>8, <1>9, <1>10, <1>11,
     <1>12, <1>13, <1>14, <1>15, <1>16, <1>17, <1>18, <1>19, <1>20
     DEF Next, Handler

\* Type correctness of the policy's state, for every value of the constants.
THEOREM TypeCorrect == Spec => []TypeOK
<1>1. Init => TypeOK
  BY ConstantsAssumption DEF Init, TypeOK, LockStates, Modes
<1> QED
  BY <1>1, TypeStep, PTL DEF Spec

-----------------------------------------------------------------------------
(* Windows and timers.  Neither half of the pairing is inductive alone: a  *)
(* renewal reuses no timer that a window or a callback still has because   *)
(* every window's timer is armed or fired.                                 *)

TimerInv ==
    /\ WindowHasPendingRestore
    /\ ArmedTimerIsTheWindows
    /\ armed \cap fired = {}

\* Opening or renewing a window keeps the pairing.
LEMMA OpenKeepsTimerInv ==
    ASSUME TypeOK, TimerInv, NEW p \in Projects, NEW d \in Nat,
           OpenPassthroughWindow(p, d)
    PROVE  TimerInv'
<1> USE ConstantsAssumption DEF TypeOK, TimerInv, WindowHasPendingRestore,
        ArmedTimerIsTheWindows
<1>1. PICK t \in Timers \ (armed \cup fired) :
         /\ window' = [window EXCEPT ![p] = t]
         /\ armed' = (armed \ {window[p]}) \cup {t}
         /\ owner' = [owner EXCEPT ![t] = p]
         /\ left' = [left EXCEPT ![t] = d]
         /\ expiry' = [expiry EXCEPT ![p] = d]
         /\ fired' = fired
  BY DEF OpenPassthroughWindow
<1>2. WindowHasPendingRestore'
  <2> SUFFICES ASSUME NEW q \in Projects, window'[q] # NoTimer
               PROVE  /\ owner'[window'[q]] = q
                      /\ \/ /\ window'[q] \in armed'
                            /\ left'[window'[q]] = expiry'[q]
                         \/ window'[q] \in fired' /\ expiry'[q] = 0
    OBVIOUS
  <2>1. CASE q = p
    BY <1>1, <2>1
  <2>2. CASE q # p
    <3>1. window'[q] = window[q] /\ window[q] # t /\ window[q] # window[p]
      BY <1>1, <2>2
    <3> QED
      BY <1>1, <2>2, <3>1
  <2> QED
    BY <2>1, <2>2
<1>3. ArmedTimerIsTheWindows'
  BY <1>1
<1>4. armed' \cap fired' = {}
  BY <1>1
<1> QED
  BY <1>2, <1>3, <1>4

\* Dropping a window's entry keeps the pairing.
LEMMA DropKeepsTimerInv ==
    ASSUME TypeOK, TimerInv, NEW p \in Projects, DropWindow(p)
    PROVE  TimerInv'
BY ConstantsAssumption DEF TypeOK, TimerInv, WindowHasPendingRestore,
   ArmedTimerIsTheWindows, DropWindow

\* A restore callback keeps the pairing, whether its window is still open or not.
LEMMA CallbackKeepsTimerInv ==
    ASSUME TypeOK, TimerInv, NEW t \in Timers, RestoreCallback(t)
    PROVE  TimerInv'
<1> USE ConstantsAssumption DEF TypeOK, TimerInv, WindowHasPendingRestore,
        ArmedTimerIsTheWindows, RestoreCallback
<1>1. CASE window[owner[t]] = t
  BY <1>1
<1>2. CASE window[owner[t]] # t
  BY <1>2
<1> QED
  BY <1>1, <1>2

\* The passing of time keeps a window and its timer in step.
LEMMA TickKeepsTimerInv ==
    ASSUME TypeOK, TimerInv, Tick
    PROVE  TimerInv'
BY ConstantsAssumption DEF TypeOK, TimerInv, WindowHasPendingRestore,
   ArmedTimerIsTheWindows, Tick, Less

\* Whatever leaves windows and timers alone keeps the pairing.
LEMMA FrameKeepsTimerInv ==
    ASSUME TimerInv, UNCHANGED timerVars
    PROVE  TimerInv'
BY DEF TimerInv, WindowHasPendingRestore, ArmedTimerIsTheWindows, timerVars

\* Every step keeps the pairing.
LEMMA TimerInvStep == TypeOK /\ TimerInv /\ [Next]_vars => TimerInv'
<1> SUFFICES ASSUME TypeOK, TimerInv, [Next]_vars PROVE TimerInv'
  OBVIOUS
<1>1. ASSUME NEW p \in Projects, NEW d \in OpenFor, PassthroughEgress(p, d)
      PROVE TimerInv'
  BY <1>1, OpenKeepsTimerInv, ConstantsAssumption DEF PassthroughEgress
<1>2. ASSUME NEW p \in Projects, ApproveOpens(p)
      PROVE TimerInv'
  <2>1. Duration[pending[p]] \in Nat
    BY <1>2, ConstantsAssumption DEF ApproveOpens, TypeOK
  <2> QED
    BY <1>2, <2>1, OpenKeepsTimerInv DEF ApproveOpens
<1>3. ASSUME NEW p \in Projects, RestrictEgress(p) \/ StopFails(p) \/ StopEnds(p)
      PROVE TimerInv'
  BY <1>3, DropKeepsTimerInv DEF RestrictEgress, StopFails, StopEnds
<1>4. ASSUME NEW p \in Projects,
             \/ \E r \in Requests : PassthroughRequest(p, r)
             \/ ApproveClears(p) \/ PassthroughDeny(p)
             \/ \E list \in SUBSET Urls, ok \in BOOLEAN :
                   StartVM(p, list, ok) \/ RespawnIronProxy(p, list, ok)
             \/ \E list \in SUBSET Urls : ReconcileAllow(p, list)
             \/ BeginProvisioning(p) \/ PushEnds(p) \/ EndProvisioning(p)
             \/ CliKilled(p) \/ StopBegins(p) \/ StopServing(p)
             \/ PurgeProject(p) \/ RemoveStateCfg(p)
             \/ \E u \in Urls : RequestArrives(p, u) \/ Decide(p, u)
      PROVE TimerInv'
  <2>1. UNCHANGED timerVars
    BY <1>4 DEF PassthroughRequest, ApproveClears, PassthroughDeny, StartVM,
       RespawnIronProxy, ReconcileAllow, BeginProvisioning, PushEnds,
       EndProvisioning, CliKilled, StopBegins, StopServing, PurgeProject,
       RemoveStateCfg, RequestArrives, Decide
  <2> QED
    BY <2>1, FrameKeepsTimerInv
<1>5. ASSUME NEW t \in Timers, TimerFires(t)
      PROVE TimerInv'
  BY <1>5 DEF TimerFires, TypeOK, TimerInv, WindowHasPendingRestore,
     ArmedTimerIsTheWindows
<1>6. ASSUME NEW t \in Timers, RestoreCallback(t)
      PROVE TimerInv'
  BY <1>6, CallbackKeepsTimerInv
<1>7. CASE Tick
  BY <1>7, TickKeepsTimerInv
<1>8. CASE DaemonRestart
  BY <1>8 DEF DaemonRestart, TimerInv, WindowHasPendingRestore,
     ArmedTimerIsTheWindows
<1>9. CASE UNCHANGED vars
  BY <1>9, FrameKeepsTimerInv DEF vars
<1> QED
  BY <1>1, <1>2, <1>3, <1>4, <1>5, <1>6, <1>7, <1>8, <1>9 DEF Next, Handler

\* The pairing holds in every reachable state.
LEMMA TimerInvAlways == Spec => []TimerInv
<1>1. Init => TimerInv
  BY DEF Init, TimerInv, WindowHasPendingRestore, ArmedTimerIsTheWindows
<1> QED
  BY <1>1, TypeCorrect, TimerInvStep, PTL DEF Spec

\* No open window is ever without the restore that ends it, and however often
\* windows are renewed and closed, one timer at most can fire for a project, and
\* it is the open window's.
THEOREM TimersAlwaysMatchWindows == Spec => []TimersMatchWindows
<1>1. TimerInv => TimersMatchWindows
  BY DEF TimerInv, TimersMatchWindows
<1> QED
  BY <1>1, TimerInvAlways, PTL

\* A stale callback never takes a newer window away.
THEOREM CallbacksTakeExpiredWindows == Spec => RestoreOnlyExpired
<1>1. ASSUME TypeOK, TimerInv, NEW t \in Timers, NEW p \in Projects,
             RestoreCallback(t), window[p] # window'[p]
      PROVE  expiry[p] = 0
  <2>1. p = owner[t] /\ window[p] = t
    BY <1>1 DEF RestoreCallback, TypeOK
  <2> QED
    BY <1>1, <2>1, ConstantsAssumption
       DEF TimerInv, WindowHasPendingRestore, RestoreCallback
<1>2. TypeOK /\ TimerInv =>
        [\A t \in Timers, p \in Projects :
            RestoreCallback(t) /\ window[p] # window'[p] => expiry[p] = 0]_vars
  BY <1>1
<1> QED
  BY <1>2, TypeCorrect, TimerInvAlways, PTL DEF RestoreOnlyExpired

-----------------------------------------------------------------------------
(* Denial rows.                                                            *)

\* Only a decision adds a row, and only for a URL outside the list it reads;
\* every replacement of the list replays the rows.
THEOREM DenialsStayUnresolved == Spec => []DenialsAreUnresolved
<1>1. Init => DenialsAreUnresolved
  BY DEF Init, DenialsAreUnresolved
<1>2. TypeOK /\ DenialsAreUnresolved /\ [Next]_vars => DenialsAreUnresolved'
  <2> SUFFICES ASSUME TypeOK, DenialsAreUnresolved, [Next]_vars
               PROVE  DenialsAreUnresolved'
    OBVIOUS
  <2> USE DEF TypeOK, DenialsAreUnresolved
  <2>1. ASSUME NEW p \in Projects, NEW list \in SUBSET Urls, NEW ok \in BOOLEAN,
               \/ StartVM(p, list, ok) \/ RespawnIronProxy(p, list, ok)
               \/ ReconcileAllow(p, list)
        PROVE DenialsAreUnresolved'
    <3>1. SetAllowlist(p, list)
      BY <2>1 DEF StartVM, RespawnIronProxy, ReconcileAllow
    <3> QED
      BY <3>1 DEF SetAllowlist
  <2>2. ASSUME NEW p \in Projects, NEW u \in Urls, Decide(p, u)
        PROVE DenialsAreUnresolved'
    BY <2>2 DEF Decide
  <2>3. ASSUME NEW p \in Projects, PurgeProject(p)
        PROVE DenialsAreUnresolved'
    BY <2>3 DEF PurgeProject
  <2>4. CASE DaemonRestart
    BY <2>4 DEF DaemonRestart
  <2>5. CASE UNCHANGED <<allow, denials>>
    BY <2>5
  <2>6. ASSUME NEW p \in Projects,
               \/ \E d \in OpenFor : PassthroughEgress(p, d)
               \/ RestrictEgress(p)
               \/ \E r \in Requests : PassthroughRequest(p, r)
               \/ ApproveOpens(p) \/ ApproveClears(p) \/ PassthroughDeny(p)
               \/ BeginProvisioning(p) \/ PushEnds(p) \/ EndProvisioning(p)
               \/ CliKilled(p) \/ StopBegins(p) \/ StopFails(p)
               \/ StopServing(p) \/ StopEnds(p) \/ RemoveStateCfg(p)
               \/ \E u \in Urls : RequestArrives(p, u)
        PROVE UNCHANGED <<allow, denials>>
    BY <2>6 DEF PassthroughEgress, RestrictEgress, PassthroughRequest,
       ApproveOpens, ApproveClears, PassthroughDeny, BeginProvisioning,
       PushEnds, EndProvisioning, CliKilled, StopBegins, StopFails, StopServing,
       StopEnds, RemoveStateCfg, RequestArrives, policyVars
  <2>7. ASSUME NEW t \in Timers, TimerFires(t) \/ RestoreCallback(t)
        PROVE UNCHANGED <<allow, denials>>
    BY <2>7 DEF TimerFires, RestoreCallback, policyVars
  <2>8. CASE Tick \/ UNCHANGED vars
    BY <2>5, <2>8 DEF Tick, vars, policyVars
  <2> HIDE DEF TypeOK, DenialsAreUnresolved
  <2> QED
    BY <2>1, <2>2, <2>3, <2>4, <2>5, <2>6, <2>7, <2>8 DEF Next, Handler
<1> QED
  BY <1>1, <1>2, TypeCorrect, PTL DEF Spec

-----------------------------------------------------------------------------
(* Supervision.  A stop that drops a window has restricted egress before.  *)

StopsRestricted ==
    \A p \in Projects : lock[p] = "draining" => mode[p] = "restricted"

KeepsSupervision ==
    /\ StopsRestricted'
    /\ \A p \in Projects :
          Supervised(p) => Supervised(p)' \/ StopFails(p) \/ CliKilled(p)

\* The steps that set the mode, drop a window, end provisioning or drain.
LEMMA SupervisionStep ==
    ASSUME TypeOK, StopsRestricted, [Next]_vars
    PROVE  KeepsSupervision
<1> USE ConstantsAssumption DEF TypeOK, StopsRestricted, Supervised, KeepsSupervision,
        vars, policyVars, timerVars, requestVars, hostVars
<1>1. ASSUME NEW p \in Projects, NEW d, OpenPassthroughWindow(p, d),
             lock[p] = "free", lock'[p] # "draining",
             \A q \in Projects \ {p} : lock'[q] = lock[q], prov' = prov
      PROVE KeepsSupervision
  BY <1>1 DEF OpenPassthroughWindow, SetMode
<1>2. ASSUME NEW p \in Projects, NEW d \in OpenFor, PassthroughEgress(p, d)
      PROVE KeepsSupervision
  BY <1>1, <1>2 DEF PassthroughEgress
<1>3. ASSUME NEW p \in Projects, ApproveOpens(p)
      PROVE KeepsSupervision
  BY <1>1, <1>3 DEF ApproveOpens
<1>4. ASSUME NEW p \in Projects, RestrictEgress(p)
      PROVE KeepsSupervision
  BY <1>4 DEF RestrictEgress, DropWindow, SetMode
<1>5. ASSUME NEW p \in Projects, BeginProvisioning(p)
      PROVE KeepsSupervision
  BY <1>5 DEF BeginProvisioning, SetMode
<1>6. ASSUME NEW p \in Projects, EndProvisioning(p)
      PROVE KeepsSupervision
  BY <1>6 DEF EndProvisioning, SetMode
<1>7. ASSUME NEW p \in Projects, StopServing(p)
      PROVE KeepsSupervision
  BY <1>7 DEF StopServing, SetMode
<1>8. ASSUME NEW p \in Projects, PurgeProject(p)
      PROVE KeepsSupervision
  BY <1>8 DEF PurgeProject, SetMode
<1>9. ASSUME NEW p \in Projects, StopEnds(p)
      PROVE KeepsSupervision
  BY <1>9 DEF StopEnds, DropWindow
<1>10. ASSUME NEW p \in Projects, ApproveClears(p) \/ PushEnds(p) \/ StopBegins(p)
       PROVE KeepsSupervision
  BY <1>10 DEF ApproveClears, PushEnds, StopBegins
<1>11. ASSUME NEW p \in Projects,
              \/ \E r \in Requests : PassthroughRequest(p, r)
              \/ PassthroughDeny(p) \/ RemoveStateCfg(p)
              \/ \E list \in SUBSET Urls, ok \in BOOLEAN :
                    StartVM(p, list, ok) \/ RespawnIronProxy(p, list, ok)
              \/ \E list \in SUBSET Urls : ReconcileAllow(p, list)
              \/ \E u \in Urls : RequestArrives(p, u) \/ Decide(p, u)
       PROVE UNCHANGED <<lock, mode, window, prov>>
  BY <1>11 DEF PassthroughRequest, PassthroughDeny, RemoveStateCfg, StartVM,
     RespawnIronProxy, ReconcileAllow, RequestArrives, Decide
<1>12. ASSUME NEW t \in Timers, RestoreCallback(t)
       PROVE KeepsSupervision
  <2>1. CASE window[owner[t]] = t
    BY <1>12, <2>1 DEF RestoreCallback, SetMode
  <2>2. CASE window[owner[t]] # t
    BY <1>12, <2>2 DEF RestoreCallback
  <2> QED
    BY <2>1, <2>2
<1>13. ASSUME NEW t \in Timers, TimerFires(t)
       PROVE UNCHANGED <<lock, mode, window, prov>>
  BY <1>13 DEF TimerFires
<1>14. CASE Tick \/ UNCHANGED vars
  BY <1>14 DEF Tick
<1>15. CASE DaemonRestart
  BY <1>15 DEF DaemonRestart
<1>16. CASE UNCHANGED <<lock, mode, window, prov>>
  BY <1>16
<1>17. ASSUME NEW p \in Projects, CliKilled(p) \/ StopFails(p)
       PROVE KeepsSupervision
  BY <1>17 DEF CliKilled, StopFails, DropWindow
<1> HIDE DEF TypeOK, StopsRestricted, Supervised, KeepsSupervision, vars,
             policyVars, timerVars, requestVars, hostVars
<1> QED
  BY <1>2, <1>3, <1>4, <1>5, <1>6, <1>7, <1>8, <1>9, <1>10, <1>11, <1>12,
     <1>13, <1>14, <1>15, <1>16, <1>17 DEF Next, Handler

\* Whatever the constants, and with stops that fail and CLIs that are killed at
\* any point, no other step of the daemon leaves a project's egress open with
\* nobody to close it.
THEOREM OpenEgressStaysSupervised == Spec => OnlyFailuresLeaveOpen
<1>1. Init => StopsRestricted
  BY DEF Init, StopsRestricted
<1>2. TypeOK /\ StopsRestricted /\ [Next]_vars => StopsRestricted'
  BY SupervisionStep DEF KeepsSupervision
<1>3. TypeOK /\ StopsRestricted /\ [Next]_vars =>
        [\A p \in Projects :
            Supervised(p) => Supervised(p)' \/ StopFails(p) \/ CliKilled(p)]_vars
  BY SupervisionStep DEF KeepsSupervision
<1> QED
  BY <1>1, <1>2, <1>3, TypeCorrect, PTL DEF Spec, OnlyFailuresLeaveOpen

=============================================================================
