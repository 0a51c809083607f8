-------------------------- MODULE ProvisioningProofs -------------------------
(***************************************************************************)
(* Provisioning for any number of faults of any kind, in any order: its    *)
(* types, that services run under the real allowlist, and that devm.target *)
(* is up over a whole VM only.                                             *)
(***************************************************************************)
EXTENDS Provisioning, TLAPS

\* The last two are about one devm shell after the other; with two at once TLC
\* refutes both.
OneShell == \A s, t \in Shells : s = t

-----------------------------------------------------------------------------
(* The stages a shell has behind it.                                       *)

Entered == Inside \cup {"begin", "sync", "install", "end", "services"}
Extracted == Entered \ {"extract"}
Forwards == Extracted \ {"begin"}
Scripted == {"end", "services", "mark", "target", "creds"}
Serving == {"mark", "target", "creds"}

\* The disk: it is marked only when installed to the end, and a shell knows
\* since its first script whether this is a first boot.
DiskInv ==
    /\ disk.provisioned => disk.installed = "yes"
    /\ boot.target => disk.provisioned
    /\ \A s \in Shells :
         /\ shell[s].at \in {"extract", "begin", "sync", "install", "startup", "end",
                             "services", "mark"} => shell[s].first = ~disk.provisioned
         /\ shell[s].at \in Scripted => disk.installed = "yes"
         /\ shell[s].at \in {"target", "creds"} => disk.provisioned

\* The boot a shell provisions has what the shell has done, unless it began
\* under the shell.
BootInv ==
    vm = "running" /\ ~boot.torn =>
        \A s \in Shells :
           /\ shell[s].at \in Entered => boot.marker
           /\ shell[s].at \in Extracted => boot.bundle
           /\ shell[s].at \in Forwards => boot.forwarding
           /\ shell[s].at \in Scripted => boot.user
           /\ shell[s].at \in Serving => boot.services
           /\ shell[s].at = "creds" => boot.target

\* Services run under a marker or behind a target, and where neither was
\* found, or a boot has just begun, there are none yet.
ServicesInv ==
    ~boot.torn =>
        /\ boot.services => boot.marker \/ boot.target
        /\ \A s \in Shells :
             /\ shell[s].at \in {"wait", "adopt", "check", "bundle", "services"}
                    \cup (Entered \ Serving) => ~boot.services
             /\ shell[s].at \in {"look"} => ~boot.target

\* What is up behind devm.target.
TargetInv ==
    boot.target /\ ~boot.torn =>
        boot.bundle /\ boot.user /\ boot.services /\ boot.forwarding

\* Egress is open only while services are not yet started.
ModeInv ==
    /\ ServicesAreEnforced
    /\ \A s \in Shells : shell[s].at \in Serving \cup {"services"} =>
           mode = "restricted"

ProvisionInv ==
    /\ TypeOK /\ DiskInv /\ BootInv /\ ServicesInv /\ TargetInv /\ ModeInv

-----------------------------------------------------------------------------
(* Types.                                                                  *)

LocalOK == shell \in [Shells -> [at : Places, first : BOOLEAN, cut : BOOLEAN]]

\* A boot is a record of truths, however it was made.
LEMMA BootsTyped ==
    /\ Off \in Boots
    /\ [Off EXCEPT !.torn = \E t \in Shells : Provisions(t)] \in Boots
    /\ \A s \in Shells : Booted(s) \in Boots
<1>1. Off \in Boots
  BY DEF Off, Boots
<1>2. \A b \in BOOLEAN : [Off EXCEPT !.torn = b] \in Boots
  BY DEF Off, Boots
<1> QED
  BY <1>1, <1>2 DEF Booted

\* Moving a shell, and cutting what runs in the guest, keep shells typed.
LEMMA ShellsTyped ==
    ASSUME LocalOK, NEW s \in Shells
    PROVE  /\ \A p \in Places : To(s, p) => LocalOK'
           /\ \A t \in Shells : Cut(t) \in [at : Places, first : BOOLEAN, cut : BOOLEAN]
<1>1. ASSUME NEW p \in Places, To(s, p) PROVE LocalOK'
  BY <1>1 DEF To, LocalOK
<1>2. ASSUME NEW t \in Shells
      PROVE  Cut(t) \in [at : Places, first : BOOLEAN, cut : BOOLEAN]
  <2>1. (shell[t].cut \/ shell[t].at \in Inside) \in BOOLEAN
    OBVIOUS
  <2> QED
    BY <2>1 DEF Cut, LocalOK
<1> QED
  BY <1>1, <1>2

\* The steps of a shell that leave the guest alone, and those of its scripts.
LEMMA StagesTyped ==
    ASSUME TypeOK, NEW s \in Shells,
           \/ Status(s) \/ Probe(s) \/ Look(s) \/ Warm(s) \/ Adopt(s) \/ Ready(s)
           \/ Bundle(s) \/ Extract(s) \/ BeginProvisioning(s) \/ Sync(s) \/ Install(s)
           \/ Startup(s) \/ EndProvisioning(s) \/ StartServices(s) \/ MarkProvisioned(s)
           \/ StartTarget(s) \/ Finish(s) \/ Leave(s)
    PROVE  TypeOK'
<1>1. LocalOK'
  <2>1. CASE Bundle(s)
    <3>1. (~disk.provisioned) \in BOOLEAN /\ "extract" \in Places
      BY DEF TypeOK, Places, Stages, Inside
    <3>2. shell' = [shell EXCEPT ![s].at = "extract", ![s].first = ~disk.provisioned]
      BY <2>1 DEF Bundle
    <3>3. LocalOK
      BY DEF TypeOK, LocalOK
    <3> HIDE DEF Places
    <3> QED
      BY <3>1, <3>2, <3>3 DEF LocalOK
  <2>2. CASE ~Bundle(s)
    <3>1. \E p \in Places : To(s, p)
      BY <2>2 DEF Status, Probe, Look, Warm, Adopt, Ready, Extract, BeginProvisioning, Sync,
         Install, Startup, EndProvisioning, StartServices, MarkProvisioned, StartTarget,
         Finish, Leave, Stage, Places, Stages, Begins, Inside
    <3> QED
      BY <3>1, ShellsTyped DEF TypeOK, LocalOK
  <2> QED
    BY <2>1, <2>2
<1>2. boot' \in Boots /\ (vm # "running" => boot' = boot)
  BY DEF Status, Probe, Look, Warm, Adopt, Ready, Bundle, Extract, BeginProvisioning, Sync,
     Install, Startup, EndProvisioning, StartServices, MarkProvisioned, StartTarget,
     Finish, Leave, Stage, guest, TypeOK, Boots
<1>3. /\ disk' \in [provisioned : BOOLEAN, installed : {"no", "partly", "yes"}]
      /\ vm # "running" => disk' = disk
  BY DEF Status, Probe, Look, Warm, Adopt, Ready, Bundle, Extract, BeginProvisioning, Sync,
     Install, Startup, EndProvisioning, StartServices, MarkProvisioned, StartTarget,
     Finish, Leave, Stage, guest, TypeOK
<1>4. /\ vm' = vm /\ proxy' = proxy /\ faults' = faults
      /\ mode' \in {"restricted", "passthrough"} /\ sessions' \in {"none", "this", "old"}
  BY DEF Status, Probe, Look, Warm, Adopt, Ready, Bundle, Extract, BeginProvisioning, Sync,
     Install, Startup, EndProvisioning, StartServices, MarkProvisioned, StartTarget,
     Finish, Leave, Stage, guest, TypeOK
<1> QED
  BY <1>1, <1>2, <1>3, <1>4 DEF TypeOK, LocalOK

\* Where a VM is started, torn down or fails, and what happens to it meanwhile.
LEMMA GuestsTyped ==
    ASSUME TypeOK,
           \/ \E s \in Shells : \/ Recover(s) \/ StartVM(s) \/ StartFails(s) \/ StageFails(s)
                                \/ TeardownOnFail(s) \/ DeleteFails(s) \/ Kill(s)
           \/ Stop \/ Reboot \/ DaemonRestart
    PROVE  TypeOK'
<1> USE FaultsAssumption
<1>1. LocalOK
  BY DEF TypeOK, LocalOK
<1>2. /\ NoDisk \in [provisioned : BOOLEAN, installed : {"no", "partly", "yes"}]
      /\ Off \in Boots
  BY BootsTyped DEF NoDisk
<1>3. ASSUME NEW kind, Fault(kind) PROVE faults' \in 0..MaxFaults
  BY <1>3 DEF Fault, TypeOK
<1>4. ASSUME NEW s \in Shells, Recover(s) \/ TeardownOnFail(s) \/ DeleteFails(s) PROVE TypeOK'
  <2>1. LocalOK'
    <3>1. PICK p \in Places : shell' = [t \in Shells |->
                 IF t = s THEN [shell[s] EXCEPT !.at = p] ELSE Cut(t)]
      BY <1>4 DEF Recover, TeardownOnFail, DeleteFails, Places
    <3> QED
      BY <3>1, <1>1, ShellsTyped DEF LocalOK
  <2>2. faults' \in 0..MaxFaults
    BY <1>3, <1>4 DEF Recover, TeardownOnFail, DeleteFails, TypeOK
  <2>3. PICK state \in {"absent", "stopped"} : Down(state)
    BY <1>4 DEF Recover, TeardownOnFail, DeleteFails
  <2>4. /\ mode' = "restricted" /\ proxy' = proxy
        /\ sessions' \in {"none", "this", "old"}
    BY <1>4 DEF Recover, TeardownOnFail, DeleteFails, TypeOK
  <2> QED
    BY <2>1, <2>2, <2>3, <2>4, <1>2 DEF Down, TypeOK, LocalOK
<1>5. ASSUME NEW s \in Shells, StartVM(s) \/ StartFails(s) PROVE TypeOK'
  <2>1. LocalOK'
    <3>1. PICK p \in Places : To(s, p)
      BY <1>5 DEF StartVM, StartFails, Places, Stages
    <3> QED
      BY <3>1, <1>1, ShellsTyped
  <2>2. faults' \in 0..MaxFaults /\ mode' = mode /\ sessions' = sessions /\ disk' = disk
    BY <1>3, <1>5 DEF StartVM, StartFails, guest, TypeOK
  <2>3. proxy' \in BOOLEAN /\ vm' \in {"stopped", "running"}
    BY <1>5 DEF StartVM, StartFails, guest, TypeOK
  <2>4. boot' \in Boots /\ (vm' # "running" => boot' = Off)
    BY <1>2, <1>5, BootsTyped DEF StartVM, StartFails, guest, TypeOK
  <2> QED
    BY <2>1, <2>2, <2>3, <2>4 DEF TypeOK, LocalOK
<1>6. ASSUME NEW s \in Shells, StageFails(s) \/ Kill(s) PROVE TypeOK'
  <2>1. PICK p \in Places : To(s, p)
    BY <1>6 DEF StageFails, Kill, Places
  <2>2. LocalOK'
    BY <2>1, <1>1, ShellsTyped
  <2> QED
    BY <2>2, <1>3, <1>6 DEF StageFails, Kill, guest, TypeOK, LocalOK
<1>7. CASE Stop \/ Reboot
  <2>1. shell' = [t \in Shells |-> Cut(t)]
    BY <1>7 DEF Stop, Reboot
  <2>2. LocalOK'
    BY <2>1, <1>1, ShellsTyped DEF LocalOK
  <2>3. boot' \in Boots
    BY <1>2, <1>7, BootsTyped DEF Stop, Reboot, Down
  <2> QED
    BY <2>2, <2>3, <1>2, <1>3, <1>7 DEF Stop, Reboot, Down, TypeOK, LocalOK
<1>8. CASE DaemonRestart
  BY <1>3, <1>8 DEF DaemonRestart, TypeOK, Boots
<1> QED
  BY <1>4, <1>5, <1>6, <1>7, <1>8

LEMMA TypeStep == TypeOK /\ [Next]_vars => TypeOK'
<1>1. TypeOK /\ UNCHANGED vars => TypeOK'
  BY DEF TypeOK, vars
<1> QED
  BY <1>1, StagesTyped, GuestsTyped DEF Next, Shell

LEMMA TypeInit == Init => TypeOK
<1> SUFFICES ASSUME Init PROVE TypeOK
  OBVIOUS
<1>1. /\ shell \in [Shells -> [at : Places, first : BOOLEAN, cut : BOOLEAN]]
      /\ disk \in [provisioned : BOOLEAN, installed : {"no", "partly", "yes"}]
  BY DEF Init, NoDisk, Places
<1>2. faults \in 0..MaxFaults /\ boot = Off /\ boot \in Boots
  BY FaultsAssumption, BootsTyped DEF Init
<1> QED
  BY <1>1, <1>2 DEF Init, TypeOK

\* Types, for any number of shells and of faults.
THEOREM ProvisioningTyped == Spec => []TypeOK
BY TypeInit, TypeStep, PTL DEF Spec

-----------------------------------------------------------------------------
(* One shell after the other: every step keeps the invariant.              *)

Facts == DiskInv /\ BootInv /\ ServicesInv /\ TargetInv /\ ModeInv

\* No other shell is there for a VM to boot under.
LEMMA StartsWhole == OneShell => \A s \in Shells : Booted(s) = Off
<1> SUFFICES ASSUME OneShell, NEW s \in Shells PROVE Booted(s) = Off
  OBVIOUS
<1>1. ~ \E t \in Shells \ {s} : Provisions(t)
  <2>1. Shells \ {s} = {}
    BY DEF OneShell
  <2> QED
    BY <2>1
<1>2. (\E t \in Shells \ {s} : Provisions(t)) = FALSE
  BY <1>1
<1>3. [Off EXCEPT !.torn = FALSE] = Off
  <2>1. \A b \in Boots : ~b.torn => [b EXCEPT !.torn = FALSE] = b
    BY DEF Boots
  <2> QED
    BY <2>1, BootsTyped DEF Off
<1> QED
  BY <1>1, <1>2, <1>3 DEF Booted

\* What a shell does, its failures included.
LEMMA ShellStep ==
    ASSUME OneShell, ProvisionInv, TypeOK', NEW s \in Shells,
           Shell(s) \/ StageFails(s) \/ StartFails(s) \/ DeleteFails(s) \/ Kill(s)
    PROVE  Facts'
<1> USE DEF Facts, ProvisionInv, TypeOK, Boots, DiskInv, BootInv, ServicesInv, TargetInv,
           ModeInv, ServicesAreEnforced, OneShell, Entered, Extracted, Forwards, Scripted,
           Serving, Inside, guest, To, At, Stage
<1>1. CASE Status(s)
  BY <1>1 DEF Status
<1>2. CASE Probe(s)
  BY <1>2 DEF Probe
<1>3. CASE Look(s)
  BY <1>3 DEF Look
<1>4. CASE Warm(s)
  BY <1>4 DEF Warm
<1>5. CASE Recover(s)
  BY <1>5 DEF Recover, Down, NoDisk, Off
<1>6. CASE Adopt(s)
  BY <1>6 DEF Adopt
<1>7. CASE StartVM(s)
  BY <1>7, StartsWhole DEF StartVM, Off
<1>8. CASE Ready(s)
  BY <1>8 DEF Ready
<1>9. CASE Bundle(s)
  BY <1>9 DEF Bundle
<1>10. CASE Extract(s)
  BY <1>10 DEF Extract
<1>11. CASE BeginProvisioning(s)
  BY <1>11 DEF BeginProvisioning
<1>12. CASE Sync(s)
  BY <1>12 DEF Sync
<1>13. CASE Install(s)
  BY <1>13 DEF Install
<1>14. CASE Startup(s)
  BY <1>14 DEF Startup
<1>15. CASE EndProvisioning(s)
  BY <1>15 DEF EndProvisioning
<1>16. CASE StartServices(s)
  BY <1>16 DEF StartServices
<1>17. CASE MarkProvisioned(s)
  BY <1>17 DEF MarkProvisioned
<1>18. CASE StartTarget(s)
  BY <1>18 DEF StartTarget
<1>19. CASE Finish(s)
  BY <1>19 DEF Finish
<1>20. CASE Leave(s)
  BY <1>20 DEF Leave
<1>21. CASE TeardownOnFail(s)
  BY <1>21 DEF TeardownOnFail, Down, NoDisk, Off
<1>22. CASE StageFails(s)
  BY <1>22 DEF StageFails
<1>23. CASE StartFails(s)
  BY <1>23, StartsWhole DEF StartFails, Off
<1>24. CASE DeleteFails(s)
  BY <1>24 DEF DeleteFails, Down, NoDisk, Off
<1>25. CASE Kill(s)
  BY <1>25 DEF Kill
<1> QED
  BY <1>1, <1>2, <1>3, <1>4, <1>5, <1>6, <1>7, <1>8, <1>9, <1>10, <1>11, <1>12, <1>13,
     <1>14, <1>15, <1>16, <1>17, <1>18, <1>19, <1>20, <1>21, <1>22, <1>23, <1>24, <1>25
     DEF Shell

\* What happens to the VM and the daemon under it.
LEMMA MeanwhileStep ==
    ASSUME OneShell, ProvisionInv, TypeOK', Stop \/ Reboot \/ DaemonRestart
    PROVE  Facts'
<1> USE DEF Facts, ProvisionInv, TypeOK, Boots, DiskInv, BootInv, ServicesInv, TargetInv,
           ModeInv, ServicesAreEnforced, OneShell, Entered, Extracted, Forwards, Scripted,
           Serving, Inside, guest
<1>1. CASE Stop
  BY <1>1 DEF Stop, Down, NoDisk, Off, Cut
<1>2. CASE Reboot
  <2>1. /\ boot'.torn = \E t \in Shells : Provisions(t)
        /\ ~boot'.services /\ ~boot'.target
        /\ vm' = vm /\ disk' = disk /\ mode' = mode
    BY <1>2 DEF Reboot, Off
  <2>2. \A t \in Shells : shell'[t].at = shell[t].at /\ shell'[t].first = shell[t].first
    BY <1>2 DEF Reboot, Cut
  <2>3. DiskInv'
    BY <2>1, <2>2
  <2>4. ServicesInv' /\ TargetInv' /\ ModeInv'
    BY <2>1, <2>2
  <2>5. ASSUME ~boot'.torn, NEW s \in Shells PROVE shell'[s].at \notin Entered
    BY <2>1, <2>2, <2>5 DEF Provisions, Stages, Begins
  <2>6. BootInv'
    BY <2>5
  <2> QED
    BY <2>3, <2>4, <2>6
<1>3. CASE DaemonRestart
  BY <1>3 DEF DaemonRestart
<1> QED
  BY <1>1, <1>2, <1>3

LEMMA ProvisionInit == Init => ProvisionInv
<1> SUFFICES ASSUME Init PROVE Facts
  BY TypeInit DEF ProvisionInv, Facts
<1> QED
  BY DEF Init, Facts, DiskInv, BootInv, ServicesInv, TargetInv, ModeInv,
         ServicesAreEnforced, NoDisk, Off, Entered, Extracted, Forwards, Scripted, Serving,
         Inside

LEMMA ProvisionStep == OneShell /\ ProvisionInv /\ [Next]_vars => ProvisionInv'
<1> SUFFICES ASSUME OneShell, ProvisionInv, [Next]_vars PROVE ProvisionInv'
  OBVIOUS
<1>1. TypeOK'
  BY TypeStep DEF ProvisionInv
<1>2. Facts'
  <2>1. CASE UNCHANGED vars
    BY <2>1 DEF vars, ProvisionInv, Facts, DiskInv, BootInv, ServicesInv, TargetInv,
       ModeInv, ServicesAreEnforced
  <2>2. CASE Next
    BY <1>1, <2>2, ShellStep, MeanwhileStep DEF Next
  <2> QED
    BY <2>1, <2>2
<1> QED
  BY <1>1, <1>2 DEF ProvisionInv, Facts

THEOREM Provisioned == ASSUME OneShell PROVE Spec => []ProvisionInv
BY OneShell, ProvisionInit, ProvisionStep, PTL DEF Spec

\* Services never run except under the project's real allowlist, for one devm
\* shell after the other and any faults of any kind between any two of their
\* steps, unless the VM rebooted under a shell that went on (shell.go's order of
\* bundle, begin-provisioning, user script, end-provisioning, services).
THEOREM ServicesStayEnforced == ASSUME OneShell PROVE Spec => []ServicesAreEnforced
<1>1. ProvisionInv => ServicesAreEnforced
  BY DEF ProvisionInv, ModeInv
<1> QED
  BY <1>1, Provisioned, OneShell, PTL

\* devm.target is up only over a disk that is installed to the end and marked,
\* in a boot that every stage has run in, or that began under a shell
\* (render/provision.go: access "ONLY after services are confirmed up").
THEOREM GatesAreWhole == ASSUME OneShell PROVE Spec => []GateIsWhole
<1>1. ProvisionInv => GateIsWhole
  BY DEF ProvisionInv, TypeOK, DiskInv, TargetInv, GateIsWhole
<1> QED
  BY <1>1, Provisioned, OneShell, PTL
=============================================================================
