---------------------------- MODULE Provisioning ---------------------------
(***************************************************************************)
(* devm shell: from what it finds of the project's VM to a VM whose        *)
(* services run and whose devm.target grants access. The stages are those  *)
(* of RunShell and provisionAndAttach with the three scripts they send     *)
(* into the guest, command groups apart where a failure, a reboot or a     *)
(* kill between them makes a difference.                                   *)
(*                                                                         *)
(* Of the disk there is the mark a finished first boot leaves and how far  *)
(* the install of a first boot came; of a boot what is lost with it: the   *)
(* in-progress marker on tmpfs, units, softnet's state.                    *)
(***************************************************************************)
EXTENDS Naturals

CONSTANTS
    Shells,     \* devm shell processes; nothing keeps two from one VM
    Faults,     \* what happens of "fail", "kill", "restart", "stop", "reboot", "half"
    MaxFaults   \* bound: how often

ASSUME FaultsAssumption == MaxFaults \in Nat

\* The scripts' command groups: those that begin an exec of their own, and
\* those inside an exec that die with the VM it runs in.
Begins == {"bundle", "install", "services"}
Inside == {"extract", "startup", "mark", "target", "creds"}
Stages == {"wait", "check", "begin", "sync", "end"} \cup Begins \cup Inside
Places == {"idle", "probe", "look", "recover", "adopt", "start", "warm", "failing", "attached"}
              \cup Stages

NoDisk == [provisioned |-> FALSE, installed |-> "no"]
Off == [marker |-> FALSE, bundle |-> FALSE, forwarding |-> FALSE, user |-> FALSE,
        services |-> FALSE, target |-> FALSE, torn |-> FALSE]

VARIABLES
    vm,         \* "absent", "stopped" or "running"
    disk,       \* its disk
    boot,       \* its boot; torn: it began under a shell that provisions
    mode,       \* the policy authority's mode for the project
    proxy,      \* is there an iron-proxy config to start one from?
    sessions,   \* the mutagen sessions: "none", of "this" VM or of an "old" one
    shell,      \* per shell: where it is, firstBoot, and has its exec's VM gone?
    faults

vars == <<vm, disk, boot, mode, proxy, sessions, shell, faults>>
guest == <<vm, disk, boot>>

-----------------------------------------------------------------------------
(* What the shells share.                                                  *)

At(s, place) == shell[s].at = place
To(s, place) == shell' = [shell EXCEPT ![s].at = place, ![s].cut = FALSE]

\* The VM boots or goes: every exec in it ends.
Cut(t) == [shell[t] EXCEPT !.cut = @ \/ shell[t].at \in Inside]
Provisions(t) == shell[t].at \in Stages \ {"wait", "check", "bundle"}
Booted(s) == [Off EXCEPT !.torn = \E t \in Shells \ {s} : Provisions(t)]

\* Mutant: the VM is gone and its target is still taken for active.
Down_KeepsBoot(state) == /\ vm' = state
                         /\ disk' = IF state = "absent" THEN NoDisk ELSE disk
                         /\ UNCHANGED boot

\* /vm/stop, and tart delete when the VM is to be absent.
Down(state) == /\ vm' = state
               /\ disk' = IF state = "absent" THEN NoDisk ELSE disk
               /\ boot' = Off

Fault(kind) == /\ kind \in Faults
               /\ faults < MaxFaults
               /\ faults' = faults + 1

-----------------------------------------------------------------------------
(* What RunShell finds.                                                    *)

Init ==
    /\ vm = "absent" /\ disk = NoDisk /\ boot = Off
    /\ mode = "restricted" /\ proxy = FALSE /\ sessions = "none"
    /\ shell = [s \in Shells |-> [at |-> "idle", first |-> FALSE, cut |-> FALSE]]
    /\ faults = 0

Status(s) ==
    /\ At(s, "idle")
    /\ To(s, IF vm = "running" THEN "probe" ELSE "start")
    /\ UNCHANGED <<guest, mode, proxy, sessions, faults>>

\* systemctl is-active devm.target; a VM that has gone answers no.
Probe(s) ==
    /\ At(s, "probe")
    /\ To(s, IF boot.target THEN "warm" ELSE "look")
    /\ UNCHANGED <<guest, mode, proxy, sessions, faults>>

\* Mutant: an interrupted provisioning is adopted like a pristine VM.
Look_Adopts(s) ==
    /\ At(s, "look")
    /\ To(s, "adopt")
    /\ UNCHANGED <<guest, mode, proxy, sessions, faults>>

\* test -f /run/devm/provisioning, by a second exec.
Look(s) ==
    /\ At(s, "look")
    /\ To(s, IF boot.marker THEN "recover" ELSE "adopt")
    /\ UNCHANGED <<guest, mode, proxy, sessions, faults>>

\* warmAttach; EndProvisioning asks nothing of the VM.
Warm(s) ==
    /\ At(s, "warm")
    /\ mode' = "restricted"
    /\ To(s, IF vm = "running" THEN "attached" ELSE "idle")
    /\ UNCHANGED <<guest, proxy, sessions, faults>>

\* teardownVM of a dirty VM: /vm/stop pauses the sessions, none terminates them.
Recover(s) ==
    /\ At(s, "recover")
    /\ Down("absent")
    /\ mode' = "restricted"
    /\ sessions' = IF sessions = "this" THEN "old" ELSE sessions
    /\ shell' = [t \in Shells |-> IF t = s THEN [shell[s] EXCEPT !.at = "start"] ELSE Cut(t)]
    /\ UNCHANGED <<proxy, faults>>

\* /vm/apply-iron-proxy starts a proxy from the config there is, whether or
\* not the VM still runs; without one the shell gives up and touches nothing.
Adopt(s) ==
    /\ At(s, "adopt")
    /\ To(s, IF proxy THEN "check" ELSE "idle")
    /\ UNCHANGED <<guest, mode, proxy, sessions, faults>>

\* /vm/start; the supervisor refuses a VM that runs already, and the shell
\* gives up.
StartVM(s) ==
    /\ At(s, "start")
    /\ IF vm = "running"
       THEN To(s, "idle") /\ UNCHANGED <<guest, proxy>>
       ELSE /\ To(s, "wait")
            /\ vm' = "running" /\ boot' = Booted(s)
            /\ proxy' = TRUE
            /\ UNCHANGED disk
    /\ UNCHANGED <<mode, sessions, faults>>

\* It fails before the VM is spawned, a clone perhaps made, or after it
\* ("half"), before or after iron-proxy's config: no one tears down.
StartFails(s) ==
    /\ At(s, "start") /\ vm # "running"
    /\ Fault("fail")
    /\ To(s, "idle")
    /\ \E spawned \in IF "half" \in Faults THEN BOOLEAN ELSE {FALSE} :
            /\ vm' = IF spawned THEN "running" ELSE "stopped"
            /\ boot' = IF spawned THEN Booted(s) ELSE Off
            /\ proxy' \in IF spawned THEN {proxy, TRUE} ELSE {proxy}
    /\ UNCHANGED <<disk, mode, sessions>>

-----------------------------------------------------------------------------
(* provisionAndAttach.                                                     *)

\* A stage that asks for the VM succeeds only in the VM it began in.
Stage(s, from, to) ==
    /\ At(s, from) /\ vm = "running" /\ ~shell[s].cut
    /\ To(s, to)

\* waitVMReady, then the CA, the keys, EnforcementConfig and the bundle.
Ready(s) ==
    /\ \/ Stage(s, "wait", "check")
       \/ Stage(s, "check", "bundle")
    /\ UNCHANGED <<guest, mode, proxy, sessions, faults>>

\* RunBundle reads firstBoot; the script's first command is the marker.
Bundle(s) ==
    /\ At(s, "bundle") /\ vm = "running"
    /\ shell' = [shell EXCEPT ![s].at = "extract", ![s].first = ~disk.provisioned]
    /\ boot' = [boot EXCEPT !.marker = TRUE]
    /\ UNCHANGED <<vm, disk, mode, proxy, sessions, faults>>

\* The bundle is extracted and installed, the guest's own ruleset flushed.
Extract(s) ==
    /\ Stage(s, "extract", "begin")
    /\ boot' = [boot EXCEPT !.bundle = TRUE]
    /\ UNCHANGED <<vm, disk, mode, proxy, sessions, faults>>

BeginProvisioning(s) ==
    /\ Stage(s, "begin", "sync")
    /\ mode' = "passthrough"
    /\ boot' = [boot EXCEPT !.forwarding = TRUE]
    /\ UNCHANGED <<vm, disk, proxy, sessions, faults>>

\* VolumeSync, RepoClone and FlushAll. A session of a disk that is gone halts
\* at the emptied guest side and the flush fails.
Sync(s) ==
    /\ sessions # "old"
    /\ Stage(s, "sync", "install")
    /\ sessions' = "this"
    /\ UNCHANGED <<guest, mode, proxy, faults>>

\* Mutant: the provisioned mark is written where the first install begins.
Install_MarksFirst(s) ==
    /\ Stage(s, "install", "startup")
    /\ \/ ~shell[s].first /\ UNCHANGED disk
       \/ shell[s].first /\ disk' = [provisioned |-> TRUE, installed |-> "partly"]
    /\ UNCHANGED <<vm, boot, mode, proxy, sessions, faults>>

\* RunUser begins. Packages, install: and docker only on a first boot.
Install(s) ==
    /\ Stage(s, "install", "startup")
    /\ disk' = IF shell[s].first THEN [disk EXCEPT !.installed = "partly"] ELSE disk
    /\ UNCHANGED <<vm, boot, mode, proxy, sessions, faults>>

\* They are through; drifted packages, templates and startup: on every boot.
Startup(s) ==
    /\ Stage(s, "startup", "end")
    /\ disk' = IF shell[s].first THEN [disk EXCEPT !.installed = "yes"] ELSE disk
    /\ boot' = [boot EXCEPT !.user = TRUE]
    /\ UNCHANGED <<vm, mode, proxy, sessions, faults>>

\* EndProvisioning asks nothing of the VM.
EndProvisioning(s) ==
    /\ At(s, "end")
    /\ mode' = "restricted"
    /\ To(s, "services")
    /\ UNCHANGED <<guest, proxy, sessions, faults>>

\* RunEnforced: services are enabled and started, then polled.
StartServices(s) ==
    /\ Stage(s, "services", "mark")
    /\ boot' = [boot EXCEPT !.services = TRUE]
    /\ UNCHANGED <<vm, disk, mode, proxy, sessions, faults>>

MarkProvisioned(s) ==
    /\ Stage(s, "mark", "target")
    /\ disk' = [disk EXCEPT !.provisioned = @ \/ shell[s].first]
    /\ UNCHANGED <<vm, boot, mode, proxy, sessions, faults>>

StartTarget(s) ==
    /\ Stage(s, "target", "creds")
    /\ boot' = [boot EXCEPT !.target = TRUE]
    /\ UNCHANGED <<vm, disk, mode, proxy, sessions, faults>>

\* The git credentials, the marker's removal, and the shell attaches.
Finish(s) ==
    /\ Stage(s, "creds", "attached")
    /\ boot' = [boot EXCEPT !.marker = FALSE]
    /\ UNCHANGED <<vm, disk, mode, proxy, sessions, faults>>

Leave(s) ==
    /\ At(s, "attached")
    /\ To(s, "idle")
    /\ UNCHANGED <<guest, mode, proxy, sessions, faults>>

-----------------------------------------------------------------------------
(* Failures.                                                               *)

\* IsPostInstallFailure: the script had printed the services marker.
PostInstall(s) == \/ shell[s].at \in {"mark", "target", "creds"}
                  \/ At(s, "services") /\ vm = "running"

\* Without the VM, or with stale sessions, a stage cannot succeed.
Doomed(s) == \/ vm # "running" \/ shell[s].cut
             \/ At(s, "sync") /\ sessions = "old"

\* A stage fails, or the user interrupts it.
StageFails(s) ==
    /\ shell[s].at \in Stages \ {"end"}
    /\ \/ Doomed(s) /\ UNCHANGED faults
       \/ Fault("fail")
    /\ To(s, IF PostInstall(s) THEN "idle" ELSE "failing")
    /\ UNCHANGED <<guest, mode, proxy, sessions>>

\* Mutant: the sessions outlive the VM.
TeardownOnFail_KeepsSessions(s) ==
    /\ At(s, "failing")
    /\ Down("absent")
    /\ mode' = "restricted"
    /\ sessions' = IF sessions = "none" THEN "none" ELSE "old"
    /\ shell' = [t \in Shells |-> IF t = s THEN [shell[s] EXCEPT !.at = "idle"] ELSE Cut(t)]
    /\ UNCHANGED <<proxy, faults>>

\* teardownOnFail: sessions flushed and terminated, the VM of that name
\* destroyed, whosever boot it is.
TeardownOnFail(s) ==
    /\ At(s, "failing")
    /\ Down("absent")
    /\ mode' = "restricted"
    /\ sessions' = "none"
    /\ shell' = [t \in Shells |-> IF t = s THEN [shell[s] EXCEPT !.at = "idle"] ELSE Cut(t)]
    /\ UNCHANGED <<proxy, faults>>

\* tart delete fails: the VM is stopped, its disk as it is.
DeleteFails(s) ==
    /\ shell[s].at \in {"failing", "recover"}
    /\ Fault("fail")
    /\ Down("stopped")
    /\ mode' = "restricted"
    /\ sessions' = IF At(s, "failing") THEN "none" ELSE sessions
    /\ shell' = [t \in Shells |-> IF t = s THEN [shell[s] EXCEPT !.at = "idle"] ELSE Cut(t)]
    /\ UNCHANGED proxy

\* The CLI is killed; its exec dies with it.
Kill(s) ==
    /\ shell[s].at # "idle"
    /\ Fault("kill")
    /\ To(s, "idle")
    /\ UNCHANGED <<guest, mode, proxy, sessions>>

-----------------------------------------------------------------------------
(* What happens to the VM and the daemon meanwhile.                        *)

\* devm stop.
Stop ==
    /\ vm = "running"
    /\ Fault("stop")
    /\ Down("stopped")
    /\ shell' = [t \in Shells |-> Cut(t)]
    /\ UNCHANGED <<mode, proxy, sessions>>

\* The VM crashes and the supervisor starts it again, softnet LOCKED.
Reboot ==
    /\ vm = "running"
    /\ Fault("reboot")
    /\ boot' = [Off EXCEPT !.torn = \E t \in Shells : Provisions(t)]
    /\ shell' = [t \in Shells |-> Cut(t)]
    /\ UNCHANGED <<vm, disk, mode, proxy, sessions>>

\* The daemon restarts and reconnects: the mode is restricted, and softnet
\* has the FORWARDING policy pushed to it.
DaemonRestart ==
    /\ Fault("restart")
    /\ mode' = "restricted"
    /\ boot' = IF vm = "running" THEN [boot EXCEPT !.forwarding = TRUE] ELSE boot
    /\ UNCHANGED <<vm, disk, proxy, sessions, shell>>

Shell(s) ==
    \/ Status(s) \/ Probe(s) \/ Look(s) \/ Warm(s) \/ Recover(s) \/ Adopt(s)
    \/ StartVM(s) \/ Ready(s) \/ Bundle(s) \/ Extract(s) \/ BeginProvisioning(s)
    \/ Sync(s) \/ Install(s) \/ Startup(s) \/ EndProvisioning(s) \/ StartServices(s)
    \/ MarkProvisioned(s) \/ StartTarget(s) \/ Finish(s) \/ Leave(s) \/ TeardownOnFail(s)

Next ==
    \/ \E s \in Shells :
         Shell(s) \/ StageFails(s) \/ StartFails(s) \/ DeleteFails(s) \/ Kill(s)
    \/ Stop \/ Reboot \/ DaemonRestart

\* A CLI that runs goes on, and a user who has no VM tries again.
Fairness == \A s \in Shells : WF_vars(Shell(s)) /\ WF_vars(StageFails(s))

Spec == Init /\ [][Next]_vars
FairSpec == Spec /\ Fairness

-----------------------------------------------------------------------------
(* Properties.                                                             *)

Boots == [marker : BOOLEAN, bundle : BOOLEAN, forwarding : BOOLEAN, user : BOOLEAN,
          services : BOOLEAN, target : BOOLEAN, torn : BOOLEAN]

\* Types; a VM that does not run has nothing of a boot, one that is absent
\* no disk.
TypeOK ==
    /\ vm \in {"absent", "stopped", "running"}
    /\ disk \in [provisioned : BOOLEAN, installed : {"no", "partly", "yes"}]
    /\ boot \in Boots
    /\ mode \in {"restricted", "passthrough"}
    /\ proxy \in BOOLEAN
    /\ sessions \in {"none", "this", "old"}
    /\ shell \in [Shells -> [at : Places, first : BOOLEAN, cut : BOOLEAN]]
    /\ faults \in 0..MaxFaults
    /\ vm # "running" => boot = Off
    /\ vm = "absent" => disk = NoDisk

\* Services never run except under the project's real allowlist, whatever
\* was interrupted and whatever was adopted (shell.go: "the Critical fix"),
\* unless the VM rebooted under a shell that went on in the new boot, where
\* no marker tells a later shell of it.
ServicesAreEnforced == boot.services /\ ~boot.torn => mode = "restricted"

\* devm.target grants access only to a VM that is whole: the disk installed
\* to the end and marked, and every stage of this boot run, unless the VM
\* rebooted under a shell that went on (render/provision.go: access is
\* granted "ONLY after services are confirmed up").
GateIsWhole ==
    boot.target =>
        /\ disk = [provisioned |-> TRUE, installed |-> "yes"]
        /\ \/ boot.torn
           \/ boot.bundle /\ boot.user /\ boot.services /\ boot.forwarding

\* Whatever was cut short, a user who keeps running devm shell gets a VM with
\* devm.target up: no state is one that every retry fails in.
Recovers == []<>boot.target

-----------------------------------------------------------------------------
(* Expectations that do not hold; the README says of each what TLC finds.  *)

\* The marker closes "the crash-hole where services could otherwise come up
\* under open egress" (render/provision.go): not when the crash is the VM's,
\* between two scripts, nor with two shells, of which one adopts the VM the
\* other has just started.
MarkerClosesCrashHole == boot.services => mode = "restricted"

\* teardownOnFail's "no half-created VM behind": with "half", /vm/start fails
\* after the spawn and the VM runs on. Recovers fails with it as well: with no
\* iron-proxy config every later shell adopts and gives up.
FailsLoudly ==
    [][\A s \in Shells : At(s, "start") /\ At(s, "idle")' /\ vm # "running"
                            => vm' # "running"]_vars

\* RunShell's "never provision onto a dirty slate": the marker is on tmpfs
\* and goes with the boot, a partial install stays.
NeverOntoDirtySlate ==
    [][\A s \in Shells : At(s, "bundle") /\ At(s, "extract")'
                            => disk.installed # "partly"]_vars

\* A VM that devm stop stopped keeps its disk: a shell it is stopped under
\* destroys it, one that has only asked for the status as well.
StoppedIsKept == [][vm = "stopped" => vm' # "absent"]_vars
=============================================================================
