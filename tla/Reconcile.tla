------------------------------ MODULE Reconcile -----------------------------
(***************************************************************************)
(* One project's configuration on its way from its files into its VM:      *)
(* devm reconcile, the diff of the files against the state snapshot, what  *)
(* /vm/reconcile applies change after change, what it then records, and    *)
(* /vm/apply-iron-proxy, cold starts and restarts of the daemon around it. *)
(*                                                                         *)
(* A configuration has a value for each field that stands for a class of   *)
(* fields alike in bucket and treatment: "env" for env, path and the       *)
(* bundle's fingerprint, "repos" for labels and commands, "url" for a      *)
(* repo's URL and secret, "memory" for memory and cpu, "docker" for        *)
(* docker, image, identity and disk, "secret" for the hashes of resolved   *)
(* secrets; "unit" for exec, restart, after, workdir, user and systemd,    *)
(* "port" for port, bind address and hostname of a service.                *)
(***************************************************************************)
EXTENDS Naturals

CONSTANTS
    Services,
    Values,                 \* of a field, 0 for one that is not set
    Hosts,                  \* what network.allow may name
    RepoHost, DockerHost,   \* what a repo's secret and docker: true imply
    Configs,                \* what the files may hold
    Gone, NoSnapshot,       \* a service that is not declared, a missing snapshot
    Faults,                 \* what happens of "fail", "restart", "overlap"
    MaxEdits                \* bound: edits of the files

Zero == 0
Project == "project"    \* the place of a change of no service

BundleFields == {"env"}
LiveFields == BundleFields \cup {"packages", "volumes", "repos"}
RestartFields == {"memory", "url"}
TeardownFields == {"docker"}
Fields == LiveFields \cup RestartFields \cup TeardownFields
ServiceFields == {"env", "unit", "port", "direct", "template"}

Settings == [ServiceFields -> Values] \cup {Gone}
AnyHost == Hosts \cup {RepoHost, DockerHost}
Configurations ==
    [env : Values, packages : Values, volumes : Values, repos : Values, memory : Values,
     url : Values, docker : Values, secret : Values, network : SUBSET AnyHost,
     services : [Services -> Settings]]
Snapshots == [cfg : Configurations, templates : [Services -> Values]]

ASSUME ConfigAssumption ==
    /\ Zero \in Values /\ Project \notin Services
    /\ Gone \notin [ServiceFields -> Values]
    /\ NoSnapshot \notin Snapshots
    /\ Configs \subseteq Configurations
    /\ \A c \in Configs : c.network \subseteq Hosts
    /\ MaxEdits \in Nat

\* The fields that a VM and its snapshot both have, each at its place.
Places == {"env", "packages", "volumes", "repos", "memory"} \X {Project}
              \cup {"env", "port", "direct", "template"} \X Services

VARIABLES
    files,      \* the configuration in devm.yaml and devm.me.yaml
    edits,      \* how often they were edited
    snapshot,   \* the state snapshot: [cfg, templates], or none
    vm,         \* the VM's state
    guest,      \* what the VM, its softnet and its iron-proxy have
    allowed,    \* the allowlist the policy authority enforces
    at,         \* where the reconcile is
    new,        \* its req.Cfg
    base,       \* the snapshot it read
    live,       \* its live changes
    starting,   \* the configuration a CLI is provisioning the VM with
    unsure      \* history: what failed requests may have changed

request == <<at, new, base, live>>
vars == <<files, edits, snapshot, vm, guest, allowed, request, starting, unsure>>

-----------------------------------------------------------------------------
(* The diff.                                                               *)

\* A field of a service; an undeclared service has the zero value.
Of(c, s, f) == IF c.services[s] = Gone THEN Zero ELSE c.services[s][f]

\* docker.EffectiveAllowlist, and with AppendUniqueHosts of RepoHosts.
EffectiveAllowlist(c) ==
    c.network \cup (IF c.docker # Zero THEN {DockerHost} ELSE {})
Enforced(c) == EffectiveAllowlist(c) \cup (IF c.url # Zero THEN {RepoHost} ELSE {})

\* RenderTemplatesByBasename.
Rendered(c) == [s \in Services |-> Of(c, s, "template")]

FieldChanges(old, cfg) ==
    {<<f, Project>> : f \in {g \in Fields : old[g] # cfg[g]}}

NetworkChanges(old, cfg) ==
    IF old.network = cfg.network THEN {} ELSE {<<"network", Project>>}

ServiceChanges(old, cfg) ==
    {d \in (ServiceFields \ {"template"}) \X Services :
        Of(old, d[2], d[1]) # Of(cfg, d[2], d[1])}

\* A template that is no longer rendered is a change of no service.
TemplateChanges(cfg, applied) ==
    {<<"template", s>> : s \in {t \in Services : /\ Of(cfg, t, "template") # Zero
                                                 /\ Of(cfg, t, "template") # applied[t]}}
    \cup {<<"template", Project>> : s \in {t \in Services : /\ Of(cfg, t, "template") = Zero
                                                            /\ applied[t] # Zero}}

ComputeAllChanges(old, cfg, applied) ==
    FieldChanges(old, cfg) \cup NetworkChanges(old, cfg)
        \cup ServiceChanges(old, cfg) \cup TemplateChanges(cfg, applied)

\* Mutant: a repo's URL is taken for a live change.
Live_Url(change) == change[1] \notin {"memory"} \cup TeardownFields

\* BucketLive; the other buckets are pending, restart or teardown.
Live(change) == change[1] \notin RestartFields \cup TeardownFields

\* A snapshot that is missing counts as an empty configuration.
Empty == [env |-> Zero, packages |-> Zero, volumes |-> Zero, repos |-> Zero, memory |-> Zero,
          url |-> Zero, docker |-> Zero, secret |-> Zero, network |-> {},
          services |-> [s \in Services |-> Gone]]
Base == IF snapshot # NoSnapshot THEN snapshot.cfg ELSE Empty
Applied == IF snapshot # NoSnapshot THEN snapshot.templates ELSE [s \in Services |-> Zero]

Changed(changes, f) == \E s \in Services \cup {Project} : <<f, s>> \in changes

-----------------------------------------------------------------------------
(* mergeLiveApplied.                                                       *)

\* A service that is gone is dropped for some of its changes, not for all.
Drops(cfg, changes, s) ==
    /\ cfg.services[s] = Gone
    /\ \E f \in {"env", "direct", "template"} : <<f, s>> \in changes

MergedService(old, cfg, changes, s) ==
    IF Drops(cfg, changes, s) THEN Gone
    ELSE IF cfg.services[s] = Gone \/ \A f \in ServiceFields : <<f, s>> \notin changes
    THEN old.services[s]
    ELSE [f \in ServiceFields |->
            IF <<f, s>> \in changes THEN cfg.services[s][f] ELSE Of(old, s, f)]

\* What is applied comes from cfg, the rest from old; the map of repos as a
\* whole, a pending URL in it too.
MergeLiveApplied(old, cfg, changes) ==
    [old EXCEPT
        !.env = IF Changed(changes, "env") THEN cfg.env ELSE @,
        !.packages = IF Changed(changes, "packages") THEN cfg.packages ELSE @,
        !.volumes = IF Changed(changes, "volumes") THEN cfg.volumes ELSE @,
        !.repos = IF Changed(changes, "repos") THEN cfg.repos ELSE @,
        !.url = IF Changed(changes, "repos") THEN cfg.url ELSE @,
        !.network = IF Changed(changes, "network") THEN cfg.network ELSE @,
        !.services = [s \in Services |-> MergedService(old, cfg, changes, s)]]

-----------------------------------------------------------------------------

Init ==
    /\ files \in Configs
    /\ edits = 0
    /\ snapshot = NoSnapshot
    /\ vm = "none"
    /\ guest = Empty
    /\ allowed = {}
    /\ at = "idle" /\ new = Empty /\ base = NoSnapshot /\ live = {}
    /\ starting = Empty
    /\ unsure = {}

\* The project's lock is free.
Unlocked == at \in {"idle", "asked", "egress"}

Goes(from, to) == at = from /\ at' = to

\* A request that is over has no configuration and no snapshot.
Forgets ==
    /\ new' = IF at' = "idle" THEN Empty ELSE new
    /\ base' = IF at' = "idle" THEN NoSnapshot ELSE base

Edit ==
    /\ edits < MaxEdits
    /\ edits' = edits + 1
    /\ files' \in Configs \ {files}
    /\ UNCHANGED <<snapshot, vm, guest, allowed, request, starting, unsure>>

-----------------------------------------------------------------------------
(* Cold start, stop and teardown.                                          *)

\* /vm/start: memory is set, a VM that is not there is cloned, iron-proxy gets
\* its secrets and the authority its allowlist.
StartVM ==
    /\ Unlocked /\ vm \in {"none", "stopped"}
    /\ vm' = IF vm = "none" THEN "fresh" ELSE "starting"
    /\ starting' = files
    /\ guest' = [guest EXCEPT !.memory = files.memory,
                              !.url = files.url,
                              !.secret = files.secret,
                              !.docker = IF vm = "none" THEN files.docker ELSE @]
    /\ allowed' = Enforced(files)
    /\ UNCHANGED <<files, edits, snapshot, request, unsure>>

\* A first boot installs the list, a later one what PackageDrift finds between
\* snapshot and configuration.
ConvergedPackages(c) ==
    IF vm = "fresh" \/ (snapshot # NoSnapshot /\ Base.packages # c.packages)
    THEN c.packages ELSE guest.packages

Booting == vm \in {"fresh", "starting"}

\* What a provisioned VM has: the bundle, the sessions, the scripts and the units.
Provisioned(c) ==
    [c EXCEPT !.memory = guest.memory, !.url = guest.url, !.docker = guest.docker,
              !.secret = guest.secret,
              !.packages = ConvergedPackages(c)]

\* The CLI seeds the snapshot without the lock; packages that a failed request may
\* have changed stay as they are.
Provision ==
    /\ Booting
    /\ vm' = "running"
    /\ guest' = Provisioned(starting)
    /\ snapshot' = [cfg |-> starting, templates |-> Rendered(starting)]
    /\ unsure' = IF vm = "fresh" THEN {} ELSE unsure \cap {<<"packages", Project>>}
    /\ starting' = Empty
    /\ UNCHANGED <<files, edits, allowed, request>>

\* The seed is best-effort: the VM runs on, on the snapshot of before or on none.
SeedFails ==
    /\ "fail" \in Faults
    /\ Booting
    /\ vm' = "running"
    /\ guest' = Provisioned(starting)
    /\ unsure' = Places
    /\ starting' = Empty
    /\ UNCHANGED <<files, edits, snapshot, allowed, request>>

\* teardownVM keeps the snapshot.
ProvisionFails ==
    /\ "fail" \in Faults
    /\ Booting
    /\ vm' = "none" /\ guest' = Empty
    /\ starting' = Empty
    /\ UNCHANGED <<files, edits, snapshot, allowed, request, unsure>>

Stop ==
    /\ Unlocked /\ vm = "running"
    /\ vm' = "stopped"
    /\ UNCHANGED <<files, edits, snapshot, guest, allowed, request, starting, unsure>>

\* RunStop with StopDestroy.
Destroy ==
    /\ Unlocked /\ vm \in {"running", "stopped"}
    /\ vm' = "none" /\ guest' = Empty
    /\ snapshot' = NoSnapshot
    /\ unsure' = {}
    /\ UNCHANGED <<files, edits, allowed, request, starting>>

-----------------------------------------------------------------------------
(* devm reconcile.                                                         *)

\* The CLI loads the files; the gate is ApproveGate's.
Ask ==
    /\ Goes("idle", "asked")
    /\ new' = files
    /\ UNCHANGED <<files, edits, snapshot, vm, guest, allowed, base, live, starting, unsure>>

\* Rotated or rebound secrets, or a proxy that is down.
MayNeedIronProxy == new.secret # Base.secret \/ vm = "running"

\* Mutant: an empty set of live changes is applied as well.
Diff_Empty ==
    /\ at = "asked"
    /\ Booting => "overlap" \in Faults
    /\ LET changes == {c \in ComputeAllChanges(Base, new, Applied) : Live(c)}
           up == vm = "running" \/ Booting IN
       /\ live' = IF up THEN changes ELSE {}
       /\ IF up THEN at' = "packages" /\ base' = snapshot /\ UNCHANGED new
          ELSE /\ at' = "idle" \/ (MayNeedIronProxy /\ at' = "egress")
               /\ Forgets
    /\ UNCHANGED <<files, edits, snapshot, vm, guest, allowed, starting, unsure>>

\* The handler has the lock and classifies; nothing is applied to a stopped VM.
Diff ==
    /\ at = "asked"
    /\ Booting => "overlap" \in Faults
    /\ LET changes == {c \in ComputeAllChanges(Base, new, Applied) : Live(c)}
           up == vm = "running" \/ Booting IN
       /\ live' = IF up THEN changes ELSE {}
       /\ IF up /\ changes # {} THEN at' = "packages" /\ base' = snapshot /\ UNCHANGED new
          ELSE /\ at' = "idle" \/ (MayNeedIronProxy /\ at' = "egress")
               /\ Forgets
    /\ UNCHANGED <<files, edits, snapshot, vm, guest, allowed, starting, unsure>>

ApplyPackages ==
    /\ Goes("packages", "bundle")
    /\ guest' = [guest EXCEPT !.packages = IF Changed(live, "packages") THEN new.packages ELSE @]
    /\ UNCHANGED <<files, edits, snapshot, vm, allowed, new, base, live, starting, unsure>>

\* What the bundle has of a configuration, whole.
Bundled(g, c) ==
    [g EXCEPT !.env = c.env,
              !.services = [s \in Services |->
                  [f \in ServiceFields |-> IF f = "env" THEN Of(c, s, f) ELSE Of(g, s, f)]]]

\* Every installer runs again; what is no longer rendered stays installed.
Installed(g, c) ==
    [g EXCEPT !.services = [s \in Services |->
                  [f \in ServiceFields |->
                      IF f = "template" /\ Of(c, s, f) # Zero THEN Of(c, s, f) ELSE Of(g, s, f)]]]

NeedsBundle ==
    \/ \E f \in {"env", "repos"} : Changed(live, f)
    \/ Changed(live, "template")

\* Mutant: a change of templates alone is not piped.
PipeBundle_NotTemplates ==
    /\ Goes("bundle", "volumes")
    /\ guest' = IF ~Changed(live, "env") THEN guest
                ELSE Installed(Bundled(guest, new), new)
    /\ UNCHANGED <<files, edits, snapshot, vm, allowed, new, base, live, starting, unsure>>

\* Nothing of it touches a unit that runs.
PipeBundle ==
    /\ Goes("bundle", "volumes")
    /\ guest' = IF ~NeedsBundle THEN guest
                ELSE IF Changed(live, "template") THEN Installed(Bundled(guest, new), new)
                ELSE Bundled(guest, new)
    /\ UNCHANGED <<files, edits, snapshot, vm, allowed, new, base, live, starting, unsure>>

\* applyMutagenSessionChange, whose own steps are in MutagenSync.
ApplySessions ==
    /\ Goes("volumes", "network")
    /\ guest' = [guest EXCEPT !.volumes = IF Changed(live, "volumes") THEN new.volumes ELSE @,
                              !.repos = IF Changed(live, "repos") THEN new.repos ELSE @]
    /\ UNCHANGED <<files, edits, snapshot, vm, allowed, new, base, live, starting, unsure>>

\* inProcessAllowlistSetter: the authority, then the snapshot, if there is one.
ApplyNetwork ==
    /\ at = "network"
    /\ IF ~Changed(live, "network")
       THEN at' = "expose" /\ UNCHANGED <<allowed, snapshot>>
       ELSE /\ allowed' = EffectiveAllowlist(new)
            /\ IF snapshot = NoSnapshot
               THEN at' = "idle" /\ UNCHANGED snapshot
               ELSE /\ at' = "expose"
                    /\ snapshot' = [snapshot EXCEPT !.cfg.network = EffectiveAllowlist(new)]
    /\ IF at' = "idle" THEN unsure' = unsure \cup live /\ live' = {}
       ELSE UNCHANGED <<unsure, live>>
    /\ Forgets
    /\ UNCHANGED <<files, edits, vm, guest, starting>>

Exposed(g, c) ==
    [g EXCEPT !.services = [s \in Services |->
                  [f \in ServiceFields |->
                      IF f \in {"port", "direct"} THEN Of(c, s, f) ELSE Of(g, s, f)]]]

PushExposeMap ==
    /\ Goes("expose", "record")
    /\ guest' = Exposed(guest, new)
    /\ UNCHANGED <<files, edits, snapshot, vm, allowed, new, base, live, starting, unsure>>

\* The merge is onto the snapshot read at the start, not onto the one that
\* ApplyNetwork or a CLI has written since.
Merged == MergeLiveApplied(IF base # NoSnapshot THEN base.cfg ELSE Empty, new, live)

\* What the next diff against the same configuration would find live.
Remaining(c) ==
    {d \in ComputeAllChanges(c, new, Rendered(c)) : Live(d)}

Record ==
    /\ at = "record"
    /\ snapshot' = [cfg |-> Merged, templates |-> Rendered(Merged)]
    /\ unsure' = (unsure \ live) \cup Remaining(Merged)
    /\ at' = "idle" \/ at' = "egress"
    /\ live' = {} /\ Forgets
    /\ UNCHANGED <<files, edits, vm, guest, allowed, starting>>

\* Any stage fails: an error, and the snapshot is left as it is by then.
Fail ==
    /\ "fail" \in Faults
    /\ ~Unlocked
    /\ at' = "idle"
    /\ unsure' = unsure \cup live
    /\ live' = {} /\ Forgets
    /\ UNCHANGED <<files, edits, snapshot, vm, guest, allowed, starting>>

\* /vm/apply-iron-proxy: the CLI's second request, with the configuration of the
\* first.
ApplyIronProxy ==
    /\ Goes("egress", "idle")
    /\ guest' = [guest EXCEPT !.secret = new.secret]
    /\ allowed' = Enforced(new)
    /\ snapshot' = IF snapshot = NoSnapshot THEN snapshot
                   ELSE [snapshot EXCEPT !.cfg.secret = new.secret,
                                         !.cfg.network = Enforced(new)]
    /\ Forgets
    /\ UNCHANGED <<files, edits, vm, live, starting, unsure>>

\* No proxy comes up: the authority may have the list already.
ApplyIronProxyFails ==
    /\ "fail" \in Faults
    /\ Goes("egress", "idle")
    /\ allowed' \in {allowed, Enforced(new)}
    /\ Forgets
    /\ UNCHANGED <<files, edits, snapshot, vm, guest, live, starting, unsure>>

-----------------------------------------------------------------------------
(* The guest's gdevm upgrade, and the daemon's restart.                    *)

\* RefreshGuestBundle, from the snapshot's configuration.
RefreshGuestBundle ==
    /\ Unlocked /\ vm = "running" /\ snapshot # NoSnapshot
    /\ guest' = Bundled(guest, snapshot.cfg)
    /\ UNCHANGED <<files, edits, snapshot, vm, allowed, request, starting, unsure>>

\* A request under way is lost; recoverProjectState and discoverSoftnet work
\* from the snapshot.
DaemonRestart ==
    /\ "restart" \in Faults
    /\ at' = IF at = "asked" THEN "asked" ELSE "idle"
    /\ unsure' = unsure \cup live
    /\ live' = {}
    /\ IF vm = "running" /\ snapshot # NoSnapshot
       THEN /\ allowed' = Enforced(snapshot.cfg)
            /\ guest' = Exposed(guest, snapshot.cfg)
       ELSE UNCHANGED <<allowed, guest>>
    /\ Forgets
    /\ UNCHANGED <<files, edits, snapshot, vm, starting>>

-----------------------------------------------------------------------------

Next ==
    \/ Edit
    \/ StartVM \/ Provision \/ SeedFails \/ ProvisionFails \/ Stop \/ Destroy
    \/ Ask \/ Diff \/ ApplyPackages \/ PipeBundle \/ ApplySessions
    \/ ApplyNetwork \/ PushExposeMap \/ Record \/ Fail
    \/ ApplyIronProxy \/ ApplyIronProxyFails
    \/ RefreshGuestBundle \/ DaemonRestart

Spec == Init /\ [][Next]_vars

-----------------------------------------------------------------------------
(* What has to be right.                                                   *)

\* A VM has what its snapshot records, but for what failed requests may have
\* changed: fields, places.
Recorded(f, s) == IF s = Project THEN snapshot.cfg[f] ELSE Of(snapshot.cfg, s, f)
Has(f, s) == IF s = Project THEN guest[f] ELSE Of(guest, s, f)
Differing ==
    {p \in Places : /\ Recorded(p[1], p[2]) # Has(p[1], p[2])
                    /\ p[1] = "template" => Recorded(p[1], p[2]) # Zero}

Settled == vm = "running" /\ snapshot # NoSnapshot /\ Unlocked

\* Types: the files, the snapshot and what a VM has are configurations, and a
\* handler under way has live changes.
TypeOK ==
    /\ {files, guest, new, starting} \subseteq Configurations
    /\ {snapshot, base} \subseteq Snapshots \cup {NoSnapshot}
    /\ vm \in {"none", "stopped", "fresh", "starting", "running"}
    /\ allowed \subseteq AnyHost
    /\ at \in {"idle", "asked", "packages", "bundle", "volumes", "network", "expose",
               "record", "egress"}
    /\ edits \in 0 .. MaxEdits
    /\ live # {} <=> ~Unlocked

\* What the snapshot says is applied the VM has, whatever order of edits, starts,
\* reconciles and restarts led there; a request that fails half way may only
\* leave the VM with other values of the fields it was to change
\* (apply_live.go:73, reconcile.go:281).
RecordedIsInForce == Settled => Differing \subseteq unsure

\* Nothing that a reconcile has applied comes up again in the next one, which
\* finds live only what a service that is gone had besides env, direct and
\* templates, and templates that are not rendered any more (diff.go and
\* mergeLiveApplied are two lists of the same fields).
LeftBehind(c) ==
    {d \in {"unit", "port"} \X Services : c.services[d[2]] = Gone}
        \cup {<<"template", Project>>}
AppliedIsNotPending ==
    [][at = "record" /\ snapshot' # snapshot =>
          {d \in ComputeAllChanges(snapshot'.cfg, new, snapshot'.templates) : Live(d)}
              \subseteq LeftBehind(new)]_vars

\* A restart of the daemon leaves the enforced allowlist as it is: "the live path
\* and the adopt path stay in lockstep on the exact set the authority sees"
\* (apply_live.go:71).  Refuted: a live network change enforces the list without
\* the hosts of the repos.
RestartKeepsAllowlist == Settled => allowed = Enforced(snapshot.cfg)

\* What needs a restart or a teardown stays pending until there was one (reconcile.go:394).
\* Refuted: a live change of repos records a pending URL, and a start of a stopped
\* VM records everything.
PendingIsKept ==
    Settled => \A f \in RestartFields \cup TeardownFields : snapshot.cfg[f] = guest[f]

\* Units run as recorded (diff.go:211, "re-render unit, daemon-reload, restart").
\* Refuted: no stage of ApplyLive does.
UnitsAreInForce ==
    Settled => \A s \in Services : <<"unit", s>> \in unsure
                                        \/ Of(snapshot.cfg, s, "unit") = Of(guest, s, "unit")

\* A request that fails leaves the snapshot it read (reconcile.go:281, "don't touch
\* the snapshot - same as if the request never happened").  Refuted: one that fails
\* after ApplyNetwork.
FailureTouchesNothing == [][Fail => snapshot = base]_vars

\* A VM without a snapshot gets one by a reconcile (shell.go:457, "only degrades to
\* full diff on next reconcile").  Refuted: the allowlist is not set without one.
MissingSnapshotHeals ==
    [][at = "network" /\ snapshot = NoSnapshot => at' = "expose" \/ at' = at]_vars
=============================================================================
