--------------------------- MODULE ReconcileProofs -------------------------
(***************************************************************************)
(* Reconcile for any services, values and configurations, and any number   *)
(* of edits, failures and restarts: its types, that a VM has what its      *)
(* snapshot records, and that what was applied does not come up again.     *)
(***************************************************************************)
EXTENDS Reconcile, TLAPS

\* No CLI reconciles a VM while another provisions it; otherwise TLC refutes both
\* RecordedIsInForce and AppliedIsNotPending.
NoOverlap == "overlap" \notin Faults

-----------------------------------------------------------------------------
(* What a handler knows while it has the lock.                             *)

CfgOf(s) == IF s # NoSnapshot THEN s.cfg ELSE Empty
LiveChanges(old, c) == {d \in ComputeAllChanges(old, c, Rendered(old)) : Live(d)}

\* Two snapshots that differ in nothing but the allowlist.
Agree(s, t) ==
    /\ s = NoSnapshot <=> t = NoSnapshot
    /\ s # NoSnapshot =>
         /\ s.templates = t.templates
         /\ \A f \in Fields \cup {"services"} : s.cfg[f] = t.cfg[f]

\* The snapshot that was read is the one there is, and the VM runs on under it: what
\* writes the snapshot without the lock provisions, and nothing is provisioned.
LockInv ==
    ~Unlocked => /\ vm = "running"
                 /\ live = LiveChanges(CfgOf(base), new)
                 /\ Agree(base, snapshot)

\* The snapshot's templates are those of its configuration.
RenderedInv == \A s \in {snapshot, base} : s # NoSnapshot => s.templates = Rendered(s.cfg)

\* The stages that are over have put the new values in force.
Value(c, f, s) == IF s = Project THEN c[f] ELSE Of(c, s, f)
InForce(f) == \A s \in Services \cup {Project} :
                  <<f, s>> \in live \cap Places => Has(f, s) = Value(new, f, s)
StageInv ==
    /\ at \in {"bundle", "volumes", "network", "expose", "record"} => InForce("packages")
    /\ at \in {"volumes", "network", "expose", "record"} => InForce("env") /\ InForce("template")
    /\ at \in {"network", "expose", "record"} => InForce("volumes") /\ InForce("repos")
    /\ at = "record" => InForce("port") /\ InForce("direct")

\* A VM under no snapshot is one whose seed failed.
Kept == vm \in {"stopped", "starting", "running"}
MissingInv == Kept /\ snapshot = NoSnapshot => Places \subseteq unsure

\* A VM that starts has the memory it was started with, and until it is provisioned
\* the snapshot records that of before.
StartInv == Booting => guest.memory = starting.memory
DifferInv ==
    Kept /\ snapshot # NoSnapshot =>
        Differing \subseteq unsure \cup live
                              \cup {p \in {<<"memory", Project>>} : vm = "starting"}

ReconcileInv ==
    /\ TypeOK /\ LockInv /\ RenderedInv /\ StageInv /\ MissingInv /\ StartInv /\ DifferInv

-----------------------------------------------------------------------------
(* Configurations.                                                         *)

LEMMA FieldsAre ==
    ASSUME NEW c \in Configurations
    PROVE  /\ \A f \in Fields \cup {"secret"} : c[f] \in Values
           /\ c.network \subseteq AnyHost
           /\ c.services \in [Services -> Settings]
BY DEF Configurations, Fields, LiveFields, BundleFields, RestartFields, TeardownFields

LEMMA EmptyIs ==
    /\ Empty \in Configurations
    /\ \A s \in Services, f \in ServiceFields : Of(Empty, s, f) = Zero
<1>1. Empty \in Configurations
  BY ConfigAssumption DEF Empty, Configurations, Settings
<1>2. \A s \in Services : Empty.services[s] = Gone
  BY DEF Empty
<1> QED
  BY <1>1, <1>2 DEF Of

LEMMA OfTyped ==
    ASSUME NEW c \in Configurations, NEW s \in Services
    PROVE  /\ \A f \in ServiceFields : Of(c, s, f) \in Values
           /\ c.services[s] # Gone => c.services[s] \in [ServiceFields -> Values]
BY FieldsAre, ConfigAssumption DEF Of, Settings

\* A configuration with other services.
LEMMA WithServices ==
    ASSUME NEW c \in Configurations, NEW to \in [Services -> Settings]
    PROVE  /\ [c EXCEPT !.services = to] \in Configurations
           /\ \A f \in Fields \cup {"secret"} : [c EXCEPT !.services = to][f] = c[f]
           /\ [c EXCEPT !.services = to].network = c.network
           /\ [c EXCEPT !.services = to].services = to
BY DEF Configurations, Fields, LiveFields, BundleFields, RestartFields, TeardownFields

\* Services that are given new fields one and all.
LEMMA WithFields ==
    ASSUME NEW c \in Configurations, NEW to \in [Services -> [ServiceFields -> Values]]
    PROVE  /\ [c EXCEPT !.services = to] \in Configurations
           /\ \A f \in Fields \cup {"secret"} : [c EXCEPT !.services = to][f] = c[f]
           /\ \A s \in Services, f \in ServiceFields :
                  Of([c EXCEPT !.services = to], s, f) = to[s][f]
<1>1. to \in [Services -> Settings] /\ \A s \in Services : to[s] # Gone
  BY ConfigAssumption DEF Settings
<1> QED
  BY <1>1, WithServices DEF Of

LEMMA BundledHas ==
    ASSUME NEW g \in Configurations, NEW c \in Configurations
    PROVE  /\ Bundled(g, c) \in Configurations
           /\ \A f \in Fields \cup {"secret"} :
                  Bundled(g, c)[f] = IF f = "env" THEN c[f] ELSE g[f]
           /\ \A s \in Services, f \in ServiceFields :
                  Of(Bundled(g, c), s, f) = IF f = "env" THEN Of(c, s, f) ELSE Of(g, s, f)
<1> DEFINE to == [s \in Services |->
                    [f \in ServiceFields |-> IF f = "env" THEN Of(c, s, f) ELSE Of(g, s, f)]]
           h == [g EXCEPT !.env = c.env]
<1>1. to \in [Services -> [ServiceFields -> Values]]
  BY OfTyped
<1>2. h \in Configurations /\ \A f \in Fields \cup {"secret"} : h[f] = IF f = "env" THEN c[f] ELSE g[f]
  BY DEF Configurations, Fields, LiveFields, BundleFields, RestartFields, TeardownFields
<1>3. Bundled(g, c) = [h EXCEPT !.services = to]
  BY DEF Bundled
<1>4. \A s \in Services, f \in ServiceFields :
          to[s][f] = IF f = "env" THEN Of(c, s, f) ELSE Of(g, s, f)
  OBVIOUS
<1> HIDE DEF to, h
<1> QED
  BY <1>1, <1>2, <1>3, <1>4, WithFields

LEMMA InstalledHas ==
    ASSUME NEW g \in Configurations, NEW c \in Configurations
    PROVE  /\ Installed(g, c) \in Configurations
           /\ \A f \in Fields \cup {"secret"} : Installed(g, c)[f] = g[f]
           /\ \A s \in Services, f \in ServiceFields :
                  Of(Installed(g, c), s, f) =
                      IF f = "template" /\ Of(c, s, f) # Zero THEN Of(c, s, f) ELSE Of(g, s, f)
<1> DEFINE to == [s \in Services |->
                    [f \in ServiceFields |->
                       IF f = "template" /\ Of(c, s, f) # Zero THEN Of(c, s, f) ELSE Of(g, s, f)]]
<1>1. to \in [Services -> [ServiceFields -> Values]]
  BY OfTyped
<1>2. \A s \in Services, f \in ServiceFields :
          to[s][f] = IF f = "template" /\ Of(c, s, f) # Zero THEN Of(c, s, f) ELSE Of(g, s, f)
  OBVIOUS
<1> HIDE DEF to
<1>3. Installed(g, c) = [g EXCEPT !.services = to]
  BY DEF Installed, to
<1> QED
  BY <1>1, <1>2, <1>3, WithFields

LEMMA ExposedHas ==
    ASSUME NEW g \in Configurations, NEW c \in Configurations
    PROVE  /\ Exposed(g, c) \in Configurations
           /\ \A f \in Fields \cup {"secret"} : Exposed(g, c)[f] = g[f]
           /\ \A s \in Services, f \in ServiceFields :
                  Of(Exposed(g, c), s, f) =
                      IF f \in {"port", "direct"} THEN Of(c, s, f) ELSE Of(g, s, f)
<1> DEFINE to == [s \in Services |->
                    [f \in ServiceFields |->
                       IF f \in {"port", "direct"} THEN Of(c, s, f) ELSE Of(g, s, f)]]
<1>1. to \in [Services -> [ServiceFields -> Values]]
  BY OfTyped
<1>2. \A s \in Services, f \in ServiceFields :
          to[s][f] = IF f \in {"port", "direct"} THEN Of(c, s, f) ELSE Of(g, s, f)
  OBVIOUS
<1> HIDE DEF to
<1>3. Exposed(g, c) = [g EXCEPT !.services = to]
  BY DEF Exposed, to
<1> QED
  BY <1>1, <1>2, <1>3, WithFields

-----------------------------------------------------------------------------
(* The diff and the merge.                                                 *)

LEMMA RenderedIs ==
    ASSUME NEW c \in Configurations
    PROVE  /\ Rendered(c) \in [Services -> Values]
           /\ \A s \in Services : Rendered(c)[s] = Of(c, s, "template")
BY OfTyped DEF Rendered, ServiceFields

\* Which changes are live.
LEMMA LiveAre ==
    ASSUME NEW old \in Configurations, NEW c \in Configurations
    PROVE  /\ \A f \in Fields :
                 <<f, Project>> \in LiveChanges(old, c) <=> f \in LiveFields /\ old[f] # c[f]
           /\ <<"network", Project>> \in LiveChanges(old, c) <=> old.network # c.network
           /\ \A s \in Services, f \in ServiceFields \ {"template"} :
                 <<f, s>> \in LiveChanges(old, c) <=> Of(old, s, f) # Of(c, s, f)
           /\ \A s \in Services :
                 <<"template", s>> \in LiveChanges(old, c) <=>
                     Of(c, s, "template") # Zero /\ Of(c, s, "template") # Of(old, s, "template")
           /\ \A s \in Services : \A f : <<f, s>> \in LiveChanges(old, c) => f \in ServiceFields
           /\ \A f : <<f, Project>> \in LiveChanges(old, c) => f \in Fields \cup {"network", "template"}
           /\ \A d \in LiveChanges(old, c) : d = <<d[1], d[2]>> /\ d[2] \in Services \cup {Project}
<1> USE ConfigAssumption, RenderedIs
    DEF LiveChanges, ComputeAllChanges, FieldChanges, NetworkChanges, ServiceChanges,
        TemplateChanges, Live, Fields, LiveFields, BundleFields, RestartFields, TeardownFields,
        ServiceFields
<1>1. \A f \in Fields :
          <<f, Project>> \in LiveChanges(old, c) <=> f \in LiveFields /\ old[f] # c[f]
  OBVIOUS
<1>2. <<"network", Project>> \in LiveChanges(old, c) <=> old.network # c.network
  OBVIOUS
<1>3. \A s \in Services, f \in ServiceFields \ {"template"} :
          <<f, s>> \in LiveChanges(old, c) <=> Of(old, s, f) # Of(c, s, f)
  OBVIOUS
<1>4. \A s \in Services :
          <<"template", s>> \in LiveChanges(old, c) <=>
              Of(c, s, "template") # Zero /\ Of(c, s, "template") # Of(old, s, "template")
  OBVIOUS
<1>5. \A s \in Services : \A f : <<f, s>> \in LiveChanges(old, c) => f \in ServiceFields
  OBVIOUS
<1>6. \A d \in LiveChanges(old, c) : d = <<d[1], d[2]>> /\ d[2] \in Services \cup {Project}
  OBVIOUS
<1>7. \A f : <<f, Project>> \in LiveChanges(old, c) => f \in Fields \cup {"network", "template"}
  OBVIOUS
<1> QED
  BY <1>1, <1>2, <1>3, <1>4, <1>5, <1>6, <1>7

\* What mergeLiveApplied makes of a service: gone, as it was, or with the changed
\* fields set.
LEMMA ServiceMerged ==
    ASSUME NEW old \in Configurations, NEW c \in Configurations, NEW s \in Services,
           NEW changes
    PROVE  LET m == MergedService(old, c, changes, s) IN
           /\ m \in Settings
           /\ Drops(c, changes, s) => m = Gone
           /\ ~Drops(c, changes, s) /\ c.services[s] = Gone => m = old.services[s]
           /\ c.services[s] # Gone /\ (\A f \in ServiceFields : <<f, s>> \notin changes)
                 => m = old.services[s]
           /\ c.services[s] # Gone /\ (\E f \in ServiceFields : <<f, s>> \in changes)
                 => /\ m # Gone
                    /\ \A f \in ServiceFields :
                          m[f] = IF <<f, s>> \in changes THEN Of(c, s, f) ELSE Of(old, s, f)
<1> DEFINE set == [f \in ServiceFields |->
                     IF <<f, s>> \in changes THEN c.services[s][f] ELSE Of(old, s, f)]
<1>1. c.services[s] # Gone => \A f \in ServiceFields : c.services[s][f] = Of(c, s, f)
  BY DEF Of
<1>2. c.services[s] # Gone => set \in [ServiceFields -> Values]
  BY <1>1, OfTyped
<1>3. c.services[s] # Gone => set \in Settings /\ set # Gone
  BY <1>2, ConfigAssumption DEF Settings
<1>4. \A f \in ServiceFields :
          set[f] = IF <<f, s>> \in changes THEN c.services[s][f] ELSE Of(old, s, f)
  OBVIOUS
<1>5. Gone \in Settings /\ old.services[s] \in Settings
  BY FieldsAre DEF Settings
<1>6. MergedService(old, c, changes, s) =
          IF Drops(c, changes, s) THEN Gone
          ELSE IF c.services[s] = Gone \/ \A f \in ServiceFields : <<f, s>> \notin changes
          THEN old.services[s] ELSE set
  BY DEF MergedService
<1> HIDE DEF set
<1> QED
  BY <1>1, <1>3, <1>4, <1>5, <1>6 DEF Drops

LEMMA ServicesMerge ==
    ASSUME NEW old \in Configurations, NEW c \in Configurations, NEW changes
    PROVE  MergeLiveApplied(old, c, changes) \in Configurations
<1> DEFINE to == [s \in Services |-> MergedService(old, c, changes, s)]
<1>1. to \in [Services -> Settings]
  BY ServiceMerged
<1> DEFINE P(f) == IF Changed(changes, f) THEN c[f] ELSE old[f]
           url == IF Changed(changes, "repos") THEN c.url ELSE old.url
<1>2. /\ P("env") \in Values /\ P("packages") \in Values /\ P("volumes") \in Values
      /\ P("repos") \in Values /\ url \in Values /\ P("network") \subseteq AnyHost
  BY FieldsAre DEF Fields, LiveFields, BundleFields, RestartFields
<1>3. MergeLiveApplied(old, c, changes) =
          [old EXCEPT !.env = P("env"), !.packages = P("packages"), !.volumes = P("volumes"),
                      !.repos = P("repos"), !.url = url, !.network = P("network"),
                      !.services = to]
  BY DEF MergeLiveApplied
<1> DEFINE g == [old EXCEPT !.env = P("env"), !.packages = P("packages"), !.volumes = P("volumes")]
           h == [g EXCEPT !.repos = P("repos"), !.url = url, !.network = P("network")]
<1> HIDE DEF to, P, url
<1>4. g \in Configurations
  BY <1>2 DEF Configurations
<1> HIDE DEF g
<1>5. h \in Configurations
  BY <1>2, <1>4 DEF Configurations
<1>6. MergeLiveApplied(old, c, changes) = [h EXCEPT !.services = to]
  BY <1>3 DEF g, h
<1> HIDE DEF h
<1> QED
  BY <1>1, <1>5, <1>6, WithServices

\* The merge m of all that is live has c's values, but for what a service that is
\* gone leaves behind, templates that are rendered no more, and what waits for a
\* restart.
IsMerge(m, old, c) ==
    /\ m \in Configurations
    /\ \A f \in LiveFields : m[f] = c[f]
    /\ m.memory = old.memory /\ m.network = c.network
    /\ \A s \in Services :
          /\ \A f \in {"env", "direct"} : Of(m, s, f) = Of(c, s, f)
          /\ \A f \in {"unit", "port"} :
                \/ Of(m, s, f) = Of(c, s, f)
                \/ Of(m, s, f) = Of(old, s, f) /\ c.services[s] = Gone
          /\ \/ Of(m, s, "template") = Of(c, s, "template")
             \/ /\ Of(c, s, "template") = Zero
                /\ Of(m, s, "template") = Of(old, s, "template")

LEMMA MergedHas ==
    ASSUME NEW old \in Configurations, NEW c \in Configurations, NEW m,
           m = MergeLiveApplied(old, c, LiveChanges(old, c))
    PROVE  IsMerge(m, old, c)
<1> DEFINE changes == LiveChanges(old, c)
           to == [s \in Services |-> MergedService(old, c, changes, s)]
<1>1. to \in [Services -> Settings] /\ \A s \in Services : to[s] = MergedService(old, c, changes, s)
  BY ServiceMerged
<1>2. \A f \in {"env", "packages", "volumes", "repos", "network"} :
          ~Changed(changes, f) => old[f] = c[f]
  <2>1. ASSUME NEW f \in LiveFields, ~Changed(changes, f) PROVE old[f] = c[f]
    BY <2>1, LiveAre DEF Changed, Fields
  <2>2. ~Changed(changes, "network") => old.network = c.network
    BY LiveAre DEF Changed
  <2> QED
    BY <2>1, <2>2 DEF LiveFields, BundleFields
<1>3. m = [old EXCEPT !.env = c.env, !.packages = c.packages, !.volumes = c.volumes,
                      !.repos = c.repos,
                      !.url = IF Changed(changes, "repos") THEN c.url ELSE @,
                      !.network = c.network, !.services = to]
  BY <1>2 DEF MergeLiveApplied
<1> HIDE DEF changes, to
<1>4. /\ m \in Configurations /\ m.services = to
      /\ \A f \in LiveFields : m[f] = c[f]
      /\ m.memory = old.memory /\ m.network = c.network
  <2>1. m \in Configurations
    BY ServicesMerge
  <2>2. m.services = to /\ m.memory = old.memory /\ m.network = c.network
    BY <1>3 DEF Configurations
  <2>3. m.env = c.env /\ m.packages = c.packages /\ m.volumes = c.volumes /\ m.repos = c.repos
    BY <1>3 DEF Configurations
  <2> QED
    BY <2>1, <2>2, <2>3 DEF LiveFields, BundleFields
<1>5. ASSUME NEW s \in Services
      PROVE  /\ \A f \in {"env", "direct"} : Of(m, s, f) = Of(c, s, f)
             /\ \A f \in {"unit", "port"} :
                   \/ Of(m, s, f) = Of(c, s, f)
                   \/ Of(m, s, f) = Of(old, s, f) /\ c.services[s] = Gone
             /\ \/ Of(m, s, "template") = Of(c, s, "template")
                \/ /\ Of(c, s, "template") = Zero
                   /\ Of(m, s, "template") = Of(old, s, "template")
  <2>1. m.services[s] = MergedService(old, c, changes, s)
    BY <1>1, <1>4
  <2>2. \A f \in {"env", "unit", "port", "direct"} : <<f, s>> \notin changes => Of(old, s, f) = Of(c, s, f)
    BY LiveAre DEF changes, ServiceFields
  <2>3. <<"template", s>> \notin changes =>
            Of(c, s, "template") = Zero \/ Of(c, s, "template") = Of(old, s, "template")
    BY LiveAre DEF changes
  <2>4. c.services[s] = Gone => \A f \in ServiceFields : Of(c, s, f) = Zero
    BY DEF Of
  <2>5. CASE Drops(c, changes, s)
    <3>1. m.services[s] = Gone /\ c.services[s] = Gone
      BY <2>1, <2>5, ServiceMerged DEF Drops
    <3> QED
      BY <3>1 DEF Of
  <2>6. CASE ~Drops(c, changes, s) /\ c.services[s] = Gone
    <3>1. m.services[s] = old.services[s]
      BY <2>1, <2>6, ServiceMerged
    <3>2. \A f \in ServiceFields : Of(m, s, f) = Of(old, s, f)
      BY <3>1 DEF Of
    <3>3. \A f \in {"env", "direct", "template"} : <<f, s>> \notin changes
      BY <2>6 DEF Drops
    <3> QED
      BY <2>2, <2>4, <2>6, <3>2, <3>3 DEF ServiceFields
  <2>7. CASE c.services[s] # Gone
    <3>1. \A f \in ServiceFields :
              Of(m, s, f) = IF <<f, s>> \in changes THEN Of(c, s, f) ELSE Of(old, s, f)
      BY <2>1, <2>7, ServiceMerged DEF Of
    <3> QED
      BY <2>2, <2>3, <3>1 DEF ServiceFields
  <2> QED
    BY <2>5, <2>6, <2>7
<1> QED
  BY <1>4, <1>5 DEF IsMerge

-----------------------------------------------------------------------------
(* Types.                                                                  *)

LEMMA ImpliedIs ==
    ASSUME NEW c \in Configurations
    PROVE  EffectiveAllowlist(c) \subseteq AnyHost /\ Enforced(c) \subseteq AnyHost
BY FieldsAre DEF EffectiveAllowlist, Enforced, AnyHost

LEMMA CfgsAre ==
    ASSUME NEW s \in Snapshots \cup {NoSnapshot}
    PROVE  /\ CfgOf(s) \in Configurations
           /\ s # NoSnapshot => s.cfg \in Configurations /\ s.templates \in [Services -> Values]
BY EmptyIs DEF CfgOf, Snapshots

LEMMA SnapshotsAre ==
    ASSUME NEW c \in Configurations
    PROVE  /\ [cfg |-> c, templates |-> Rendered(c)] \in Snapshots
           /\ \A s \in Snapshots, hosts \in SUBSET AnyHost, v \in Values :
                 /\ [s EXCEPT !.cfg.network = hosts] \in Snapshots
                 /\ [s EXCEPT !.cfg.secret = v, !.cfg.network = hosts] \in Snapshots
<1>1. [cfg |-> c, templates |-> Rendered(c)] \in Snapshots
  BY RenderedIs DEF Snapshots
<1>2. ASSUME NEW s \in Snapshots, NEW hosts \in SUBSET AnyHost, NEW v \in Values
      PROVE  /\ [s.cfg EXCEPT !.network = hosts] \in Configurations
             /\ [s.cfg EXCEPT !.secret = v, !.network = hosts] \in Configurations
  BY DEF Snapshots, Configurations
<1>3. ASSUME NEW s \in Snapshots, NEW d \in Configurations
      PROVE  [s EXCEPT !.cfg = d] \in Snapshots
  BY DEF Snapshots
<1>4. ASSUME NEW s \in Snapshots, NEW hosts \in SUBSET AnyHost, NEW v \in Values
      PROVE  /\ [s EXCEPT !.cfg.network = hosts] \in Snapshots
             /\ [s EXCEPT !.cfg.secret = v, !.cfg.network = hosts] \in Snapshots
  <2>1. [s EXCEPT !.cfg.network = hosts] = [s EXCEPT !.cfg = [s.cfg EXCEPT !.network = hosts]]
    BY DEF Snapshots
  <2>2. [s EXCEPT !.cfg.secret = v, !.cfg.network = hosts]
            = [s EXCEPT !.cfg = [s.cfg EXCEPT !.secret = v, !.network = hosts]]
    BY DEF Snapshots
  <2> QED
    BY <1>2, <1>3, <2>1, <2>2
<1> QED
  BY <1>1, <1>4

LEMMA GuestsTyped ==
    ASSUME TypeOK, Edit \/ StartVM \/ Provision \/ SeedFails \/ ProvisionFails \/ Stop \/ Destroy
    PROVE  TypeOK'
<1> USE ConfigAssumption DEF TypeOK, Unlocked, request
<1>1. CASE Edit
  BY <1>1 DEF Edit
<1>2. CASE StartVM
  <2>1. guest' \in Configurations
    BY <1>2 DEF StartVM, Configurations
  <2> QED
    BY <1>2, <2>1, ImpliedIs DEF StartVM
<1>3. CASE Provision \/ SeedFails
  <2>1. Provisioned(starting) \in Configurations
    <3>1. ConvergedPackages(starting) \in Values
      BY FieldsAre DEF ConvergedPackages, Fields, LiveFields
    <3> QED
      BY <3>1 DEF Provisioned, Configurations
  <2> QED
    BY <1>3, <2>1, EmptyIs, SnapshotsAre DEF Provision, SeedFails
<1>4. CASE ProvisionFails
  BY <1>4, EmptyIs DEF ProvisionFails
<1>5. CASE Stop
  BY <1>5 DEF Stop
<1>6. CASE Destroy
  BY <1>6, EmptyIs DEF Destroy
<1> QED
  BY <1>1, <1>2, <1>3, <1>4, <1>5, <1>6

LEMMA HandlersTyped ==
    ASSUME TypeOK,
           \/ Ask \/ Diff \/ ApplyPackages \/ PipeBundle \/ ApplySessions
           \/ ApplyNetwork \/ PushExposeMap \/ Record \/ Fail
           \/ ApplyIronProxy \/ ApplyIronProxyFails
           \/ RefreshGuestBundle \/ DaemonRestart
    PROVE  TypeOK'
<1> USE EmptyIs DEF TypeOK, Unlocked, request, Goes
<1>f. Forgets => {new', base'} \subseteq {new, base, Empty, NoSnapshot} /\ new' \in Configurations
                 /\ base' \in Snapshots \cup {NoSnapshot}
  BY DEF Forgets
<1>1. CASE Ask
  BY <1>1 DEF Ask
<1>2. CASE Diff
  BY <1>2, <1>f DEF Diff
<1>3. CASE ApplyPackages
  <2>1. guest' \in Configurations
    BY <1>3 DEF ApplyPackages, Configurations
  <2> QED
    BY <1>3, <2>1 DEF ApplyPackages
<1>4. CASE PipeBundle
  <2>1. guest' \in Configurations
    BY <1>4, BundledHas, InstalledHas DEF PipeBundle
  <2> QED
    BY <1>4, <2>1 DEF PipeBundle
<1>5. CASE ApplySessions
  <2>1. guest' \in Configurations
    BY <1>5 DEF ApplySessions, Configurations
  <2> QED
    BY <1>5, <2>1 DEF ApplySessions
<1>6. CASE ApplyNetwork
  <2>1. EffectiveAllowlist(new) \subseteq AnyHost
    BY ImpliedIs
  <2>2. /\ allowed' \in {allowed, EffectiveAllowlist(new)}
        /\ \/ snapshot' = snapshot
           \/ /\ snapshot # NoSnapshot
              /\ snapshot' = [snapshot EXCEPT !.cfg.network = EffectiveAllowlist(new)]
    BY <1>6 DEF ApplyNetwork
  <2>3. allowed' \subseteq AnyHost /\ snapshot' \in Snapshots \cup {NoSnapshot}
    <3>1. snapshot # NoSnapshot =>
              [snapshot EXCEPT !.cfg.network = EffectiveAllowlist(new)] \in Snapshots
      BY <2>1, SnapshotsAre, ConfigAssumption
    <3> QED
      BY <2>1, <2>2, <3>1
  <2> QED
    BY <1>6, <1>f, <2>3 DEF ApplyNetwork
<1>7. CASE PushExposeMap
  BY <1>7, ExposedHas DEF PushExposeMap
<1>8. CASE Record
  <2>1. Merged \in Configurations
    BY ServicesMerge, CfgsAre DEF Merged, CfgOf
  <2> QED
    BY <1>8, <1>f, <2>1, SnapshotsAre DEF Record
<1>9. CASE Fail
  BY <1>9, <1>f DEF Fail
<1>10. CASE ApplyIronProxy
  <2>1. guest' \in Configurations
    BY <1>10 DEF ApplyIronProxy, Configurations
  <2>2. allowed' \subseteq AnyHost /\ snapshot' \in Snapshots \cup {NoSnapshot}
    BY <1>10, ImpliedIs, SnapshotsAre, FieldsAre DEF ApplyIronProxy
  <2> QED
    BY <1>10, <1>f, <2>1, <2>2 DEF ApplyIronProxy
<1>11. CASE ApplyIronProxyFails
  BY <1>11, <1>f, ImpliedIs DEF ApplyIronProxyFails
<1>12. CASE RefreshGuestBundle
  BY <1>12, BundledHas, CfgsAre DEF RefreshGuestBundle
<1>13. CASE DaemonRestart
  BY <1>13, <1>f, ExposedHas, CfgsAre, ImpliedIs DEF DaemonRestart
<1> QED
  BY <1>1, <1>2, <1>3, <1>4, <1>5, <1>6, <1>7, <1>8, <1>9, <1>10, <1>11, <1>12, <1>13

LEMMA ReconcileTypeInit == Init => TypeOK
BY EmptyIs, ConfigAssumption DEF Init, TypeOK, Unlocked

\* Types, whatever overlaps, fails or restarts.
THEOREM ReconcileTyped == Spec => []TypeOK
<1>1. TypeOK /\ UNCHANGED vars => TypeOK'
  BY DEF TypeOK, vars, request, Unlocked
<1>2. TypeOK /\ [Next]_vars => TypeOK'
  BY <1>1, GuestsTyped, HandlersTyped DEF Next
<1> QED
  BY <1>2, ReconcileTypeInit, PTL DEF Spec

-----------------------------------------------------------------------------
(* What the VM has of what the snapshot records.                           *)

LEMMA PlacesAre ==
    /\ \A f, s : <<f, s>> \in Places <=>
          \/ s = Project /\ f \in {"env", "packages", "volumes", "repos", "memory"}
          \/ s \in Services /\ s # Project /\ f \in {"env", "port", "direct", "template"}
    /\ \A p \in Places : p = <<p[1], p[2]>>
BY ConfigAssumption DEF Places

Differs(c, g, f, s) ==
    /\ <<f, s>> \in Places
    /\ Value(c, f, s) # Value(g, f, s)
    /\ f = "template" => Value(c, f, s) # Zero

\* What a VM may have otherwise than its snapshot says.
Excused(f, s) ==
    \/ <<f, s>> \in unsure \cup live
    \/ f = "memory" /\ s = Project /\ vm = "starting"

\* A set of pairs lies in a set when its pairs do.
LEMMA PairsIn ==
    ASSUME NEW D, NEW X, \A p \in D : p = <<p[1], p[2]>>
    PROVE  D \subseteq X <=> \A f, s : <<f, s>> \in D => <<f, s>> \in X
OBVIOUS

\* DifferInv, place by place, now and after a step.
LEMMA DifferInvIs ==
    /\ DifferInv <=>
         (Kept /\ snapshot # NoSnapshot =>
            \A f, s : Differs(snapshot.cfg, guest, f, s) => Excused(f, s))
    /\ DifferInv' <=>
         (Kept' /\ snapshot' # NoSnapshot =>
            \A f, s : Differs(snapshot'.cfg, guest', f, s) => Excused(f, s)')
<1>1. /\ \A p \in Differing : p = <<p[1], p[2]>>
      /\ \A f, s : <<f, s>> \in Differing <=> Differs(snapshot.cfg, guest, f, s)
  BY PlacesAre DEF Differing, Differs, Value, Recorded, Has
<1>2. /\ \A p \in Differing' : p = <<p[1], p[2]>>
      /\ \A f, s : <<f, s>> \in Differing' <=> Differs(snapshot'.cfg, guest', f, s)
  BY PlacesAre DEF Differing, Differs, Value, Recorded, Has
<1>3. /\ \A f, s : Excused(f, s) <=>
             <<f, s>> \in unsure \cup live
                              \cup {p \in {<<"memory", Project>>} : vm = "starting"}
      /\ \A f, s : Excused(f, s)' <=>
             <<f, s>> \in unsure' \cup live'
                              \cup {p \in {<<"memory", Project>>} : vm' = "starting"}
  BY DEF Excused
<1>4. DifferInv <=>
         (Kept /\ snapshot # NoSnapshot =>
            \A f, s : <<f, s>> \in Differing => Excused(f, s))
  BY <1>1, <1>3, PairsIn DEF DifferInv
<1>5. DifferInv' <=>
         (Kept' /\ snapshot' # NoSnapshot =>
            \A f, s : <<f, s>> \in Differing' => Excused(f, s)')
  BY <1>2, <1>3, PairsIn DEF DifferInv
<1> QED
  BY <1>1, <1>2, <1>4, <1>5

Same(c, d) == \A f, s : <<f, s>> \in Places => Value(c, f, s) = Value(d, f, s)

\* Configurations with the same fields have the same values.
LEMMA SameFields ==
    ASSUME NEW c, NEW d, c.services = d.services,
           \A f \in LiveFields \cup {"memory"} : c[f] = d[f]
    PROVE  Same(c, d)
BY PlacesAre DEF Same, Value, Of, LiveFields, BundleFields

\* A step that puts recorded values in force, or others where there is doubt.
LEMMA DifferStep ==
    ASSUME DifferInv,
           unsure \cup live \subseteq unsure' \cup live',
           Kept' /\ snapshot' # NoSnapshot =>
             /\ Kept /\ snapshot # NoSnapshot
             /\ vm = "starting" => vm' = "starting"
             /\ Same(snapshot'.cfg, snapshot.cfg)
             /\ \A f, s : <<f, s>> \in Places =>
                  \/ Value(guest', f, s) \in {Value(guest, f, s), Value(snapshot.cfg, f, s)}
                  \/ Excused(f, s)'
    PROVE  DifferInv'
<1>1. ASSUME Kept', snapshot' # NoSnapshot, NEW f, NEW s, Differs(snapshot'.cfg, guest', f, s)
      PROVE  Excused(f, s)'
  <2>1. <<f, s>> \in Places /\ Value(snapshot'.cfg, f, s) = Value(snapshot.cfg, f, s)
    BY <1>1 DEF Differs, Same
  <2>2. CASE Value(guest', f, s) = Value(guest, f, s)
    <3>1. Differs(snapshot.cfg, guest, f, s)
      BY <1>1, <2>1, <2>2 DEF Differs
    <3> QED
      BY <1>1, <3>1, DifferInvIs DEF Excused
  <2>3. CASE Value(guest', f, s) = Value(snapshot.cfg, f, s)
    BY <1>1, <2>1, <2>3 DEF Differs
  <2> QED
    BY <1>1, <2>1, <2>2, <2>3
<1> QED
  BY <1>1, DifferInvIs

-----------------------------------------------------------------------------
(* The lock, and the templates of the snapshot.                            *)

\* A change of the snapshot's hosts or hashes leaves the rest.
WithHosts(s, hosts) == [s EXCEPT !.cfg.network = hosts]
WithSecret(s, v, hosts) == [s EXCEPT !.cfg.secret = v, !.cfg.network = hosts]

LEMMA HostsSet ==
    ASSUME NEW s \in Snapshots, NEW hosts \in SUBSET AnyHost, NEW v \in Values,
           NEW t \in {WithHosts(s, hosts), WithSecret(s, v, hosts)}
    PROVE  /\ t # NoSnapshot /\ t.templates = s.templates
           /\ \A f \in Fields \cup {"services"} : t.cfg[f] = s.cfg[f]
<1> USE DEF Snapshots, Configurations, Fields, LiveFields, BundleFields, RestartFields,
            TeardownFields
<1>1. CASE t = WithHosts(s, hosts)
  <2>1. t \in Snapshots
    BY <1>1 DEF WithHosts
  <2> QED
    BY <1>1, <2>1, ConfigAssumption DEF WithHosts
<1>2. CASE t = WithSecret(s, v, hosts)
  <2>1. t \in Snapshots
    BY <1>2 DEF WithSecret
  <2> QED
    BY <1>2, <2>1, ConfigAssumption DEF WithSecret
<1> QED
  BY <1>1, <1>2

LEMMA HostsOnly ==
    ASSUME TypeOK, ApplyNetwork \/ ApplyIronProxy
    PROVE  \/ snapshot' = snapshot
           \/ /\ snapshot # NoSnapshot /\ snapshot' # NoSnapshot
              /\ snapshot'.templates = snapshot.templates
              /\ \A f \in Fields \cup {"services"} : snapshot'.cfg[f] = snapshot.cfg[f]
<1>1. \/ snapshot' = snapshot
      \/ /\ snapshot # NoSnapshot
         /\ \/ snapshot' = WithHosts(snapshot, EffectiveAllowlist(new))
            \/ snapshot' = WithSecret(snapshot, new.secret, Enforced(new))
  BY DEF ApplyNetwork, ApplyIronProxy, WithHosts, WithSecret
<1>2. /\ new.secret \in Values
      /\ {EffectiveAllowlist(new), Enforced(new)} \subseteq SUBSET AnyHost
  BY ImpliedIs, FieldsAre DEF TypeOK
<1>3. snapshot # NoSnapshot => snapshot \in Snapshots
  BY DEF TypeOK
<1>4. CASE snapshot # NoSnapshot /\ snapshot' = WithHosts(snapshot, EffectiveAllowlist(new))
  BY <1>2, <1>3, <1>4, HostsSet
<1>5. CASE snapshot # NoSnapshot /\ snapshot' = WithSecret(snapshot, new.secret, Enforced(new))
  BY <1>2, <1>3, <1>5, HostsSet
<1> QED
  BY <1>1, <1>4, <1>5

LEMMA LockStep ==
    ASSUME TypeOK, NoOverlap, LockInv, RenderedInv, [Next]_vars
    PROVE  LockInv'
<1> USE DEF LockInv, Unlocked
<1>1. CASE Diff
  <2>1. Applied = Rendered(Base) /\ Base = CfgOf(snapshot)
    BY <1>1, EmptyIs DEF Applied, Base, CfgOf, Rendered, RenderedInv, ServiceFields
  <2>2. {c \in ComputeAllChanges(Base, new, Applied) : Live(c)} = LiveChanges(CfgOf(snapshot), new)
    BY <2>1 DEF LiveChanges
  <2>3. ~Unlocked' => /\ vm = "running" /\ live' = LiveChanges(CfgOf(snapshot), new)
                      /\ UNCHANGED <<vm, new, snapshot>> /\ base' = snapshot
    BY <1>1, <2>2 DEF Diff, NoOverlap
  <2> QED
    BY <2>3 DEF Agree
<1>2. CASE ApplyNetwork
  <2>1. ~Unlocked' => at' = "expose" /\ UNCHANGED <<vm, new, base, live>>
    BY <1>2 DEF ApplyNetwork, Forgets
  <2> QED
    BY <1>2, <2>1, HostsOnly DEF ApplyNetwork, Agree
<1>3. CASE Provision \/ SeedFails \/ ProvisionFails
  BY <1>3 DEF Provision, SeedFails, ProvisionFails, Booting, request
<1>4. CASE ApplyPackages \/ PipeBundle \/ ApplySessions \/ PushExposeMap
  BY <1>4 DEF ApplyPackages, PipeBundle, ApplySessions, PushExposeMap, Goes
<1>5. CASE Record \/ Fail \/ ApplyIronProxy \/ ApplyIronProxyFails \/ DaemonRestart \/ Ask
  BY <1>5 DEF Record, Fail, ApplyIronProxy, ApplyIronProxyFails, DaemonRestart, Ask, Goes
<1>6. CASE Edit \/ StartVM \/ Stop \/ Destroy \/ RefreshGuestBundle \/ UNCHANGED vars
  BY <1>6 DEF Edit, StartVM, Stop, Destroy, RefreshGuestBundle, vars, request
<1> QED
  BY <1>1, <1>2, <1>3, <1>4, <1>5, <1>6 DEF Next

LEMMA RenderedStep ==
    ASSUME TypeOK, RenderedInv, [Next]_vars
    PROVE  RenderedInv'
<1> USE DEF RenderedInv
<1>1. \A c \in Configurations : [cfg |-> c, templates |-> Rendered(c)].templates = Rendered(c)
  OBVIOUS
<1>2. CASE Provision \/ Record
  BY <1>2 DEF Provision, Record, Forgets, request
<1>3. CASE ApplyNetwork \/ ApplyIronProxy
  <2>1. base' \in {base, NoSnapshot}
    BY <1>3 DEF ApplyNetwork, ApplyIronProxy, Forgets
  <2> QED
    BY <1>3, <2>1, HostsOnly DEF Rendered, Of
<1>4. CASE UNCHANGED <<snapshot, base>>
  BY <1>4
<1>5. CASE Diff \/ Fail \/ ApplyIronProxyFails \/ DaemonRestart \/ Destroy
  BY <1>5 DEF Diff, Fail, ApplyIronProxyFails, DaemonRestart, Destroy, Forgets, request
<1> QED
  BY <1>2, <1>3, <1>4, <1>5
  DEF Next, Edit, StartVM, SeedFails, ProvisionFails, Stop, Ask, ApplyPackages, PipeBundle,
      ApplySessions, PushExposeMap, RefreshGuestBundle, vars, request

-----------------------------------------------------------------------------
(* The stages of a handler.                                                *)

\* What a handler does not change is as the snapshot has it.
LEMMA OthersAreRecorded ==
    ASSUME TypeOK, LockInv, ~Unlocked, NEW f, NEW s, <<f, s>> \in Places \ live,
           f # "memory", f = "template" => Value(new, f, s) # Zero
    PROVE  /\ Value(CfgOf(base), f, s) = Value(new, f, s)
           /\ snapshot # NoSnapshot => Value(snapshot.cfg, f, s) = Value(new, f, s)
<1>1. /\ new \in Configurations /\ CfgOf(base) \in Configurations
      /\ live = LiveChanges(CfgOf(base), new) /\ Agree(base, snapshot)
  BY CfgsAre DEF TypeOK, LockInv
<1>2. Value(CfgOf(base), f, s) = Value(new, f, s)
  <2>1. CASE s = Project
    <3>1. f \in LiveFields
      BY <2>1, PlacesAre DEF LiveFields, BundleFields
    <3> QED
      BY <1>1, <2>1, <3>1, LiveAre DEF Value, Fields
  <2>2. CASE s \in Services /\ s # Project
    <3>1. f \in {"env", "port", "direct", "template"}
      BY <2>2, PlacesAre
    <3>2. CASE f = "template"
      BY <1>1, <2>2, <3>2, LiveAre DEF Value
    <3>3. CASE f # "template"
      BY <1>1, <2>2, <3>1, <3>3, LiveAre DEF Value, ServiceFields
    <3> QED
      BY <3>2, <3>3
  <2> QED
    BY <2>1, <2>2, PlacesAre
<1>3. ASSUME snapshot # NoSnapshot
      PROVE  Value(snapshot.cfg, f, s) = Value(CfgOf(base), f, s)
  <2>1. /\ CfgOf(base) = base.cfg
        /\ \A g \in Fields \cup {"services"} : base.cfg[g] = snapshot.cfg[g]
    BY <1>1, <1>3 DEF Agree, CfgOf
  <2>2. s = Project => f \in Fields
    BY PlacesAre DEF Fields, LiveFields, BundleFields, RestartFields
  <2> QED
    BY <2>1, <2>2 DEF Value, Of
<1> QED
  BY <1>2, <1>3

\* A stage puts the new values of its fields F in force where they are live, and
\* elsewhere at most.
Sets(F) ==
    \A f, s : <<f, s>> \in Places =>
        /\ \/ Value(guest', f, s) = Value(guest, f, s)
           \/ f \in F /\ Value(guest', f, s) = Value(new, f, s)
                      /\ (f = "template" => Value(new, f, s) # Zero)
        /\ f \in F /\ <<f, s>> \in live => Value(guest', f, s) = Value(new, f, s)

LEMMA StageSets ==
    ASSUME TypeOK, LockInv
    PROVE  /\ ApplyPackages => Sets({"packages"})
           /\ PipeBundle => Sets({"env", "template"})
           /\ ApplySessions => Sets({"volumes", "repos"})
           /\ PushExposeMap => Sets({"port", "direct"})
<1> USE PlacesAre, ConfigAssumption
<1>1. guest \in Configurations /\ new \in Configurations
  BY DEF TypeOK
<1>2. \A f, s : <<f, s>> \in live /\ <<f, s>> \in Places => Changed(live, f)
  BY DEF Changed
<1>3. ASSUME ApplyPackages PROVE Sets({"packages"})
  BY <1>1, <1>2, <1>3 DEF ApplyPackages, Sets, Value, Of, Configurations
<1>4. ASSUME ApplySessions PROVE Sets({"volumes", "repos"})
  <2>1. /\ guest'.services = guest.services
        /\ \A f \in {"env", "packages", "memory"} : guest'[f] = guest[f]
    BY <1>1, <1>4 DEF ApplySessions, Configurations
  <2>2. \A f \in {"volumes", "repos"} :
            guest'[f] = IF Changed(live, f) THEN new[f] ELSE guest[f]
    <3>1. guest'["volumes"] = IF Changed(live, "volumes") THEN new["volumes"] ELSE guest["volumes"]
      BY <1>1, <1>4 DEF ApplySessions, Configurations
    <3>2. guest'["repos"] = IF Changed(live, "repos") THEN new["repos"] ELSE guest["repos"]
      BY <1>1, <1>4 DEF ApplySessions, Configurations
    <3> QED
      BY <3>1, <3>2
  <2>3. \A s \in Services : \A f : Of(guest', s, f) = Of(guest, s, f)
    BY <2>1 DEF Of
  <2>4. ASSUME NEW f, NEW s, <<f, s>> \in Places
        PROVE  /\ \/ Value(guest', f, s) = Value(guest, f, s)
                  \/ f \in {"volumes", "repos"} /\ Value(guest', f, s) = Value(new, f, s)
               /\ f \in {"volumes", "repos"} /\ <<f, s>> \in live =>
                      Value(guest', f, s) = Value(new, f, s)
    <3>1. CASE s = Project /\ f \in {"volumes", "repos"}
      BY <1>2, <2>2, <2>4, <3>1 DEF Value
    <3>2. CASE s = Project /\ f \in {"env", "packages", "memory"}
      BY <2>1, <3>2 DEF Value
    <3>3. CASE s \in Services /\ f \in {"env", "port", "direct", "template"}
      BY <2>3, <3>3 DEF Value
    <3> QED
      BY <2>4, <3>1, <3>2, <3>3
  <2> QED
    BY <2>4 DEF Sets
<1>5. ASSUME PushExposeMap PROVE Sets({"port", "direct"})
  <2>1. guest' = Exposed(guest, new)
    BY <1>5 DEF PushExposeMap
  <2> QED
    BY <1>1, <2>1, ExposedHas
    DEF Sets, Value, Fields, LiveFields, BundleFields, RestartFields, ServiceFields
<1>6. ASSUME PipeBundle PROVE Sets({"env", "template"})
  <2> DEFINE g == Bundled(guest, new)
  <2>1. g \in Configurations
    BY <1>1, BundledHas
  <2>2. \A f, s : <<f, s>> \in Places =>
            Value(g, f, s) = IF f = "env" THEN Value(new, f, s) ELSE Value(guest, f, s)
    BY <1>1, BundledHas
    DEF Value, Fields, LiveFields, BundleFields, RestartFields, ServiceFields
  <2>3. \A f, s : <<f, s>> \in Places =>
            Value(Installed(g, new), f, s) =
                IF f = "template" /\ Value(new, f, s) # Zero THEN Value(new, f, s)
                ELSE Value(g, f, s)
    <3> HIDE DEF g
    <3> QED
      BY <1>1, <2>1, InstalledHas
      DEF Value, Fields, LiveFields, BundleFields, RestartFields, ServiceFields
  <2>4. \A f, s : f = "template" /\ <<f, s>> \in live /\ <<f, s>> \in Places =>
            Value(new, f, s) # Zero
    <3>1. live # {} => ~Unlocked
      BY DEF TypeOK
    <3> QED
      BY <1>1, <3>1, LiveAre, CfgsAre DEF LockInv, TypeOK, Value
  <2>5. \A f, s : <<f, s>> \in live /\ <<f, s>> \in Places /\ f \in {"env", "template"} =>
            NeedsBundle /\ (f = "template" => Changed(live, "template"))
    BY <1>2 DEF NeedsBundle
  <2>6. guest' = IF ~NeedsBundle THEN guest
                 ELSE IF Changed(live, "template") THEN Installed(g, new) ELSE g
    BY <1>6 DEF PipeBundle
  <2> HIDE DEF g
  <2> QED
    BY <2>2, <2>3, <2>4, <2>5, <2>6 DEF Sets
<1> QED
  BY <1>3, <1>4, <1>5, <1>6

\* A stage keeps in force what the stages before it have set.
LEMMA InForceStep ==
    ASSUME NEW F, Sets(F), UNCHANGED <<new, live>>
    PROVE  \A f : f \in F \/ InForce(f) => InForce(f)'
<1>1. ASSUME NEW f, f \in F \/ InForce(f), NEW s \in Services \cup {Project},
             <<f, s>> \in live' \cap Places
      PROVE  Has(f, s)' = Value(new', f, s)
  BY <1>1 DEF Sets, InForce, Has, Value
<1> QED
  BY <1>1 DEF InForce

LEMMA StageStep ==
    ASSUME TypeOK, LockInv, StageInv, [Next]_vars
    PROVE  StageInv'
<1> USE DEF Goes
<1>1. CASE ApplyPackages
  <2>1. InForce("packages")'
    BY <1>1, StageSets, InForceStep DEF ApplyPackages
  <2> QED
    BY <1>1, <2>1 DEF ApplyPackages, StageInv
<1>2. CASE PipeBundle
  <2>1. InForce("packages")' /\ InForce("env")' /\ InForce("template")'
    BY <1>2, StageSets, InForceStep DEF PipeBundle, StageInv
  <2> QED
    BY <1>2, <2>1 DEF PipeBundle, StageInv
<1>3. CASE ApplySessions
  <2>1. \A f \in {"packages", "env", "template", "volumes", "repos"} : InForce(f)'
    BY <1>3, StageSets, InForceStep DEF ApplySessions, StageInv
  <2> QED
    BY <1>3, <2>1 DEF ApplySessions, StageInv
<1>4. CASE PushExposeMap
  <2>1. \A f \in {"packages", "env", "template", "volumes", "repos", "port", "direct"} : InForce(f)'
    BY <1>4, StageSets, InForceStep DEF PushExposeMap, StageInv
  <2> QED
    BY <1>4, <2>1 DEF PushExposeMap, StageInv
<1>5. CASE ApplyNetwork
  <2>1. at' = "expose" => UNCHANGED <<guest, new, live>> /\ at = "network"
    BY <1>5 DEF ApplyNetwork, Forgets
  <2>2. at' = "expose" => \A f : InForce(f)' <=> InForce(f)
    BY <2>1 DEF InForce, Has, Value
  <2> QED
    BY <1>5, <2>1, <2>2 DEF ApplyNetwork, StageInv
<1>6. CASE Diff \/ Ask \/ Record \/ Fail \/ ApplyIronProxy \/ ApplyIronProxyFails \/ DaemonRestart
  <2>1. at' \in {"idle", "asked", "packages", "egress"}
    BY <1>6 DEF Diff, Ask, Record, Fail, ApplyIronProxy, ApplyIronProxyFails, DaemonRestart
  <2> QED
    BY <2>1 DEF StageInv
<1>7. CASE UNCHANGED <<guest, request>>
  BY <1>7 DEF StageInv, InForce, Has, request
<1>8. CASE StartVM \/ Provision \/ SeedFails \/ ProvisionFails \/ Destroy \/ RefreshGuestBundle
  <2>1. Unlocked /\ UNCHANGED at
    BY <1>8
    DEF StartVM, Provision, SeedFails, ProvisionFails, Destroy, RefreshGuestBundle, request,
        LockInv, Booting
  <2> QED
    BY <2>1 DEF StageInv, Unlocked
<1> QED
  BY <1>1, <1>2, <1>3, <1>4, <1>5, <1>6, <1>7, <1>8 DEF Next, Edit, Stop, vars

\* What a handler records is what it had read, with its live changes.
LEMMA MergedIs ==
    ASSUME TypeOK
    PROVE  /\ Merged = MergeLiveApplied(CfgOf(base), new, live)
           /\ Merged \in Configurations
BY ServicesMerge, CfgsAre DEF Merged, CfgOf, TypeOK

LEMMA Snapshotted ==
    ASSUME TypeOK, Provision \/ Record
    PROVE  snapshot' # NoSnapshot
<1>1. ASSUME NEW c \in Configurations PROVE [cfg |-> c, templates |-> Rendered(c)] # NoSnapshot
  BY SnapshotsAre, ConfigAssumption
<1>2. Merged \in Configurations /\ starting \in Configurations
  BY MergedIs DEF TypeOK
<1> QED
  BY <1>1, <1>2 DEF Provision, Record

LEMMA MissingStep ==
    ASSUME TypeOK, MissingInv, [Next]_vars
    PROVE  MissingInv'
<1> USE DEF MissingInv, Kept, Booting
<1>1. CASE Provision \/ Record
  BY <1>1, Snapshotted
<1>2. CASE SeedFails \/ ProvisionFails \/ Destroy \/ StartVM
  BY <1>2 DEF SeedFails, ProvisionFails, Destroy, StartVM
<1>3. CASE ApplyNetwork \/ ApplyIronProxy
  <2>1. vm' = vm /\ unsure \subseteq unsure'
    BY <1>3 DEF ApplyNetwork, ApplyIronProxy
  <2> QED
    BY <1>3, <2>1, HostsOnly
<1>4. CASE Stop \/ Fail \/ DaemonRestart
  BY <1>4 DEF Stop, Fail, DaemonRestart
<1>5. CASE UNCHANGED <<snapshot, vm, unsure>>
  BY <1>5
<1> QED
  BY <1>1, <1>2, <1>3, <1>4, <1>5
  DEF Next, Edit, Ask, Diff, ApplyPackages, PipeBundle, ApplySessions, PushExposeMap,
      ApplyIronProxyFails, RefreshGuestBundle, vars

LEMMA StartStep ==
    ASSUME TypeOK, LockInv, StartInv, [Next]_vars
    PROVE  StartInv'
<1> USE DEF StartInv, Booting
<1>1. CASE StartVM
  <2>1. guest'.memory = starting'.memory
    BY <1>1 DEF StartVM, TypeOK, Configurations
  <2> QED
    BY <2>1
<1>2. CASE Provision \/ SeedFails \/ ProvisionFails \/ Stop \/ Destroy
  BY <1>2 DEF Provision, SeedFails, ProvisionFails, Stop, Destroy
<1>3. CASE ApplyPackages \/ PipeBundle \/ ApplySessions \/ PushExposeMap
  <2>1. ~Unlocked /\ vm' = vm
    BY <1>3 DEF ApplyPackages, PipeBundle, ApplySessions, PushExposeMap, Goes, Unlocked
  <2> QED
    BY <2>1 DEF LockInv
<1>4. CASE ApplyIronProxy
  <2>1. guest'.memory = guest.memory
    BY <1>4 DEF ApplyIronProxy, TypeOK, Configurations
  <2> QED
    BY <1>4, <2>1 DEF ApplyIronProxy
<1>5. CASE RefreshGuestBundle \/ DaemonRestart
  BY <1>5 DEF RefreshGuestBundle, DaemonRestart
<1>6. CASE UNCHANGED <<vm, guest, starting>>
  BY <1>6
<1> QED
  BY <1>1, <1>2, <1>3, <1>4, <1>5, <1>6
  DEF Next, Edit, Ask, Diff, ApplyNetwork, Record, Fail, ApplyIronProxyFails, vars

LEMMA StageDiffers ==
    ASSUME TypeOK, LockInv, DifferInv, ~Unlocked, NEW F, Sets(F), "memory" \notin F,
           UNCHANGED <<snapshot, vm, unsure, live>>
    PROVE  DifferInv'
<1>1. ASSUME NEW f, NEW s, <<f, s>> \in Places, snapshot # NoSnapshot
      PROVE  \/ Value(guest', f, s) \in {Value(guest, f, s), Value(snapshot.cfg, f, s)}
             \/ Excused(f, s)'
  <2>1. CASE <<f, s>> \in live
    BY <2>1 DEF Excused
  <2>2. CASE <<f, s>> \notin live /\ Value(guest', f, s) # Value(guest, f, s)
    <3>1. /\ f # "memory" /\ Value(guest', f, s) = Value(new, f, s)
          /\ f = "template" => Value(new, f, s) # Zero
      BY <1>1, <2>2 DEF Sets
    <3> QED
      BY <1>1, <2>2, <3>1, OthersAreRecorded
  <2> QED
    BY <2>1, <2>2
<1>2. snapshot # NoSnapshot => Same(snapshot'.cfg, snapshot.cfg)
  BY DEF Same, Value, Of
<1>3. Kept' <=> Kept
  BY DEF Kept
<1> QED
  BY <1>1, <1>2, <1>3, DifferStep

\* A provisioned VM has what the snapshot records that is seeded.
LEMMA ProvisionDiffers ==
    ASSUME TypeOK, LockInv, MissingInv, StartInv, DifferInv, Provision
    PROVE  DifferInv'
<1>1. /\ snapshot' = [cfg |-> starting, templates |-> Rendered(starting)]
      /\ guest' = Provisioned(starting) /\ starting \in Configurations
      /\ guest.memory = starting.memory /\ live = {} /\ live' = {}
  BY DEF Provision, StartInv, LockInv, TypeOK, Booting, request
<1>2. /\ snapshot'.cfg = starting
      /\ guest'.services = starting.services
      /\ \A f \in {"env", "volumes", "repos", "memory"} : guest'[f] = starting[f]
      /\ guest'.packages = ConvergedPackages(starting)
  BY <1>1 DEF Provisioned, Configurations
<1>3. ASSUME NEW f, NEW s, Differs(snapshot'.cfg, guest', f, s)
      PROVE  f = "packages" /\ s = Project /\ ConvergedPackages(starting) # starting.packages
  <2>1. <<f, s>> \in Places
    BY <1>3 DEF Differs
  <2>2. s = Project
    BY <1>2, <1>3, <2>1, PlacesAre DEF Differs, Value, Of
  <2> QED
    BY <1>2, <1>3, <2>1, <2>2, PlacesAre DEF Differs, Value
<1>4. ASSUME ConvergedPackages(starting) # starting.packages
      PROVE  <<"packages", Project>> \in unsure'
  <2>1. /\ vm = "starting" /\ guest.packages # starting.packages
        /\ snapshot = NoSnapshot \/ snapshot.cfg.packages = starting.packages
    BY <1>4 DEF ConvergedPackages, Provision, Booting, Base
  <2>2. <<"packages", Project>> \in Places
    BY PlacesAre
  <2>3. CASE snapshot = NoSnapshot
    BY <2>1, <2>2, <2>3 DEF MissingInv, Kept, Provision
  <2>4. CASE snapshot # NoSnapshot
    <3>1. Differs(snapshot.cfg, guest, "packages", Project)
      BY <2>1, <2>2, <2>4 DEF Differs, Value
    <3>2. <<"packages", Project>> \in unsure
      BY <1>1, <2>1, <2>4, <3>1, DifferInvIs DEF Excused, Kept
    <3> QED
      BY <2>1, <3>2 DEF Provision
  <2> QED
    BY <2>3, <2>4
<1> QED
  BY <1>3, <1>4, DifferInvIs DEF Excused

LEMMA RecordedHas ==
    ASSUME TypeOK, LockInv, ~Unlocked
    PROVE  IsMerge(Merged, CfgOf(base), new)
<1>1. /\ CfgOf(base) \in Configurations /\ new \in Configurations
      /\ Merged = MergeLiveApplied(CfgOf(base), new, LiveChanges(CfgOf(base), new))
  BY CfgsAre, MergedIs DEF TypeOK, LockInv
<1> QED
  BY <1>1, MergedHas

\* A handler records what the VM has, but for what was in doubt before and what
\* remains for the next one.
LEMMA RecordDiffers ==
    ASSUME TypeOK, LockInv, StageInv, MissingInv, DifferInv, Record
    PROVE  DifferInv'
<1> DEFINE old == CfgOf(base)
<1>1. /\ old \in Configurations /\ new \in Configurations
      /\ live = LiveChanges(old, new) /\ vm = "running" /\ ~Unlocked
      /\ Merged = MergeLiveApplied(old, new, live)
  BY CfgsAre, MergedIs DEF TypeOK, LockInv, Record, Unlocked
<1>2. /\ snapshot'.cfg = Merged /\ guest' = guest /\ live' = {}
      /\ unsure' = (unsure \ live) \cup LiveChanges(Merged, new)
  BY DEF Record, Remaining, LiveChanges
<1>3. \A f \in {"env", "packages", "volumes", "repos", "port", "direct", "template"} : InForce(f)
  BY DEF Record, StageInv
<1> HIDE DEF old
<1>5. IsMerge(Merged, old, new)
  BY <1>1, RecordedHas DEF old
<1>6. /\ \A f \in LiveFields : <<f, Project>> \notin live => old[f] = new[f]
      /\ \A s \in Services :
            /\ \A f \in {"env", "port", "direct"} :
                  <<f, s>> \notin live => Of(old, s, f) = Of(new, s, f)
            /\ <<"template", s>> \notin live =>
                  Of(new, s, "template") = Zero \/ Of(new, s, "template") = Of(old, s, "template")
  BY <1>1, LiveAre DEF Fields, ServiceFields
<1>4. ASSUME NEW f, NEW s, Differs(Merged, guest, f, s)
      PROVE  <<f, s>> \in unsure'
  <2>1. <<f, s>> \in Places /\ Value(Merged, f, s) # Value(guest, f, s)
    BY <1>4 DEF Differs
  <2>2. ASSUME <<f, s>> \in live
        PROVE  <<f, s>> \in LiveChanges(Merged, new)
    <3>1. f # "memory"
      BY <1>1, <2>1, <2>2, PlacesAre, LiveAre
      DEF Fields, LiveFields, BundleFields, RestartFields
    <3>2. Value(guest, f, s) = Value(new, f, s)
      BY <1>3, <2>1, <2>2, <3>1, PlacesAre DEF InForce, Has, Value
    <3>3. s # Project
      BY <1>5, <2>1, <3>1, <3>2, PlacesAre DEF Value, LiveFields, BundleFields, IsMerge
    <3>4. s \in Services /\ f \in {"env", "port", "direct", "template"}
      BY <2>1, <3>3, PlacesAre
    <3>5. Of(Merged, s, f) # Of(new, s, f)
      BY <2>1, <3>2, <3>3 DEF Value
    <3>6. f = "template" => Of(new, s, f) # Zero
      BY <1>1, <2>2, <3>4, LiveAre
    <3>7. f = "port"
      BY <1>5, <3>4, <3>5, <3>6 DEF IsMerge
    <3> QED
      BY <1>1, <3>4, <3>5, <3>7, MergedIs, LiveAre DEF ServiceFields
  <2>3. ASSUME <<f, s>> \notin live
        PROVE  <<f, s>> \in unsure
    <3>1. Value(Merged, f, s) = Value(old, f, s)
      <4>1. CASE s = Project /\ f = "memory"
        BY <1>5, <4>1 DEF Value, IsMerge
      <4>2. CASE s = Project /\ f # "memory"
        <5>1. f \in LiveFields
          BY <2>1, <4>2, PlacesAre DEF LiveFields, BundleFields
        <5> QED
          BY <1>5, <1>6, <2>3, <4>2, <5>1 DEF Value, IsMerge
      <4>3. CASE s # Project
        <5>1. s \in Services /\ f \in {"env", "port", "direct", "template"}
          BY <2>1, <4>3, PlacesAre
        <5>2. CASE f = "template"
          <6>1. Of(Merged, s, f) # Zero
            BY <1>4, <4>3, <5>2 DEF Differs, Value
          <6> QED
            BY <1>5, <1>6, <2>3, <4>3, <5>1, <5>2, <6>1 DEF Value, IsMerge
        <5>3. CASE f # "template"
          BY <1>5, <1>6, <2>3, <4>3, <5>1, <5>3 DEF Value, IsMerge
        <5> QED
          BY <5>2, <5>3
      <4> QED
        BY <4>1, <4>2, <4>3
    <3>2. CASE snapshot = NoSnapshot
      BY <1>1, <2>1, <3>2 DEF MissingInv, Kept
    <3>3. CASE snapshot # NoSnapshot
      <4>1. Value(snapshot.cfg, f, s) = Value(old, f, s)
        <5>1. \A g \in Fields \cup {"services"} : old[g] = snapshot.cfg[g]
          BY <1>1, <3>3 DEF LockInv, Agree, CfgOf, old
        <5>2. s = Project => f \in Fields
          BY <2>1, PlacesAre DEF Fields, LiveFields, BundleFields, RestartFields
        <5> QED
          BY <5>1, <5>2 DEF Value, Of
      <4>2. Differs(snapshot.cfg, guest, f, s)
        BY <1>4, <3>1, <4>1 DEF Differs
      <4> QED
        BY <1>1, <2>3, <3>3, <4>2, DifferInvIs DEF Excused, Kept
    <3> QED
      BY <3>2, <3>3
  <2> QED
    BY <1>2, <2>2, <2>3
<1> QED
  BY <1>2, <1>4, DifferInvIs DEF Excused

\* Steps that leave what is recorded and what is in force.
LEMMA IdleDiffers ==
    ASSUME DifferInv, unsure \cup live \subseteq unsure' \cup live',
           Kept' => Kept /\ (vm = "starting" => vm' = "starting"),
           UNCHANGED <<snapshot, guest>>
    PROVE  DifferInv'
<1>1. Same(snapshot'.cfg, snapshot.cfg)
  BY DEF Same, Value, Of
<1>2. \A f, s : Value(guest', f, s) = Value(guest, f, s)
  BY DEF Value, Of
<1> QED
  BY <1>1, <1>2, DifferStep

LEMMA DiffersStep ==
    ASSUME TypeOK, NoOverlap, LockInv, StageInv, MissingInv, StartInv, DifferInv, [Next]_vars
    PROVE  DifferInv'
<1> USE DEF Kept
<1>1. CASE StartVM
  <2>1. CASE vm = "none"
    BY <1>1, <2>1 DEF StartVM, DifferInv
  <2>2. CASE vm = "stopped"
    <3>1. /\ vm' = "starting" /\ UNCHANGED <<snapshot, unsure, live>>
          /\ guest'.services = guest.services
          /\ \A f \in LiveFields : guest'[f] = guest[f]
      BY <1>1, <2>2
      DEF StartVM, request, TypeOK, Configurations, LiveFields, BundleFields
    <3>2. \A f, s : <<f, s>> \in Places =>
              Value(guest', f, s) = Value(guest, f, s) \/ Excused(f, s)'
      BY <3>1, PlacesAre DEF Value, Of, Excused, LiveFields, BundleFields
    <3>3. Same(snapshot'.cfg, snapshot.cfg)
      BY <3>1 DEF Same, Value, Of
    <3> QED
      BY <2>2, <3>1, <3>2, <3>3, DifferStep
  <2> QED
    BY <1>1, <2>1, <2>2 DEF StartVM
<1>2. CASE Provision
  BY <1>2, ProvisionDiffers
<1>3. CASE SeedFails
  <2>1. unsure' = Places
    BY <1>3 DEF SeedFails
  <2> QED
    BY <2>1, DifferInvIs DEF Differs, Excused
<1>4. CASE ProvisionFails \/ Destroy
  BY <1>4 DEF ProvisionFails, Destroy, DifferInv
<1>5. CASE ApplyPackages \/ PipeBundle \/ ApplySessions \/ PushExposeMap
  <2>1. ~Unlocked /\ UNCHANGED <<snapshot, vm, unsure, live>>
    BY <1>5
    DEF ApplyPackages, PipeBundle, ApplySessions, PushExposeMap, Goes, Unlocked
  <2>2. PICK F : Sets(F) /\ "memory" \notin F
    BY <1>5, StageSets
  <2> QED
    BY <2>1, <2>2, StageDiffers
<1>6. CASE ApplyNetwork \/ ApplyIronProxy
  <2>1. /\ UNCHANGED vm /\ unsure \cup live \subseteq unsure' \cup live'
        /\ guest'.services = guest.services
        /\ \A f \in LiveFields \cup {"memory"} : guest'[f] = guest[f]
    BY <1>6
    DEF ApplyNetwork, ApplyIronProxy, TypeOK, Configurations, LiveFields, BundleFields
  <2>2. \A f, s : <<f, s>> \in Places => Value(guest', f, s) = Value(guest, f, s)
    BY <2>1, SameFields DEF Same
  <2>3. snapshot' # NoSnapshot => snapshot # NoSnapshot /\ Same(snapshot'.cfg, snapshot.cfg)
    <3>1. CASE snapshot' = snapshot
      BY <3>1 DEF Same, Value, Of
    <3>2. CASE snapshot' # snapshot
      <4>1. /\ snapshot # NoSnapshot
            /\ \A f \in Fields \cup {"services"} : snapshot'.cfg[f] = snapshot.cfg[f]
        BY <1>6, <3>2, HostsOnly
      <4>2. LiveFields \cup {"memory"} \subseteq Fields
        BY DEF Fields, RestartFields
      <4> QED
        BY <4>1, <4>2, SameFields
    <3> QED
      BY <3>1, <3>2
  <2> QED
    BY <2>1, <2>2, <2>3, DifferStep
<1>7. CASE Record
  BY <1>7, RecordDiffers
<1>8. CASE RefreshGuestBundle \/ (DaemonRestart /\ vm = "running" /\ snapshot # NoSnapshot)
  <2>1. /\ guest' \in {Bundled(guest, snapshot.cfg), Exposed(guest, snapshot.cfg)}
        /\ UNCHANGED <<snapshot, vm>> /\ unsure \cup live \subseteq unsure' \cup live'
        /\ snapshot # NoSnapshot
    BY <1>8 DEF RefreshGuestBundle, DaemonRestart, request
  <2>2. guest \in Configurations /\ snapshot.cfg \in Configurations
    BY <2>1, CfgsAre DEF TypeOK
  <2>3. \A f, s : <<f, s>> \in Places =>
            Value(guest', f, s) \in {Value(guest, f, s), Value(snapshot.cfg, f, s)}
    BY <2>1, <2>2, BundledHas, ExposedHas, PlacesAre
    DEF Value, Fields, LiveFields, BundleFields, RestartFields, ServiceFields
  <2>4. Same(snapshot'.cfg, snapshot.cfg)
    BY <2>1 DEF Same, Value, Of
  <2> QED
    BY <2>1, <2>3, <2>4, DifferStep
<1>9. CASE \/ Diff \/ Fail \/ (DaemonRestart /\ ~(vm = "running" /\ snapshot # NoSnapshot))
           \/ Edit \/ Stop \/ Ask \/ ApplyIronProxyFails \/ UNCHANGED vars
  <2>1. unsure \cup live \subseteq unsure' \cup live'
    BY <1>9
    DEF Diff, Fail, DaemonRestart, Edit, Stop, Ask, ApplyIronProxyFails, vars, request, TypeOK,
        Unlocked
  <2>2. UNCHANGED <<snapshot, guest>> /\ (Kept' => Kept /\ (vm = "starting" => vm' = "starting"))
    BY <1>9 DEF Diff, Fail, DaemonRestart, Edit, Stop, Ask, ApplyIronProxyFails, vars
  <2> QED
    BY <2>1, <2>2, IdleDiffers
<1> QED
  BY <1>1, <1>2, <1>3, <1>4, <1>5, <1>6, <1>7, <1>8, <1>9 DEF Next

-----------------------------------------------------------------------------
(* The theorems.                                                           *)

\* What the handler of /vm/reconcile relies on between its stages: nobody else writes
\* the snapshot it diffed against, each stage that is over has put its part of the new
\* configuration in force, and the VM differs from its snapshot in nothing else.
THEOREM ReconcileInvariant ==
    ASSUME NoOverlap
    PROVE  Spec => []ReconcileInv
<1>1. Init => ReconcileInv
  BY ReconcileTypeInit
  DEF Init, ReconcileInv, LockInv, Unlocked, RenderedInv, StageInv, MissingInv, Kept, StartInv,
      Booting, DifferInv
<1>2. ReconcileInv /\ [Next]_vars => TypeOK'
  <2>1. TypeOK /\ UNCHANGED vars => TypeOK'
    BY DEF TypeOK, vars, request, Unlocked
  <2> QED
    BY <2>1, GuestsTyped, HandlersTyped DEF Next, ReconcileInv
<1>3. ReconcileInv /\ [Next]_vars => ReconcileInv'
  BY <1>2, LockStep, RenderedStep, StageStep, MissingStep, StartStep, DiffersStep
  DEF ReconcileInv
<1> QED
  BY <1>1, <1>3, PTL DEF Spec

\* What the snapshot says is applied the VM has, whatever order of edits, starts,
\* reconciles, failures and restarts led there (apply_live.go:73, reconcile.go:281).
THEOREM RecordedStaysInForce ==
    ASSUME NoOverlap
    PROVE  Spec => []RecordedIsInForce
<1>1. ReconcileInv => RecordedIsInForce
  BY DEF ReconcileInv, DifferInv, RecordedIsInForce, Settled, Kept, TypeOK
<1> QED
  BY <1>1, ReconcileInvariant, PTL

\* The diff of what was merged finds live only what a service that is gone leaves.
LEMMA MergeLeaves ==
    ASSUME NEW m, NEW old \in Configurations, NEW c \in Configurations, IsMerge(m, old, c)
    PROVE  LiveChanges(m, c) \subseteq LeftBehind(c)
<1>1. m \in Configurations
  BY DEF IsMerge
<1>2. ASSUME NEW d \in LiveChanges(m, c)
      PROVE  d \in LeftBehind(c)
  <2>1. d = <<d[1], d[2]>> /\ d[2] \in Services \cup {Project}
    BY <1>1, LiveAre
  <2>2. CASE d[2] = Project
    <3>1. d[1] \in Fields \cup {"network", "template"}
      BY <1>1, <2>1, <2>2, LiveAre
    <3>2. d[1] \notin Fields
      BY <1>1, <2>1, <2>2, LiveAre DEF IsMerge
    <3>3. d[1] # "network"
      BY <1>1, <2>1, <2>2, LiveAre DEF IsMerge
    <3> QED
      BY <2>1, <2>2, <3>1, <3>2, <3>3 DEF LeftBehind
  <2>3. CASE d[2] \in Services
    <3>1. d[1] \in ServiceFields
      BY <1>1, <2>1, <2>3, LiveAre
    <3>2. d[1] \notin {"env", "direct"}
      BY <1>1, <2>1, <2>3, LiveAre DEF IsMerge, ServiceFields
    <3>3. d[1] # "template"
      BY <1>1, <2>1, <2>3, LiveAre DEF IsMerge
    <3>4. d[1] \in {"unit", "port"} => c.services[d[2]] = Gone
      BY <1>1, <2>1, <2>3, LiveAre DEF IsMerge, ServiceFields
    <3> QED
      BY <2>1, <2>3, <3>1, <3>2, <3>3, <3>4 DEF LeftBehind, ServiceFields
  <2> QED
    BY <2>1, <2>2, <2>3
<1> QED
  BY <1>2

\* What a reconcile has applied does not come up again in the next one: diff.go and
\* mergeLiveApplied agree on the fields (diff.go, reconcile.go:394).
THEOREM AppliedStaysApplied ==
    ASSUME NoOverlap
    PROVE  Spec => AppliedIsNotPending
<1> DEFINE A == at = "record" /\ snapshot' # snapshot =>
                  {d \in ComputeAllChanges(snapshot'.cfg, new, snapshot'.templates) : Live(d)}
                      \subseteq LeftBehind(new)
<1>1. ReconcileInv /\ [Next]_vars => [A]_vars
  <2> SUFFICES ASSUME ReconcileInv, Next, at = "record", snapshot' # snapshot PROVE A
    OBVIOUS
  <2>1. vm = "running" /\ ~Unlocked
    BY DEF ReconcileInv, LockInv, Unlocked
  <2>2. Record
    BY <2>1
    DEF Next, Edit, StartVM, Provision, SeedFails, ProvisionFails, Stop, Destroy, Ask, Diff,
        ApplyPackages, PipeBundle, ApplySessions, ApplyNetwork, PushExposeMap, Fail,
        ApplyIronProxy, ApplyIronProxyFails, RefreshGuestBundle, DaemonRestart, Goes, Booting
  <2>3. IsMerge(Merged, CfgOf(base), new) /\ CfgOf(base) \in Configurations /\ new \in Configurations
    BY <2>1, RecordedHas, CfgsAre DEF ReconcileInv, TypeOK
  <2>4. snapshot'.cfg = Merged /\ snapshot'.templates = Rendered(Merged)
    BY <2>2 DEF Record
  <2> QED
    BY <2>3, <2>4, MergeLeaves DEF LiveChanges
<1> QED
  BY <1>1, ReconcileInvariant, PTL DEF Spec, AppliedIsNotPending
=============================================================================
