---------------------------- MODULE EgressPolicy ----------------------------
(***************************************************************************)
(* The daemon's egress policy: the PolicyAuthority that answers every      *)
(* request iron-proxy forwards (internal/serviceapi/policyauthority.go),   *)
(* the passthrough windows and their restore timers                        *)
(* (egress_passthrough.go, vm.go), the guest's pending requests            *)
(* (pending_passthrough.go, passthrough_request.go) and the /vm/ handlers  *)
(* that change any of them, each under its project's lock.                 *)
(*                                                                         *)
(* Time is relative: expiry[p] is what is left of p's window and left[t]   *)
(* what is left before timer t is due, and Tick takes one unit off both.   *)
(* A due timer fires at some later moment; its callback then queues for    *)
(* the project lock like any handler.  Timer identities stand for the      *)
(* pointers the callback compares: one is reused only when no timer, and   *)
(* no callback goroutine, has it any more.                                 *)
(*                                                                         *)
(* An allowlist is abstracted to the set of URLs it covers (what           *)
(* policymatch.Allowed says of them); a URL is the (host, path) pair that  *)
(* keys a denial row.                                                      *)
(***************************************************************************)
EXTENDS Naturals, FiniteSets

CONSTANTS
    Projects,   \* project names
    Urls,       \* the (host, path) pairs guests ask for
    Requests,   \* guest passthrough requests, one value per submission
    NoRequest,  \* no pending-passthrough.json
    Duration,   \* what a request asks for; 0 is a record an old gdevm left
    OpenFor,    \* the durations `devm passthrough open` is called with
    Timers,     \* bound: timers and callback goroutines alive at once
    NoTimer,    \* the project has no entry in egressPassthroughState
    Faults      \* the failures the environment may inject

FaultKinds == {"proxyStop", "cliKilled"}

ASSUME ConstantsAssumption ==
    /\ NoTimer \notin Timers
    /\ NoRequest \notin Requests
    /\ Duration \in [Requests -> Nat]
    /\ OpenFor \subseteq Nat \ {0}
    /\ Faults \subseteq FaultKinds

VARIABLES
    lock,       \* the project lock: "free", or the handler step holding it
    mode,       \* PolicyAuthority.modes
    allow,      \* PolicyAuthority.allow, as the URLs it covers
    serving,    \* PolicyAuthority.listeners has the project
    denials,    \* Denials.byProject: the rows, without their counts
    inflight,   \* requests inside TransformRequest, not yet decided
    window,     \* egressPassthroughState: the entry's restore timer
    expiry,     \* what is left until the entry's expiresAt
    armed,      \* timers the runtime will still fire
    fired,      \* timers whose callback goroutine waits for the lock
    owner,      \* the project a timer was armed for
    left,       \* what is left until an armed timer is due
    pending,    \* pending-passthrough.json
    read,       \* the request /vm/passthrough-approve read, until it clears
    booted,     \* softnetState has the project
    life,       \* "present" once started, "purged" by a teardown, "absent"
                \* before and when the CLI has removed its snapshot as well
    prov        \* a CLI is between begin- and end-provisioning

policyVars == <<mode, allow, serving, denials, inflight>>
timerVars == <<window, expiry, armed, fired, owner, left>>
requestVars == <<pending, read>>
hostVars == <<booted, life, prov>>
vars == <<lock, policyVars, timerVars, requestVars, hostVars>>

LockStates == {"free", "pushing", "approving", "stopping", "draining"}
Modes == {"restricted", "passthrough"}

TypeOK ==
    /\ lock \in [Projects -> LockStates]
    /\ mode \in [Projects -> Modes]
    /\ allow \in [Projects -> SUBSET Urls]
    /\ serving \in [Projects -> BOOLEAN]
    /\ denials \in [Projects -> SUBSET Urls]
    /\ inflight \in [Projects -> SUBSET Urls]
    /\ window \in [Projects -> Timers \cup {NoTimer}]
    /\ expiry \in [Projects -> Nat]
    /\ armed \subseteq Timers
    /\ fired \subseteq Timers
    /\ owner \in [Timers -> Projects]
    /\ left \in [Timers -> Nat]
    /\ pending \in [Projects -> Requests \cup {NoRequest}]
    /\ read \in [Projects -> Requests \cup {NoRequest}]
    /\ booted \in [Projects -> BOOLEAN]
    /\ life \in [Projects -> {"absent", "present", "purged"}]
    /\ prov \in [Projects -> BOOLEAN]

\* A fresh daemon on a machine whose state directory may already hold a
\* request, the one an old gdevm wrote without a duration included.
Init ==
    /\ lock = [p \in Projects |-> "free"]
    /\ mode = [p \in Projects |-> "restricted"]
    /\ allow = [p \in Projects |-> {}]
    /\ serving = [p \in Projects |-> FALSE]
    /\ denials = [p \in Projects |-> {}]
    /\ inflight = [p \in Projects |-> {}]
    /\ window = [p \in Projects |-> NoTimer]
    /\ expiry = [p \in Projects |-> 0]
    /\ armed = {}
    /\ fired = {}
    /\ owner \in [Timers -> Projects]
    /\ left = [t \in Timers |-> 0]
    /\ pending \in [Projects -> Requests \cup {NoRequest}]
    /\ read = [p \in Projects |-> NoRequest]
    /\ booted = [p \in Projects |-> FALSE]
    /\ life = [p \in Projects |-> "absent"]
    /\ prov = [p \in Projects |-> FALSE]

-----------------------------------------------------------------------------
(* The policy authority: every operation is atomic under its own mutex.    *)

\* Mutant: the recorded rows are not replayed.
SetAllowlist_NoReplay(p, list) ==
    /\ allow' = [allow EXCEPT ![p] = list]
    /\ UNCHANGED denials

\* SetAllowlist replays the recorded rows through the new list.
SetAllowlist(p, list) ==
    /\ allow' = [allow EXCEPT ![p] = list]
    /\ denials' = [denials EXCEPT ![p] = @ \ list]

SetMode(p, m) == mode' = [mode EXCEPT ![p] = m]

\* EnsureServing is idempotent; binding the socket may fail.
EnsureServing(p, ok) == serving' = [serving EXCEPT ![p] = @ \/ ok]

\* A request reaches the project's TransformService.
RequestArrives(p, u) ==
    /\ serving[p]
    /\ u \notin inflight[p]
    /\ inflight' = [inflight EXCEPT ![p] = @ \cup {u}]
    /\ UNCHANGED <<lock, mode, allow, serving, denials, timerVars,
                   requestVars, hostVars>>

\* Stopping the gRPC server cancels its handlers without waiting for them, so
\* a handler that was running may still come to decide() afterwards.
Decide(p, u) ==
    /\ u \in inflight[p]
    /\ inflight' = [inflight EXCEPT ![p] = @ \ {u}]
    /\ denials' = IF mode[p] = "passthrough" \/ u \in allow[p]
                  THEN denials
                  ELSE [denials EXCEPT ![p] = @ \cup {u}]
    /\ UNCHANGED <<lock, mode, allow, serving, timerVars, requestVars,
                   hostVars>>

-----------------------------------------------------------------------------
(* Passthrough windows and their timers.                                   *)

\* del: stop the entry's timer and drop the entry.
DropWindow(p) ==
    /\ window' = [window EXCEPT ![p] = NoTimer]
    /\ expiry' = [expiry EXCEPT ![p] = 0]
    /\ armed' = armed \ {window[p]}
    /\ UNCHANGED <<fired, owner, left>>

\* Mutant: the timer of the window being replaced keeps running.
OpenPassthroughWindow_OldTimerRuns(p, d) ==
    /\ SetMode(p, "passthrough")
    /\ \E t \in Timers \ (armed \cup fired) :
          /\ window' = [window EXCEPT ![p] = t]
          /\ armed' = armed \cup {t}
          /\ owner' = [owner EXCEPT ![t] = p]
          /\ left' = [left EXCEPT ![t] = d]
    /\ expiry' = [expiry EXCEPT ![p] = d]
    /\ UNCHANGED fired

\* put, then setTimer: the new timer stops and replaces the entry's old one.
OpenPassthroughWindow(p, d) ==
    /\ SetMode(p, "passthrough")
    /\ \E t \in Timers \ (armed \cup fired) :
          /\ window' = [window EXCEPT ![p] = t]
          /\ armed' = (armed \ {window[p]}) \cup {t}
          /\ owner' = [owner EXCEPT ![t] = p]
          /\ left' = [left EXCEPT ![t] = d]
    /\ expiry' = [expiry EXCEPT ![p] = d]
    /\ UNCHANGED fired

\* POST /vm/passthrough-egress
PassthroughEgress(p, d) ==
    /\ lock[p] = "free"
    /\ OpenPassthroughWindow(p, d)
    /\ UNCHANGED <<lock, allow, serving, denials, inflight, requestVars,
                   hostVars>>

\* Mutant: the entry goes, the mode stays.
RestrictEgress_ModeStays(p) ==
    /\ lock[p] = "free"
    /\ window[p] # NoTimer
    /\ DropWindow(p)
    /\ UNCHANGED <<lock, policyVars, requestVars, hostVars>>

\* POST /vm/restrict-egress: a no-op without a window.
RestrictEgress(p) ==
    /\ lock[p] = "free"
    /\ window[p] # NoTimer
    /\ SetMode(p, "restricted")
    /\ DropWindow(p)
    /\ UNCHANGED <<lock, allow, serving, denials, inflight, requestVars,
                   hostVars>>

Less(n) == IF n > 0 THEN n - 1 ELSE 0

\* Mutant: a due timer that has not fired yet counts on.
Tick_Overdue ==
    /\ armed # {}
    /\ left' = [t \in Timers |-> IF t \in armed THEN left[t] - 1 ELSE left[t]]
    /\ expiry' = [p \in Projects |-> Less(expiry[p])]
    /\ UNCHANGED <<lock, policyVars, window, armed, fired, owner, requestVars,
                   hostVars>>

Tick ==
    /\ \E t \in armed : left[t] > 0
    /\ left' = [t \in Timers |-> IF t \in armed THEN Less(left[t]) ELSE left[t]]
    /\ expiry' = [p \in Projects |-> Less(expiry[p])]
    /\ UNCHANGED <<lock, policyVars, window, armed, fired, owner, requestVars,
                   hostVars>>

\* time.AfterFunc starts the callback on its own goroutine.
TimerFires(t) ==
    /\ t \in armed
    /\ left[t] = 0
    /\ armed' = armed \ {t}
    /\ fired' = fired \cup {t}
    /\ UNCHANGED <<lock, policyVars, window, expiry, owner, left, requestVars,
                   hostVars>>

\* Mutant: the callback closes whatever window is open.
RestoreCallback_AnyWindow(t) ==
    LET p == owner[t] IN
    /\ t \in fired
    /\ lock[p] = "free"
    /\ fired' = fired \ {t}
    /\ IF window[p] # NoTimer
       THEN /\ SetMode(p, "restricted")
            /\ window' = [window EXCEPT ![p] = NoTimer]
            /\ expiry' = [expiry EXCEPT ![p] = 0]
            /\ armed' = armed \ {window[p]}
       ELSE UNCHANGED <<mode, window, expiry, armed>>
    /\ UNCHANGED <<lock, allow, serving, denials, inflight, owner, left,
                   requestVars, hostVars>>

\* Mutant: a callback that finds the lock taken gives up.
RestoreCallback_TryLock(t) ==
    LET p == owner[t] IN
    /\ t \in fired
    /\ fired' = fired \ {t}
    /\ IF window[p] = t /\ lock[p] = "free"
       THEN /\ SetMode(p, "restricted")
            /\ window' = [window EXCEPT ![p] = NoTimer]
            /\ expiry' = [expiry EXCEPT ![p] = 0]
       ELSE UNCHANGED <<mode, window, expiry>>
    /\ UNCHANGED <<lock, allow, serving, denials, inflight, armed, owner,
                   left, requestVars, hostVars>>

\* The callback got the lock.  It closes the window only if it still is the
\* one this timer was armed for.
RestoreCallback(t) ==
    LET p == owner[t] IN
    /\ t \in fired
    /\ lock[p] = "free"
    /\ fired' = fired \ {t}
    /\ IF window[p] = t
       THEN /\ SetMode(p, "restricted")
            /\ window' = [window EXCEPT ![p] = NoTimer]
            /\ expiry' = [expiry EXCEPT ![p] = 0]
            /\ armed' = armed \ {t}
       ELSE UNCHANGED <<mode, window, expiry, armed>>
    /\ UNCHANGED <<lock, allow, serving, denials, inflight, owner, left,
                   requestVars, hostVars>>

-----------------------------------------------------------------------------
(* The guest's requests.                                                   *)

\* POST /passthrough from the guest, not under the project lock: the newest
\* request replaces the one on disk.
PassthroughRequest(p, r) ==
    /\ booted[p]
    /\ Duration[r] > 0
    /\ pending' = [pending EXCEPT ![p] = r]
    /\ UNCHANGED <<lock, policyVars, timerVars, read, hostVars>>

\* POST /vm/passthrough-approve up to the open window ...
ApproveOpens(p) ==
    /\ lock[p] = "free"
    /\ pending[p] # NoRequest
    /\ Duration[pending[p]] > 0
    /\ lock' = [lock EXCEPT ![p] = "approving"]
    /\ read' = [read EXCEPT ![p] = pending[p]]
    /\ OpenPassthroughWindow(p, Duration[pending[p]])
    /\ UNCHANGED <<allow, serving, denials, inflight, pending, hostVars>>

\* ... and the removal of the file it read.
ApproveClears(p) ==
    /\ lock[p] = "approving"
    /\ lock' = [lock EXCEPT ![p] = "free"]
    /\ pending' = [pending EXCEPT ![p] = NoRequest]
    /\ read' = [read EXCEPT ![p] = NoRequest]
    /\ UNCHANGED <<policyVars, timerVars, hostVars>>

\* POST /vm/passthrough-deny
PassthroughDeny(p) ==
    /\ lock[p] = "free"
    /\ pending[p] # NoRequest
    /\ pending' = [pending EXCEPT ![p] = NoRequest]
    /\ UNCHANGED <<lock, policyVars, timerVars, read, hostVars>>

-----------------------------------------------------------------------------
(* Starting, provisioning and stopping a project, as far as they touch the *)
(* policy.                                                                 *)

\* POST /vm/start (and /vm/apply-iron-proxy on a running VM): softnetState is
\* put and SpawnIronProxy stands the policy up.
StartVM(p, list, ok) ==
    /\ lock[p] = "free"
    /\ SetAllowlist(p, list)
    /\ EnsureServing(p, ok)
    /\ booted' = [booted EXCEPT ![p] = TRUE]
    /\ life' = [life EXCEPT ![p] = "present"]
    /\ UNCHANGED <<lock, mode, inflight, timerVars, requestVars, prov>>

\* The watchdog respawns a missing iron-proxy, the VM running or not.
RespawnIronProxy(p, list, ok) ==
    /\ lock[p] = "free"
    /\ life[p] # "absent"
    /\ SetAllowlist(p, list)
    /\ EnsureServing(p, ok)
    /\ UNCHANGED <<lock, mode, inflight, timerVars, requestVars, hostVars>>

\* A network.allow edit that reconcile applies live.
ReconcileAllow(p, list) ==
    /\ lock[p] = "free"
    /\ booted[p]
    /\ SetAllowlist(p, list)
    /\ UNCHANGED <<lock, mode, serving, inflight, timerVars, requestVars,
                   hostVars>>

\* POST /vm/begin-provisioning: the mode flips before softnet is told.
BeginProvisioning(p) ==
    /\ lock[p] = "free"
    /\ booted[p]
    /\ SetMode(p, "passthrough")
    /\ lock' = [lock EXCEPT ![p] = "pushing"]
    /\ prov' = [prov EXCEPT ![p] = TRUE]
    /\ UNCHANGED <<allow, serving, denials, inflight, timerVars, requestVars,
                   booted, life>>

\* The push ends.  After a failed one the CLI still has to tear the VM down.
PushEnds(p) ==
    /\ lock[p] = "pushing"
    /\ lock' = [lock EXCEPT ![p] = "free"]
    /\ UNCHANGED <<policyVars, timerVars, requestVars, hostVars>>

\* POST /vm/end-provisioning: at the end of provisioning, and again on every
\* attach to a VM that is already provisioned (shell.go, warmAttach).
EndProvisioning(p) ==
    /\ lock[p] = "free"
    /\ SetMode(p, "restricted")
    /\ prov' = [prov EXCEPT ![p] = FALSE]
    /\ UNCHANGED <<lock, allow, serving, denials, inflight, timerVars,
                   requestVars, booted, life>>

\* The provisioning CLI dies between the two calls.
CliKilled(p) ==
    /\ "cliKilled" \in Faults
    /\ prov[p]
    /\ prov' = [prov EXCEPT ![p] = FALSE]
    /\ UNCHANGED <<lock, policyVars, timerVars, requestVars, booted, life>>

\* POST /vm/stop takes the lock, flushes mutagen and stops iron-proxy ...
StopBegins(p) ==
    /\ lock[p] = "free"
    /\ lock' = [lock EXCEPT ![p] = "stopping"]
    /\ UNCHANGED <<policyVars, timerVars, requestVars, hostVars>>

\* ... which may fail: 500, with only the deferred del run.
StopFails(p) ==
    /\ "proxyStop" \in Faults
    /\ lock[p] = "stopping"
    /\ lock' = [lock EXCEPT ![p] = "free"]
    /\ DropWindow(p)
    /\ prov' = [prov EXCEPT ![p] = FALSE]
    /\ UNCHANGED <<policyVars, requestVars, booted, life>>

\* A plain stop keeps the allowlist and the denials ...
StopServing(p) ==
    /\ lock[p] = "stopping"
    /\ lock' = [lock EXCEPT ![p] = "draining"]
    /\ serving' = [serving EXCEPT ![p] = FALSE]
    /\ SetMode(p, "restricted")
    /\ UNCHANGED <<allow, denials, inflight, timerVars, requestVars, hostVars>>

\* ... a teardown purges them.
PurgeProject(p) ==
    /\ lock[p] = "stopping"
    /\ lock' = [lock EXCEPT ![p] = "draining"]
    /\ serving' = [serving EXCEPT ![p] = FALSE]
    /\ SetMode(p, "restricted")
    /\ allow' = [allow EXCEPT ![p] = {}]
    /\ denials' = [denials EXCEPT ![p] = {}]
    /\ life' = [life EXCEPT ![p] = "purged"]
    /\ UNCHANGED <<inflight, timerVars, requestVars, booted, prov>>

\* The guest is off: softnetState.del, then the deferred del and the unlock.
StopEnds(p) ==
    /\ lock[p] = "draining"
    /\ lock' = [lock EXCEPT ![p] = "free"]
    /\ DropWindow(p)
    /\ booted' = [booted EXCEPT ![p] = FALSE]
    /\ prov' = [prov EXCEPT ![p] = FALSE]
    /\ UNCHANGED <<policyVars, requestVars, life>>

\* The CLI's teardown goes on to remove the project's snapshot.
RemoveStateCfg(p) ==
    /\ life[p] = "purged"
    /\ life' = [life EXCEPT ![p] = "absent"]
    /\ UNCHANGED <<lock, policyVars, timerVars, requestVars, booted, prov>>

\* The daemon dies and comes back: memory is gone, files stay.  Projects whose
\* iron-proxy survived are served again, restricted, with the allowlist of
\* their snapshot; projects whose softnet survived are rediscovered.
DaemonRestart ==
    \E adopted \in SUBSET {p \in Projects : life[p] # "absent"} :
    \E list \in [Projects -> SUBSET Urls], live \in [Projects -> BOOLEAN] :
    /\ lock' = [p \in Projects |-> "free"]
    /\ mode' = [p \in Projects |-> "restricted"]
    /\ allow' = [p \in Projects |-> IF p \in adopted THEN list[p] ELSE {}]
    /\ serving' = [p \in Projects |-> p \in adopted]
    /\ denials' = [p \in Projects |-> {}]
    /\ inflight' = [p \in Projects |-> {}]
    /\ window' = [p \in Projects |-> NoTimer]
    /\ expiry' = [p \in Projects |-> 0]
    /\ armed' = {}
    /\ fired' = {}
    /\ read' = [p \in Projects |-> NoRequest]
    /\ booted' = [p \in Projects |-> booted[p] /\ live[p]]
    /\ UNCHANGED <<owner, left, pending, life, prov>>

Handler(p) ==
    \/ \E d \in OpenFor : PassthroughEgress(p, d)
    \/ RestrictEgress(p)
    \/ \E r \in Requests : PassthroughRequest(p, r)
    \/ ApproveOpens(p) \/ ApproveClears(p) \/ PassthroughDeny(p)
    \/ \E list \in SUBSET Urls, ok \in BOOLEAN :
          StartVM(p, list, ok) \/ RespawnIronProxy(p, list, ok)
    \/ \E list \in SUBSET Urls : ReconcileAllow(p, list)
    \/ BeginProvisioning(p) \/ PushEnds(p) \/ EndProvisioning(p)
    \/ CliKilled(p)
    \/ StopBegins(p) \/ StopFails(p) \/ StopServing(p) \/ PurgeProject(p)
    \/ StopEnds(p) \/ RemoveStateCfg(p)
    \/ \E u \in Urls : RequestArrives(p, u) \/ Decide(p, u)

Next ==
    \/ \E p \in Projects : Handler(p)
    \/ \E t \in Timers : TimerFires(t) \/ RestoreCallback(t)
    \/ Tick
    \/ DaemonRestart

Spec == Init /\ [][Next]_vars

\* The runtime runs due timers, a goroutine queued for a Go mutex gets it (the
\* mutex hands over in FIFO order once a waiter starves), and every handler
\* that holds a project lock bounds each wait it makes.  Nobody has to call.
Fairness ==
    /\ WF_vars(Tick)
    /\ \A t \in Timers :
          /\ WF_vars(TimerFires(t))
          /\ SF_vars(RestoreCallback(t))
    /\ \A p \in Projects :
          /\ WF_vars(ApproveClears(p))
          /\ WF_vars(PushEnds(p))
          /\ WF_vars(StopServing(p) \/ PurgeProject(p) \/ StopFails(p))
          /\ WF_vars(StopEnds(p))

FairSpec == Spec /\ Fairness

-----------------------------------------------------------------------------
(* Properties.                                                             *)

\* Every open window has a restore on its way: a timer armed for its project
\* that is due exactly when the window is over, or that timer's callback,
\* waiting for the lock after the window's time ran out.  A window that lost
\* its timer would stay open for good (egress_passthrough.go).
WindowHasPendingRestore ==
    \A p \in Projects : window[p] # NoTimer =>
        /\ owner[window[p]] = p
        /\ \/ window[p] \in armed /\ left[window[p]] = expiry[p]
           \/ window[p] \in fired /\ expiry[p] = 0

\* A renewal, a close or a stop leaves no older timer running: a timer that
\* will still fire is the one of its project's window ("timers never leak or
\* double-fire", setTimer).
ArmedTimerIsTheWindows ==
    \A t \in armed : window[owner[t]] = t

\* So timers and windows belong together, both ways: no window is without its
\* timer and no timer without its window, through renewals, closes, stops and
\* callbacks that wait for the lock.
TimersMatchWindows == WindowHasPendingRestore /\ ArmedTimerIsTheWindows

\* A restore callback takes away only a window whose own time ran out, however
\* late it gets the lock and whatever was closed and reopened meanwhile.
RestoreOnlyExpired ==
    [][\A t \in Timers, p \in Projects :
          RestoreCallback(t) /\ window[p] # window'[p] => expiry[p] = 0]_vars

\* `devm denials` never shows a row the current allowlist would let through,
\* in whatever order requests are decided and the list is replaced.
DenialsAreUnresolved ==
    \A p \in Projects : denials[p] \cap allow[p] = {}

\* Egress is open under somebody's supervision only: a window's timer, or a CLI
\* that is provisioning.
Supervised(p) == mode[p] = "passthrough" => window[p] # NoTimer \/ prov[p]

\* Whatever opens egress answers for closing it, and nobody drops a window that
\* is in force or ends provisioning without restricting egress again: only a
\* /vm/stop that fails, or a CLI that is killed, leaves a project open for good.
OnlyFailuresLeaveOpen ==
    [][\A p \in Projects :
          Supervised(p) => Supervised(p)' \/ StopFails(p) \/ CliKilled(p)]_vars

\* Every window is over some day: its timer closes it, unless someone closes
\* or replaces it first.
WindowEnds ==
    \A p \in Projects, t \in Timers : window[p] = t ~> window[p] # t

-----------------------------------------------------------------------------
(* What comments in the code say, and its behaviour does not keep.         *)

\* Outside a handler, an open window is in force: what `devm status` calls
\* passthrough is what the authority applies, until the timer, a close or a
\* stop ends it.
WindowIsInForce ==
    \A p \in Projects :
        window[p] # NoTimer /\ lock[p] = "free" => mode[p] = "passthrough"

\* A teardown leaves no denial row for the next project of that name.
PurgedProjectHasNoDenials ==
    \A p \in Projects : life[p] # "present" => denials[p] = {}

\* A submitted request leaves the disk only by being read: approved with its
\* own duration, or denied.
OnlyReadRequestsAreCleared ==
    [][\A p \in Projects :
          ApproveClears(p) => pending[p] = read[p]]_vars
=============================================================================
