---------------------------- MODULE ApproveGate ----------------------------
(***************************************************************************)
(* The approve gate of one project: the configuration files that users,    *)
(* editors and the guest's sync change at any time, the approved snapshot  *)
(* that approve.Store writes file by file, the last proposal, the cached   *)
(* verdict, and the requests that read and write them: `devm approve`,     *)
(* /vm/approve, the gate of /vm/start and /vm/reconcile, propose, the      *)
(* watchdog's approve check, and the garbage collection of a starting      *)
(* daemon.  Only /vm/start holds the project's lock; the others take none. *)
(*                                                                         *)
(* A file's content stands for its hash.  A request reads the files on the *)
(* Mac in one step and the snapshot in another, and writes the snapshot in *)
(* one step per file: two writers that meet in one .tmp file are one that  *)
(* fails after the other.                                                  *)
(***************************************************************************)
EXTENDS Naturals, Sequences

CONSTANTS
    Texts,      \* contents of a file
    Absent,     \* no file: what HashFile calls "absent"
    Files,      \* the names a project may have, in the order all go through them
    Requests,   \* who asks the daemon; each waits for its answer
    Asks,       \* which requests each of them makes
    Faults      \* what happens of "write", "restart" and "collect"

Verbs == {"review", "start", "reconcile", "propose", "watch"}
Kinds == {"devm.yaml", "devm.me.yaml", "devm.sh", "devm.me.sh"}

ASSUME GateAssumption ==
    /\ Absent \notin Texts
    /\ Files \in Seq(Kinds) /\ Files # <<>> /\ Files[1] = "devm.yaml"
    /\ \A i, j \in DOMAIN Files : Files[i] = Files[j] => i = j
    /\ Asks \in [Requests -> SUBSET Verbs]

Names == {Files[i] : i \in DOMAIN Files}
Last == Len(Files)

VARIABLES
    disk,       \* the project's files on the Mac
    stored,     \* approved-snapshot/: its files ...
    manifest,   \* ... and whether manifest.json is among them
    proposal,   \* last-proposal.json is there
    row,        \* Diverged in the cache's row
    known,      \* the row has a MacCwd
    state,      \* the project has a state snapshot
    vm,         \* tart knows the project's VM
    daemon,     \* "serving", or "collecting" orphans before it serves
    verb,       \* what a request is doing ...
    at,         \* ... and where it is
    next,       \* the index in Files of what it writes next
    seen,       \* the files it has read
    differs,    \* requests that found some of them to differ from the snapshot
    expected,   \* the watchdog's copy of the row
    settled     \* bound: from here on nobody edits, and nothing fails

files == <<stored, manifest>>
cached == <<row, known>>
tracked == <<state, vm, daemon>>
local == <<verb, at, next, seen, differs, expected>>
vars == <<disk, files, proposal, cached, tracked, local, settled>>

Contents == Texts \cup {Absent}
Unread == [f \in Names |-> Absent]

Places == {"idle", "baseline", "copy", "write", "seal", "finish",
           "disk", "store", "answer", "prompt"}

TypeOK ==
    /\ disk \in [Names -> Contents] /\ stored \in [Names -> Contents]
    /\ manifest \in BOOLEAN /\ proposal \in BOOLEAN
    /\ row \in BOOLEAN /\ known \in BOOLEAN /\ state \in BOOLEAN /\ vm \in BOOLEAN
    /\ daemon \in {"serving", "collecting"}
    /\ verb \in [Requests -> Verbs \cup {"none", "approve"}]
    /\ at \in [Requests -> Places]
    /\ next \in [Requests -> 1 .. Last]
    /\ seen \in [Requests -> [Names -> Contents]]
    /\ differs \subseteq Requests
    /\ expected \in BOOLEAN /\ settled \in BOOLEAN

\* A project nobody has started, its files written.
Init ==
    /\ disk \in {d \in [Names -> Contents] : d["devm.yaml"] # Absent}
    /\ stored = Unread /\ manifest = FALSE /\ proposal = FALSE
    /\ row = FALSE /\ known = FALSE /\ state = FALSE /\ vm = FALSE
    /\ daemon = "serving" /\ settled = FALSE
    /\ verb = [r \in Requests |-> "none"] /\ at = [r \in Requests |-> "idle"]
    /\ next = [r \in Requests |-> 1] /\ seen = [r \in Requests |-> Unread]
    /\ differs = {} /\ expected = FALSE

-----------------------------------------------------------------------------
(* Moving along.                                                           *)

Goes(r, p) == at' = [at EXCEPT ![r] = p]

\* The request is answered and forgets.
Ends(r) ==
    /\ Goes(r, "idle")
    /\ verb' = [verb EXCEPT ![r] = "none"]
    /\ next' = [next EXCEPT ![r] = 1]
    /\ seen' = [seen EXCEPT ![r] = Unread]
    /\ differs' = differs \ {r}
    /\ expected' = IF verb[r] = "watch" THEN FALSE ELSE expected

-----------------------------------------------------------------------------
(* The requests arrive.                                                    *)

\* A request of r's that begins at p.
Takes(r, v, p) ==
    /\ daemon = "serving" /\ at[r] = "idle" /\ v \in Asks[r]
    /\ verb' = [verb EXCEPT ![r] = v] /\ Goes(r, p)
    /\ UNCHANGED <<disk, files, proposal, cached, state, daemon,
                   next, seen, differs, settled>>

\* `devm approve` asks for /vm/approve-state.
Reviews(r) == Takes(r, "review", "disk") /\ UNCHANGED <<vm, expected>>

\* The guest or the Mac signals that files have changed.
Proposes(r) == Takes(r, "propose", "disk") /\ UNCHANGED <<vm, expected>>

\* The watchdog's check of a project that has a snapshot and was started.
Watches(r) ==
    /\ state /\ known
    /\ Takes(r, "watch", "disk")
    /\ expected' = row /\ UNCHANGED vm

Reconciles(r) == Takes(r, "reconcile", "baseline") /\ UNCHANGED <<vm, expected>>

\* /vm/start has the project's lock and clones the VM before it asks the gate.
Starts(r) ==
    /\ \A q \in Requests : verb[q] # "start"
    /\ Takes(r, "start", "baseline")
    /\ vm' = TRUE /\ UNCHANGED expected

-----------------------------------------------------------------------------
(* approve.Store and its callers.                                          *)

\* Store.Read fails: the manifest is there and devm.yaml is not.
Unreadable == manifest /\ stored["devm.yaml"] = Absent

\* Mutant: what an interrupted Store.Write left is taken for a snapshot.
ReadsBaseline_Directory(r) ==
    /\ at[r] = "baseline"
    /\ Goes(r, IF stored # Unread THEN "disk" ELSE "copy")
    /\ UNCHANGED <<verb, next, seen, differs, expected>>
    /\ UNCHANGED <<disk, files, proposal, cached, tracked, settled>>

\* bootstrapApprovedSnapshotOnFirstRun looks for a snapshot.
ReadsBaseline(r) ==
    /\ at[r] = "baseline"
    /\ \/ Unreadable /\ Ends(r)
       \/ /\ ~Unreadable
          /\ Goes(r, IF manifest THEN "disk" ELSE "copy")
          /\ UNCHANGED <<verb, next, seen, differs, expected>>
    /\ UNCHANGED <<disk, files, proposal, cached, tracked, settled>>

\* Mutant: the manifest is written before the files.
Copies_SealsFirst(r) ==
    /\ at[r] = "copy" /\ manifest' = TRUE
    /\ seen' = [seen EXCEPT ![r] = disk] /\ Goes(r, "write")
    /\ UNCHANGED <<disk, stored, proposal, cached, tracked,
                   verb, next, differs, expected, settled>>

\* bootstrap and handleApprove read the files that they then store.
Copies(r) ==
    /\ at[r] = "copy"
    /\ seen' = [seen EXCEPT ![r] = disk] /\ Goes(r, "write")
    /\ UNCHANGED <<disk, files, proposal, cached, tracked, verb, next, differs, expected, settled>>

\* Mutant: a file that is gone stays in the snapshot.
WritesFile_Keeps(f, c) ==
    stored' = IF c = Absent THEN stored ELSE [stored EXCEPT ![f] = c]

\* writeAtomic, or writeOrRemove of a file that the Mac does not have.
WritesFile(f, c) == stored' = [stored EXCEPT ![f] = c]

\* Mutant: one file too many.
Advances_Beyond(r) ==
    IF next[r] <= Last
    THEN next' = [next EXCEPT ![r] = next[r] + 1] /\ UNCHANGED at
    ELSE next' = [next EXCEPT ![r] = 1] /\ Goes(r, "seal")

\* On to the next file, or to the manifest.
Advances(r) ==
    IF next[r] < Last
    THEN next' = [next EXCEPT ![r] = next[r] + 1] /\ UNCHANGED at
    ELSE next' = [next EXCEPT ![r] = 1] /\ Goes(r, "seal")

\* Store.Write, one file after the other ...
Writes(r) ==
    /\ at[r] = "write"
    /\ WritesFile(Files[next[r]], seen[r][Files[next[r]]])
    /\ Advances(r)
    /\ UNCHANGED <<disk, manifest, proposal, cached, tracked,
                   verb, seen, differs, expected, settled>>

\* ... and the manifest.
Seals(r) ==
    /\ at[r] = "seal"
    /\ manifest' = TRUE
    /\ Goes(r, IF verb[r] = "approve" THEN "finish" ELSE "disk")
    /\ seen' = [seen EXCEPT ![r] = Unread]
    /\ UNCHANGED <<disk, stored, proposal, cached, tracked,
                   verb, next, differs, expected, settled>>

\* A write fails and with it the request; what it has written stays.
WriteFails(r) ==
    /\ "write" \in Faults /\ ~settled
    /\ at[r] \in {"write", "seal"}
    /\ Ends(r)
    /\ UNCHANGED <<disk, files, proposal, cached, tracked, settled>>

\* handleApprove clears the proposal and says that nothing diverges.
Finishes(r) ==
    /\ at[r] = "finish"
    /\ proposal' = FALSE /\ row' = FALSE
    /\ Ends(r)
    /\ UNCHANGED <<disk, files, known, tracked, settled>>

-----------------------------------------------------------------------------
(* Comparing.                                                              *)

\* approveCheck hashes the two yaml files, the others hash all.
Looks(r, f) == verb[r] = "watch" => f \in {"devm.yaml", "devm.me.yaml"}

ReadsDisk(r) ==
    /\ at[r] = "disk"
    /\ seen' = [seen EXCEPT ![r] = disk] /\ Goes(r, "store")
    /\ UNCHANGED <<disk, files, proposal, cached, tracked, verb, next, differs, expected, settled>>

\* No snapshot, no approval; propose leaves out what is not on disk.
Differs(r, f) ==
    /\ Looks(r, f)
    /\ verb[r] = "propose" => seen[r][f] # Absent
    /\ ~manifest \/ stored[f] # seen[r][f]

\* Store.Read, and the comparison.
Compares(r) ==
    /\ at[r] = "store"
    /\ \/ Unreadable /\ Ends(r)
       \/ /\ ~Unreadable /\ Goes(r, "answer")
          /\ differs' = IF \E f \in Names : Differs(r, f) THEN differs \cup {r} ELSE differs
          /\ seen' = IF verb[r] = "review" THEN seen ELSE [seen EXCEPT ![r] = Unread]
          /\ UNCHANGED <<verb, next, expected>>
    /\ UNCHANGED <<disk, files, proposal, cached, tracked, settled>>

-----------------------------------------------------------------------------
(* Answers.                                                                *)

\* The reviewer sees the differences, and a prompt if there are any.
Shows(r) ==
    /\ verb[r] = "review" /\ at[r] = "answer"
    /\ \/ r \notin differs /\ Ends(r)
       \/ /\ r \in differs /\ Goes(r, "prompt")
          /\ UNCHANGED <<verb, next, seen, differs, expected>>
    /\ UNCHANGED <<disk, files, proposal, cached, tracked, settled>>

Declines(r) ==
    /\ at[r] = "prompt"
    /\ Ends(r)
    /\ UNCHANGED <<disk, files, proposal, cached, tracked, settled>>

\* POST /vm/approve.
Approves(r) ==
    /\ daemon = "serving" /\ at[r] = "prompt"
    /\ verb' = [verb EXCEPT ![r] = "approve"] /\ Goes(r, "copy")
    /\ seen' = [seen EXCEPT ![r] = Unread] /\ differs' = differs \ {r}
    /\ UNCHANGED <<disk, files, proposal, cached, tracked, next, expected, settled>>

\* The gate refuses with approve_required, or lets a reconcile through.
Gates(r) ==
    /\ at[r] = "answer"
    /\ \/ verb[r] \in {"start", "reconcile"} /\ r \in differs
       \/ verb[r] = "reconcile" /\ r \notin differs
    /\ Ends(r)
    /\ UNCHANGED <<disk, files, proposal, cached, tracked, settled>>

\* /vm/start gets through and ends well; devm shell seeds the state snapshot.
Started(r) ==
    /\ verb[r] = "start" /\ at[r] = "answer" /\ r \notin differs
    /\ known' = TRUE /\ state' = TRUE
    /\ Ends(r)
    /\ UNCHANGED <<disk, files, proposal, row, vm, daemon, settled>>

\* ... or ends badly: teardownVM destroys what was started.
StartFails(r) ==
    /\ verb[r] = "start" /\ at[r] = "answer" /\ r \notin differs /\ ~settled
    /\ vm' = FALSE /\ known' = FALSE /\ row' = FALSE
    /\ Ends(r)
    /\ UNCHANGED <<disk, files, proposal, state, daemon, settled>>

\* Nothing to review, or the kinds that differ.
Records(r) ==
    /\ verb[r] = "propose" /\ at[r] = "answer"
    /\ proposal' = (proposal \/ r \in differs)
    /\ Ends(r)
    /\ UNCHANGED <<disk, files, cached, tracked, settled>>

\* devm.yaml is invalid, or says guest.propose: false.
Rejects(r) ==
    /\ verb[r] = "propose" /\ at[r] = "store"
    /\ Ends(r)
    /\ UNCHANGED <<disk, files, proposal, cached, tracked, settled>>

\* Mutant: a difference once seen is kept.
Caches_Sticks(d) == row' = (row \/ d)

\* The check writes what it found, unless that is what the row said before.
Caches(d) == row' = d \/ (d = expected /\ UNCHANGED row)

Observes(r) ==
    /\ verb[r] = "watch" /\ at[r] = "answer"
    /\ Caches(r \in differs)
    /\ Ends(r)
    /\ UNCHANGED <<disk, files, proposal, known, tracked, settled>>

-----------------------------------------------------------------------------
(* The world, the daemon's restarts and its garbage collection.            *)

\* An editor or the guest's sync replaces or removes a file.
Edits(f) ==
    /\ ~settled
    /\ \E c \in Contents \ {disk[f]} :
          /\ f = "devm.yaml" => c # Absent
          /\ disk' = [disk EXCEPT ![f] = c]
    /\ UNCHANGED <<files, proposal, cached, tracked, local, settled>>

\* `devm teardown`, or a tart delete by hand, which leaves the state snapshot.
Destroys ==
    /\ vm /\ ~settled /\ \A r \in Requests : verb[r] # "start"
    /\ vm' = FALSE /\ known' = FALSE /\ row' = FALSE
    /\ state' \in {FALSE, state}
    /\ UNCHANGED <<disk, files, proposal, daemon, local, settled>>

\* A new daemon: all requests are cut off except prompts, which are the CLI's.  It
\* collects a project without a VM, the state snapshot first, or recalls MacCwd.
Restarts ==
    /\ ~settled /\ "restart" \in Faults
    /\ daemon = "serving" \/ "collect" \in Faults
    /\ row' = FALSE /\ known' \in {FALSE, state /\ vm}
    /\ \/ state /\ ~vm /\ daemon' = "collecting" /\ state' = FALSE
       \/ daemon' = "serving" /\ UNCHANGED state
    /\ LET stays(r) == at[r] = "prompt" IN
       /\ at' = [r \in Requests |-> IF stays(r) THEN at[r] ELSE "idle"]
       /\ verb' = [r \in Requests |-> IF stays(r) THEN verb[r] ELSE "none"]
       /\ next' = [r \in Requests |-> 1]
       /\ seen' = [r \in Requests |-> IF stays(r) THEN seen[r] ELSE Unread]
       /\ differs' = {r \in differs : stays(r)}
    /\ expected' = FALSE
    /\ UNCHANGED <<disk, files, proposal, vm, settled>>

\* removeOrphanedProjectArtifacts removes the proposal, then approved-snapshot/, its
\* files in the directory's order.
Collects ==
    /\ daemon = "collecting"
    /\ \/ /\ proposal /\ proposal' = FALSE
          /\ UNCHANGED files
       \/ /\ ~proposal /\ manifest /\ manifest' = FALSE
          /\ UNCHANGED <<stored, proposal>>
       \/ /\ ~proposal
          /\ \E f \in Names :
                stored[f] # Absent /\ stored' = [stored EXCEPT ![f] = Absent]
          /\ UNCHANGED <<manifest, proposal>>
    /\ UNCHANGED <<disk, cached, tracked, local, settled>>

\* Nothing is left to collect: adoption, and the daemon serves.
Collected ==
    /\ daemon = "collecting"
    /\ ~proposal /\ ~manifest /\ stored = Unread
    /\ daemon' = "serving"
    /\ UNCHANGED <<disk, files, proposal, cached, state, vm, local, settled>>

\* The files stay as they are from here on, and the daemon stays up.
Settles ==
    /\ ~settled /\ settled' = TRUE
    /\ UNCHANGED <<disk, files, proposal, cached, tracked, local>>

-----------------------------------------------------------------------------
(* The specification.                                                      *)

\* What the daemon does for r of its own accord, and what the CLI does at once.
Handles(r) ==
    \/ ReadsBaseline(r) \/ Copies(r) \/ Writes(r) \/ Seals(r) \/ Finishes(r)
    \/ ReadsDisk(r) \/ Compares(r)
    \/ Shows(r) \/ Gates(r) \/ Started(r) \/ Records(r) \/ Observes(r)

Next ==
    \/ \E r \in Requests :
          \/ Reviews(r) \/ Proposes(r) \/ Watches(r) \/ Reconciles(r) \/ Starts(r)
          \/ Handles(r)
          \/ Approves(r) \/ Declines(r)
          \/ WriteFails(r) \/ StartFails(r) \/ Rejects(r)
    \/ \E f \in Names : Edits(f)
    \/ Destroys \/ Restarts \/ Collects \/ Collected \/ Settles

Spec == Init /\ [][Next]_vars

Who(v) == {r \in Requests : v \in Asks[r]}

\* Handlers run, a starting daemon finishes, the watchdog ticks for ever, and there is
\* a reviewer who looks again and again, and does not decline for ever.
Fairness ==
    /\ \A r \in Requests : WF_vars(Handles(r))
    /\ \A r \in Who("watch") : SF_vars(Watches(r))
    /\ \A r \in Who("review") : WF_vars(Reviews(r)) /\ SF_vars(Approves(r))
    /\ WF_vars(Collects \/ Collected)

FairSpec == Spec /\ Fairness

-----------------------------------------------------------------------------
(* What must hold.                                                         *)

\* Store.Read fails for no reason but the disk (snapshot.go:54): while the daemon
\* serves, a snapshot with a manifest has a devm.yaml, whoever was cut off in
\* Store.Write and whoever writes beside whom.
SnapshotReadable == daemon = "serving" => ~Unreadable

\* A start or a reconcile whose bootstrap went well is not refused for want of a
\* baseline (serviceapi/reconcile.go:136).
GateHasBaseline ==
    \A r \in Requests :
        verb[r] \in {"start", "reconcile"} /\ at[r] \in {"disk", "store", "answer"}
        => manifest

\* The gate opens: a reviewer who goes on approving files that no longer change ends
\* with a snapshot of just these files, whatever half of an older approval is still
\* under way or was left behind (approve.go:215).
Approved == manifest /\ stored = disk

ApprovalTakes == settled ~> []Approved

\* The row that /status/all shows then says of the yaml files what is so.
YamlDiverged ==
    ~manifest \/ \E f \in Names \cap {"devm.yaml", "devm.me.yaml"} : stored[f] # disk[f]

RowSettles == settled ~> [](known /\ state => row = YamlDiverged)

-----------------------------------------------------------------------------
(* Expectations that do not hold: see the README.                          *)

\* What the approval stores is what the reviewer was shown (cmd/devm/approve.go:35).
StoresWhatWasShown ==
    [][\A r \in Requests : Approves(r) => disk = seen[r]]_vars

\* A baseline is written only if there is no snapshot yet (approve.go:272).
BaselineIsFirst ==
    [][\A r \in Requests : verb[r] # "approve" /\ Writes(r) => ~manifest]_vars

\* A proposal that is on file is about files still to be reviewed (last_proposal.go:3).
ProposalIsPending == settled ~> [](proposal => ~Approved)

\* The row says what the gate will say (state_cache.go:34).
RowIsTheGate == settled ~> [](known /\ state => row = ~Approved)
=============================================================================
