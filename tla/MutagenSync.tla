---------------------------- MODULE MutagenSync ----------------------------
(***************************************************************************)
(* One volume or repo of a project between the guest's directory and its   *)
(* mirror on the Mac: the mutagen sessions a cold start sets up, a stop    *)
(* pauses, a destroy terminates, and a live reconcile moves, renames and   *)
(* recreates step by step, while both sides are written.                   *)
(*                                                                         *)
(* Of a directory there is the version it holds, 0 when it is empty. A     *)
(* session is keyed by its label; a sync cycle is mutagen's two-way merge  *)
(* over the version both sides last had in common.                         *)
(***************************************************************************)
EXTENDS Naturals, Sequences

CONSTANTS
    Labels, Paths,          \* names of mirrors, directories in the guest
    Plans,                  \* sets of declarations that are edited into one another
    Undeclared, NoSession, Gone,
    DirBytes,               \* what du -sb counts for a directory
    Faults,                 \* what happens of "fail", "recover", "pending"
    MaxWrites, MaxEdits     \* bounds: versions written, edits and faults

Declarations == UNION Plans
Declared == Declarations \ {Undeclared}

Versions == 0..MaxWrites
Sessions == [path : Paths, ignore : {d.ignore : d \in Declared},
             paused : BOOLEAN, base : Versions]

ASSUME SyncAssumption ==
    /\ DirBytes \in Nat /\ MaxWrites \in Nat \ {0} /\ MaxEdits \in Nat
    /\ Gone \notin Versions /\ NoSession \notin Sessions
    /\ \A plan \in Plans : Undeclared \in plan
    /\ \A d \in Declared :
        /\ d.kind \in {"volume", "repo"} /\ d.label \in Labels /\ d.path \in Paths
        /\ d.mirrored \in BOOLEAN
        /\ d.kind = "volume" => d.mirrored

VARIABLES
    files,      \* the declaration in devm.yaml
    applied,    \* the one in the state snapshot
    vm,         \* "stopped" or "running"
    guest,      \* what each guest directory holds
    mirror,     \* what each mirror holds
    session,    \* per label its session: [path, ignore, paused, base]
    op,         \* what the daemon is at: "none", "reconcile", "start", "fresh"
    todo,       \* its steps
    target,     \* the declaration it applies
    writes,     \* the newest version
    edits

syncVars == <<files, applied, vm, guest, mirror, session, op, todo, target, writes, edits>>
work == <<op, todo, target>>
sides == <<guest, mirror>>

Remote == 1     \* what the repo's URL has: older than what anyone writes
Populated(side) == side \notin {0, Gone}
NoGuest == \A p \in Paths : guest[p] = Gone
Nothing == [l \in Labels |-> NoSession]
Active(l) == session[l] # NoSession /\ ~session[l].paused

-----------------------------------------------------------------------------
(* A sync cycle: external, as devm relies on it.                           *)

Now == [guest |-> guest, mirror |-> mirror, session |-> session]

\* Halted: the root of one side emptied or deleted since the last cycle.
Flushes(l, now) ==
    LET s == now.session[l] IN
    /\ s # NoSession /\ ~s.paused
    /\ s.base = 0 \/ (Populated(now.mirror[l]) <=> Populated(now.guest[s.path]))

\* The Mac's side wins where both changed (two-way-resolved).
Merged(s, m, g) ==
    IF ~Populated(m) THEN (IF Populated(g) THEN g ELSE 0)
    ELSE IF ~Populated(g) \/ m # s.base \/ g = s.base THEN m ELSE g

\* A session's cycle, when it is neither paused nor halted.
Cycled(l, now) ==
    LET s == now.session[l]
        merged == Merged(s, now.mirror[l], now.guest[s.path])
    IN IF Flushes(l, now)
       THEN [guest |-> [now.guest EXCEPT ![s.path] = merged],
             mirror |-> [now.mirror EXCEPT ![l] = merged],
             session |-> [now.session EXCEPT ![l].base = merged]]
       ELSE now

-----------------------------------------------------------------------------
(* What a change is made of, step after step.                              *)

Steps ==
    ({"setup", "resume", "clone", "clone only"} \X Declared)
    \cup ({"terminate", "remove", "remove empty"} \X Labels)
    \cup ({"move"} \X Paths \X Paths) \cup ({"rename"} \X Labels \X Labels)
    \cup {<<"flush">>}

SetUp(d) == <<<<"setup", d>>, <<"clone", d>>>>

Added(d) == IF d.mirrored THEN SetUp(d) ELSE <<<<"clone only", d>>>>
Removed(d) == IF d.mirrored THEN <<<<"terminate", d.label>>, <<"remove empty", d.label>>>> ELSE <<>>

If(condition, steps) == IF condition THEN steps ELSE <<>>

\* One change per field that differs, each with the same before and after.
VolumeChanges(b, a) ==
    If(b.path # a.path,
       <<<<"terminate", b.label>>, <<"move", b.path, a.path>>>> \o SetUp(a))
    \o If(b.label # a.label,
          <<<<"terminate", b.label>>, <<"rename", b.label, a.label>>>> \o SetUp(a))
    \o If(b.ignore # a.ignore, <<<<"terminate", a.label>>>> \o SetUp(a))

RepoChanges(b, a) ==
    If(b.label # a.label,
       If(b.mirrored, <<<<"terminate", b.label>>>>)
       \o <<<<"move", b.path, a.path>>>>
       \o If(a.mirrored, <<<<"rename", b.label, a.label>>>> \o SetUp(a)))
    \o If(b.mirrored # a.mirrored,
          IF a.mirrored THEN SetUp(a)
          ELSE <<<<"terminate", a.label>>, <<"remove", a.label>>>>)
    \o If(b.ignore # a.ignore /\ a.mirrored, <<<<"terminate", a.label>>>> \o SetUp(a))

\* Volumes come before repos.
Changes(b, a) ==
    IF b = Undeclared THEN If(a # Undeclared, Added(a))
    ELSE IF a = Undeclared THEN Removed(b)
    ELSE IF a.kind # b.kind
         THEN IF b.kind = "volume" THEN Removed(b) \o Added(a) ELSE Added(a) \o Removed(b)
    ELSE IF a.kind = "volume" THEN VolumeChanges(b, a) ELSE RepoChanges(b, a)

\* SetupVolumesPhase, SetupReposPhase and FlushAll of a cold start.
ColdStart(d) ==
    IF d = Undeclared THEN <<<<"flush">>>>
    ELSE IF d.mirrored THEN <<<<"resume", d>>, <<"clone", d>>, <<"flush">>>>
    ELSE <<<<"clone only", d>>, <<"flush">>>>

-----------------------------------------------------------------------------
SyncInit ==
    /\ files \in Declarations
    /\ applied = Undeclared
    /\ vm = "stopped"
    /\ guest = [p \in Paths |-> Gone]
    /\ mirror = [l \in Labels |-> Gone]
    /\ session = Nothing
    /\ op = "none" /\ todo = <<>> /\ target = Undeclared
    /\ writes = Remote /\ edits = 0

Idle == op = "none"
Edited == edits < MaxEdits /\ edits' = edits + 1

Edit ==
    /\ Idle /\ Edited
    /\ (vm = "running" /\ files = applied) \/ NoGuest \/ "pending" \in Faults
    /\ \E plan \in Plans : applied \in plan /\ files' \in plan \ {files}
    /\ UNCHANGED <<applied, vm, sides, session, work, writes>>

\* No one writes to one side of a session while the other is ahead.
Synced(p) ==
    \A l \in Labels : session[l] # NoSession /\ session[l].path = p
                          => mirror[l] \in {session[l].base, Gone}

GuestWrite(p) ==
    /\ vm = "running" /\ guest[p] # Gone /\ writes < MaxWrites
    /\ Synced(p)
    /\ writes' = writes + 1
    /\ guest' = [guest EXCEPT ![p] = writes + 1]
    /\ UNCHANGED <<files, applied, vm, mirror, session, work, edits>>

MacWrite(l) ==
    /\ mirror[l] # Gone /\ writes < MaxWrites
    /\ session[l] # NoSession =>
            Synced(session[l].path) /\ guest[session[l].path] \in {session[l].base, Gone}
    /\ writes' = writes + 1
    /\ mirror' = [mirror EXCEPT ![l] = writes + 1]
    /\ UNCHANGED <<files, applied, vm, guest, session, work, edits>>

Cycle(l) ==
    /\ vm = "running" /\ Flushes(l, Now)
    /\ guest' = Cycled(l, Now).guest /\ mirror' = Cycled(l, Now).mirror
    /\ session' = Cycled(l, Now).session
    /\ UNCHANGED <<files, applied, vm, work, writes, edits>>

-----------------------------------------------------------------------------
(* The steps.                                                              *)

Step(name) == vm = "running" /\ todo # <<>> /\ Head(todo)[1] = name
Done == todo' = Tail(todo) /\ UNCHANGED <<files, applied, vm, op, target, edits>>

Made(side, at) == [side EXCEPT ![at] = IF @ = Gone THEN 0 ELSE @]

\* terminateSessionIfExists: flush, then terminate; mutagen refuses to flush
\* a session that is paused or halted.
Terminate ==
    /\ Step("terminate")
    /\ LET l == Head(todo)[2] IN
       /\ session[l] # NoSession => Flushes(l, Now)
       /\ guest' = Cycled(l, Now).guest /\ mirror' = Cycled(l, Now).mirror
       /\ session' = [session EXCEPT ![l] = NoSession]
    /\ Done /\ UNCHANGED writes

\* Mutant: what the new path held is removed first.
Move_Over ==
    /\ Step("move")
    /\ guest' = [guest EXCEPT ![Head(todo)[2]] = Gone, ![Head(todo)[3]] = guest[Head(todo)[2]]]
    /\ Done /\ UNCHANGED <<mirror, session, writes>>

\* mv; into a directory that is there the old one is nested.
Move ==
    /\ Step("move")
    /\ LET from == Head(todo)[2]
           to == Head(todo)[3]
       IN /\ guest[from] # Gone
          /\ guest' = [guest EXCEPT ![from] = Gone,
                                    ![to] = IF @ = Gone THEN guest[from] ELSE @]
    /\ Done /\ UNCHANGED <<mirror, session, writes>>

\* os.Rename of the mirror, made if it is missing, onto none or an empty one.
Rename ==
    /\ Step("rename")
    /\ LET from == Head(todo)[2]
           to == Head(todo)[3]
       IN /\ ~Populated(mirror[to])
          /\ mirror' = [mirror EXCEPT ![from] = Gone, ![to] = Made(mirror, from)[from]]
    /\ Done /\ UNCHANGED <<guest, session, writes>>

\* Mutant: the directories' own bytes are left out, as on the Mac.
GuardOK_SameSize(d) == TRUE

\* GuardCheck: one side empty, or equal counts, sizes and path hash, which the
\* versions share; the guest's du counts directories, the Mac's walk does not.
GuardOK(d) == ~Populated(mirror[d.label]) \/ ~Populated(guest[d.path]) \/ DirBytes = 0

Created(d) == [path |-> d.path, ignore |-> d.ignore, paused |-> FALSE, base |-> 0]

\* setupSingleSession: both directories are made, the guard is asked, then a
\* session that exists is left as it is: no status is ever "paused".
Setup ==
    /\ Step("setup")
    /\ LET d == Head(todo)[2] IN
       /\ GuardOK(d)
       /\ guest' = Made(guest, d.path) /\ mirror' = Made(mirror, d.label)
       /\ session' = [session EXCEPT ![d.label] = IF @ = NoSession THEN Created(d) ELSE @]
    /\ Done /\ UNCHANGED writes

\* SetupVolumesPhase: a session of that label is resumed, whatever its path
\* and ignores; the guard is asked only before one is created.
Resume ==
    /\ Step("resume")
    /\ LET d == Head(todo)[2] IN
       /\ session[d.label] = NoSession => GuardOK(d)
       /\ guest' = Made(guest, d.path) /\ mirror' = Made(mirror, d.label)
       /\ session' = [session EXCEPT ![d.label] =
                        IF @ = NoSession THEN Created(d) ELSE [@ EXCEPT !.paused = FALSE]]
    /\ Done /\ UNCHANGED writes

\* cloneOneRepoIfEmpty, and coldStartCloneOnly without a mirror.
Clone ==
    /\ Step("clone") \/ Step("clone only")
    /\ LET d == Head(todo)[2]
           mirrored == Head(todo)[1] = "clone"
           clones == /\ d.kind = "repo" /\ ~Populated(guest[d.path])
                     /\ mirrored => ~Populated(mirror[d.label])
       IN /\ guest' = IF clones THEN [guest EXCEPT ![d.path] = Remote]
                      ELSE IF mirrored THEN guest ELSE Made(guest, d.path)
          /\ mirror' = IF mirrored /\ d.kind = "repo" THEN Made(mirror, d.label) ELSE mirror
    /\ Done /\ UNCHANGED <<session, writes>>

\* removeMirrorIfEmpty; os.RemoveAll when a repo's mirror is switched off.
RemoveMirror ==
    /\ Step("remove empty") \/ Step("remove")
    /\ LET l == Head(todo)[2] IN
       mirror' = IF Head(todo)[1] = "remove" \/ ~Populated(mirror[l])
                 THEN [mirror EXCEPT ![l] = Gone] ELSE mirror
    /\ Done /\ UNCHANGED <<guest, session, writes>>

\* Over when every session that is not paused has completed its Cycle.
FlushAll ==
    /\ Step("flush")
    /\ \A l \in Labels : Active(l) => Flushes(l, Now) /\ Cycled(l, Now) = Now
    /\ Done /\ UNCHANGED <<sides, session, writes>>

\* What makes a step fail, other than chance.
Refused ==
    LET s == Head(todo) IN
    \/ s[1] = "terminate" /\ session[s[2]] # NoSession /\ ~Flushes(s[2], Now)
    \/ s[1] = "move" /\ guest[s[2]] = Gone
    \/ s[1] = "rename" /\ Populated(mirror[s[3]])
    \/ s[1] = "setup" /\ ~GuardOK(s[2])
    \/ s[1] = "resume" /\ session[s[2].label] = NoSession /\ ~GuardOK(s[2])
    \/ s[1] = "flush" /\ \E l \in Labels : Active(l) /\ ~Flushes(l, Now)

-----------------------------------------------------------------------------
(* The daemon's operations.                                                *)

StartVM ==
    /\ Idle /\ vm = "stopped"
    /\ vm' = "running"
    /\ op' = IF NoGuest THEN "fresh" ELSE "start"
    /\ target' = files /\ todo' = ColdStart(files)
    /\ UNCHANGED <<files, applied, sides, session, writes, edits>>

Reconcile ==
    /\ Idle /\ vm = "running" /\ files # applied
    /\ op' = "reconcile" /\ target' = files /\ todo' = Changes(applied, files)
    /\ UNCHANGED <<files, applied, vm, sides, session, writes, edits>>

\* The snapshot is seeded, or the live changes are merged into it.
Finish ==
    /\ op # "none" /\ todo = <<>> /\ vm = "running"
    /\ applied' = target
    /\ op' = "none" /\ target' = Undeclared
    /\ UNCHANGED <<files, vm, sides, session, todo, writes, edits>>

\* The VM and its disk go; the flush before is a Cycle per session, or fails.
Destroyed ==
    /\ guest' = [p \in Paths |-> Gone]
    /\ vm' = "stopped"
    /\ UNCHANGED mirror

\* Mutant: the teardown terminates the sessions that run and keeps the paused.
Terminated_Active == [l \in Labels |-> IF Active(l) THEN NoSession ELSE session[l]]

\* TeardownPhase.
Terminated == Nothing

\* Mutant: the failed operation's steps stay.
StepFails_KeepsSteps ==
    /\ op = "reconcile" /\ todo # <<>> /\ Refused
    /\ op' = "none" /\ target' = Undeclared
    /\ UNCHANGED <<files, applied, vm, sides, session, todo, writes, edits>>

\* A step fails: a reconcile stops where it is, the snapshot as it was; a
\* start tears the VM down with its sessions.
StepFails ==
    /\ op # "none" /\ todo # <<>>
    /\ \/ Refused /\ UNCHANGED edits
       \/ "fail" \in Faults /\ Edited
    /\ op' = "none" /\ todo' = <<>> /\ target' = Undeclared
    /\ IF op = "reconcile"
       THEN UNCHANGED <<vm, sides, session>>
       ELSE Destroyed /\ session' = Terminated
    /\ UNCHANGED <<files, applied, writes>>

Paused == [l \in Labels |->
            IF session[l] = NoSession THEN NoSession ELSE [session[l] EXCEPT !.paused = TRUE]]

\* StopPhase pauses, then the guest powers off; its flush is a Cycle per
\* session, or fails and is logged.
Stop ==
    /\ Idle /\ vm = "running"
    /\ files = applied \/ "pending" \in Faults
    /\ vm' = "stopped"
    /\ session' = Paused
    /\ UNCHANGED <<files, applied, sides, work, writes, edits>>

\* devm stop --destroy; teardownVM of a VM whose provisioning was interrupted,
\* which leaves the sessions paused and the snapshot as it is.
Destroy ==
    /\ Idle
    /\ \E how \in {"destroy"} \cup (Faults \cap {"recover"}) :
        /\ how = "recover" => vm = "running"
        /\ session' = IF how = "destroy" THEN Terminated ELSE Paused
        /\ applied' = IF how = "destroy" THEN Undeclared ELSE applied
    /\ Destroyed
    /\ UNCHANGED <<files, work, writes, edits>>

SyncNext ==
    \/ Edit \/ \E p \in Paths : GuestWrite(p)
    \/ \E l \in Labels : MacWrite(l) \/ Cycle(l)
    \/ Terminate \/ Move \/ Rename \/ Setup \/ Resume \/ Clone \/ RemoveMirror \/ FlushAll
    \/ StartVM \/ Reconcile \/ Finish \/ StepFails \/ Stop \/ Destroy

SyncSpec == SyncInit /\ [][SyncNext]_syncVars

-----------------------------------------------------------------------------
(* Properties.                                                             *)

\* The sessions the declaration d asks for.
AsDeclared(d) ==
    d # Undeclared /\ d.mirrored =>
        /\ session[d.label] # NoSession
        /\ [session[d.label] EXCEPT !.base = 0] = Created(d)

\* Types; the steps belong to an operation.
SyncTypeOK ==
    /\ files \in Declarations /\ applied \in Declarations /\ target \in Declarations
    /\ vm \in {"stopped", "running"}
    /\ guest \in [Paths -> Versions \cup {Gone}]
    /\ mirror \in [Labels -> Versions \cup {Gone}]
    /\ session \in [Labels -> Sessions \cup {NoSession}]
    /\ op \in {"none", "reconcile", "start", "fresh"}
    /\ todo \in Seq(Steps)
    /\ op = "none" => todo = <<>>
    /\ writes \in Versions /\ edits \in 0..MaxEdits

\* Neither side's content is ever replaced by an older one: not when a
\* directory is moved or a mirror renamed, not when a session is created or an
\* old one resumed (mutagen_guard.go: the guard protects a fresh session "from
\* silently destroying content").
OldNeverWins ==
    [][/\ \A p \in Paths : Populated(guest[p]) /\ Populated(guest'[p]) => guest'[p] >= guest[p]
       /\ \A l \in Labels : Populated(mirror[l]) /\ Populated(mirror'[l])
                                => mirror'[l] >= mirror[l]]_syncVars

Nests(p) == Step("move") /\ Head(todo)[2] = p /\ guest[Head(todo)[3]] # Gone

\* A live change and a start leave what a guest directory holds in some guest
\* directory of the entity, unless a newer version replaced it: whatever fails
\* on the way, however far a move, a rename or a switch of the mirror got.
\* What mv takes to a directory that is there already is nested below it.
GuestKeepsContent ==
    [][vm = "running" /\ vm' = "running" =>
            \A p \in Paths : Populated(guest[p]) /\ ~Nests(p) =>
                \E q \in Paths : Populated(guest'[q]) /\ guest'[q] >= guest[p]]_syncVars

\* A cold start after the sessions and the disk are gone, by a destroy or by
\* a teardown that followed a failure, syncs what devm.yaml declares.
FreshIsAsDeclared == [][op = "fresh" /\ applied' # applied => AsDeclared(applied)']_syncVars

-----------------------------------------------------------------------------
(* Expectations that do not hold; the README says of each what TLC finds.  *)

\* What was applied is synced.
AppliedIsSynced == Idle /\ vm = "running" => AsDeclared(applied)

\* apply_live.go: after a change of path, label or ignore "re-run the setup".
LiveChangeSucceeds == op = "reconcile" /\ todo # <<>> => ~Refused

\* "MUST key off Paused, not Status" (mutagen/cli.go).
AddedIsNotPaused ==
    Idle /\ vm = "running" /\ applied # Undeclared /\ applied.mirrored
        => (session[applied.label] # NoSession => ~session[applied.label].paused)

\* No two running sessions sync one guest directory: a session whose entity
\* was never recorded, its setup having failed later, is not looked for.
OneSessionPerPlace ==
    \A l, m \in Labels : l # m /\ Active(l) /\ Active(m) => session[l].path # session[m].path

\* What was written on the Mac is somewhere still.
MacWritesSurvive ==
    [][\A l \in Labels : Populated(mirror[l]) =>
            \/ \E m \in Labels : Populated(mirror'[m]) /\ mirror'[m] >= mirror[l]
            \/ \E p \in Paths : Populated(guest'[p]) /\ guest'[p] >= mirror[l]]_syncVars
=============================================================================
