------------------------ MODULE MutagenSyncInvariant ------------------------
(***************************************************************************)
(* What holds at every step of a volume's or repo's sync, by which         *)
(* SupervisorProofs shows that no content is lost: the sessions there are, *)
(* how far the two sides of each are apart, and the stages of a live       *)
(* change, of which every step finds the one before it done.               *)
(***************************************************************************)
EXTENDS MutagenSync

\* What devm.yaml says of an entity changes one thing at a time: not a
\* volume's label and path at once, nor what is a volume to a repo; a repo's
\* path is made of its label.
ChangesOneAtATime ==
    \A plan \in Plans : \A b, a \in plan \ {Undeclared} :
        /\ b.kind = a.kind
        /\ b.kind = "volume" => b.label = a.label \/ b.path = a.path
        /\ b.kind = "repo" => (b.label = a.label <=> b.path = a.path)

\* The guest's du counts directories; no edit comes between an edit and its
\* reconcile or while the VM is stopped, and no disk goes without its sessions.
Undisturbed ==
    /\ ChangesOneAtATime
    /\ DirBytes # 0
    /\ "pending" \notin Faults /\ "recover" \notin Faults

HasSession(l) == session[l] # NoSession
Mirrors(d, l) == d # Undeclared /\ d.mirrored /\ d.label = l

\* The two declarations are one plan's, and an operation applies the later.
PlanInv ==
    /\ \E plan \in Plans : applied \in plan /\ files \in plan
    /\ op # "none" => target = files /\ vm = "running"

\* The label of a repo or volume that was relabelled is no longer in use.
LeftBehind(b, a) ==
    b # Undeclared /\ a # Undeclared /\ b.label # a.label =>
        IF b.kind = "volume" THEN mirror[b.label] = Gone ELSE guest[b.path] = Gone

\* At most one session, which is the applied declaration's or the file's; one
\* of a new label is there only when nothing is left under the old.
WhereInv ==
    /\ \A l \in Labels : HasSession(l) => Mirrors(applied, l) \/ Mirrors(files, l)
    /\ \A l, m \in Labels : HasSession(l) /\ HasSession(m) => l = m
    /\ vm = "stopped" => files = applied \/ session = Nothing
    /\ op \in {"start", "fresh"} => \A l \in Labels : HasSession(l) => Mirrors(files, l)

LeftInv ==
    op \in {"none", "reconcile"} /\ applied # Undeclared /\ files # Undeclared
        /\ applied.label # files.label /\ HasSession(files.label) =>
            LeftBehind(applied, files) /\ session[files.label].path = files.path

\* Of a session's two sides at most one is ahead of what they last shared.
InStep(l) ==
    LET s == session[l]
        m == mirror[l]
        g == guest[s.path]
    IN /\ Populated(s.base) => Populated(m) /\ Populated(g)
       /\ Populated(m) => m >= s.base
       /\ Populated(g) => g >= s.base
       /\ ~Populated(m) \/ m = s.base \/ ~Populated(g) \/ g = s.base

SideInv ==
    /\ \A l \in Labels : HasSession(l) => InStep(l) /\ session[l].base <= writes
    /\ \A l \in Labels : mirror[l] # Gone => mirror[l] <= writes
    /\ \A p \in Paths : guest[p] # Gone => guest[p] <= writes
    /\ Remote <= writes

\* The steps q that a reconcile from b to a may have left.
StartsWith(q, s) == q # <<>> /\ Head(q) = s

LastSteps(b, a) ==
    IF a = Undeclared THEN {}
    ELSE IF a.mirrored THEN {<<"terminate", a.label>>, <<"setup", a>>, <<"clone", a>>}
    ELSE IF b = Undeclared THEN {<<"clone only", a>>} ELSE {}

ToSetUp(q, b, a) == q \in Seq(LastSteps(b, a))

ToRename(q, b, a) ==
    /\ b # Undeclared /\ a # Undeclared /\ a.mirrored /\ b.label # a.label
    /\ StartsWith(q, <<"rename", b.label, a.label>>) /\ ToSetUp(Tail(q), b, a)

ToRemove(q, b, a) ==
    /\ b # Undeclared /\ a # Undeclared /\ ~a.mirrored
    /\ StartsWith(q, <<"remove", a.label>>) /\ ToSetUp(Tail(q), b, a)

ToSwitch(q, b, a) ==
    /\ b # Undeclared /\ a # Undeclared /\ ~a.mirrored
    /\ StartsWith(q, <<"terminate", a.label>>) /\ ToRemove(Tail(q), b, a)

ToMove(q, b, a) ==
    /\ b # Undeclared /\ a # Undeclared /\ b.path # a.path
    /\ StartsWith(q, <<"move", b.path, a.path>>)
    /\ ToRename(Tail(q), b, a) \/ ToSwitch(Tail(q), b, a) \/ ToSetUp(Tail(q), b, a)

ToRemoveEmpty(q, b, a) ==
    /\ b # Undeclared /\ a = Undeclared
    /\ StartsWith(q, <<"remove empty", b.label>>) /\ ToSetUp(Tail(q), b, a)

ToTerminate(q, b, a) ==
    /\ b # Undeclared /\ b.mirrored
    /\ StartsWith(q, <<"terminate", b.label>>)
    /\ \/ ToMove(Tail(q), b, a) \/ ToRemoveEmpty(Tail(q), b, a)
       \/ b.kind = "volume" /\ ToRename(Tail(q), b, a)

\* The sessions that are left are the new declaration's.
OnlyAt(a) == \A l \in Labels : HasSession(l) => Mirrors(a, l)

\* What is so at each of these.
Stage(b, a) ==
    \/ ToTerminate(todo, b, a)
    \/ ToMove(todo, b, a) /\ OnlyAt(a) /\ ~HasSession(b.label)
    \/ /\ ToRename(todo, b, a) /\ OnlyAt(a) /\ ~HasSession(b.label)
       /\ b.kind = "repo" => session = Nothing /\ LeftBehind(b, a)
    \/ /\ ToSwitch(todo, b, a) /\ LeftBehind(b, a)
       /\ \A l \in Labels : HasSession(l) => l = a.label /\ b.label = a.label
    \/ ToRemove(todo, b, a) /\ LeftBehind(b, a) /\ session = Nothing
    \/ ToRemoveEmpty(todo, b, a) /\ session = Nothing
    \/ ToSetUp(todo, b, a) /\ LeftBehind(b, a) /\ OnlyAt(a)

ColdSteps(d) ==
    {<<"flush">>} \cup
    IF d = Undeclared THEN {}
    ELSE IF d.mirrored THEN {<<"resume", d>>, <<"clone", d>>} ELSE {<<"clone only", d>>}

TodoInv ==
    /\ op = "reconcile" => Stage(applied, target)
    /\ op \in {"start", "fresh"} => todo \in Seq(ColdSteps(target))

SyncInv == SyncTypeOK /\ PlanInv /\ WhereInv /\ LeftInv /\ SideInv /\ TodoInv

\* A disk that has nothing has no sessions, and a cold start of one has made
\* the declared session or none.
FreshInv ==
    /\ NoGuest => session = Nothing
    /\ op = "fresh" /\ target # Undeclared /\ target.mirrored =>
        \/ todo = ColdStart(target) /\ session = Nothing
        \/ todo \in Seq({<<"clone", target>>, <<"flush">>}) /\ AsDeclared(target)
=============================================================================
