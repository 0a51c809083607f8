------------------------- MODULE ApproveGateProofs -------------------------
(***************************************************************************)
(* The approved snapshot's guarantees for any files, contents and requests *)
(* in flight: a gate that is asked has a baseline, and, if no collection   *)
(* of orphans is cut off, whoever reads the snapshot can.                  *)
(***************************************************************************)
EXTENDS ApproveGate, TLAPS

\* The index of a request is one of a file.
LEMMA NamesOfFiles ==
    /\ Last \in Nat \ {0} /\ "devm.yaml" \in Names
    /\ \A i \in 1 .. Last : Files[i] \in Names
    /\ \A i \in 1 .. Last : Files[i] = "devm.yaml" => i = 1
BY GateAssumption DEF Last, Names

\* What a request knows, and what it keeps of it when it ends.
LocalOK ==
    /\ verb \in [Requests -> Verbs \cup {"none", "approve"}]
    /\ at \in [Requests -> Places] /\ next \in [Requests -> 1 .. Last]
    /\ seen \in [Requests -> [Names -> Contents]]
    /\ differs \subseteq Requests /\ expected \in BOOLEAN

LEMMA EndsTyped == ASSUME LocalOK, NEW r \in Requests, Ends(r) PROVE LocalOK'
<1>1. Unread \in [Names -> Contents] /\ 1 \in 1 .. Last
  BY NamesOfFiles DEF Unread, Contents
<1> QED
  BY <1>1 DEF LocalOK, Ends, Goes, Places

\* The arrival of a request.
LEMMA TakesTyped ==
    ASSUME TypeOK, NEW r \in Requests,
           Reviews(r) \/ Proposes(r) \/ Watches(r) \/ Reconciles(r) \/ Starts(r)
    PROVE  TypeOK'
BY ZenonT(60) DEF Reviews, Proposes, Watches, Reconciles, Starts, Takes, Goes, TypeOK,
       files, cached, tracked, local, Places, Verbs

\* Its steps up to the comparison.
LEMMA ReadsTyped ==
    ASSUME TypeOK, NEW r \in Requests,
           \/ ReadsBaseline(r) \/ Copies(r) \/ Seals(r) \/ Finishes(r)
           \/ ReadsDisk(r) \/ Compares(r)
    PROVE  TypeOK'
<1>1. LocalOK
  BY DEF TypeOK, LocalOK
<1>2. Ends(r) => LocalOK'
  BY <1>1, EndsTyped
<1>3. Unread \in [Names -> Contents]
  BY DEF Unread, Contents
<1>4. LocalOK'
  BY <1>1, <1>2, <1>3 DEF ReadsBaseline, Copies, Seals, Finishes, ReadsDisk, Compares,
     Goes, LocalOK, TypeOK, Places
<1>5. QED
  BY <1>4, ZenonT(60) DEF ReadsBaseline, Copies, Seals, Finishes, ReadsDisk, Compares, LocalOK, TypeOK,
     files, cached, tracked

\* Its writes.
LEMMA WritesTyped == ASSUME TypeOK, NEW r \in Requests, Writes(r) PROVE TypeOK'
<1>1. next[r] \in 1 .. Last /\ seen[r][Files[next[r]]] \in Contents /\ Files[next[r]] \in Names
  BY NamesOfFiles DEF TypeOK
<1>2. stored' \in [Names -> Contents]
  BY <1>1 DEF Writes, WritesFile, TypeOK
<1>3. next' \in [Requests -> 1 .. Last] /\ at' \in [Requests -> Places]
  BY <1>1, NamesOfFiles, SMTT(30) DEF Writes, Advances, Goes, TypeOK, Places
<1> QED
  BY <1>2, <1>3 DEF Writes, TypeOK, cached, tracked

\* Its answer.
LEMMA AnswersTyped ==
    ASSUME TypeOK, NEW r \in Requests,
           \/ Shows(r) \/ Gates(r) \/ Started(r) \/ Records(r) \/ Observes(r)
           \/ Approves(r) \/ Declines(r)
           \/ WriteFails(r) \/ StartFails(r) \/ Rejects(r)
    PROVE  TypeOK'
<1>1. LocalOK
  BY DEF TypeOK, LocalOK
<1>2. Ends(r) => LocalOK'
  BY <1>1, EndsTyped
<1>3. Unread \in [Names -> Contents]
  BY DEF Unread, Contents
<1>4. LocalOK'
  BY <1>1, <1>2, <1>3, ZenonT(60) DEF Shows, Gates, Started, Records, Observes, Approves, Declines,
     WriteFails, StartFails, Rejects, Goes, LocalOK, Places
<1>5. proposal' \in BOOLEAN
  <2>1. CASE Records(r)
    <3>1. proposal' \in {TRUE, FALSE}
      BY <2>1, Zenon DEF Records
    <3> QED
      BY <3>1
  <2> QED
    BY <2>1 DEF Shows, Gates, Started, Observes, Approves, Declines,
       WriteFails, StartFails, Rejects, TypeOK
<1>6. row' \in BOOLEAN
  <2>1. CASE Observes(r)
    <3>1. row' = (r \in differs) \/ row' = row
      BY <2>1, Zenon DEF Observes, Caches
    <3>2. ASSUME row' = (r \in differs) PROVE row' \in BOOLEAN
      BY <3>2
    <3> QED
      BY <3>1, <3>2 DEF TypeOK
  <2> QED
    BY <2>1 DEF Shows, Gates, Started, Records, Approves, Declines,
       WriteFails, StartFails, Rejects, TypeOK, cached
<1> QED
  BY <1>4, <1>5, <1>6 DEF Shows, Gates, Started, Records, Observes, Approves, Declines,
     WriteFails, StartFails, Rejects, LocalOK, TypeOK, files, cached, tracked

\* Every step keeps the files, the cache and the requests in their types.
LEMMA GateTypeStep == TypeOK /\ [Next]_vars => TypeOK'
<1> SUFFICES ASSUME TypeOK, [Next]_vars PROVE TypeOK'
  OBVIOUS
<1> USE DEF TypeOK, files, cached, tracked, local
<1>1. ASSUME NEW f \in Names, Edits(f) PROVE TypeOK'
  BY <1>1 DEF Edits
<1>2. CASE Destroys \/ Collects \/ Collected \/ Settles
  BY <1>2, ZenonT(60) DEF Destroys, Collects, Collected, Settles, Contents
<1>3. CASE Restarts
  <2>1. Unread \in [Names -> Contents] /\ 1 \in 1 .. Last
    BY NamesOfFiles DEF Unread, Contents
  <2>2. /\ at' \in [Requests -> Places] /\ next' \in [Requests -> 1 .. Last]
        /\ verb' \in [Requests -> Verbs \cup {"none", "approve"}]
        /\ seen' \in [Requests -> [Names -> Contents]] /\ differs' \subseteq Requests
    BY <1>3, <2>1 DEF Restarts, Places
  <2>3. known' \in BOOLEAN /\ state' \in BOOLEAN /\ daemon' \in {"serving", "collecting"}
    BY <1>3 DEF Restarts
  <2> QED
    BY <1>3, <2>2, <2>3 DEF Restarts
<1>4. CASE UNCHANGED vars
  BY <1>4 DEF vars
<1> QED
  BY <1>1, <1>2, <1>3, <1>4, TakesTyped, ReadsTyped, WritesTyped, AnswersTyped
     DEF Next, Handles

\* A first daemon and a project nobody has started.
LEMMA GateTypeInit == Init => TypeOK
<1>1. Unread \in [Names -> Contents] /\ 1 \in 1 .. Last
  BY NamesOfFiles DEF Unread, Contents
<1> QED
  BY <1>1 DEF Init, TypeOK, Places

\* Typing, in every reachable state.
THEOREM GateTyped == Spec => []TypeOK
BY GateTypeInit, GateTypeStep, PTL DEF Spec

-----------------------------------------------------------------------------
(* Baselines.                                                              *)

\* A daemon that collects has no request but prompts, so no gate loses its
\* manifest to the collection.
Cut ==
    daemon = "collecting" => \A r \in Requests : at[r] \in {"idle", "prompt"}

\* The inductive invariant of the gate.
BaselineInv == TypeOK /\ Cut /\ GateHasBaseline

\* Every step keeps it: only Collects removes a manifest.
LEMMA BaselineStep == BaselineInv /\ [Next]_vars => BaselineInv'
<1> SUFFICES ASSUME BaselineInv, [Next]_vars PROVE Cut' /\ GateHasBaseline'
  BY GateTypeStep DEF BaselineInv
<1> USE DEF BaselineInv, TypeOK, Cut, GateHasBaseline, Goes,
            files, cached, tracked, local
<1>1. ASSUME NEW r \in Requests,
             Reviews(r) \/ Proposes(r) \/ Watches(r) \/ Reconciles(r) \/ Starts(r)
      PROVE  Cut' /\ GateHasBaseline'
  BY <1>1 DEF Reviews, Proposes, Watches, Reconciles, Starts, Takes
<1>2. ASSUME NEW r \in Requests,
             \/ ReadsBaseline(r) \/ Copies(r) \/ Writes(r) \/ Seals(r) \/ Finishes(r)
             \/ ReadsDisk(r) \/ Compares(r)
      PROVE  Cut' /\ GateHasBaseline'
  BY <1>2 DEF ReadsBaseline, Copies, Writes, Advances, Seals, Finishes,
              ReadsDisk, Compares, Ends
<1>3. ASSUME NEW r \in Requests,
             Shows(r) \/ Gates(r) \/ Started(r) \/ Records(r) \/ Observes(r)
      PROVE  Cut' /\ GateHasBaseline'
  BY <1>3 DEF Shows, Gates, Started, Records, Observes, Ends
<1>4. ASSUME NEW r \in Requests,
             \/ Approves(r) \/ Declines(r)
             \/ WriteFails(r) \/ StartFails(r) \/ Rejects(r)
      PROVE  Cut' /\ GateHasBaseline'
  BY <1>4 DEF Approves, Declines, WriteFails, StartFails, Rejects, Ends
<1>5. ASSUME NEW f \in Names, Edits(f) PROVE Cut' /\ GateHasBaseline'
  BY <1>5 DEF Edits
<1>6. CASE Destroys \/ Collects \/ Collected \/ Settles
  BY <1>6 DEF Destroys, Collects, Collected, Settles
<1>7. CASE Restarts
  BY <1>7 DEF Restarts
<1>8. CASE UNCHANGED vars
  BY <1>8 DEF vars
<1> QED
  BY <1>1, <1>2, <1>3, <1>4, <1>5, <1>6, <1>7, <1>8 DEF Next, Handles

\* bootstrapApprovedSnapshotOnFirstRun leaves a manifest, and nobody takes it away
\* from a gate that goes on to compare.
THEOREM GatesHaveBaselines == Spec => []GateHasBaseline
<1>1. Init => BaselineInv
  BY GateTypeInit DEF Init, BaselineInv, Cut, GateHasBaseline
<1>2. BaselineInv => GateHasBaseline
  BY DEF BaselineInv
<1> QED
  BY <1>1, <1>2, BaselineStep, PTL DEF Spec
-----------------------------------------------------------------------------
(* Readable snapshots.                                                     *)

\* A project always has a devm.yaml, so a request that writes has one to write ...
WritesYaml ==
    /\ disk["devm.yaml"] # Absent
    /\ \A r \in Requests : at[r] \in {"write", "seal"} => seen[r]["devm.yaml"] # Absent

\* ... and it has written that before all others, whoever else writes.
YamlFirst ==
    \A r \in Requests :
        /\ at[r] # "write" => next[r] = 1
        /\ at[r] = "seal" \/ next[r] > 1 => stored["devm.yaml"] # Absent

\* The inductive invariant of the snapshot.
ReadableInv == BaselineInv /\ WritesYaml /\ YamlFirst /\ SnapshotReadable

\* What a step does to request q that leaves the snapshot alone: nothing, or it goes
\* where nothing is written yet.
Unwritten(q) ==
    \/ at'[q] = at[q] /\ next'[q] = next[q] /\ seen'[q] = seen[q]
    \/ /\ next'[q] = 1 /\ at'[q] # "seal"
       /\ at'[q] = "write" => seen'[q]["devm.yaml"] # Absent

LEMMA EndsUnwritten ==
    ASSUME LocalOK, NEW r \in Requests, Ends(r)
    PROVE  \A q \in Requests : Unwritten(q)
BY DEF LocalOK, Ends, Goes, Unwritten

\* A request that reads, compares and answers is such a step.
LEMMA ReadableRequests ==
    ASSUME ReadableInv, NEW r \in Requests,
           \/ Reviews(r) \/ Proposes(r) \/ Watches(r) \/ Reconciles(r) \/ Starts(r)
           \/ ReadsBaseline(r) \/ Copies(r) \/ Finishes(r) \/ ReadsDisk(r) \/ Compares(r)
           \/ Shows(r) \/ Gates(r) \/ Started(r) \/ Records(r) \/ Observes(r)
           \/ Approves(r) \/ Declines(r)
           \/ WriteFails(r) \/ StartFails(r) \/ Rejects(r)
    PROVE  WritesYaml' /\ YamlFirst' /\ SnapshotReadable'
<1>1. LocalOK /\ WritesYaml /\ YamlFirst /\ SnapshotReadable
  BY DEF ReadableInv, BaselineInv, TypeOK, LocalOK
<1>2. Ends(r) => \A q \in Requests : Unwritten(q)
  BY <1>1, EndsUnwritten
<1>3. disk' = disk /\ stored' = stored /\ manifest' = manifest /\ daemon' = daemon
  BY DEF Reviews, Proposes, Watches, Reconciles, Starts, Takes, ReadsBaseline, Copies,
     Finishes, ReadsDisk, Compares, Shows, Gates, Started, Records, Observes, Approves,
     Declines, WriteFails, StartFails, Rejects, files, tracked
<1>4. \A q \in Requests : Unwritten(q)
  <2> USE <1>1 DEF LocalOK, YamlFirst, Unwritten, Goes
  <2>1. CASE Reviews(r) \/ Proposes(r) \/ Watches(r) \/ Reconciles(r) \/ Starts(r)
    BY <2>1 DEF Reviews, Proposes, Watches, Reconciles, Starts, Takes
  <2>2. CASE Copies(r)
    BY <2>2 DEF Copies, WritesYaml
  <2>3. CASE ReadsBaseline(r) \/ ReadsDisk(r) \/ Compares(r)
    BY <2>3, <1>2 DEF ReadsBaseline, ReadsDisk, Compares
  <2>4. CASE Shows(r) \/ Approves(r)
    BY <2>4, <1>2 DEF Shows, Approves
  <2>5. CASE \/ Finishes(r) \/ Gates(r) \/ Started(r) \/ Records(r) \/ Observes(r)
             \/ Declines(r) \/ WriteFails(r) \/ StartFails(r) \/ Rejects(r)
    BY <2>5, <1>2 DEF Finishes, Gates, Started, Records, Observes, Declines, WriteFails,
       StartFails, Rejects
  <2> QED
    BY <2>1, <2>2, <2>3, <2>4, <2>5
<1> QED
  BY <1>1, <1>3, <1>4
     DEF WritesYaml, YamlFirst, SnapshotReadable, Unreadable, Unwritten

\* A write of the first file leaves a devm.yaml, the others do not touch it, and the
\* manifest comes after all of them.
LEMMA ReadableWrites ==
    ASSUME ReadableInv, NEW r \in Requests, Writes(r) \/ Seals(r)
    PROVE  WritesYaml' /\ YamlFirst' /\ SnapshotReadable'
<1> USE DEF ReadableInv, BaselineInv, TypeOK, WritesYaml, YamlFirst, SnapshotReadable,
            Unreadable, Goes
<1>1. CASE Writes(r)
  <2>1. next[r] \in 1 .. Last /\ Files[next[r]] \in Names /\ "devm.yaml" \in Names
    BY NamesOfFiles
  <2>2. stored'["devm.yaml"] # Absent
    <3>1. CASE next[r] = 1
      BY <1>1, <2>1, <3>1, GateAssumption DEF Writes, WritesFile
    <3>2. CASE next[r] # 1
      <4>1. stored["devm.yaml"] # Absent /\ Files[next[r]] # "devm.yaml"
        BY <2>1, <3>2, NamesOfFiles
      <4> QED
        BY <1>1, <4>1 DEF Writes, WritesFile
    <3> QED
      BY <3>1, <3>2
  <2>3. WritesYaml'
    BY <1>1 DEF Writes, Advances
  <2>4. \A q \in Requests : at'[q] # "write" => next'[q] = 1
    BY <1>1 DEF Writes, Advances
  <2> QED
    BY <2>2, <2>3, <2>4
<1>2. CASE Seals(r)
  BY <1>2 DEF Seals
<1> QED
  BY <1>1, <1>2

\* Every step of a daemon whose collections are not cut off keeps the invariant.
LEMMA ReadableStep ==
    ASSUME "collect" \notin Faults PROVE ReadableInv /\ [Next]_vars => ReadableInv'
<1> SUFFICES ASSUME ReadableInv, [Next]_vars
             PROVE  WritesYaml' /\ YamlFirst' /\ SnapshotReadable'
  BY BaselineStep DEF ReadableInv
<1> USE DEF ReadableInv, BaselineInv, TypeOK, WritesYaml, YamlFirst, SnapshotReadable,
            Unreadable, files, cached, tracked, local
<1>1. ASSUME NEW f \in Names, Edits(f) PROVE WritesYaml' /\ YamlFirst' /\ SnapshotReadable'
  BY <1>1, NamesOfFiles DEF Edits
<1>2. CASE Collects
  <2>1. \A r \in Requests : at[r] \in {"idle", "prompt"} /\ next[r] = 1
    BY <1>2 DEF Collects, Cut
  <2> QED
    BY <1>2, <2>1 DEF Collects
<1>3. CASE Restarts
  <2>1. \A r \in Requests : at'[r] \in {"idle", "prompt"} /\ next'[r] = 1
    BY <1>3 DEF Restarts
  <2> QED
    BY <1>3, <2>1 DEF Restarts
<1>4. CASE Destroys \/ Settles
  <2>1. /\ disk' = disk /\ stored' = stored /\ manifest' = manifest /\ daemon' = daemon
        /\ at' = at /\ next' = next /\ seen' = seen
    BY <1>4 DEF Destroys, Settles
  <2> QED
    BY <2>1
<1>5. CASE Collected
  BY <1>5 DEF Collected
<1>6. CASE UNCHANGED vars
  BY <1>6 DEF vars
<1> QED
  BY <1>1, <1>2, <1>3, <1>4, <1>5, <1>6, ReadableRequests, ReadableWrites DEF Next, Handles

\* Store.Read never meets a manifest without its devm.yaml, whoever is cut off in
\* Store.Write or writes beside whom, as long as no collection of orphans is cut off.
THEOREM SnapshotsReadable ==
    ASSUME "collect" \notin Faults PROVE Spec => []SnapshotReadable
<1>1. Init => ReadableInv
  BY GateTypeInit, NamesOfFiles
     DEF Init, ReadableInv, BaselineInv, Cut, GateHasBaseline, WritesYaml, YamlFirst,
         SnapshotReadable, Unreadable
<1>2. ReadableInv => SnapshotReadable
  BY DEF ReadableInv
<1> QED
  BY <1>1, <1>2, ReadableStep, PTL DEF Spec
=============================================================================
