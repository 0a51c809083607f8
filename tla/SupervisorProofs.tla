-------------------------- MODULE SupervisorProofs --------------------------
(***************************************************************************)
(* The supervisor's guarantees for any keys, handles and PIDs, for callers *)
(* that stop a key before they spawn it again and proxies that do not die  *)
(* while they are managed: then a key never has two workers, and a stopped *)
(* one has none.  And the guarantees of its caller, a project's lifecycle, *)
(* for any CLIs: a stop is not undone while it goes on.  And those of the  *)
(* volumes and repos that a start, a stop and a live change of the project *)
(* sync, for any of them, moved and relabelled in any order: no content is *)
(* lost to an older one.                                                   *)
(***************************************************************************)
EXTENDS Supervisor, MutagenSyncInvariant, TLAPS

\* Every operation keeps the registry, the handles and the machine in their
\* types.
LEMMA SupervisorTypeStep == TypeOK /\ [Next]_vars => TypeOK'
<1> SUFFICES ASSUME TypeOK, [Next]_vars PROVE TypeOK'
  OBVIOUS
<1> USE SupervisorAssumption DEF TypeOK
<1>1. ASSUME NEW k \in Keys, Spawn(k) PROVE TypeOK'
  BY <1>1 DEF Spawn, Starts
<1>2. ASSUME NEW k \in Keys, SetChildPID(k) PROVE TypeOK'
  BY <1>2 DEF SetChildPID, handles, machine
<1>3. ASSUME NEW k \in Keys, GivesUp(k) PROVE TypeOK'
  BY <1>3 DEF GivesUp, registry, handles, machine
<1>4. ASSUME NEW k \in Keys, DisableRestart(k) PROVE TypeOK'
  BY <1>4 DEF DisableRestart, registry, machine, calls
<1>5. ASSUME NEW k \in Keys, StopAdopted(k) PROVE TypeOK'
  BY <1>5 DEF StopAdopted, Gated, AfterExit, calls
<1>6. ASSUME NEW k \in Keys, StopSignals(k) PROVE TypeOK'
  BY <1>6 DEF StopSignals, Gated, AfterExit, registry
<1>7. ASSUME NEW k \in Keys, StopReaps(k) PROVE TypeOK'
  BY <1>7 DEF StopReaps, Closed, machine
<1>8. ASSUME NEW k \in Keys, StopDirect(k) PROVE TypeOK'
  BY <1>8 DEF StopDirect, Closed, calls
<1>9. ASSUME NEW k \in Keys, StatusReaps(k) PROVE TypeOK'
  BY <1>9 DEF StatusReaps, handles, machine, calls
<1>10. ASSUME NEW w \in Workers, Exits(w) PROVE TypeOK'
  BY <1>10 DEF Exits, Dies, AfterExit, registry, calls
<1>11. ASSUME NEW h \in Handles, Respawn(h) PROVE TypeOK'
  BY <1>11 DEF Respawn, Starts, registry, calls
<1>12. CASE DaemonRestart
  BY <1>12 DEF DaemonRestart
<1>13. CASE UNCHANGED vars
  BY <1>13 DEF vars, registry, handles, machine, calls
<1> QED
  BY <1>1, <1>2, <1>3, <1>4, <1>5, <1>6, <1>7, <1>8, <1>9, <1>10, <1>11,
     <1>12, <1>13 DEF Next

\* Typing, in every reachable state.
THEOREM SupervisorTyped == Spec => []TypeOK
<1>1. Init => TypeOK
  BY DEF Init, TypeOK
<1> QED
  BY <1>1, SupervisorTypeStep, PTL DEF Spec

-----------------------------------------------------------------------------
(* The inductive invariant: the registry and the handles lead to each      *)
(* other, and every live worker is the one its key leads to.               *)

RegistryInv ==
    /\ \A k \in Keys : entry[k] # None => keyOf[entry[k]] = k
    /\ \A h \in Handles : phase[h] # "ended" => entry[keyOf[h]] = h
    /\ \A k \in Keys : gateOf[k] = entry[k]

\* A PID the supervisor holds and that is alive is its key's.
PidInv ==
    /\ \A k \in Keys : adopted[k] # None =>
          /\ k \in Shimmed /\ k \notin polling /\ k \notin stopping
          /\ entry[k] = None /\ childPID[k] = None
          /\ adopted[k] \in alive => job[adopted[k]] = k
    /\ \A k \in Keys : childPID[k] # None =>
          /\ k \in Shimmed /\ entry[k] # None
          /\ childPID[k] \in alive => job[childPID[k]] = k
    /\ \A k \in polling : k \in Shimmed /\ entry[k] # None

WorkerInv ==
    /\ \A w \in alive :
          \/ w \in stray
          \/ adopted[job[w]] = w
          \/ /\ entry[job[w]] # None
             /\ phase[entry[job[w]]] = "running"
             /\ child[entry[job[w]]] = w
    /\ \A h \in Handles : phase[h] = "running" =>
          child[h] \in alive /\ job[child[h]] = keyOf[h]

\* An earlier daemon may have left a key one worker, a VM, and then the key is
\* free.
StrayInv ==
    /\ \A w \in stray : job[w] \notin Shimmed /\ entry[job[w]] = None
    /\ \A v, w \in stray : job[v] = job[w] => v = w

\* A proxy's shim is stopped only after its grandchild: the PID to signal is
\* known whenever there is something to signal.
ShimInv ==
    /\ \A k \in Shimmed : entry[k] # None =>
          /\ phase[entry[k]] # "backoff"
          /\ k \in stopping => phase[entry[k]] = "ended"
          /\ phase[entry[k]] = "running" /\ k \notin polling =>
                childPID[k] = child[entry[k]]
    /\ \A k \in stopping : k \in Shimmed /\ k \notin polling /\ stopping = {k}

SupervisorInv == TypeOK /\ RegistryInv /\ PidInv /\ WorkerInv /\ StrayInv /\ ShimInv

\* Spawn keeps the invariant.
LEMMA SpawnKeeps ==
    ASSUME SupervisorInv, Crashing \cap Shimmed = {}, NEW k \in Keys, Unoccupied(k), Spawn(k)
    PROVE  RegistryInv' /\ PidInv' /\ WorkerInv' /\ StrayInv' /\ ShimInv'
<1> USE SupervisorAssumption DEF SupervisorInv, TypeOK, RegistryInv, PidInv, WorkerInv, StrayInv, ShimInv,
        Spawn, Starts, Unoccupied, Fresh
<1>1. RegistryInv'
  OBVIOUS
<1>2. PidInv'
  OBVIOUS
<1>3. WorkerInv'
  OBVIOUS
<1>4. StrayInv'
  OBVIOUS
<1>5. ShimInv'
  OBVIOUS
<1> QED
  BY <1>1, <1>2, <1>3, <1>4, <1>5

\* SetChildPID keeps the invariant.
LEMMA SetChildPIDKeeps ==
    ASSUME SupervisorInv, Crashing \cap Shimmed = {}, NEW k \in Keys, SetChildPID(k)
    PROVE  RegistryInv' /\ PidInv' /\ WorkerInv' /\ StrayInv' /\ ShimInv'
<1> USE SupervisorAssumption DEF SupervisorInv, TypeOK, RegistryInv, PidInv, WorkerInv, StrayInv, ShimInv,
        SetChildPID, handles, machine
<1>1. RegistryInv'
  OBVIOUS
<1>2. PidInv'
  OBVIOUS
<1>3. WorkerInv'
  OBVIOUS
<1>4. StrayInv'
  OBVIOUS
<1>5. ShimInv'
  OBVIOUS
<1> QED
  BY <1>1, <1>2, <1>3, <1>4, <1>5

\* GivesUp keeps the invariant.
LEMMA GivesUpKeeps ==
    ASSUME SupervisorInv, Crashing \cap Shimmed = {}, NEW k \in Keys, GivesUp(k)
    PROVE  RegistryInv' /\ PidInv' /\ WorkerInv' /\ StrayInv' /\ ShimInv'
<1> USE SupervisorAssumption DEF SupervisorInv, TypeOK, RegistryInv, PidInv, WorkerInv, StrayInv, ShimInv,
        GivesUp, registry, handles, machine
<1>1. RegistryInv'
  OBVIOUS
<1>2. PidInv'
  OBVIOUS
<1>3. WorkerInv'
  OBVIOUS
<1>4. StrayInv'
  OBVIOUS
<1>5. ShimInv'
  OBVIOUS
<1> QED
  BY <1>1, <1>2, <1>3, <1>4, <1>5

\* DisableRestart keeps the invariant.
LEMMA DisableRestartKeeps ==
    ASSUME SupervisorInv, Crashing \cap Shimmed = {}, NEW k \in Keys, DisableRestart(k)
    PROVE  RegistryInv' /\ PidInv' /\ WorkerInv' /\ StrayInv' /\ ShimInv'
<1> USE SupervisorAssumption DEF SupervisorInv, TypeOK, RegistryInv, PidInv, WorkerInv, StrayInv, ShimInv,
        DisableRestart, registry, machine, calls
<1>1. RegistryInv'
  OBVIOUS
<1>2. PidInv'
  OBVIOUS
<1>3. WorkerInv'
  OBVIOUS
<1>4. StrayInv'
  OBVIOUS
<1>5. ShimInv'
  OBVIOUS
<1> QED
  BY <1>1, <1>2, <1>3, <1>4, <1>5

\* StopAdopted keeps the invariant.
LEMMA StopAdoptedKeeps ==
    ASSUME SupervisorInv, Crashing \cap Shimmed = {}, NEW k \in Keys, StopAdopted(k)
    PROVE  RegistryInv' /\ PidInv' /\ WorkerInv' /\ StrayInv' /\ ShimInv'
<1> USE SupervisorAssumption DEF SupervisorInv, TypeOK, RegistryInv, PidInv, WorkerInv, StrayInv, ShimInv,
        StopAdopted, calls
<1>1. ASSUME NEW h \in Handles, phase[h] = "running"
      PROVE  child[h] # adopted[k]
  BY <1>1
<1>2. phase' = phase
  BY <1>1 DEF AfterExit
<1> HIDE DEF StopAdopted
<1>3. /\ alive' = alive \ {adopted[k]}
      /\ adopted' = [adopted EXCEPT ![k] = None]
      /\ gateOf' = [gateOf EXCEPT ![k] = None]
      /\ entry[k] = None
      /\ stray' = stray \ {adopted[k]}
      /\ UNCHANGED <<entry, childPID, keyOf, child, job, stopping, polling>>
  BY DEF StopAdopted
<1>4. RegistryInv'
  BY <1>2, <1>3
<1>5. PidInv'
  BY <1>2, <1>3
<1>6. WorkerInv'
  BY <1>1, <1>2, <1>3
<1>7. StrayInv'
  BY <1>3
<1>8. ShimInv'
  BY <1>2, <1>3
<1> QED
  BY <1>4, <1>5, <1>6, <1>7, <1>8

\* StopSignals keeps the invariant.
LEMMA StopSignalsKeeps ==
    ASSUME SupervisorInv, Crashing \cap Shimmed = {}, NEW k \in Keys, StopSignals(k)
    PROVE  RegistryInv' /\ PidInv' /\ WorkerInv' /\ StrayInv' /\ ShimInv'
<1> USE SupervisorAssumption DEF SupervisorInv, TypeOK, RegistryInv, PidInv, WorkerInv, StrayInv, ShimInv,
        StopSignals, Gated, AfterExit, registry
<1> DEFINE w == childPID[k]
<1>1. RegistryInv'
  OBVIOUS
<1>2. PidInv'
  OBVIOUS
<1>3. ASSUME NEW h \in Handles, phase[h] = "running", child[h] = w
      PROVE  h = entry[k]
  BY <1>3
<1>4. phase[entry[k]] = "running" => child[entry[k]] = w
  OBVIOUS
<1>5. phase'[entry[k]] = "ended"
  <2>1. entry[k] \in Handles /\ gateOf[k] = entry[k]
    OBVIOUS
  <2>2. phase[entry[k]] \in {"running", "ended"}
    BY <2>1
  <2>3. phase[entry[k]] = "running" => child[entry[k]] \in {w} \cap alive
    BY <1>4, <2>1
  <2> QED
    BY <2>1, <2>2, <2>3
<1>6. ASSUME NEW h \in Handles, h # entry[k]
      PROVE  phase'[h] = phase[h]
  <2>1. ~(phase[h] = "running" /\ child[h] \in ({w} \cap alive))
    BY <1>3, <1>6
  <2> QED
    BY <2>1
<1>7. WorkerInv'
  <2>1. ASSUME NEW v \in alive' 
        PROVE  \/ v \in stray'
               \/ adopted'[job'[v]] = v
               \/ /\ entry'[job'[v]] # None
                  /\ phase'[entry'[job'[v]]] = "running"
                  /\ child'[entry'[job'[v]]] = v
    <3>1. v \in alive /\ v # w /\ v \in Workers /\ job[v] \in Keys
      BY <2>1
    <3>2. CASE v \in stray \/ adopted[job[v]] = v
      BY <3>1, <3>2
    <3>3. CASE /\ entry[job[v]] # None
               /\ phase[entry[job[v]]] = "running"
               /\ child[entry[job[v]]] = v
      <4>1. entry[job[v]] \in Handles /\ entry[job[v]] # entry[k]
        BY <1>4, <3>1, <3>3
      <4> QED
        BY <1>6, <3>1, <3>3, <4>1
    <3> QED
      BY <3>1, <3>2, <3>3
  <2>2. ASSUME NEW h \in Handles, phase'[h] = "running"
        PROVE  child'[h] \in alive' /\ job'[child'[h]] = keyOf'[h]
    <3>1. h # entry[k] /\ phase[h] = "running"
      BY <1>5, <1>6, <2>2
    <3>2. child[h] # w
      BY <1>3, <3>1
    <3> QED
      BY <3>1, <3>2
  <2> QED
    BY <2>1, <2>2
<1>8. StrayInv'
  OBVIOUS
<1>9. ShimInv'
  <2> HIDE DEF Gated, AfterExit
  <2>1. ASSUME NEW j \in Shimmed, entry[j] # None, j # k
        PROVE  entry[j] \in Handles /\ entry[j] # entry[k]
    BY <2>1
  <2>2. ASSUME NEW j \in Shimmed, entry[j] # None
        PROVE  /\ phase'[entry[j]] # "backoff"
               /\ j \in stopping' => phase'[entry[j]] = "ended"
               /\ phase'[entry[j]] = "running" => phase[entry[j]] = "running"
    BY <1>5, <1>6, <2>1, <2>2
  <2>3. /\ k \in Shimmed /\ k \notin polling /\ stopping' = {k}
        /\ UNCHANGED <<entry, childPID, child, polling>>
    OBVIOUS
  <2>4. ASSUME NEW j \in Shimmed, entry[j] # None, phase[entry[j]] = "running",
               j \notin polling
        PROVE  childPID[j] = child[entry[j]]
    BY <2>4
  <2> HIDE DEF StopSignals, SupervisorInv
  <2> QED
    BY <2>2, <2>3, <2>4
<1> QED
  BY <1>1, <1>2, <1>7, <1>8, <1>9

\* StopReaps keeps the invariant.
LEMMA StopReapsKeeps ==
    ASSUME SupervisorInv, Crashing \cap Shimmed = {}, NEW k \in Keys, StopReaps(k)
    PROVE  RegistryInv' /\ PidInv' /\ WorkerInv' /\ StrayInv' /\ ShimInv'
<1> USE SupervisorAssumption DEF SupervisorInv, TypeOK, RegistryInv, PidInv, WorkerInv, StrayInv, ShimInv,
        StopReaps, Closed, machine
<1>1. RegistryInv'
  OBVIOUS
<1>2. PidInv'
  OBVIOUS
<1>3. WorkerInv'
  OBVIOUS
<1>4. StrayInv'
  OBVIOUS
<1>5. ShimInv'
  OBVIOUS
<1> QED
  BY <1>1, <1>2, <1>3, <1>4, <1>5

\* StopDirect keeps the invariant.
LEMMA StopDirectKeeps ==
    ASSUME SupervisorInv, Crashing \cap Shimmed = {}, NEW k \in Keys, StopDirect(k)
    PROVE  RegistryInv' /\ PidInv' /\ WorkerInv' /\ StrayInv' /\ ShimInv'
<1> USE SupervisorAssumption DEF SupervisorInv, TypeOK, RegistryInv, PidInv, WorkerInv, StrayInv, ShimInv,
        StopDirect, Closed, calls
<1>1. RegistryInv'
  OBVIOUS
<1>2. PidInv'
  OBVIOUS
<1>3. WorkerInv'
  OBVIOUS
<1>4. StrayInv'
  OBVIOUS
<1>5. ShimInv'
  OBVIOUS
<1> QED
  BY <1>1, <1>2, <1>3, <1>4, <1>5

\* StatusReaps keeps the invariant.
LEMMA StatusReapsKeeps ==
    ASSUME SupervisorInv, Crashing \cap Shimmed = {}, NEW k \in Keys, StatusReaps(k)
    PROVE  RegistryInv' /\ PidInv' /\ WorkerInv' /\ StrayInv' /\ ShimInv'
<1> USE SupervisorAssumption DEF SupervisorInv, TypeOK, RegistryInv, PidInv, WorkerInv, StrayInv, ShimInv,
        StatusReaps, handles, machine, calls
<1>1. RegistryInv'
  OBVIOUS
<1>2. PidInv'
  OBVIOUS
<1>3. WorkerInv'
  OBVIOUS
<1>4. StrayInv'
  OBVIOUS
<1>5. ShimInv'
  OBVIOUS
<1> QED
  BY <1>1, <1>2, <1>3, <1>4, <1>5

\* A worker's exit keeps the invariant.
LEMMA ExitsKeeps ==
    ASSUME SupervisorInv, Crashing \cap Shimmed = {}, NEW w \in Workers, Exits(w)
    PROVE  RegistryInv' /\ PidInv' /\ WorkerInv' /\ StrayInv' /\ ShimInv'
<1> USE SupervisorAssumption DEF SupervisorInv, TypeOK, RegistryInv, PidInv, WorkerInv, StrayInv, ShimInv,
        Exits, Dies, AfterExit, registry, calls
<1>1. RegistryInv'
  OBVIOUS
<1>2. PidInv'
  OBVIOUS
<1>3. WorkerInv'
  OBVIOUS
<1>4. StrayInv'
  OBVIOUS
<1>5. ShimInv'
  OBVIOUS
<1> QED
  BY <1>1, <1>2, <1>3, <1>4, <1>5

\* A restart keeps the invariant.
LEMMA RespawnKeeps ==
    ASSUME SupervisorInv, Crashing \cap Shimmed = {}, NEW h \in Handles, Respawn(h)
    PROVE  RegistryInv' /\ PidInv' /\ WorkerInv' /\ StrayInv' /\ ShimInv'
<1> USE SupervisorAssumption DEF SupervisorInv, TypeOK, RegistryInv, PidInv, WorkerInv, StrayInv, ShimInv,
        Respawn, Starts, Fresh, registry, calls
<1>1. RegistryInv'
  OBVIOUS
<1>2. PidInv'
  OBVIOUS
<1>3. WorkerInv'
  OBVIOUS
<1>4. StrayInv'
  OBVIOUS
<1>5. ShimInv'
  OBVIOUS
<1> QED
  BY <1>1, <1>2, <1>3, <1>4, <1>5

\* The invariant leaves a key one worker.
LEMMA InvariantOneWorker == SupervisorInv => OneWorkerPerKey
<1> SUFFICES ASSUME SupervisorInv, NEW v \in alive, NEW w \in alive, job[v] = job[w]
             PROVE  v = w
  BY DEF OneWorkerPerKey
<1>1. job[v] \in Keys
  BY DEF SupervisorInv, TypeOK
<1>2. adopted[job[v]] # None => entry[job[v]] = None /\ job[v] \in Shimmed
  BY <1>1 DEF SupervisorInv, PidInv
<1>3. v \in stray => w \in stray
  BY <1>1, <1>2, SupervisorAssumption DEF SupervisorInv, TypeOK, WorkerInv, StrayInv
<1>4. w \in stray => v \in stray
  BY <1>1, <1>2, SupervisorAssumption DEF SupervisorInv, TypeOK, WorkerInv, StrayInv
<1> QED
  BY <1>1, <1>2, <1>3, <1>4, SupervisorAssumption
     DEF SupervisorInv, TypeOK, WorkerInv, StrayInv

\* A new daemon starts from the invariant.
LEMMA RestartKeeps ==
    ASSUME SupervisorInv, Crashing \cap Shimmed = {}, DaemonRestart
    PROVE  RegistryInv' /\ PidInv' /\ WorkerInv' /\ StrayInv' /\ ShimInv'
<1> USE SupervisorAssumption DEF SupervisorInv, TypeOK, RegistryInv, PidInv, WorkerInv, StrayInv, ShimInv,
        DaemonRestart
<1>0. OneWorkerPerKey
  BY InvariantOneWorker
<1>1. RegistryInv'
  OBVIOUS
<1>2. PidInv'
  OBVIOUS
<1>3. WorkerInv'
  OBVIOUS
<1>4. StrayInv'
  BY <1>0 DEF OneWorkerPerKey
<1>5. ShimInv'
  OBVIOUS
<1> QED
  BY <1>1, <1>2, <1>3, <1>4, <1>5

\* Every step of the supervisor keeps the invariant.
LEMMA SupervisorStep ==
    ASSUME Crashing \cap Shimmed = {}
    PROVE  SupervisorInv /\ [Next]_vars => SupervisorInv'
<1> SUFFICES ASSUME SupervisorInv, [Next]_vars
             PROVE  RegistryInv' /\ PidInv' /\ WorkerInv' /\ StrayInv' /\ ShimInv'
  BY SupervisorTypeStep DEF SupervisorInv
<1>1. ASSUME NEW k \in Keys, Unoccupied(k) /\ Spawn(k)
      PROVE  RegistryInv' /\ PidInv' /\ WorkerInv' /\ StrayInv' /\ ShimInv'
  BY <1>1, SpawnKeeps
<1>2. ASSUME NEW k \in Keys, SetChildPID(k) \/ GivesUp(k) \/ DisableRestart(k)
      PROVE  RegistryInv' /\ PidInv' /\ WorkerInv' /\ StrayInv' /\ ShimInv'
  BY <1>2, SetChildPIDKeeps, GivesUpKeeps, DisableRestartKeeps
<1>3. ASSUME NEW k \in Keys, StopAdopted(k) \/ StopSignals(k)
      PROVE  RegistryInv' /\ PidInv' /\ WorkerInv' /\ StrayInv' /\ ShimInv'
  BY <1>3, StopAdoptedKeeps, StopSignalsKeeps
<1>4. ASSUME NEW k \in Keys, StopReaps(k) \/ StopDirect(k) \/ StatusReaps(k)
      PROVE  RegistryInv' /\ PidInv' /\ WorkerInv' /\ StrayInv' /\ ShimInv'
  BY <1>4, StopReapsKeeps, StopDirectKeeps, StatusReapsKeeps
<1>5. ASSUME NEW w \in Workers, Exits(w)
      PROVE  RegistryInv' /\ PidInv' /\ WorkerInv' /\ StrayInv' /\ ShimInv'
  BY <1>5, ExitsKeeps
<1>6. ASSUME NEW h \in Handles, Respawn(h)
      PROVE  RegistryInv' /\ PidInv' /\ WorkerInv' /\ StrayInv' /\ ShimInv'
  BY <1>6, RespawnKeeps
<1>7. CASE DaemonRestart
  BY <1>7, RestartKeeps
<1>8. CASE UNCHANGED vars
  BY <1>8 DEF vars, registry, handles, machine, calls, SupervisorInv,
              RegistryInv, PidInv, WorkerInv, StrayInv, ShimInv
<1> QED
  BY <1>1, <1>2, <1>3, <1>4, <1>5, <1>6, <1>7, <1>8 DEF Next

\* The invariant holds in every state, for proxies that do not die unasked.
LEMMA SupervisorInvariant ==
    ASSUME Crashing \cap Shimmed = {}
    PROVE  Spec => []SupervisorInv
<1>1. Init => SupervisorInv
  <2> SUFFICES ASSUME Init PROVE SupervisorInv
    OBVIOUS
  <2>1. TypeOK
    BY DEF Init, TypeOK
  <2>2. RegistryInv /\ PidInv
    BY DEF Init, RegistryInv, PidInv
  <2>3. WorkerInv /\ StrayInv
    BY DEF Init, WorkerInv, StrayInv
  <2>4. ShimInv
    BY SupervisorAssumption DEF Init, ShimInv
  <2> QED
    BY <2>1, <2>2, <2>3, <2>4 DEF SupervisorInv
<1> QED
  BY <1>1, SupervisorStep, PTL DEF Spec

\* "One process per (project_id, role)", through VM crashes, restarts, stops
\* and adoptions, for any number of projects.
THEOREM SupervisorOneWorker ==
    ASSUME Crashing \cap Shimmed = {}
    PROVE  Spec => []OneWorkerPerKey
<1> QED
  BY InvariantOneWorker, SupervisorInvariant, PTL

\* A key the supervisor was told to stop, and has forgotten, has no worker.
THEOREM SupervisorStopped ==
    ASSUME Crashing \cap Shimmed = {}
    PROVE  Spec => []StoppedIsDead
<1>1. SupervisorInv => StoppedIsDead
  BY SupervisorAssumption DEF SupervisorInv, TypeOK, WorkerInv, StrayInv, StoppedIsDead
<1> QED
  BY <1>1, SupervisorInvariant, PTL

-----------------------------------------------------------------------------
(* What holds whichever processes crash: a handle that is running or about *)
(* to be restarted is the one the registry leads to.                       *)

HandleInv ==
    /\ \A k \in Keys : entry[k] # None => keyOf[entry[k]] = k
    /\ \A h \in Handles : phase[h] # "ended" => entry[keyOf[h]] = h

\* Signals, exits and stops leave no handle behind outside the registry.
LEMMA HandleStep == TypeOK /\ HandleInv /\ [Next]_vars => HandleInv'
<1> SUFFICES ASSUME TypeOK, HandleInv, [Next]_vars PROVE HandleInv'
  OBVIOUS
<1> USE SupervisorAssumption DEF TypeOK, HandleInv
<1>1. ASSUME NEW k \in Keys, Unoccupied(k), Spawn(k) PROVE HandleInv'
  BY <1>1 DEF Unoccupied, Spawn, Starts
<1>2. ASSUME NEW k \in Keys, SetChildPID(k) \/ GivesUp(k) \/ DisableRestart(k) \/ StatusReaps(k)
      PROVE  HandleInv'
  BY <1>2 DEF SetChildPID, GivesUp, DisableRestart, StatusReaps, registry, handles, machine
<1>3. ASSUME NEW k \in Keys, StopAdopted(k) PROVE HandleInv'
  <2>1. \A h \in Handles : phase'[h] # "ended" => phase[h] # "ended"
    BY <1>3 DEF StopAdopted, AfterExit
  <2> QED
    BY <1>3, <2>1 DEF StopAdopted
<1>4. ASSUME NEW k \in Keys, StopSignals(k) PROVE HandleInv'
  <2>1. \A h \in Handles : phase'[h] # "ended" => phase[h] # "ended"
    BY <1>4 DEF StopSignals, AfterExit
  <2> QED
    BY <1>4, <2>1 DEF StopSignals, registry
<1>5. ASSUME NEW k \in Keys, StopReaps(k) PROVE HandleInv'
  BY <1>5 DEF StopReaps, Closed
<1>6. ASSUME NEW k \in Keys, StopDirect(k) PROVE HandleInv'
  BY <1>6 DEF StopDirect, Closed
<1>7. ASSUME NEW w \in Workers, Exits(w) PROVE HandleInv'
  <2>1. \A h \in Handles : phase'[h] # "ended" => phase[h] # "ended"
    BY <1>7 DEF Exits, Dies, AfterExit
  <2> QED
    BY <1>7, <2>1 DEF Exits, Dies, registry
<1>8. ASSUME NEW h \in Handles, Respawn(h) PROVE HandleInv'
  BY <1>8 DEF Respawn, Starts, registry
<1>9. CASE DaemonRestart
  BY <1>9 DEF DaemonRestart
<1>10. CASE UNCHANGED vars
  BY <1>10 DEF vars, registry, handles
<1> QED
  BY <1>1, <1>2, <1>3, <1>4, <1>5, <1>6, <1>7, <1>8, <1>9, <1>10 DEF Next

\* A process pexec restarts is the one a Stop of its key would stop: no stop
\* is undone by a backoff that ends later.  Nothing is assumed of crashes.
THEOREM SupervisorRespawns == Spec => OnlyRegisteredRespawn
<1>1. Init => TypeOK /\ HandleInv
  BY SupervisorAssumption DEF Init, TypeOK, HandleInv
<1>2. TypeOK /\ HandleInv /\ [Next]_vars
      => [\A h \in Handles : Respawn(h) => entry[keyOf[h]] = h]_vars
  BY DEF HandleInv, Respawn
<1> QED
  BY <1>1, <1>2, SupervisorTypeStep, HandleStep, PTL DEF Spec, OnlyRegisteredRespawn

-----------------------------------------------------------------------------
(* The supervisor's caller: ProjectLifecycle, over one project's two keys, *)
(* for any number of CLIs, crashes and restarts.  Faults is also that of   *)
(* MutagenSync, below.                                                     *)

CONSTANTS Vm, Proxy, Callers, Asks, Watchdog

VARIABLES
    lock, at, command, rowVM, rowProxy, listed, disk, saved, config, hooked, stopped, up

Life == INSTANCE ProjectLifecycle

\* What a step of the lifecycle has the supervisor do.
Operates ==
    \/ Life!S!Spawn(Vm) \/ Life!S!DisableRestart(Vm) \/ Life!S!StopDirect(Vm)
    \/ Life!S!Spawn(Proxy) \/ Life!S!SetChildPID(Proxy) \/ Life!S!GivesUp(Proxy)
    \/ Life!S!StopAdopted(Proxy) \/ Life!S!StopSignals(Proxy) \/ Life!S!StopReaps(Proxy)
    \/ Life!S!StopDirect(Proxy) \/ Life!S!StatusReaps(Proxy)
    \/ \E w \in Workers : Life!S!Exits(w)
    \/ \E h \in Handles : Life!S!Respawn(h)
    \/ UNCHANGED Life!processes

LEMMA StepsOperate == [Life!Next]_(Life!vars) => Operates \/ Life!DaemonRestarts
<1> USE DEF Operates
<1>1. ASSUME NEW c \in Callers, Life!Asking(c) PROVE Operates
  BY <1>1 DEF Life!Asking, Life!ShellBegins, Life!StopBegins, Life!ReconcileBegins, Life!Begins
<1>2. ASSUME NEW c \in Callers, Life!Queueing(c) PROVE Operates
  BY <1>2
  DEF Life!Queueing, Life!StartRefused, Life!StartVM, Life!StopRefused, Life!StopProxy,
      Life!ApplyNothing, Life!Applies, Life!Replaces, Life!StopsProxy, Life!AsksStatus
<1>3. ASSUME NEW c \in Callers, Life!Proceeding(c) PROVE Operates
  BY <1>3
  DEF Life!Proceeding, Life!StartProxy, Life!StartEnds, Life!StartFails, Life!Provisions,
      Life!StopReaps, Life!StopGracefully, Life!StopEnds, Life!Deletes, Life!Forgets,
      Life!ApplyReaps, Life!ApplySpawns, Life!ApplyEnds, Life!SpawnsProxy, Life!Discovers
<1>4. CASE Life!Watching \/ Life!WatchDeclines \/ Life!WatchRespawns
  BY <1>4
  DEF Life!Watching, Life!WatchReads, Life!WatchRepaired, Life!WatchLists, Life!WatchWrites,
      Life!Adopts, Life!WatchDeclines, Life!WatchRespawns, Life!AsksStatus, Life!SpawnsProxy,
      Life!Discovers
<1>5. CASE (\E w \in Workers : Life!Exits(w)) \/ Life!Respawns
  BY <1>5 DEF Life!Exits, Life!Respawns
<1>6. CASE UNCHANGED Life!vars
  BY <1>6 DEF Life!vars
<1> QED
  BY <1>1, <1>2, <1>3, <1>4, <1>5, <1>6 DEF Life!Next

LEMMA OperatesTyped ==
    ASSUME Life!LifecycleAssumption, Life!S!TypeOK, Operates \/ Life!S!DaemonRestart
    PROVE  Life!S!TypeOK'
<1> USE DEF Life!LifecycleAssumption, Life!Keys, Life!S!TypeOK
<1>1. ASSUME NEW k \in {Vm, Proxy}, Life!S!Spawn(k) PROVE Life!S!TypeOK'
  BY <1>1 DEF Life!S!Spawn, Life!S!Starts
<1>2. ASSUME NEW k \in {Vm, Proxy}, Life!S!SetChildPID(k) \/ Life!S!GivesUp(k)
      PROVE  Life!S!TypeOK'
  <2>1. CASE Life!S!SetChildPID(k)
    BY <2>1 DEF Life!S!SetChildPID, Life!S!handles, Life!S!machine
  <2>2. CASE Life!S!GivesUp(k)
    BY <2>2 DEF Life!S!GivesUp, Life!S!registry, Life!S!handles, Life!S!machine
  <2> QED
    BY <1>2, <2>1, <2>2
<1>10. ASSUME NEW k \in {Vm, Proxy}, Life!S!DisableRestart(k) PROVE Life!S!TypeOK'
  BY <1>10 DEF Life!S!DisableRestart, Life!S!registry, Life!S!machine, Life!S!calls
<1>11. ASSUME NEW k \in {Vm, Proxy}, Life!S!StatusReaps(k) PROVE Life!S!TypeOK'
  BY <1>11 DEF Life!S!StatusReaps, Life!S!handles, Life!S!machine, Life!S!calls
<1>3. ASSUME NEW k \in {Vm, Proxy}, Life!S!StopAdopted(k) PROVE Life!S!TypeOK'
  BY <1>3 DEF Life!S!StopAdopted, Life!S!Gated, Life!S!AfterExit, Life!S!calls
<1>4. ASSUME NEW k \in {Vm, Proxy}, Life!S!StopSignals(k) PROVE Life!S!TypeOK'
  BY <1>4 DEF Life!S!StopSignals, Life!S!Gated, Life!S!AfterExit, Life!S!registry
<1>5. ASSUME NEW k \in {Vm, Proxy}, Life!S!StopReaps(k) \/ Life!S!StopDirect(k)
      PROVE  Life!S!TypeOK'
  BY <1>5
  DEF Life!S!StopReaps, Life!S!StopDirect, Life!S!Closed, Life!S!machine, Life!S!calls
<1>6. ASSUME NEW w \in Workers, Life!S!Exits(w) PROVE Life!S!TypeOK'
  BY <1>6 DEF Life!S!Exits, Life!S!Dies, Life!S!AfterExit, Life!S!registry, Life!S!calls
<1>7. ASSUME NEW h \in Handles, Life!S!Respawn(h) PROVE Life!S!TypeOK'
  BY <1>7 DEF Life!S!Respawn, Life!S!Starts, Life!S!registry, Life!S!calls
<1>8. CASE Life!S!DaemonRestart
  BY <1>8 DEF Life!S!DaemonRestart
<1>9. CASE UNCHANGED Life!processes
  BY <1>9 DEF Life!processes
<1> QED
  BY <1>1, <1>2, <1>3, <1>4, <1>5, <1>6, <1>7, <1>8, <1>9, <1>10, <1>11 DEF Operates

Stages ==
    {"idle", "start", "boot", "provision", "stop", "reap", "poweroff", "graceful", "delete",
     "forget", "apply", "swap", "spawn", "look", "adopt", "drift", "vms", "list"}

Tasks == {"shell", "recover", "adopt", "fail", "stop", "teardown", "reconcile"}

LEMMA SpawnedIsHandle ==
    ASSUME Life!LifecycleAssumption, Life!S!TypeOK,
           NEW k \in {Vm, Proxy}, Life!S!Spawn(k)
    PROVE  entry'[k] \in Handles
  BY DEF Life!S!TypeOK, Life!S!Spawn, Life!Keys

\* What the lifecycle itself keeps has its types, whatever a step does.
LEMMA LifecycleTypeStep ==
    ASSUME Life!LifecycleAssumption, Life!TypeOK, [Life!Next]_(Life!vars)
    PROVE  Life!TypeOK'
<1>0. Life!S!TypeOK'
  <2>1. Life!S!TypeOK
    BY DEF Life!TypeOK
  <2> QED
    BY <2>1, StepsOperate, OperatesTyped DEF Life!DaemonRestarts
<1> USE DEF Life!TypeOK, Life!Actors, Life!Goes, Life!Locks, Life!Unlocks
<1>1. ASSUME NEW c \in Callers, Life!Asking(c) PROVE Life!TypeOK'
  <2>1. \E what \in {"shell", "recover", "adopt", "stop", "teardown", "reconcile"} :
        \E stage \in {"start", "stop", "apply"} : Life!Begins(c, what, stage)
    BY <1>1 DEF Life!Asking, Life!ShellBegins, Life!StopBegins, Life!ReconcileBegins
  <2>2. PICK what \in {"shell", "recover", "adopt", "stop", "teardown", "reconcile"},
             stage \in {"start", "stop", "apply"} : Life!Begins(c, what, stage)
    BY <2>1
  <2>3. at' \in [Life!Actors -> Stages] /\ command' \in [Callers -> Tasks]
    <3>1. what \in Tasks /\ stage \in Stages
      BY DEF Tasks, Stages
    <3>2. at \in [Life!Actors -> Stages] /\ command \in [Callers -> Tasks]
      BY DEF Stages, Tasks
    <3> QED
      BY <2>2, <3>1, <3>2 DEF Life!Begins
  <2> QED
    BY <1>0, <2>2, <2>3 DEF Life!Begins, Life!row, Life!files, Stages, Tasks
<1>2. ASSUME NEW c \in Callers,
             Life!StartRefused(c) \/ Life!StartVM(c) \/ Life!StopRefused(c) \/ Life!ApplyNothing(c)
      PROVE  Life!TypeOK'
  BY <1>0, <1>2
  DEF Life!StartRefused, Life!StartVM, Life!StopRefused, Life!ApplyNothing, Life!row, Life!files
<1>3. ASSUME NEW c \in Callers, Life!StopProxy(c) \/ Life!Applies(c) PROVE Life!TypeOK'
  BY <1>0, <1>3 DEF Life!StopProxy, Life!Applies, Life!Replaces, Life!row, Life!files
<1>4. ASSUME NEW c \in Callers, Life!StartProxy(c) \/ Life!ApplySpawns(c) PROVE Life!TypeOK'
  BY <1>0, <1>4, SpawnedIsHandle
  DEF Life!StartProxy, Life!ApplySpawns, Life!SpawnsProxy, Life!row
<1>5. ASSUME NEW c \in Callers, Life!StartEnds(c) \/ Life!StartFails(c) \/ Life!ApplyEnds(c)
      PROVE  Life!TypeOK'
  BY <1>0, <1>5 DEF Life!StartEnds, Life!StartFails, Life!ApplyEnds, Life!row, Life!files
<1>6. ASSUME NEW c \in Callers, Life!Provisions(c) PROVE Life!TypeOK'
  BY <1>0, <1>6 DEF Life!Provisions, Life!row
<1>7. ASSUME NEW c \in Callers,
             Life!StopReaps(c) \/ Life!StopGracefully(c) \/ Life!StopEnds(c) \/ Life!ApplyReaps(c)
      PROVE  Life!TypeOK'
  BY <1>0, <1>7
  DEF Life!StopReaps, Life!StopGracefully, Life!StopEnds, Life!ApplyReaps, Life!row, Life!files
<1>8. ASSUME NEW c \in Callers, Life!Deletes(c) \/ Life!Forgets(c) PROVE Life!TypeOK'
  BY <1>0, <1>8 DEF Life!Deletes, Life!Forgets, Life!row
<1>9. CASE Life!WatchReads \/ Life!WatchDeclines \/ Life!WatchRepaired
  BY <1>0, <1>9
  DEF Life!WatchReads, Life!WatchDeclines, Life!WatchRepaired, Life!ProxyHealth, Life!row, Life!files
<1>10. CASE Life!WatchRespawns
  BY <1>0, <1>10, SpawnedIsHandle DEF Life!WatchRespawns, Life!SpawnsProxy, Life!row
<1>11. CASE Life!WatchLists \/ Life!WatchWrites \/ Life!Adopts
  <2>1. CASE Life!WatchLists
    BY <1>0, <2>1 DEF Life!WatchLists, Life!VMState, Life!row, Life!files
  <2>2. CASE Life!WatchWrites
    BY <1>0, <2>2 DEF Life!WatchWrites, Life!files
  <2>3. CASE Life!Adopts
    BY <1>0, <2>3 DEF Life!Adopts, Life!row, Life!files
  <2> QED
    BY <1>11, <2>1, <2>2, <2>3
<1>12. ASSUME NEW w \in Workers, Life!Exits(w) PROVE Life!TypeOK'
  BY <1>0, <1>12 DEF Life!Exits, Life!files
<1>13. CASE Life!Respawns
  BY <1>0, <1>13 DEF Life!Respawns, Life!row, Life!files
<1>14. CASE Life!DaemonRestarts
  BY <1>0, <1>14 DEF Life!DaemonRestarts, Life!Disconnected
<1>15. CASE UNCHANGED Life!vars
  BY <1>0, <1>15 DEF Life!vars, Life!row, Life!files
<1> QED
  BY <1>1, <1>2, <1>3, <1>4, <1>5, <1>6, <1>7, <1>8, <1>9, <1>10, <1>11, <1>12, <1>13, <1>14, <1>15
  DEF Life!Next, Life!Queueing, Life!Proceeding, Life!Watching

\* A stage in which a handler, or the watchdog's repair, holds the lock.
Holding == {"boot", "look", "reap", "poweroff", "graceful", "swap", "spawn"}

\* Whoever is in such a stage is who holds it: nobody else is in one.
HeldInv == \A a \in Life!Actors : at[a] \in Holding => lock = a

\* What a step does to the stages and the lock.
Takes(a) ==
    /\ lock = None /\ lock' = a
    /\ \E to \in Stages : at' = [at EXCEPT ![a] = to]

Keeps(a) ==
    /\ at[a] \in Holding
    /\ lock' = lock
    /\ \E to \in Stages : at' = [at EXCEPT ![a] = to]

Gives(a) ==
    /\ at[a] \in Holding
    /\ lock' = None
    /\ \E to \in Stages \ Holding : at' = [at EXCEPT ![a] = to]

Idles(a) ==
    /\ at[a] \notin Holding
    /\ lock' = lock
    /\ \E to \in Stages \ Holding : at' = [at EXCEPT ![a] = to]

Moves(a) == Takes(a) \/ Keeps(a) \/ Gives(a) \/ Idles(a)

\* A step is one actor's, or nobody's, or a new daemon's.
LEMMA StepsMove ==
    ASSUME Life!TypeOK, [Life!Next]_(Life!vars)
    PROVE  \/ \E a \in Life!Actors : Moves(a)
           \/ at' = at /\ lock' = lock
           \/ Life!DaemonRestarts
<1>0. at \in [Life!Actors -> Stages]
  BY DEF Life!TypeOK, Stages
<1> USE <1>0 DEF Moves, Takes, Keeps, Gives, Idles, Holding, Stages, Life!Actors, Life!Goes,
                 Life!Locks, Life!Unlocks
<1>1. ASSUME NEW c \in Callers, Life!Asking(c) PROVE Idles(c)
  BY <1>1 DEF Life!Asking, Life!ShellBegins, Life!StopBegins, Life!ReconcileBegins, Life!Begins
<1>2. ASSUME NEW c \in Callers, Life!StartRefused(c) \/ Life!StopRefused(c) \/ Life!ApplyNothing(c)
      PROVE  Idles(c)
  BY <1>2 DEF Life!StartRefused, Life!StopRefused, Life!ApplyNothing
<1>3. ASSUME NEW c \in Callers, Life!StartVM(c) \/ Life!StopProxy(c) \/ Life!Applies(c)
      PROVE  Takes(c)
  BY <1>3 DEF Life!StartVM, Life!StopProxy, Life!Applies, Life!Replaces
<1>4. ASSUME NEW c \in Callers,
             \/ Life!StartProxy(c) \/ Life!StopReaps(c) \/ Life!StopGracefully(c)
             \/ Life!ApplyReaps(c) \/ Life!ApplySpawns(c)
      PROVE  Keeps(c)
  BY <1>4
  DEF Life!StartProxy, Life!StopReaps, Life!StopGracefully, Life!ApplyReaps, Life!ApplySpawns
<1>5. ASSUME NEW c \in Callers,
             Life!StartEnds(c) \/ Life!StartFails(c) \/ Life!StopEnds(c) \/ Life!ApplyEnds(c)
      PROVE  Gives(c)
  BY <1>5 DEF Life!StartEnds, Life!StartFails, Life!StopEnds, Life!ApplyEnds
<1>6. ASSUME NEW c \in Callers, Life!Provisions(c) \/ Life!Deletes(c) \/ Life!Forgets(c)
      PROVE  Idles(c)
  BY <1>6 DEF Life!Provisions, Life!Deletes, Life!Forgets
<1>7. ASSUME \/ Life!WatchReads \/ Life!WatchDeclines \/ Life!WatchLists \/ Life!WatchWrites
             \/ Life!Adopts
      PROVE  Idles(Watchdog)
  BY <1>7
  DEF Life!WatchReads, Life!WatchDeclines, Life!WatchLists, Life!WatchWrites, Life!Adopts
<1>8. ASSUME Life!WatchRespawns PROVE Takes(Watchdog)
  BY <1>8 DEF Life!WatchRespawns
<1>9. ASSUME Life!WatchRepaired PROVE Gives(Watchdog)
  BY <1>9 DEF Life!WatchRepaired
<1>10. CASE (\E w \in Workers : Life!Exits(w)) \/ Life!Respawns \/ UNCHANGED Life!vars
  BY <1>10 DEF Life!Exits, Life!Respawns, Life!vars
<1>11. Watchdog \in Life!Actors /\ \A c \in Callers : c \in Life!Actors
  OBVIOUS
<1>12. ASSUME NEW c \in Callers, Life!Asking(c) \/ Life!Queueing(c) \/ Life!Proceeding(c)
       PROVE  Moves(c)
  BY <1>1, <1>2, <1>3, <1>4, <1>5, <1>6, <1>12 DEF Life!Queueing, Life!Proceeding
<1>13. ASSUME Life!Watching \/ Life!WatchDeclines \/ Life!WatchRespawns PROVE Moves(Watchdog)
  BY <1>7, <1>8, <1>9, <1>13 DEF Life!Watching
<1> QED
  BY <1>10, <1>11, <1>12, <1>13 DEF Life!Next

LEMMA HeldStep ==
    ASSUME Life!LifecycleAssumption, Life!TypeOK, HeldInv, [Life!Next]_(Life!vars)
    PROVE  HeldInv'
<1>0. at \in [Life!Actors -> Stages]
  BY DEF Life!TypeOK, Stages
<1>00. None \notin Life!Actors
  BY DEF Life!LifecycleAssumption, Life!Actors
<1>1. ASSUME NEW a \in Life!Actors, Moves(a) PROVE HeldInv'
  BY <1>0, <1>00, <1>1 DEF HeldInv, Moves, Takes, Keeps, Gives, Idles
<1>2. CASE at' = at /\ lock' = lock
  BY <1>2 DEF HeldInv
<1>3. CASE Life!DaemonRestarts
  <2>1. \A a \in Life!Actors : at'[a] \notin Holding
    BY <1>0, <1>3 DEF Life!DaemonRestarts, Life!Disconnected, Holding, Stages
  <2> QED
    BY <2>1 DEF HeldInv
<1> QED
  BY <1>1, <1>2, <1>3, StepsMove

\* While a handler holds the lock and does not go on, what the others do of the
\* supervisor is to read its status, and processes exit and are restarted.
LEMMA OthersWait ==
    ASSUME Life!LifecycleAssumption, Life!TypeOK, HeldInv, [Life!Next]_(Life!vars),
           NEW c \in Callers, at[c] \in Holding, at'[c] = at[c]
    PROVE  \/ UNCHANGED Life!processes
           \/ Life!S!StatusReaps(Proxy) \/ Life!S!StopAdopted(Proxy)
           \/ \E w \in Workers : Life!S!Exits(w)
           \/ \E h \in Handles : Life!S!Respawn(h)
<1>0. at \in [Life!Actors -> Stages] /\ c \in Life!Actors /\ c # Watchdog
  BY DEF Life!TypeOK, Stages, Life!Actors, Life!LifecycleAssumption
<1>1. lock = c /\ lock # None
  BY <1>0 DEF HeldInv, Life!LifecycleAssumption
<1>2. \A a \in Life!Actors : at[a] \in Holding => a = c
  BY <1>0, <1>1 DEF HeldInv
<1> USE DEF Life!Goes, Life!Locks
<1>3. ASSUME NEW d \in Callers, Life!Asking(d) \/ Life!Queueing(d) PROVE UNCHANGED Life!processes
  BY <1>1, <1>3
  DEF Life!Asking, Life!ShellBegins, Life!StopBegins, Life!ReconcileBegins, Life!Begins,
      Life!Queueing, Life!StartRefused, Life!StartVM, Life!StopRefused, Life!StopProxy,
      Life!ApplyNothing, Life!Applies
<1>4. ASSUME NEW d \in Callers, Life!Proceeding(d) PROVE UNCHANGED Life!processes
  <2>1. CASE Life!Provisions(d) \/ Life!Deletes(d) \/ Life!Forgets(d)
    BY <2>1 DEF Life!Provisions, Life!Deletes, Life!Forgets
  <2>2. ASSUME at[d] \in Holding, NEW to \in Stages \ {at[d]}, at' = [at EXCEPT ![d] = to]
        PROVE  FALSE
    BY <1>0, <1>2, <2>2 DEF Life!Actors
  <2>3. CASE Life!StartProxy(d) \/ Life!StartEnds(d) \/ Life!StartFails(d)
    BY <2>2, <2>3 DEF Life!StartProxy, Life!StartEnds, Life!StartFails, Holding, Stages
  <2>4. CASE Life!StopReaps(d) \/ Life!StopGracefully(d) \/ Life!StopEnds(d)
    BY <2>2, <2>4 DEF Life!StopReaps, Life!StopGracefully, Life!StopEnds, Holding, Stages
  <2>5. CASE Life!ApplyReaps(d) \/ Life!ApplySpawns(d) \/ Life!ApplyEnds(d)
    BY <2>2, <2>5 DEF Life!ApplyReaps, Life!ApplySpawns, Life!ApplyEnds, Holding, Stages
  <2> QED
    BY <1>4, <2>1, <2>3, <2>4, <2>5 DEF Life!Proceeding
<1>5. CASE Life!Watching
  <2>1. ~Life!WatchRepaired
    BY <1>0, <1>2 DEF Life!WatchRepaired, Holding, Life!Actors
  <2> QED
    BY <1>5, <2>1
    DEF Life!Watching, Life!WatchReads, Life!WatchLists, Life!WatchWrites, Life!Adopts,
        Life!AsksStatus
<1>6. ~(Life!WatchDeclines \/ Life!WatchRespawns)
  BY <1>1 DEF Life!WatchDeclines, Life!WatchRespawns
<1>7. ~Life!DaemonRestarts
  BY <1>0 DEF Life!DaemonRestarts, Life!Disconnected, Holding
<1>8. CASE (\E w \in Workers : Life!Exits(w)) \/ Life!Respawns \/ UNCHANGED Life!vars
  BY <1>8 DEF Life!Exits, Life!Respawns, Life!vars
<1> QED
  BY <1>3, <1>4, <1>5, <1>6, <1>7, <1>8 DEF Life!Next

\* How /vm/stop comes to its next stage.
LEMMA StopAdvances ==
    ASSUME Life!LifecycleAssumption, Life!TypeOK, [Life!Next]_(Life!vars),
           NEW c \in Callers, at'[c] # at[c], at'[c] \in {"reap", "poweroff", "graceful"}
    PROVE  Life!StopProxy(c) \/ Life!StopReaps(c) \/ Life!StopGracefully(c)
<1>0. at \in [Life!Actors -> Stages] /\ c \in Life!Actors /\ c # Watchdog
  BY DEF Life!TypeOK, Stages, Life!Actors, Life!LifecycleAssumption
<1>1. ASSUME NEW a \in Life!Actors, NEW to \in Stages, at' = [at EXCEPT ![a] = to]
      PROVE  a = c /\ to \in {"reap", "poweroff", "graceful"}
  BY <1>0, <1>1
<1> USE DEF Life!Goes, Stages, Life!Actors
<1>2. ASSUME NEW d \in Callers, Life!Asking(d) PROVE FALSE
  BY <1>1, <1>2
  DEF Life!Asking, Life!ShellBegins, Life!StopBegins, Life!ReconcileBegins, Life!Begins
<1>3. ASSUME NEW d \in Callers, Life!Queueing(d) PROVE Life!StopProxy(c)
  <2>1. CASE Life!StopProxy(d)
    <3>1. \E to \in Stages : at' = [at EXCEPT ![d] = to]
      BY <2>1 DEF Life!StopProxy, Life!Replaces
    <3> QED
      BY <1>1, <2>1, <3>1
  <2>2. ~(Life!StartRefused(d) \/ Life!StartVM(d) \/ Life!StopRefused(d) \/ Life!ApplyNothing(d))
    BY <1>1 DEF Life!StartRefused, Life!StartVM, Life!StopRefused, Life!ApplyNothing
  <2>3. ~Life!Applies(d)
    BY <1>1 DEF Life!Applies, Life!Replaces
  <2> QED
    BY <1>3, <2>1, <2>2, <2>3 DEF Life!Queueing
<1>4. ASSUME NEW d \in Callers, Life!Proceeding(d)
      PROVE  Life!StopReaps(c) \/ Life!StopGracefully(c)
  <2>1. CASE Life!StopReaps(d) \/ Life!StopGracefully(d)
    BY <1>1, <2>1 DEF Life!StopReaps, Life!StopGracefully
  <2>2. ~(Life!StartProxy(d) \/ Life!StartEnds(d) \/ Life!StartFails(d) \/ Life!Provisions(d))
    BY <1>1 DEF Life!StartProxy, Life!StartEnds, Life!StartFails, Life!Provisions
  <2>3. ~(Life!StopEnds(d) \/ Life!Deletes(d) \/ Life!Forgets(d))
    BY <1>1 DEF Life!StopEnds, Life!Deletes, Life!Forgets
  <2>4. ~(Life!ApplyReaps(d) \/ Life!ApplySpawns(d) \/ Life!ApplyEnds(d))
    BY <1>1 DEF Life!ApplyReaps, Life!ApplySpawns, Life!ApplyEnds
  <2> QED
    BY <1>4, <2>1, <2>2, <2>3, <2>4 DEF Life!Proceeding
<1>5. ~(Life!Watching \/ Life!WatchDeclines \/ Life!WatchRespawns)
  BY <1>0, <1>1
  DEF Life!Watching, Life!WatchReads, Life!WatchRepaired, Life!WatchLists, Life!WatchWrites,
      Life!Adopts, Life!WatchDeclines, Life!WatchRespawns
<1>6. ~Life!DaemonRestarts
  BY <1>0 DEF Life!DaemonRestarts, Life!Disconnected
<1>7. ~((\E w \in Workers : Life!Exits(w)) \/ Life!Respawns \/ UNCHANGED Life!vars)
  BY DEF Life!Exits, Life!Respawns, Life!vars
<1> QED
  BY <1>2, <1>3, <1>4, <1>5, <1>6, <1>7 DEF Life!Next

\* Once /vm/stop has signalled the proxy none is adopted, by it or anyone.
DropInv ==
    \A c \in Callers : at[c] \in {"reap", "poweroff", "graceful"} => adopted[Proxy] = None

LEMMA DropStep ==
    ASSUME Life!LifecycleAssumption, Life!TypeOK, HeldInv, DropInv, [Life!Next]_(Life!vars)
    PROVE  DropInv'
<1> SUFFICES ASSUME NEW c \in Callers, at'[c] \in {"reap", "poweroff", "graceful"}
             PROVE  adopted'[Proxy] = None
  BY DEF DropInv
<1>0. adopted \in [Life!Keys -> Workers \cup {None}] /\ Proxy \in Life!Keys
  BY DEF Life!TypeOK, Life!S!TypeOK, Life!Keys
<1>1. CASE at'[c] = at[c]
  <2>1. adopted[Proxy] = None
    BY <1>1 DEF DropInv
  <2>2. \/ UNCHANGED Life!processes
        \/ Life!S!StatusReaps(Proxy) \/ Life!S!StopAdopted(Proxy)
        \/ \E w \in Workers : Life!S!Exits(w)
        \/ \E h \in Handles : Life!S!Respawn(h)
    BY <1>1, OthersWait DEF Holding
  <2> QED
    BY <2>1, <2>2
    DEF Life!processes, Life!S!StatusReaps, Life!S!StopAdopted, Life!S!Exits, Life!S!Dies,
        Life!S!Respawn, Life!S!registry
<1>2. CASE at'[c] # at[c]
  <2>1. CASE Life!StopProxy(c)
    BY <1>0, <2>1
    DEF Life!StopProxy, Life!Replaces, Life!StopsProxy, Life!processes, Life!S!StopAdopted,
        Life!S!StopDirect, Life!S!StopSignals, Life!S!registry
  <2>2. CASE Life!StopReaps(c)
    BY <2>2 DEF Life!StopReaps, Life!Goes, Life!S!StopReaps, DropInv
  <2>3. CASE Life!StopGracefully(c)
    BY <2>3
    DEF Life!StopGracefully, Life!Goes, Life!S!DisableRestart, Life!S!registry, Life!processes,
        DropInv
  <2> QED
    BY <1>2, <2>1, <2>2, <2>3, StopAdvances
<1> QED
  BY <1>1, <1>2

\* What the registry says of the VM is what the gate of its key leads to.
GateInv == gateOf[Vm] = entry[Vm]

\* Only the proxy is waited for, and by one who looks for it.
PollInv ==
    /\ polling \subseteq {Proxy}
    /\ polling # {} => \E a \in Life!Actors : at[a] = "look"

LEMMA GateStep ==
    ASSUME Life!LifecycleAssumption, Life!S!TypeOK, GateInv, Operates \/ Life!S!DaemonRestart
    PROVE  GateInv'
<1> USE DEF GateInv, Life!S!TypeOK, Life!Keys, Life!LifecycleAssumption
<1>1. CASE Life!S!Spawn(Vm) \/ Life!S!Spawn(Proxy)
  BY <1>1 DEF Life!S!Spawn
<1>2. CASE Life!S!DisableRestart(Vm) \/ Life!S!StopDirect(Vm) \/ Life!S!StopDirect(Proxy)
  BY <1>2 DEF Life!S!DisableRestart, Life!S!StopDirect, Life!S!registry
<1>3. CASE Life!S!SetChildPID(Proxy) \/ Life!S!GivesUp(Proxy) \/ Life!S!StatusReaps(Proxy)
  BY <1>3 DEF Life!S!SetChildPID, Life!S!GivesUp, Life!S!StatusReaps, Life!S!registry
<1>4. CASE Life!S!StopAdopted(Proxy) \/ Life!S!StopSignals(Proxy) \/ Life!S!StopReaps(Proxy)
  BY <1>4 DEF Life!S!StopAdopted, Life!S!StopSignals, Life!S!StopReaps, Life!S!registry
<1>5. CASE (\E w \in Workers : Life!S!Exits(w)) \/ \E h \in Handles : Life!S!Respawn(h)
  BY <1>5 DEF Life!S!Exits, Life!S!Dies, Life!S!Respawn, Life!S!registry
<1>6. CASE Life!S!DaemonRestart \/ UNCHANGED Life!processes
  BY <1>6 DEF Life!S!DaemonRestart, Life!processes
<1> QED
  BY <1>1, <1>2, <1>3, <1>4, <1>5, <1>6 DEF Operates

LEMMA PollStep ==
    ASSUME Life!LifecycleAssumption, Life!TypeOK, PollInv, [Life!Next]_(Life!vars)
    PROVE  PollInv'
<1>0. at \in [Life!Actors -> Stages]
  BY DEF Life!TypeOK, Stages
<1>1. ASSUME NEW a \in Life!Actors, Life!SpawnsProxy(TRUE) \/ Life!SpawnsProxy(FALSE),
             NEW from \in Stages, Life!Goes(a, from, "look")
      PROVE  PollInv'
  BY <1>0, <1>1 DEF Life!Goes, Life!SpawnsProxy, Life!S!Spawn, Life!Shimmed, PollInv
<1>2. ASSUME Life!Discovers PROVE PollInv'
  BY <1>2 DEF Life!Discovers, Life!S!SetChildPID, Life!S!GivesUp, PollInv
<1>3. ASSUME polling' = polling,
             \/ at' = at
             \/ \E a \in Life!Actors : at[a] # "look" /\ \E to \in Stages : at' = [at EXCEPT ![a] = to]
      PROVE  PollInv'
  BY <1>0, <1>3 DEF PollInv
<1>4. \A c \in Callers : c \in Life!Actors
  BY DEF Life!Actors
<1>5. Watchdog \in Life!Actors
  BY DEF Life!Actors
<1>6. \/ Life!S!StopAdopted(Proxy) \/ Life!S!StopSignals(Proxy) \/ Life!S!StopReaps(Proxy)
      \/ Life!S!StopDirect(Proxy) \/ Life!S!StopDirect(Vm) \/ Life!S!DisableRestart(Vm)
      \/ Life!S!StatusReaps(Proxy)
      \/ \E w \in Workers : Life!S!Exits(w)
      \/ \E h \in Handles : Life!S!Respawn(h)
      \/ UNCHANGED Life!processes
      => polling' = polling
  BY DEF Life!S!StopAdopted, Life!S!StopSignals, Life!S!StopReaps, Life!S!StopDirect,
         Life!S!DisableRestart, Life!S!StatusReaps, Life!S!Exits, Life!S!Dies, Life!S!Respawn,
         Life!processes, Life!S!calls
<1>7. Life!S!Spawn(Vm) => polling' = polling
  BY DEF Life!S!Spawn, Life!Shimmed, Life!LifecycleAssumption
<1> USE DEF Stages
<1>8. ASSUME NEW c \in Callers, Life!Asking(c) PROVE PollInv'
  BY <1>3, <1>4, <1>6, <1>8
  DEF Life!Asking, Life!ShellBegins, Life!StopBegins, Life!ReconcileBegins, Life!Begins, Life!Goes
<1>9. ASSUME NEW c \in Callers, Life!Queueing(c) PROVE PollInv'
  BY <1>3, <1>4, <1>6, <1>7, <1>9
  DEF Life!Queueing, Life!StartRefused, Life!StartVM, Life!StopRefused, Life!StopProxy,
      Life!ApplyNothing, Life!Applies, Life!Replaces, Life!StopsProxy, Life!AsksStatus, Life!Goes
<1>10. ASSUME NEW c \in Callers, Life!Proceeding(c) PROVE PollInv'
  <2>1. CASE Life!StartProxy(c) \/ Life!ApplySpawns(c)
    BY <1>1, <1>4, <2>1 DEF Life!StartProxy, Life!ApplySpawns
  <2>2. CASE Life!StartEnds(c) \/ Life!ApplyEnds(c)
    BY <1>2, <2>2 DEF Life!StartEnds, Life!ApplyEnds
  <2>3. CASE Life!StartFails(c)
    BY <1>2, <1>3, <1>4, <1>6, <2>3 DEF Life!StartFails, Life!Goes
  <2>4. CASE Life!Provisions(c) \/ Life!Deletes(c) \/ Life!Forgets(c)
    BY <1>3, <1>4, <1>6, <2>4 DEF Life!Provisions, Life!Deletes, Life!Forgets, Life!Goes
  <2>5. CASE Life!StopReaps(c) \/ Life!ApplyReaps(c)
    BY <1>3, <1>4, <1>6, <2>5 DEF Life!StopReaps, Life!ApplyReaps, Life!Goes
  <2>6. CASE Life!StopGracefully(c) \/ Life!StopEnds(c)
    BY <1>3, <1>4, <1>6, <2>6 DEF Life!StopGracefully, Life!StopEnds, Life!Goes
  <2> QED
    BY <1>10, <2>1, <2>2, <2>3, <2>4, <2>5, <2>6 DEF Life!Proceeding
<1>11. CASE Life!WatchRespawns
  BY <1>1, <1>5, <1>11 DEF Life!WatchRespawns
<1>12. CASE Life!WatchRepaired
  BY <1>2, <1>12 DEF Life!WatchRepaired
<1>13. CASE Life!WatchReads \/ Life!WatchDeclines \/ Life!WatchLists \/ Life!WatchWrites \/ Life!Adopts
  BY <1>3, <1>5, <1>6, <1>13
  DEF Life!WatchReads, Life!WatchDeclines, Life!WatchLists, Life!WatchWrites, Life!Adopts,
      Life!AsksStatus, Life!Goes
<1>14. CASE (\E w \in Workers : Life!Exits(w)) \/ Life!Respawns \/ UNCHANGED Life!vars
  BY <1>3, <1>6, <1>14 DEF Life!Exits, Life!Respawns, Life!vars
<1>15. CASE Life!DaemonRestarts
  BY <1>15 DEF Life!DaemonRestarts, Life!S!DaemonRestart, PollInv
<1> QED
  BY <1>8, <1>9, <1>10, <1>11, <1>12, <1>13, <1>14, <1>15 DEF Life!Next, Life!Watching

LEMMA LifecycleInit ==
    ASSUME Life!LifecycleAssumption, Life!Init
    PROVE  Life!TypeOK /\ HeldInv /\ DropInv /\ GateInv /\ PollInv
<1> USE DEF Life!LifecycleAssumption, Life!Init, Life!S!Init, Life!Keys
<1>1. Life!TypeOK
  BY DEF Life!TypeOK, Life!S!TypeOK, Life!Shimmed, Life!Actors
<1>2. HeldInv /\ DropInv /\ GateInv /\ PollInv
  BY DEF HeldInv, DropInv, GateInv, PollInv, Holding, Life!Actors
<1> QED
  BY <1>1, <1>2

\* Every variable of the lifecycle keeps its type, whatever the commands, the
\* watchdog's checks, crashes and restarts of the daemon do in between.
THEOREM LifecycleTyped ==
    ASSUME Life!LifecycleAssumption
    PROVE  Life!Spec => []Life!TypeOK
<1>1. Life!Init => Life!TypeOK
  BY LifecycleInit
<1>2. Life!TypeOK /\ [Life!Next]_(Life!vars) => Life!TypeOK'
  BY LifecycleTypeStep
<1> QED
  BY <1>1, <1>2, PTL DEF Life!Spec

\* The inductive invariant, under every fault the model has.
LifecycleInv == Life!TypeOK /\ HeldInv /\ DropInv /\ GateInv /\ PollInv

\* The project's lock (ProjectLocks) is held by whoever is past its queue, and
\* nobody else is; a /vm/stop that has signalled the proxy has none adopted; a
\* proxy's discovery is over when SpawnIronProxy returns; disableRestart leads to
\* the VM that is in the registry.
THEOREM LifecycleInvariant ==
    ASSUME Life!LifecycleAssumption
    PROVE  Life!Spec => []LifecycleInv
<1>1. Life!Init => LifecycleInv
  BY LifecycleInit DEF LifecycleInv
<1>2. LifecycleInv /\ [Life!Next]_(Life!vars) => LifecycleInv'
  <2> SUFFICES ASSUME LifecycleInv, [Life!Next]_(Life!vars) PROVE LifecycleInv'
    OBVIOUS
  <2>1. Life!TypeOK /\ HeldInv /\ DropInv /\ GateInv /\ PollInv
    BY DEF LifecycleInv
  <2>2. Life!S!TypeOK
    BY <2>1 DEF Life!TypeOK
  <2>3. Operates \/ Life!S!DaemonRestart
    BY StepsOperate DEF Life!DaemonRestarts
  <2> QED
    BY <2>1, <2>2, <2>3, LifecycleTypeStep, HeldStep, DropStep, GateStep, PollStep
    DEF LifecycleInv
<1> QED
  BY <1>1, <1>2, PTL DEF Life!Spec

\* From the moment it has stopped the proxy until the VM is down, /vm/stop is
\* alone with the supervisor's registry: no queued start or apply, and not the
\* watchdog, has it know a process meanwhile.
THEOREM StopsAreUndisturbed ==
    ASSUME Life!LifecycleAssumption
    PROVE  Life!Spec => Life!StopIsUndisturbed
<1>1. LifecycleInv /\ [Life!Next]_(Life!vars)
      => [\A c \in Callers :
            at[c] \in {"poweroff", "graceful"} /\ at'[c] = at[c] =>
                entry' = entry /\ adopted' = adopted /\ childPID' = childPID]_(Life!vars)
  <2> SUFFICES ASSUME LifecycleInv, [Life!Next]_(Life!vars),
                      NEW c \in Callers, at[c] \in {"poweroff", "graceful"}, at'[c] = at[c]
               PROVE  entry' = entry /\ adopted' = adopted /\ childPID' = childPID
    OBVIOUS
  <2>1. adopted[Proxy] = None
    BY DEF LifecycleInv, DropInv
  <2>2. \/ UNCHANGED Life!processes
        \/ Life!S!StatusReaps(Proxy) \/ Life!S!StopAdopted(Proxy)
        \/ \E w \in Workers : Life!S!Exits(w)
        \/ \E h \in Handles : Life!S!Respawn(h)
    BY OthersWait DEF LifecycleInv, Holding
  <2> QED
    BY <2>1, <2>2
    DEF Life!processes, Life!S!StatusReaps, Life!S!StopAdopted, Life!S!Exits, Life!S!Dies,
        Life!S!Respawn, Life!S!registry
<1> QED
  BY <1>1, LifecycleInvariant, PTL DEF Life!Spec, Life!StopIsUndisturbed

-----------------------------------------------------------------------------
(* While the daemon stays up.                                              *)

NoneAdopted == adopted[Proxy] = None

\* From the proxy's stop on the registry has none, and from DisableRestart on a
\* tart run of this daemon that exits is not restarted.
CleanInv ==
    \A c \in Callers :
        /\ at[c] \in {"poweroff", "graceful"} => entry[Proxy] = None
        /\ at[c] = "graceful" /\ entry[Vm] # None => gate[entry[Vm]]

LEMMA NoneAdoptedStep ==
    ASSUME "restart" \notin Faults, NoneAdopted, [Life!Next]_(Life!vars)
    PROVE  NoneAdopted'
<1>0. Operates
  BY StepsOperate DEF Life!DaemonRestarts
<1> USE DEF NoneAdopted
<1>1. CASE Life!S!Spawn(Vm) \/ Life!S!Spawn(Proxy)
  BY <1>1 DEF Life!S!Spawn
<1>2. CASE Life!S!DisableRestart(Vm) \/ Life!S!StopDirect(Vm) \/ Life!S!StopDirect(Proxy)
  BY <1>2 DEF Life!S!DisableRestart, Life!S!StopDirect, Life!S!registry
<1>3. CASE Life!S!SetChildPID(Proxy) \/ Life!S!GivesUp(Proxy) \/ Life!S!StatusReaps(Proxy)
  BY <1>3 DEF Life!S!SetChildPID, Life!S!GivesUp, Life!S!StatusReaps, Life!S!registry
<1>4. CASE Life!S!StopAdopted(Proxy) \/ Life!S!StopSignals(Proxy) \/ Life!S!StopReaps(Proxy)
  BY <1>4 DEF Life!S!StopAdopted, Life!S!StopSignals, Life!S!StopReaps, Life!S!registry
<1>5. CASE (\E w \in Workers : Life!S!Exits(w)) \/ \E h \in Handles : Life!S!Respawn(h)
  BY <1>5 DEF Life!S!Exits, Life!S!Dies, Life!S!Respawn, Life!S!registry
<1>6. CASE UNCHANGED Life!processes
  BY <1>6 DEF Life!processes
<1> QED
  BY <1>0, <1>1, <1>2, <1>3, <1>4, <1>5, <1>6 DEF Operates

LEMMA CleanStep ==
    ASSUME Life!LifecycleAssumption, LifecycleInv, NoneAdopted, CleanInv, [Life!Next]_(Life!vars)
    PROVE  CleanInv'
<1> SUFFICES ASSUME NEW c \in Callers, at'[c] \in {"poweroff", "graceful"}
             PROVE  /\ entry'[Proxy] = None
                    /\ at'[c] = "graceful" /\ entry'[Vm] # None => gate'[entry'[Vm]]
  BY DEF CleanInv
<1>0. Life!TypeOK /\ HeldInv /\ GateInv
  BY DEF LifecycleInv
<1>00. /\ entry \in [Life!Keys -> Handles \cup {None}]
       /\ gate \in [Handles -> BOOLEAN]
       /\ Proxy \in Life!Keys
  BY <1>0 DEF Life!TypeOK, Life!S!TypeOK, Life!Keys
<1>1. CASE at'[c] = at[c]
  <2>1. \/ UNCHANGED Life!processes
        \/ Life!S!StatusReaps(Proxy) \/ Life!S!StopAdopted(Proxy)
        \/ \E w \in Workers : Life!S!Exits(w)
        \/ \E h \in Handles : Life!S!Respawn(h)
    BY <1>0, <1>1, OthersWait DEF Holding
  <2>2. entry' = entry /\ gate' = gate
    BY <2>1
    DEF NoneAdopted, Life!processes, Life!S!StatusReaps, Life!S!StopAdopted, Life!S!Exits,
        Life!S!Dies, Life!S!Respawn, Life!S!registry
  <2> QED
    BY <1>1, <2>2 DEF CleanInv
<1>2. CASE at'[c] # at[c]
  <2>1. CASE Life!StopProxy(c)
    <3>1. at'[c] = "poweroff" /\ Life!StopsProxy
      BY <2>1, <1>0, <1>2
      DEF Life!StopProxy, Life!Replaces, Life!Goes, Life!TypeOK, Life!Actors
    <3> QED
      BY <1>00, <3>1
      DEF Life!StopsProxy, Life!S!StopAdopted, Life!S!StopDirect, NoneAdopted, Life!processes
  <2>2. CASE Life!StopReaps(c)
    <3>1. at'[c] = "poweroff"
      BY <2>2, <1>0 DEF Life!StopReaps, Life!Goes, Life!TypeOK, Life!Actors
    <3> QED
      BY <1>00, <2>2, <3>1 DEF Life!StopReaps, Life!S!StopReaps
  <2>3. CASE Life!StopGracefully(c)
    <3>1. entry[Proxy] = None
      BY <2>3 DEF Life!StopGracefully, Life!Goes, CleanInv
    <3>2. CASE gateOf[Vm] = None
      BY <1>0, <2>3, <3>1, <3>2 DEF Life!StopGracefully, Life!processes, GateInv
    <3>3. CASE gateOf[Vm] # None
      BY <1>0, <1>00, <2>3, <3>1, <3>3
      DEF Life!StopGracefully, Life!S!DisableRestart, Life!S!registry, GateInv, Life!Keys
    <3> QED
      BY <3>2, <3>3
  <2> QED
    BY <1>0, <1>2, <2>1, <2>2, <2>3, StopAdvances
<1> QED
  BY <1>1, <1>2

\* While /vm/stop waits for the guest to power off the project has no proxy that
\* could be restarted, and a tart run that exits does not boot the VM again.
\* Without the hypothesis it does not hold: a /vm/start after a restart spawns a
\* proxy beside the adopted one, and Stop then looks at the adopted one only.
THEOREM StopsHold ==
    ASSUME Life!LifecycleAssumption, "restart" \notin Faults
    PROVE  Life!Spec => []Life!StopHolds
<1>1. ASSUME Life!Init PROVE NoneAdopted /\ CleanInv
  <2>1. NoneAdopted
    BY <1>1 DEF Life!Init, Life!S!Init, Life!Keys, NoneAdopted
  <2>2. \A c \in Callers : at[c] = "idle"
    BY <1>1 DEF Life!Init, Life!Actors
  <2> QED
    BY <2>1, <2>2 DEF CleanInv
<1>2. LifecycleInv /\ NoneAdopted /\ CleanInv /\ [Life!Next]_(Life!vars)
      => NoneAdopted' /\ CleanInv'
  BY NoneAdoptedStep, CleanStep
<1>3. LifecycleInv /\ NoneAdopted /\ CleanInv => Life!StopHolds
  <2> SUFFICES ASSUME LifecycleInv, NoneAdopted, CleanInv, NEW c \in Callers, at[c] = "graceful"
               PROVE  /\ entry[Proxy] = None /\ adopted[Proxy] = None /\ Proxy \notin polling
                      /\ entry[Vm] # None => gate[entry[Vm]]
    BY DEF Life!StopHolds
  <2>1. Proxy \notin polling
    <3>1. c \in Life!Actors /\ lock = c
      BY DEF LifecycleInv, HeldInv, Holding, Life!Actors
    <3>2. \A a \in Life!Actors : at[a] # "look"
      BY <3>1 DEF LifecycleInv, HeldInv, Holding
    <3> QED
      BY <3>2 DEF LifecycleInv, PollInv
  <2> QED
    BY <2>1 DEF NoneAdopted, CleanInv
<1> QED
  BY <1>1, <1>2, <1>3, LifecycleInvariant, PTL DEF Life!Spec

-----------------------------------------------------------------------------
(* A volume or repo that the lifecycle's operations sync: MutagenSync.      *)

\* Every step has the argument its name asks for.
LEMMA StepArguments ==
    ASSUME NEW s \in Steps
    PROVE  /\ s[1] \in {"setup", "resume", "clone", "clone only"} => s[2] \in Declared
           /\ s[1] \in {"terminate", "remove", "remove empty"} => s[2] \in Labels
           /\ s[1] = "move" => s[2] \in Paths /\ s[3] \in Paths
           /\ s[1] = "rename" => s[2] \in Labels /\ s[3] \in Labels
<1>1. CASE s \in {"setup", "resume", "clone", "clone only"} \X Declared BY <1>1
<1>2. CASE s \in {"terminate", "remove", "remove empty"} \X Labels BY <1>2
<1>3. CASE s \in {"move"} \X Paths \X Paths BY <1>3
<1>4. CASE s \in {"rename"} \X Labels \X Labels BY <1>4
<1>5. CASE s = <<"flush">>
  <2>1. s[1] = "flush" BY <1>5
  <2>2. QED BY <2>1
<1>6. QED BY <1>1, <1>2, <1>3, <1>4, <1>5 DEF Steps

\* The steps are these.
LEMMA StepsMade ==
    /\ \A d \in Declared : /\ <<"setup", d>> \in Steps /\ <<"clone", d>> \in Steps
                          /\ <<"resume", d>> \in Steps /\ <<"clone only", d>> \in Steps
    /\ \A l \in Labels : /\ <<"terminate", l>> \in Steps /\ <<"remove", l>> \in Steps
                        /\ <<"remove empty", l>> \in Steps
    /\ \A p, q \in Paths : <<"move", p, q>> \in Steps
    /\ \A l, m \in Labels : <<"rename", l, m>> \in Steps
    /\ <<"flush">> \in Steps
<1>1. \A d \in Declared : /\ <<"setup", d>> \in Steps /\ <<"clone", d>> \in Steps
                          /\ <<"resume", d>> \in Steps /\ <<"clone only", d>> \in Steps
  BY DEF Steps
<1>2. \A l \in Labels : /\ <<"terminate", l>> \in Steps /\ <<"remove", l>> \in Steps
                        /\ <<"remove empty", l>> \in Steps
  BY DEF Steps
<1>3. \A p, q \in Paths : <<"move", p, q>> \in Steps BY DEF Steps
<1>4. \A l, m \in Labels : <<"rename", l, m>> \in Steps BY DEF Steps
<1>5. <<"flush">> \in Steps BY DEF Steps
<1>6. QED BY <1>1, <1>2, <1>3, <1>4, <1>5

\* What is left of the steps when one is done.
LEMMA StepsLeft ==
    ASSUME NEW S, NEW q \in Seq(S), q # <<>>
    PROVE  Head(q) \in S /\ Tail(q) \in Seq(S)
OBVIOUS

\* Sequences of steps, one after the other, are one. of steps.
LEMMA StepsJoined ==
    ASSUME NEW S, NEW q \in Seq(S), NEW r \in Seq(S)
    PROVE  q \o r \in Seq(S)
OBVIOUS

\* One, two or three of them are a sequence.
LEMMA FewSteps ==
    ASSUME NEW S, NEW x \in S
    PROVE  /\ <<x>> \in Seq(S) /\ \A y \in S : <<x, y>> \in Seq(S)
           /\ \A y, z \in S : <<x, y, z>> \in Seq(S)
OBVIOUS

\* The changes of a reconcile and the phases of a cold start are made of steps.
LEMMA ChangesAreSteps ==
    ASSUME SyncAssumption, NEW b \in Declarations, NEW a \in Declarations
    PROVE  Changes(b, a) \in Seq(Steps)
<1>1. \A d \in Declared : /\ SetUp(d) \in Seq(Steps) /\ Added(d) \in Seq(Steps)
                          /\ Removed(d) \in Seq(Steps)
  <2> SUFFICES ASSUME NEW d \in Declared
               PROVE  SetUp(d) \in Seq(Steps) /\ Added(d) \in Seq(Steps) /\ Removed(d) \in Seq(Steps)
    OBVIOUS
  <2>1. d.label \in Labels BY DEF SyncAssumption
  <2>2. SetUp(d) \in Seq(Steps) BY StepsMade, FewSteps DEF SetUp
  <2>3. Added(d) \in Seq(Steps)
    <3>1. <<<<"clone only", d>>>> \in Seq(Steps) BY StepsMade, FewSteps
    <3>2. QED BY <2>2, <3>1 DEF Added
  <2>4. Removed(d) \in Seq(Steps)
    <3>1. <<<<"terminate", d.label>>, <<"remove empty", d.label>>>> \in Seq(Steps) BY <2>1, StepsMade, FewSteps
    <3>2. <<>> \in Seq(Steps) OBVIOUS
    <3>3. QED BY <3>1, <3>2 DEF Removed
  <2>5. QED BY <2>2, <2>3, <2>4
<1>2. ASSUME NEW c, NEW q \in Seq(Steps) PROVE If(c, q) \in Seq(Steps)
  BY DEF If
<1>3. CASE b \in Declared /\ a \in Declared
  <2> DEFINE T(l) == <<<<"terminate", l>>>>
             M == <<<<"move", b.path, a.path>>>>
             R == <<<<"rename", b.label, a.label>>>>
  <2>1. /\ \A l \in Labels : T(l) \in Seq(Steps)
        /\ M \in Seq(Steps) /\ R \in Seq(Steps)
    BY <1>3, StepsMade, FewSteps DEF SyncAssumption
  <2>2. a.label \in Labels /\ b.label \in Labels
    BY <1>3 DEF SyncAssumption
  <2>3. VolumeChanges(b, a) \in Seq(Steps)
    <3>1. <<<<"terminate", b.label>>, <<"move", b.path, a.path>>>> \in Seq(Steps)
      BY <1>3, StepsMade, FewSteps DEF SyncAssumption
    <3>2. <<<<"terminate", b.label>>, <<"rename", b.label, a.label>>>> \in Seq(Steps)
      BY <1>3, StepsMade, FewSteps DEF SyncAssumption
    <3> DEFINE ofPath == If(b.path # a.path,
                  <<<<"terminate", b.label>>, <<"move", b.path, a.path>>>> \o SetUp(a))
               ofLabel == If(b.label # a.label,
                  <<<<"terminate", b.label>>, <<"rename", b.label, a.label>>>> \o SetUp(a))
               ofIgnore == If(b.ignore # a.ignore, T(a.label) \o SetUp(a))
    <3>3. ofPath \in Seq(Steps) /\ ofLabel \in Seq(Steps) /\ ofIgnore \in Seq(Steps)
      <4>1. SetUp(a) \in Seq(Steps) BY <1>1, <1>3
      <4>2. /\ <<<<"terminate", b.label>>, <<"move", b.path, a.path>>>> \o SetUp(a) \in Seq(Steps)
            /\ <<<<"terminate", b.label>>, <<"rename", b.label, a.label>>>> \o SetUp(a) \in Seq(Steps)
            /\ T(a.label) \o SetUp(a) \in Seq(Steps)
        <5>1. T(a.label) \in Seq(Steps) BY <2>1, <2>2
        <5>2. QED BY <3>1, <3>2, <4>1, <5>1, StepsJoined
      <4>3. QED BY <1>2, <4>2
    <3>4. VolumeChanges(b, a) = ofPath \o ofLabel \o ofIgnore BY DEF VolumeChanges
    <3> HIDE DEF ofPath, ofLabel, ofIgnore
    <3>5. QED BY <3>3, <3>4
  <2>4. RepoChanges(b, a) \in Seq(Steps)
    <3>1. <<<<"terminate", a.label>>, <<"remove", a.label>>>> \in Seq(Steps)
      BY <2>2, StepsMade, FewSteps
    <3> DEFINE renamed == If(a.mirrored, R \o SetUp(a))
               ofLabel == If(b.label # a.label, If(b.mirrored, T(b.label)) \o M \o renamed)
               ofMirror == If(b.mirrored # a.mirrored,
                  IF a.mirrored THEN SetUp(a)
                  ELSE <<<<"terminate", a.label>>, <<"remove", a.label>>>>)
               ofIgnore == If(b.ignore # a.ignore /\ a.mirrored, T(a.label) \o SetUp(a))
    <3>2. SetUp(a) \in Seq(Steps) BY <1>1, <1>3
    <3>3. ofMirror \in Seq(Steps) BY <1>2, <3>1, <3>2
    <3>4. renamed \in Seq(Steps) /\ ofIgnore \in Seq(Steps)
      <4>1. T(a.label) \in Seq(Steps) BY <2>1, <2>2
      <4>2. R \o SetUp(a) \in Seq(Steps) /\ T(a.label) \o SetUp(a) \in Seq(Steps)
        BY <2>1, <3>2, <4>1, StepsJoined
      <4>3. QED BY <1>2, <4>2
    <3>5. ofLabel \in Seq(Steps)
      <4>1. If(b.mirrored, T(b.label)) \in Seq(Steps)
        <5> HIDE DEF T
        <5>1. QED BY <1>2, <2>1, <2>2
      <4> HIDE DEF T, M, renamed
      <4>2. If(b.mirrored, T(b.label)) \o M \o renamed \in Seq(Steps) BY <2>1, <3>4, <4>1
      <4>3. QED BY <1>2, <4>2
    <3>6. RepoChanges(b, a) = ofLabel \o ofMirror \o ofIgnore BY DEF RepoChanges
    <3> HIDE DEF ofLabel, ofMirror, ofIgnore
    <3>7. QED BY <3>3, <3>4, <3>5, <3>6
  <2>5. CASE a.kind # b.kind
    <3>1. /\ Added(a) \in Seq(Steps) /\ Removed(b) \in Seq(Steps)
          /\ b # Undeclared /\ a # Undeclared
      BY <1>1, <1>3 DEF Declared
    <3>2. QED BY <2>5, <3>1 DEF Changes
  <2>6. QED BY <1>3, <2>3, <2>4, <2>5 DEF Changes, Declared
<1>4. QED
  <2>1. <<>> \in Seq(Steps) OBVIOUS
  <2>2. QED BY <1>1, <1>2, <1>3, <2>1 DEF Changes, Declared, If

LEMMA ColdStartIsSteps ==
    ASSUME SyncAssumption, NEW d \in Declarations
    PROVE  ColdStart(d) \in Seq(Steps)
<1>1. <<<<"flush">>>> \in Seq(Steps) BY StepsMade, FewSteps
<1>2. d \in Declared => /\ <<<<"resume", d>>, <<"clone", d>>, <<"flush">>>> \in Seq(Steps)
                        /\ <<<<"clone only", d>>, <<"flush">>>> \in Seq(Steps)
  BY StepsMade, FewSteps
<1>3. QED BY <1>1, <1>2 DEF ColdStart, Declared

\* A session's cycle gives both sides, and what it remembers, one version.
LEMMA CycleMerges ==
    ASSUME SyncAssumption, SyncTypeOK, NEW l \in Labels
    PROVE  \/ Cycled(l, Now) = Now /\ ~Flushes(l, Now)
           \/ /\ Flushes(l, Now) /\ session[l] \in Sessions /\ session[l] # NoSession
              /\ Merged(session[l], mirror[l], guest[session[l].path]) \in Versions
              /\ Cycled(l, Now).guest = [guest EXCEPT ![session[l].path] =
                    Merged(session[l], mirror[l], guest[session[l].path])]
              /\ Cycled(l, Now).mirror = [mirror EXCEPT ![l] =
                    Merged(session[l], mirror[l], guest[session[l].path])]
              /\ Cycled(l, Now).session = [session EXCEPT ![l].base =
                    Merged(session[l], mirror[l], guest[session[l].path])]
<1>1. CASE ~Flushes(l, Now)
  BY <1>1 DEF Cycled
<1>2. CASE Flushes(l, Now)
  <2>1. session[l] # NoSession BY <1>2 DEF Flushes, Now
  <2>2. session[l] \in Sessions BY <2>1 DEF SyncTypeOK
  <2>3. Merged(session[l], mirror[l], guest[session[l].path]) \in Versions
    BY <2>2 DEF Merged, Populated, SyncTypeOK, Sessions, Versions, SyncAssumption
  <2>4. QED BY <1>2, <2>1, <2>2, <2>3 DEF Cycled, Now
<1>3. QED BY <1>1, <1>2

LEMMA SyncTypesInit == SyncAssumption /\ SyncInit => SyncTypeOK
<1> SUFFICES ASSUME SyncAssumption, SyncInit PROVE SyncTypeOK OBVIOUS
<1>1. Undeclared \in Declarations BY DEF SyncInit, SyncAssumption, Declarations
<1>2. 0 \in Versions /\ 1 \in Versions BY DEF SyncAssumption, Versions
<1>3. QED BY <1>1, <1>2 DEF SyncInit, SyncTypeOK, SyncAssumption, Nothing, Remote

\* What a step that is done leaves is typed.
LEMMA DoneTypes ==
    ASSUME SyncTypeOK, Done, todo # <<>>, op # "none",
           guest' \in [Paths -> Versions \cup {Gone}],
           mirror' \in [Labels -> Versions \cup {Gone}],
           session' \in [Labels -> Sessions \cup {NoSession}],
           UNCHANGED writes
    PROVE  SyncTypeOK'
<1>1. todo' \in Seq(Steps) BY StepsLeft DEF SyncTypeOK, Done
<1>2. QED BY <1>1 DEF SyncTypeOK, Done

\* A directory that is made has a version.
LEMMA MadeTypes ==
    ASSUME SyncAssumption, NEW S, NEW side \in [S -> Versions \cup {Gone}], NEW place \in S
    PROVE  /\ Made(side, place) \in [S -> Versions \cup {Gone}]
           /\ Made(side, place)[place] = IF side[place] = Gone THEN 0 ELSE side[place]
           /\ \A x \in S : x # place => Made(side, place)[x] = side[x]
<1>1. 0 \in Versions BY DEF SyncAssumption, Versions
<1>2. QED BY <1>1 DEF Made

\* The types of what a cycle leaves.
LEMMA CycleTypes ==
    ASSUME SyncAssumption, SyncTypeOK, NEW l \in Labels
    PROVE  /\ Cycled(l, Now).guest \in [Paths -> Versions \cup {Gone}]
           /\ Cycled(l, Now).mirror \in [Labels -> Versions \cup {Gone}]
           /\ Cycled(l, Now).session \in [Labels -> Sessions \cup {NoSession}]
<1> DEFINE merged == Merged(session[l], mirror[l], guest[session[l].path])
<1>1. CASE Cycled(l, Now) = Now
  BY <1>1 DEF Now, SyncTypeOK
<1>2. CASE Cycled(l, Now) # Now
  <2>1. /\ session[l] \in Sessions /\ merged \in Versions
        /\ Cycled(l, Now).guest = [guest EXCEPT ![session[l].path] = merged]
        /\ Cycled(l, Now).mirror = [mirror EXCEPT ![l] = merged]
        /\ Cycled(l, Now).session = [session EXCEPT ![l].base = merged]
    BY <1>2, CycleMerges
  <2> HIDE DEF merged
  <2>2. [session[l] EXCEPT !.base = merged] \in Sessions
    BY <2>1 DEF Sessions
  <2>3. [session EXCEPT ![l].base = merged] \in [Labels -> Sessions \cup {NoSession}]
    BY <2>2 DEF SyncTypeOK
  <2>4. /\ [guest EXCEPT ![session[l].path] = merged] \in [Paths -> Versions \cup {Gone}]
        /\ [mirror EXCEPT ![l] = merged] \in [Labels -> Versions \cup {Gone}]
    BY <2>1 DEF SyncTypeOK
  <2>5. QED BY <2>1, <2>3, <2>4
<1>3. QED BY <1>1, <1>2

\* A session made of a declaration.
LEMMA CreatedTypes ==
    ASSUME SyncAssumption, NEW d \in Declared
    PROVE  Created(d) \in Sessions
<1>1. 0 \in Versions BY DEF SyncAssumption, Versions
<1>2. QED BY <1>1 DEF Created, Sessions, SyncAssumption

LEMMA PausedTypes ==
    ASSUME SyncTypeOK
    PROVE  /\ Paused \in [Labels -> Sessions \cup {NoSession}]
           /\ \A l \in Labels : /\ Paused[l] # NoSession => session[l] # NoSession
                                /\ session[l] # NoSession =>
                                    /\ Paused[l] = [session[l] EXCEPT !.paused = TRUE]
                                    /\ Paused[l].path = session[l].path
                                    /\ Paused[l].base = session[l].base
<1>1. \A l \in Labels : session[l] # NoSession =>
        /\ [session[l] EXCEPT !.paused = TRUE] \in Sessions
        /\ [session[l] EXCEPT !.paused = TRUE].path = session[l].path
        /\ [session[l] EXCEPT !.paused = TRUE].base = session[l].base
  BY DEF SyncTypeOK, Sessions
<1>2. QED BY <1>1 DEF Paused

\* A step belongs to an operation.
LEMMA StepsOfOperations ==
    ASSUME SyncTypeOK, NEW name, Step(name)
    PROVE  /\ op # "none" /\ todo # <<>> /\ vm = "running"
           /\ Head(todo) \in Steps /\ Head(todo)[1] = name /\ Tail(todo) \in Seq(Steps)
BY StepsLeft DEF Step, SyncTypeOK

LEMMA SyncTypesKept ==
    ASSUME SyncAssumption, SyncTypeOK, [SyncNext]_syncVars
    PROVE  SyncTypeOK'
<1>u. 0 \in Versions /\ 1 \in Versions /\ Remote \in Versions
  BY DEF SyncAssumption, Versions, Remote
<1>d. Undeclared \in Declarations
  BY DEF SyncTypeOK, SyncAssumption, Declarations
<1>1. CASE Edit
  BY <1>1 DEF Edit, Edited, SyncTypeOK, Declarations, work, sides, SyncAssumption, Idle
<1>2. ASSUME NEW p \in Paths, GuestWrite(p) PROVE SyncTypeOK'
  <2>1. writes + 1 \in Versions BY <1>2 DEF GuestWrite, SyncTypeOK, Versions, SyncAssumption
  <2>2. QED BY <1>2, <2>1 DEF GuestWrite, SyncTypeOK, work
<1>3. ASSUME NEW l \in Labels, MacWrite(l) PROVE SyncTypeOK'
  <2>1. writes + 1 \in Versions BY <1>3 DEF MacWrite, SyncTypeOK, Versions, SyncAssumption
  <2>2. QED BY <1>3, <2>1 DEF MacWrite, SyncTypeOK, work
<1>4. ASSUME NEW l \in Labels, Cycle(l) PROVE SyncTypeOK'
  BY <1>4, CycleTypes DEF Cycle, SyncTypeOK, work
<1>5. CASE Terminate
  <2>1. /\ op # "none" /\ todo # <<>> /\ Head(todo)[2] \in Labels
    BY <1>5, StepsOfOperations, StepArguments DEF Terminate
  <2>2. /\ Done /\ UNCHANGED writes
        /\ guest' = Cycled(Head(todo)[2], Now).guest /\ mirror' = Cycled(Head(todo)[2], Now).mirror
        /\ session' = [session EXCEPT ![Head(todo)[2]] = NoSession]
    BY <1>5 DEF Terminate
  <2>3. session' \in [Labels -> Sessions \cup {NoSession}] BY <2>2 DEF SyncTypeOK
  <2>4. QED BY <2>1, <2>2, <2>3, CycleTypes, DoneTypes
<1>6. CASE Move
  <2>1. op # "none" /\ todo # <<>> BY <1>6, StepsOfOperations DEF Move
  <2>2. Head(todo)[2] \in Paths /\ Head(todo)[3] \in Paths
    BY <1>6, StepsOfOperations, StepArguments DEF Move
  <2>3. guest' \in [Paths -> Versions \cup {Gone}] BY <1>6, <2>2 DEF Move, SyncTypeOK
  <2>4. QED BY <1>6, <2>1, <2>3, DoneTypes DEF Move, SyncTypeOK
<1>7. CASE Rename
  <2>1. op # "none" /\ todo # <<>> BY <1>7, StepsOfOperations DEF Rename
  <2>2. Head(todo)[2] \in Labels /\ Head(todo)[3] \in Labels
    BY <1>7, StepsOfOperations, StepArguments DEF Rename
  <2>3. Made(mirror, Head(todo)[2])[Head(todo)[2]] \in Versions \cup {Gone}
    BY <1>u, <2>2 DEF Made, SyncTypeOK
  <2>4. mirror' \in [Labels -> Versions \cup {Gone}] BY <1>7, <2>2, <2>3 DEF Rename, SyncTypeOK
  <2>5. QED BY <1>7, <2>1, <2>4, DoneTypes DEF Rename, SyncTypeOK
<1>8. CASE Setup
  <2>1. op # "none" /\ todo # <<>> BY <1>8, StepsOfOperations DEF Setup
  <2>2. PICK d \in Declared : d = Head(todo)[2]
    BY <1>8, StepsOfOperations, StepArguments DEF Setup
  <2>3. d.label \in Labels /\ d.path \in Paths BY DEF SyncAssumption
  <2>4. /\ Done /\ UNCHANGED writes
        /\ guest' = Made(guest, d.path) /\ mirror' = Made(mirror, d.label)
        /\ session' = [session EXCEPT ![d.label] = IF @ = NoSession THEN Created(d) ELSE @]
    BY <1>8, <2>2 DEF Setup
  <2>5. /\ guest' \in [Paths -> Versions \cup {Gone}] /\ mirror' \in [Labels -> Versions \cup {Gone}]
    BY <2>3, <2>4, MadeTypes DEF SyncTypeOK
  <2>6. session' \in [Labels -> Sessions \cup {NoSession}]
    BY <2>3, <2>4, CreatedTypes DEF SyncTypeOK
  <2>7. QED BY <2>1, <2>4, <2>5, <2>6, DoneTypes
<1>9. CASE Resume
  <2>1. op # "none" /\ todo # <<>> BY <1>9, StepsOfOperations DEF Resume
  <2>2. PICK d \in Declared : d = Head(todo)[2]
    BY <1>9, StepsOfOperations, StepArguments DEF Resume
  <2>3. d.label \in Labels /\ d.path \in Paths BY DEF SyncAssumption
  <2>4. /\ Done /\ UNCHANGED writes
        /\ guest' = Made(guest, d.path) /\ mirror' = Made(mirror, d.label)
        /\ session' = [session EXCEPT ![d.label] =
                         IF @ = NoSession THEN Created(d) ELSE [@ EXCEPT !.paused = FALSE]]
    BY <1>9, <2>2 DEF Resume
  <2>5. /\ guest' \in [Paths -> Versions \cup {Gone}] /\ mirror' \in [Labels -> Versions \cup {Gone}]
    BY <2>3, <2>4, MadeTypes DEF SyncTypeOK
  <2>6. session' \in [Labels -> Sessions \cup {NoSession}]
    <3>1. session[d.label] # NoSession => [session[d.label] EXCEPT !.paused = FALSE] \in Sessions
      BY <2>3 DEF SyncTypeOK, Sessions
    <3>2. QED BY <2>3, <2>4, <3>1, CreatedTypes DEF SyncTypeOK
  <2>7. QED BY <2>1, <2>4, <2>5, <2>6, DoneTypes
<1>10. CASE Clone
  <2>1. op # "none" /\ todo # <<>> BY <1>10, StepsOfOperations DEF Clone
  <2>2. PICK d \in Declared : d = Head(todo)[2]
    BY <1>10, StepsOfOperations, StepArguments DEF Clone
  <2>3. d.label \in Labels /\ d.path \in Paths BY DEF SyncAssumption
  <2>4. /\ Done /\ UNCHANGED <<session, writes>>
        /\ \/ guest' = [guest EXCEPT ![d.path] = Remote] \/ guest' = guest \/ guest' = Made(guest, d.path)
        /\ mirror' = Made(mirror, d.label) \/ mirror' = mirror
    BY <1>10, <2>2 DEF Clone
  <2>5. /\ Made(guest, d.path) \in [Paths -> Versions \cup {Gone}]
        /\ Made(mirror, d.label) \in [Labels -> Versions \cup {Gone}]
    BY <2>3, MadeTypes DEF SyncTypeOK
  <2>6. [guest EXCEPT ![d.path] = Remote] \in [Paths -> Versions \cup {Gone}]
    BY <1>u, <2>3 DEF SyncTypeOK
  <2>7. /\ guest' \in [Paths -> Versions \cup {Gone}] /\ mirror' \in [Labels -> Versions \cup {Gone}]
    BY <2>4, <2>5, <2>6 DEF SyncTypeOK
  <2>8. QED BY <2>1, <2>4, <2>7, DoneTypes DEF SyncTypeOK
<1>11. CASE RemoveMirror
  <2>1. op # "none" /\ todo # <<>> BY <1>11, StepsOfOperations DEF RemoveMirror
  <2>2. mirror' \in [Labels -> Versions \cup {Gone}] BY <1>11 DEF RemoveMirror, SyncTypeOK
  <2>3. QED BY <1>11, <2>1, <2>2, DoneTypes DEF RemoveMirror, SyncTypeOK
<1>12. CASE FlushAll
  <2>1. op # "none" /\ todo # <<>> BY <1>12, StepsOfOperations DEF FlushAll
  <2>2. QED BY <1>12, <2>1, DoneTypes DEF FlushAll, SyncTypeOK, sides
<1>13. CASE StartVM
  BY <1>13, ColdStartIsSteps DEF StartVM, SyncTypeOK, sides
<1>14. CASE Reconcile
  BY <1>14, ChangesAreSteps DEF Reconcile, SyncTypeOK, sides
<1>15. CASE Finish
  BY <1>15, <1>d DEF Finish, SyncTypeOK, sides
<1>16. CASE StepFails
  <2>1. edits' \in 0..MaxEdits BY <1>16 DEF StepFails, SyncTypeOK, Edited, SyncAssumption
  <2>2. <<>> \in Seq(Steps) OBVIOUS
  <2>3. QED BY <1>16, <1>d, <2>1, <2>2 DEF StepFails, SyncTypeOK, sides, Destroyed, Terminated, Nothing
<1>17. CASE Stop
  BY <1>17, PausedTypes DEF Stop, SyncTypeOK, sides, work
<1>18. CASE Destroy
  <2>1. session' = Terminated \/ session' = Paused BY <1>18 DEF Destroy
  <2>2. session' \in [Labels -> Sessions \cup {NoSession}]
    BY <2>1, PausedTypes DEF Terminated, Nothing
  <2>3. QED BY <1>18, <1>d, <2>2 DEF Destroy, Destroyed, SyncTypeOK, work
<1>19. CASE UNCHANGED syncVars
  BY <1>19 DEF syncVars, SyncTypeOK
<1>20. QED
  BY <1>1, <1>2, <1>3, <1>4, <1>5, <1>6, <1>7, <1>8, <1>9, <1>10, <1>11, <1>12, <1>13, <1>14,
     <1>15, <1>16, <1>17, <1>18, <1>19 DEF SyncNext

\* Every directory, mirror and session is of its type, and steps are left only
\* to an operation: however a reconcile or a start is cut off.
THEOREM SyncTypeCorrect == SyncSpec => []SyncTypeOK
<1>1. SyncInit => SyncTypeOK BY SyncTypesInit, SyncAssumption
<1>2. SyncTypeOK /\ [SyncNext]_syncVars => SyncTypeOK' BY SyncTypesKept, SyncAssumption
<1>3. QED BY <1>1, <1>2, PTL DEF SyncSpec

\* A guest directory that is there, and one that a step makes, is something.
LEMMA ThereIsGuest ==
    ASSUME SyncAssumption, NEW p \in Paths, guest'[p] \in Versions
    PROVE  ~NoGuest'
BY DEF NoGuest, SyncAssumption

LEMMA SessionsNeedGuest ==
    ASSUME SyncAssumption, SyncTypeOK, FreshInv, "recover" \notin Faults,
           [SyncNext]_syncVars
    PROVE  (NoGuest => session = Nothing)'
<1>u. 0 \in Versions /\ Remote \in Versions /\ (SyncTypeOK)'
  BY SyncTypesKept DEF SyncAssumption, Versions, Remote
<1>s. SUFFICES ASSUME NoGuest' PROVE session' = Nothing
  BY DEF Nothing
<1>i. UNCHANGED <<guest, session>> => session' = Nothing
  BY <1>s DEF FreshInv, NoGuest, Nothing
<1>1. CASE Edit BY <1>1, <1>i DEF Edit, sides
<1>2. ASSUME NEW p \in Paths, GuestWrite(p) PROVE FALSE
  <2>1. guest'[p] = writes + 1 /\ writes + 1 \in Versions
    BY <1>2 DEF GuestWrite, SyncTypeOK, Versions, SyncAssumption
  <2>2. QED BY <1>s, <2>1, ThereIsGuest
<1>3. ASSUME NEW l \in Labels, MacWrite(l) PROVE session' = Nothing
  BY <1>3, <1>i DEF MacWrite
<1>4. ASSUME NEW l \in Labels,
             guest' = Cycled(l, Now).guest
      PROVE  guest' = guest
  <2>1. CASE Cycled(l, Now) = Now BY <1>4, <2>1 DEF Now
  <2>2. CASE Cycled(l, Now) # Now
    <3> DEFINE merged == Merged(session[l], mirror[l], guest[session[l].path])
    <3>1. /\ session[l] \in Sessions /\ merged \in Versions
          /\ guest' = [guest EXCEPT ![session[l].path] = merged]
      BY <1>4, <2>2, CycleMerges
    <3> HIDE DEF merged
    <3>2. session[l].path \in Paths BY <3>1 DEF Sessions
    <3>3. guest'[session[l].path] \in Versions BY <3>1, <3>2 DEF SyncTypeOK
    <3>4. QED BY <1>s, <3>2, <3>3, ThereIsGuest
  <2>3. QED BY <2>1, <2>2
<1>g. guest' = guest => session = Nothing
  BY <1>s DEF FreshInv, NoGuest
<1>5. ASSUME NEW l \in Labels, Cycle(l) PROVE session' = Nothing
  <2>1. guest' = guest BY <1>4, <1>5 DEF Cycle
  <2>2. session[l] = NoSession BY <1>g, <2>1 DEF Nothing
  <2>3. QED BY <1>5, <2>2 DEF Cycle, Flushes, Now
<1>6. CASE Terminate
  <2>1. Head(todo)[2] \in Labels
    BY <1>6, StepsOfOperations, StepArguments DEF Terminate
  <2>2. guest' = guest BY <1>4, <1>6, <2>1 DEF Terminate
  <2>3. session = Nothing BY <1>g, <2>2
  <2>4. session' = [session EXCEPT ![Head(todo)[2]] = NoSession] BY <1>6 DEF Terminate
  <2>5. QED BY <2>3, <2>4 DEF Nothing
<1>7. CASE Move
  <2>1. Head(todo)[2] \in Paths /\ Head(todo)[3] \in Paths
    BY <1>7, StepsOfOperations, StepArguments DEF Move
  <2>2. guest'[Head(todo)[3]] # Gone BY <1>7, <2>1 DEF Move, SyncTypeOK
  <2>3. QED BY <1>s, <2>1, <2>2 DEF NoGuest
<1>8. CASE Setup \/ Resume
  <2>1. PICK d \in Declared : d = Head(todo)[2]
    BY <1>8, StepsOfOperations, StepArguments DEF Setup, Resume
  <2>2. d.path \in Paths BY DEF SyncAssumption
  <2>3. guest' = Made(guest, d.path) BY <1>8, <2>1 DEF Setup, Resume
  <2>4. guest'[d.path] \in Versions BY <1>u, <2>2, <2>3, MadeTypes DEF SyncTypeOK
  <2>5. QED BY <1>s, <2>2, <2>4, ThereIsGuest
<1>9. CASE Clone
  <2>1. PICK d \in Declared : d = Head(todo)[2]
    BY <1>9, StepsOfOperations, StepArguments DEF Clone
  <2>2. d.path \in Paths BY DEF SyncAssumption
  <2>3. /\ guest' = [guest EXCEPT ![d.path] = Remote] \/ guest' = guest \/ guest' = Made(guest, d.path)
        /\ UNCHANGED session
    BY <1>9, <2>1 DEF Clone
  <2>4. CASE guest' = guest BY <1>i, <2>3, <2>4
  <2>5. CASE guest' # guest
    <3>1. Made(guest, d.path)[d.path] \in Versions
      <4>1. guest \in [Paths -> Versions \cup {Gone}] BY DEF SyncTypeOK
      <4>2. Made(guest, d.path)[d.path] = IF guest[d.path] = Gone THEN 0 ELSE guest[d.path]
        BY <2>2, <4>1, MadeTypes
      <4>3. QED BY <1>u, <2>2, <4>1, <4>2
    <3>2. [guest EXCEPT ![d.path] = Remote][d.path] \in Versions
      BY <1>u, <2>2 DEF SyncTypeOK
    <3>3. guest'[d.path] \in Versions BY <2>3, <2>5, <3>1, <3>2
    <3>4. QED BY <1>s, <2>2, <3>3, ThereIsGuest
  <2>6. QED BY <2>4, <2>5
<1>10. CASE Rename \/ RemoveMirror \/ FlushAll
  BY <1>10, <1>i DEF Rename, RemoveMirror, FlushAll, sides
<1>11. CASE StartVM \/ Reconcile \/ Finish
  BY <1>11, <1>i DEF StartVM, Reconcile, Finish, sides
<1>12. CASE StepFails
  BY <1>12, <1>i DEF StepFails, sides, Terminated
<1>13. CASE Stop
  <2>1. guest' = guest /\ session' = Paused BY <1>13 DEF Stop, sides
  <2>2. QED BY <1>g, <2>1 DEF Paused, Nothing
<1>14. CASE Destroy
  BY <1>14 DEF Destroy, Terminated
<1>15. CASE UNCHANGED syncVars
  BY <1>15, <1>i DEF syncVars
<1>16. QED
  BY <1>1, <1>2, <1>3, <1>5, <1>6, <1>7, <1>8, <1>9, <1>10, <1>11, <1>12, <1>13, <1>14, <1>15 DEF SyncNext

\* A cycle leaves of a session what it was made of.
LEMMA CycleKeepsDeclared ==
    ASSUME SyncAssumption, SyncTypeOK, NEW l \in Labels, NEW d \in Declared,
           AsDeclared(d), session' = Cycled(l, Now).session
    PROVE  AsDeclared(d)'
<1> DEFINE merged == Merged(session[l], mirror[l], guest[session[l].path])
<1>1. CASE Cycled(l, Now) = Now BY <1>1 DEF Now, AsDeclared, Created
<1>2. CASE Cycled(l, Now) # Now
  <2>1. /\ session[l] \in Sessions /\ merged \in Versions
        /\ session' = [session EXCEPT ![l].base = merged]
    BY <1>2, CycleMerges
  <2> HIDE DEF merged
  <2>2. SUFFICES ASSUME d.mirrored
                 PROVE  session'[d.label] # NoSession
                        /\ [session'[d.label] EXCEPT !.base = 0] = Created(d)
    BY DEF AsDeclared, Created
  <2>3. session[d.label] # NoSession /\ [session[d.label] EXCEPT !.base = 0] = Created(d)
    BY <2>2 DEF AsDeclared, Declared
  <2>4. d.label \in Labels BY DEF SyncAssumption
  <2>5. CASE l # d.label BY <2>1, <2>3, <2>4, <2>5 DEF SyncTypeOK
  <2>6. CASE l = d.label
    <3>1. session'[l] = [session[l] EXCEPT !.base = merged] BY <2>1 DEF SyncTypeOK
    <3>2. session'[l] \in Sessions BY <2>1, <3>1 DEF Sessions
    <3>3. [session'[l] EXCEPT !.base = 0] = [session[l] EXCEPT !.base = 0]
      BY <2>1, <3>1 DEF Sessions
    <3>4. QED BY <2>3, <2>6, <3>2, <3>3 DEF SyncAssumption
  <2>7. QED BY <2>5, <2>6
<1>3. QED BY <1>1, <1>2

\* What FreshInv says of a cold start.
FreshStage ==
    \/ todo = ColdStart(target) /\ session = Nothing
    \/ todo \in Seq({<<"clone", target>>, <<"flush">>}) /\ AsDeclared(target)

FreshStart == op = "fresh" /\ target # Undeclared /\ target.mirrored

\* The first of its steps is a resume, and the last are others.
LEMMA FreshSteps ==
    ASSUME SyncTypeOK, FreshStart, FreshStage, todo # <<>>
    PROVE  /\ target \in Declared
           /\ Head(todo) \in {<<"resume", target>>, <<"clone", target>>, <<"flush">>}
           /\ Head(todo)[1] \in {"resume", "clone", "flush"}
           /\ Head(todo)[1] # "resume" =>
                todo \in Seq({<<"clone", target>>, <<"flush">>}) /\ AsDeclared(target)
           /\ Head(todo)[1] = "resume" =>
                /\ Head(todo)[2] = target /\ session = Nothing
                /\ Tail(todo) = <<<<"clone", target>>, <<"flush">>>>
<1>1. target \in Declared BY DEF FreshStart, SyncTypeOK, Declared
<1>2. CASE todo = ColdStart(target) /\ session = Nothing
  <2>2. todo = <<<<"resume", target>>, <<"clone", target>>, <<"flush">>>>
    BY <1>2 DEF FreshStart, ColdStart
  <2>3. /\ Head(todo) = <<"resume", target>>
        /\ Tail(todo) = <<<<"clone", target>>, <<"flush">>>>
    BY <2>2
  <2>4. Head(todo)[1] = "resume" /\ Head(todo)[2] = target BY <2>3
  <2>5. QED BY <1>1, <1>2, <2>3, <2>4
<1>3. CASE todo \in Seq({<<"clone", target>>, <<"flush">>}) /\ AsDeclared(target)
  <2>1. Head(todo) \in {<<"clone", target>>, <<"flush">>} BY <1>3, StepsLeft
  <2>2. <<"clone", target>>[1] = "clone" /\ <<"flush">>[1] = "flush" OBVIOUS
  <2>3. QED BY <1>1, <1>3, <2>1, <2>2
<1>4. QED BY <1>2, <1>3 DEF FreshStage

LEMMA FreshStageKept ==
    ASSUME SyncAssumption, SyncTypeOK, FreshInv, [SyncNext]_syncVars
    PROVE  (FreshStart => FreshStage)'
<1>f. FreshStart => FreshStage BY DEF FreshInv, FreshStart, FreshStage
<1>s. SUFFICES ASSUME FreshStart' PROVE FreshStage' OBVIOUS
<1>i. ASSUME UNCHANGED <<session, op, todo, target>> PROVE FreshStage'
  <2>1. FreshStart BY <1>i, <1>s DEF FreshStart
  <2>2. QED BY <1>f, <1>i, <2>1 DEF FreshStage, AsDeclared, Created, ColdStart, Nothing
<1>d. ASSUME Done, todo # <<>> PROVE
         /\ FreshStart /\ FreshStage /\ target' = target
         /\ Head(todo)[1] # "resume" =>
              todo' \in Seq({<<"clone", target>>, <<"flush">>})' /\ AsDeclared(target)
  <2>1. FreshStart /\ target' = target /\ todo' = Tail(todo) BY <1>d, <1>s DEF Done, FreshStart
  <2>2. QED BY <1>d, <1>f, <2>1, FreshSteps, StepsLeft
<1>n. ASSUME Done, todo # <<>>, UNCHANGED session, Head(todo)[1] # "resume" PROVE FreshStage'
  BY <1>d, <1>n DEF FreshStage, AsDeclared, Created
<1>1. CASE Edit BY <1>1, <1>i DEF Edit, work
<1>2. ASSUME NEW p \in Paths, GuestWrite(p) PROVE FreshStage'
  BY <1>2, <1>i DEF GuestWrite, work
<1>3. ASSUME NEW l \in Labels, MacWrite(l) PROVE FreshStage'
  BY <1>3, <1>i DEF MacWrite, work
<1>4. ASSUME NEW l \in Labels, Cycle(l) PROVE FreshStage'
  <2>1. /\ session' = Cycled(l, Now).session /\ UNCHANGED <<op, todo, target>>
        /\ session[l] # NoSession
    BY <1>4 DEF Cycle, work, Flushes, Now
  <2>2. FreshStart BY <1>s, <2>1 DEF FreshStart
  <2>3. target \in Declared BY <2>2 DEF FreshStart, SyncTypeOK, Declared
  <2>4. session # Nothing BY <2>1 DEF Nothing
  <2>5. todo \in Seq({<<"clone", target>>, <<"flush">>}) /\ AsDeclared(target)
    BY <1>f, <2>2, <2>4 DEF FreshStage
  <2>6. AsDeclared(target)' BY <2>1, <2>3, <2>5, CycleKeepsDeclared DEF AsDeclared, Created
  <2>7. QED BY <2>1, <2>5, <2>6 DEF FreshStage
<1>5. CASE Terminate \/ Move \/ Rename \/ Setup \/ RemoveMirror
  <2>1. /\ Done /\ todo # <<>>
        /\ Head(todo)[1] \in {"terminate", "move", "rename", "setup", "remove empty", "remove"}
    BY <1>5 DEF Terminate, Move, Rename, Setup, RemoveMirror, Step
  <2>2. FreshStart /\ FreshStage BY <1>d, <2>1
  <2>3. QED BY <2>1, <2>2, FreshSteps
<1>6. CASE Resume
  <2>1. Done /\ todo # <<>> /\ Head(todo)[1] = "resume" BY <1>6 DEF Resume, Step
  <2>2. /\ FreshStart /\ FreshStage /\ target' = target BY <1>d, <2>1
  <2>3. /\ target \in Declared /\ Head(todo)[2] = target /\ session = Nothing
        /\ Tail(todo) = <<<<"clone", target>>, <<"flush">>>>
    BY <2>1, <2>2, FreshSteps
  <2>4. target.label \in Labels BY <2>3 DEF SyncAssumption
  <2>5. session' = [session EXCEPT ![target.label] =
                      IF @ = NoSession THEN Created(target) ELSE [@ EXCEPT !.paused = FALSE]]
    BY <1>6, <2>3 DEF Resume
  <2>6. session'[target.label] = Created(target)
    BY <2>3, <2>4, <2>5 DEF Nothing
  <2>7. Created(target) # NoSession /\ [Created(target) EXCEPT !.base = 0] = Created(target)
    <3>1. Created(target) \in Sessions BY <2>3, CreatedTypes
    <3>2. Created(target) # NoSession BY <3>1 DEF SyncAssumption
    <3>3. [Created(target) EXCEPT !.base = 0] = Created(target)
      <4>1. Created(target).base = 0 BY DEF Created
      <4>2. QED BY <3>1, <4>1 DEF Sessions
    <3>4. QED BY <3>2, <3>3
  <2>8. AsDeclared(target)'
    BY <2>2, <2>6, <2>7 DEF AsDeclared, Created
  <2>9. <<<<"clone", target>>, <<"flush">>>> \in Seq({<<"clone", target>>, <<"flush">>})
    BY FewSteps
  <2>10. QED BY <2>1, <2>2, <2>3, <2>8, <2>9 DEF FreshStage, Done
<1>7. CASE Clone BY <1>7, <1>n DEF Clone, Step
<1>8. CASE FlushAll BY <1>8, <1>n DEF FlushAll, Step
<1>9. CASE StartVM
  <2>1. NoGuest /\ target' = files /\ todo' = ColdStart(files) /\ session' = session
    BY <1>9, <1>s DEF StartVM, FreshStart
  <2>2. session = Nothing BY <2>1 DEF FreshInv
  <2>3. QED BY <2>1, <2>2 DEF FreshStage, Nothing, ColdStart
<1>10. CASE Reconcile \/ Finish \/ StepFails
  BY <1>10, <1>s DEF Reconcile, Finish, StepFails, FreshStart
<1>11. CASE Stop \/ Destroy
  BY <1>11, <1>s DEF Stop, Destroy, work, Idle, FreshStart
<1>12. CASE UNCHANGED syncVars BY <1>12, <1>i DEF syncVars
<1>13. QED
  BY <1>1, <1>2, <1>3, <1>4, <1>5, <1>6, <1>7, <1>8, <1>9, <1>10, <1>11, <1>12 DEF SyncNext

LEMMA FreshInvKept ==
    ASSUME SyncAssumption, SyncTypeOK, FreshInv, "recover" \notin Faults, [SyncNext]_syncVars
    PROVE  FreshInv'
BY SessionsNeedGuest, FreshStageKept DEF FreshInv, FreshStart, FreshStage

LEMMA FreshStep ==
    ASSUME SyncAssumption, SyncTypeOK, FreshInv, [SyncNext]_syncVars,
           op = "fresh", applied' # applied
    PROVE  AsDeclared(applied)'
<1>1. Finish
  BY DEF SyncNext, syncVars, Edit, GuestWrite, MacWrite, Cycle, Terminate, Move, Rename, Setup,
         Resume, Clone, RemoveMirror, FlushAll, Done, StartVM, Reconcile, StepFails, Stop, Destroy,
         Idle
<1>2. applied' = target /\ session' = session /\ todo = <<>> BY <1>1 DEF Finish
<1>3. FreshStart => AsDeclared(target)
  <2>1. FreshStart => <<>> # ColdStart(target) BY DEF FreshStart, ColdStart
  <2>2. QED BY <1>2, <2>1 DEF FreshInv, FreshStart
<1>4. CASE FreshStart BY <1>2, <1>3, <1>4 DEF AsDeclared, Created
<1>5. CASE ~FreshStart BY <1>2, <1>5 DEF AsDeclared, FreshStart
<1>6. QED BY <1>4, <1>5

\* A cold start of a disk that has nothing, as a destroy or the teardown after a
\* failure leaves it, ends with the session that devm.yaml declares, for any
\* declarations, unless a dirty VM's disk goes without its sessions ("recover").
THEOREM FreshSyncsAsDeclared ==
    ASSUME "recover" \notin Faults
    PROVE  SyncSpec => FreshIsAsDeclared
<1>1. SyncInit => FreshInv BY DEF SyncInit, FreshInv
<1>2. SyncTypeOK /\ FreshInv /\ [SyncNext]_syncVars => FreshInv'
  BY FreshInvKept, SyncAssumption
<1>3. SyncTypeOK /\ FreshInv /\ [SyncNext]_syncVars =>
        [op = "fresh" /\ applied' # applied => AsDeclared(applied)']_syncVars
  BY FreshStep, SyncAssumption
<1>4. QED BY <1>1, <1>2, <1>3, SyncTypeCorrect, PTL DEF SyncSpec, FreshIsAsDeclared

\* Versions are not what a directory that is gone has.
LEMMA VersionsAreNumbers ==
    ASSUME SyncAssumption
    PROVE  /\ Versions \subseteq Nat /\ 0 \in Versions /\ Remote \in Versions
           /\ Gone \notin Versions /\ NoSession \notin Sessions
           /\ \A d \in Declared : d.label \in Labels /\ d.path \in Paths
BY DEF SyncAssumption, Versions, Remote

\* The merge of two sides of which one at most is ahead is the newer one.
LEMMA MergeIsNewer ==
    ASSUME SyncAssumption, SyncTypeOK, NEW l \in Labels, HasSession(l), InStep(l),
           NEW v, v = Merged(session[l], mirror[l], guest[session[l].path])
    PROVE  /\ Populated(mirror[l]) => v >= mirror[l]
           /\ Populated(guest[session[l].path]) => v >= guest[session[l].path]
           /\ v \in Versions
           /\ v = 0 \/ v = mirror[l] \/ v = guest[session[l].path]
<1> DEFINE s == session[l]
           m == mirror[l]
           g == guest[s.path]
<1>1. s \in Sessions BY DEF SyncTypeOK, HasSession
<1>2. /\ s.path \in Paths /\ s.base \in Versions /\ m \in Versions \cup {Gone}
      /\ g \in Versions \cup {Gone}
  BY <1>1 DEF SyncTypeOK, Sessions
<1>3. v = IF ~Populated(m) THEN (IF Populated(g) THEN g ELSE 0)
          ELSE IF ~Populated(g) \/ m # s.base \/ g = s.base THEN m ELSE g
  BY DEF Merged
<1>4. /\ Populated(m) => m >= s.base /\ m \in Versions
      /\ Populated(g) => g >= s.base /\ g \in Versions
      /\ ~Populated(m) \/ m = s.base \/ ~Populated(g) \/ g = s.base
  BY <1>2 DEF InStep, Populated
<1> HIDE DEF s, m, g
<1>5. QED
  <2>1. /\ Populated(m) => v >= m
        /\ Populated(g) => v >= g
        /\ v \in Versions
        /\ v = 0 \/ v = m \/ v = g
    BY <1>2, <1>3, <1>4, VersionsAreNumbers
  <2>2. QED BY <2>1 DEF s, m, g

\* What a cycle does, when it does something.
LEMMA CycleEffect ==
    ASSUME SyncAssumption, SyncTypeOK, NEW l \in Labels, Flushes(l, Now)
    PROVE  /\ HasSession(l) /\ session[l] \in Sessions /\ session[l].path \in Paths
           /\ \E v \in Versions :
                /\ v = Merged(session[l], mirror[l], guest[session[l].path])
                /\ Cycled(l, Now).guest = [guest EXCEPT ![session[l].path] = v]
                /\ Cycled(l, Now).mirror = [mirror EXCEPT ![l] = v]
                /\ Cycled(l, Now).session = [session EXCEPT ![l].base = v]
<1>1. HasSession(l) BY DEF Flushes, Now, HasSession
<1>2. session[l] \in Sessions BY <1>1 DEF SyncTypeOK, HasSession
<1>3. \/ Cycled(l, Now) = Now /\ ~Flushes(l, Now)
      \/ /\ Merged(session[l], mirror[l], guest[session[l].path]) \in Versions
         /\ Cycled(l, Now).guest = [guest EXCEPT ![session[l].path] =
               Merged(session[l], mirror[l], guest[session[l].path])]
         /\ Cycled(l, Now).mirror = [mirror EXCEPT ![l] =
               Merged(session[l], mirror[l], guest[session[l].path])]
         /\ Cycled(l, Now).session = [session EXCEPT ![l].base =
               Merged(session[l], mirror[l], guest[session[l].path])]
  BY CycleMerges
<1>4. session[l].path \in Paths BY <1>2 DEF Sessions
<1>5. QED BY <1>1, <1>2, <1>3, <1>4

\* And a terminate cycles, or there was no session.
LEMMA TerminateEffect ==
    ASSUME SyncAssumption, SyncTypeOK, Terminate
    PROVE  \E l \in Labels :
             /\ l = Head(todo)[2]
             /\ session' = [session EXCEPT ![l] = NoSession]
             /\ \/ ~HasSession(l) /\ UNCHANGED sides
                \/ /\ HasSession(l) /\ Flushes(l, Now)
                   /\ guest' = Cycled(l, Now).guest /\ mirror' = Cycled(l, Now).mirror
<1>1. PICK l \in Labels : l = Head(todo)[2]
  BY StepsOfOperations, StepArguments DEF Terminate
<1>2. /\ session[l] # NoSession => Flushes(l, Now)
      /\ guest' = Cycled(l, Now).guest /\ mirror' = Cycled(l, Now).mirror
      /\ session' = [session EXCEPT ![l] = NoSession]
  BY <1>1 DEF Terminate
<1>3. ~HasSession(l) => ~Flushes(l, Now) BY DEF HasSession, Flushes, Now
<1>4. ~Flushes(l, Now) => Cycled(l, Now) = Now BY CycleMerges
<1>5. Cycled(l, Now) = Now => UNCHANGED sides BY <1>2 DEF Now, sides
<1>6. QED BY <1>1, <1>2, <1>3, <1>4, <1>5 DEF HasSession

\* What the applied declaration and the file's have to do with one another.
LEMMA PlanFacts ==
    ASSUME SyncAssumption, ChangesOneAtATime, PlanInv, applied # Undeclared, files # Undeclared
    PROVE  /\ applied \in Declared /\ files \in Declared
           /\ applied.kind = files.kind /\ applied.kind \in {"volume", "repo"}
           /\ applied.kind = "volume" => applied.mirrored /\ files.mirrored
           /\ applied.kind = "volume" => applied.label = files.label \/ applied.path = files.path
           /\ applied.kind = "repo" => (applied.label = files.label <=> applied.path = files.path)
<1>1. PICK plan \in Plans : applied \in plan /\ files \in plan BY DEF PlanInv
<1>2. applied \in Declared /\ files \in Declared BY <1>1 DEF Declared, Declarations
<1>3. QED BY <1>1, <1>2 DEF ChangesOneAtATime, SyncAssumption

LEMMA StepParts == \A h, name, x : h = <<name, x>> => h[1] = name /\ h[2] = x
OBVIOUS

\* A reconcile's next step tells how far it is.
LEMMA StageOfStep ==
    ASSUME SyncAssumption, TodoInv, op = "reconcile", todo # <<>>
    PROVE  /\ Head(todo)[1] = "move" =>
                ToMove(todo, applied, target) /\ OnlyAt(target) /\ ~HasSession(applied.label)
           /\ Head(todo)[1] = "rename" =>
                /\ ToRename(todo, applied, target) /\ OnlyAt(target) /\ ~HasSession(applied.label)
                /\ applied.kind = "repo" => session = Nothing /\ LeftBehind(applied, target)
           /\ Head(todo)[1] = "remove" =>
                ToRemove(todo, applied, target) /\ LeftBehind(applied, target) /\ session = Nothing
           /\ Head(todo)[1] = "remove empty" =>
                ToRemoveEmpty(todo, applied, target) /\ session = Nothing
           /\ Head(todo)[1] \in {"setup", "clone", "clone only"} =>
                /\ ToSetUp(todo, applied, target) /\ LeftBehind(applied, target) /\ OnlyAt(target)
                /\ target # Undeclared /\ Head(todo)[2] = target
                /\ target.mirrored <=> Head(todo)[1] # "clone only"
           /\ Head(todo)[1] \notin {"resume", "flush"}
           /\ Head(todo)[1] = "terminate" =>
                \/ ToTerminate(todo, applied, target)
                \/ /\ ToSwitch(todo, applied, target) /\ LeftBehind(applied, target)
                   /\ \A l \in Labels : HasSession(l) => l = target.label /\ applied.label = target.label
                \/ ToSetUp(todo, applied, target) /\ LeftBehind(applied, target) /\ OnlyAt(target)
<1>1. CASE ToTerminate(todo, applied, target)
  <2>1. Head(todo)[1] = "terminate" BY <1>1 DEF ToTerminate, StartsWith
  <2>2. QED BY <1>1, <2>1
<1>2. CASE ToMove(todo, applied, target) /\ OnlyAt(target) /\ ~HasSession(applied.label)
  <2>1. Head(todo)[1] = "move" BY <1>2 DEF ToMove, StartsWith
  <2>2. QED BY <1>2, <2>1
<1>3. CASE /\ ToRename(todo, applied, target) /\ OnlyAt(target) /\ ~HasSession(applied.label)
           /\ applied.kind = "repo" => session = Nothing /\ LeftBehind(applied, target)
  <2>1. Head(todo)[1] = "rename" BY <1>3 DEF ToRename, StartsWith
  <2>2. QED BY <1>3, <2>1
<1>4. CASE /\ ToSwitch(todo, applied, target) /\ LeftBehind(applied, target)
           /\ \A l \in Labels : HasSession(l) => l = target.label /\ applied.label = target.label
  <2>1. Head(todo)[1] = "terminate" BY <1>4 DEF ToSwitch, StartsWith
  <2>2. QED BY <1>4, <2>1
<1>5. CASE ToRemove(todo, applied, target) /\ LeftBehind(applied, target) /\ session = Nothing
  <2>1. Head(todo)[1] = "remove" BY <1>5 DEF ToRemove, StartsWith
  <2>2. QED BY <1>5, <2>1
<1>6. CASE ToRemoveEmpty(todo, applied, target) /\ session = Nothing
  <2>1. Head(todo)[1] = "remove empty" BY <1>6, StepParts DEF ToRemoveEmpty, StartsWith
  <2>2. QED BY <1>6, <2>1
<1>7. CASE ToSetUp(todo, applied, target) /\ LeftBehind(applied, target) /\ OnlyAt(target)
  <2>1. Head(todo) \in LastSteps(applied, target)
    BY <1>7, StepsLeft DEF ToSetUp
  <2>2. target # Undeclared BY <2>1 DEF LastSteps
  <2>3. CASE target.mirrored
    <3>1. Head(todo) \in {<<"terminate", target.label>>, <<"setup", target>>, <<"clone", target>>}
      BY <2>1, <2>2, <2>3 DEF LastSteps
    <3>2. Head(todo)[1] = "terminate" \/ (Head(todo)[1] \in {"setup", "clone"} /\ Head(todo)[2] = target)
      <4>1. CASE Head(todo) = <<"terminate", target.label>> BY <4>1, StepParts
      <4>2. CASE Head(todo) = <<"setup", target>> BY <4>2, StepParts
      <4>3. CASE Head(todo) = <<"clone", target>> BY <4>3, StepParts
      <4>4. QED BY <3>1, <4>1, <4>2, <4>3
    <3>3. QED BY <1>7, <2>2, <2>3, <3>2
  <2>4. CASE ~target.mirrored
    <3>1. Head(todo) = <<"clone only", target>> BY <2>1, <2>2, <2>4 DEF LastSteps
    <3>2. Head(todo)[1] = "clone only" /\ Head(todo)[2] = target BY <3>1, StepParts
    <3>3. QED BY <1>7, <2>2, <2>4, <3>2
  <2>5. QED BY <2>3, <2>4
<1>8. QED BY <1>1, <1>2, <1>3, <1>4, <1>5, <1>6, <1>7 DEF TodoInv, Stage

\* A cold start's next step is one of its own.
LEMMA ColdStep ==
    ASSUME TodoInv, op \in {"start", "fresh"}, todo # <<>>
    PROVE  /\ Tail(todo) \in Seq(ColdSteps(target))
           /\ Head(todo)[1] \in {"resume", "clone", "clone only", "flush"}
           /\ Head(todo)[1] # "flush" =>
                /\ target # Undeclared /\ Head(todo)[2] = target
                /\ target.mirrored <=> Head(todo)[1] # "clone only"
<1>1. Head(todo) \in ColdSteps(target) /\ Tail(todo) \in Seq(ColdSteps(target))
  BY StepsLeft DEF TodoInv
<1>2. \/ Head(todo) = <<"flush">>
      \/ target # Undeclared /\ target.mirrored /\ Head(todo) = <<"resume", target>>
      \/ target # Undeclared /\ target.mirrored /\ Head(todo) = <<"clone", target>>
      \/ target # Undeclared /\ ~target.mirrored /\ Head(todo) = <<"clone only", target>>
  BY <1>1 DEF ColdSteps
<1>3. \/ Head(todo)[1] = "flush"
      \/ target # Undeclared /\ target.mirrored /\ Head(todo)[1] = "resume" /\ Head(todo)[2] = target
      \/ target # Undeclared /\ target.mirrored /\ Head(todo)[1] = "clone" /\ Head(todo)[2] = target
      \/ target # Undeclared /\ ~target.mirrored /\ Head(todo)[1] = "clone only" /\ Head(todo)[2] = target
  <2>1. CASE Head(todo) = <<"flush">>
    <3>1. <<"flush">>[1] = "flush" OBVIOUS
    <3>2. QED BY <2>1, <3>1
  <2>2. CASE target # Undeclared /\ target.mirrored /\ Head(todo) = <<"resume", target>>
    BY <2>2, StepParts
  <2>3. CASE target # Undeclared /\ target.mirrored /\ Head(todo) = <<"clone", target>>
    BY <2>3, StepParts
  <2>4. CASE target # Undeclared /\ ~target.mirrored /\ Head(todo) = <<"clone only", target>>
    BY <2>4, StepParts
  <2>5. QED BY <1>2, <2>1, <2>2, <2>3, <2>4
<1>4. QED BY <1>1, <1>3

LEMMA PlanInvKept ==
    ASSUME SyncAssumption, Undisturbed, SyncTypeOK, PlanInv, [SyncNext]_syncVars
    PROVE  PlanInv'
<1>1. ASSUME UNCHANGED <<applied, files, op, target>>, vm' = vm PROVE PlanInv'
  BY <1>1 DEF PlanInv
<1>2. CASE Edit
  BY <1>2 DEF Edit, Idle, work, PlanInv
<1>3. ASSUME NEW p \in Paths, GuestWrite(p) PROVE PlanInv' BY <1>1, <1>3 DEF GuestWrite, work
<1>4. ASSUME NEW l \in Labels, MacWrite(l) \/ Cycle(l) PROVE PlanInv'
  BY <1>1, <1>4 DEF MacWrite, Cycle, work
<1>5. CASE Done BY <1>1, <1>5 DEF Done
<1>6. CASE Terminate \/ Move \/ Rename \/ Setup \/ Resume \/ Clone \/ RemoveMirror \/ FlushAll
  BY <1>5, <1>6 DEF Terminate, Move, Rename, Setup, Resume, Clone, RemoveMirror, FlushAll
<1>7. CASE StartVM BY <1>7 DEF StartVM, PlanInv
<1>8. CASE Reconcile BY <1>8 DEF Reconcile, PlanInv
<1>9. CASE Finish BY <1>9 DEF Finish, PlanInv
<1>10. CASE StepFails BY <1>10 DEF StepFails, PlanInv
<1>11. CASE Stop BY <1>11 DEF Stop, Idle, work, PlanInv
<1>12. CASE Destroy
  <2>1. files' = files /\ op' = "none" /\ (applied' = applied \/ applied' = Undeclared)
    BY <1>12 DEF Destroy, Idle, work
  <2>2. QED BY <2>1 DEF PlanInv, SyncAssumption
<1>13. CASE UNCHANGED syncVars BY <1>1, <1>13 DEF syncVars
<1>14. QED
  BY <1>2, <1>3, <1>4, <1>6, <1>7, <1>8, <1>9, <1>10, <1>11, <1>12, <1>13 DEF SyncNext

\* No step but a set-up and a resume makes a session.
LEMMA SessionsFewer ==
    ASSUME SyncAssumption, SyncTypeOK, [SyncNext]_syncVars, ~Setup, ~Resume
    PROVE  \A l \in Labels : HasSession(l)' => HasSession(l)
<1>1. ASSUME UNCHANGED session PROVE \A l \in Labels : HasSession(l)' => HasSession(l)
  BY <1>1 DEF HasSession
<1>2. CASE Edit \/ Move \/ Rename \/ Clone \/ RemoveMirror \/ FlushAll \/ StartVM \/ Reconcile \/ Finish
  BY <1>1, <1>2 DEF Edit, Move, Rename, Clone, RemoveMirror, FlushAll, StartVM, Reconcile, Finish
<1>3. ASSUME NEW p \in Paths, GuestWrite(p) PROVE \A l \in Labels : HasSession(l)' => HasSession(l)
  BY <1>1, <1>3 DEF GuestWrite
<1>4. ASSUME NEW l \in Labels, MacWrite(l) PROVE \A m \in Labels : HasSession(m)' => HasSession(m)
  BY <1>1, <1>4 DEF MacWrite
<1>5. ASSUME NEW l \in Labels, Cycle(l) PROVE \A m \in Labels : HasSession(m)' => HasSession(m)
  <2>1. /\ Flushes(l, Now) /\ session' = Cycled(l, Now).session BY <1>5 DEF Cycle
  <2>2. HasSession(l) /\ \E v \in Versions : session' = [session EXCEPT ![l].base = v]
    BY <2>1, CycleEffect
  <2>3. QED BY <2>2 DEF HasSession, SyncTypeOK
<1>6. CASE Terminate
  <2>1. PICK l \in Labels : session' = [session EXCEPT ![l] = NoSession] BY <1>6, TerminateEffect
  <2>2. QED BY <2>1 DEF HasSession, SyncTypeOK
<1>7. CASE StepFails
  <2>1. UNCHANGED session \/ session' = Nothing BY <1>7 DEF StepFails, Terminated
  <2>2. QED BY <1>1, <2>1 DEF HasSession, Nothing
<1>8. CASE Stop
  BY <1>8, PausedTypes DEF Stop, HasSession
<1>9. CASE Destroy
  <2>1. session' = Nothing \/ session' = Paused BY <1>9 DEF Destroy, Terminated
  <2>2. QED BY <2>1, PausedTypes DEF HasSession, Nothing
<1>10. CASE UNCHANGED syncVars BY <1>1, <1>10 DEF syncVars
<1>11. QED
  BY <1>2, <1>3, <1>4, <1>5, <1>6, <1>7, <1>8, <1>9, <1>10 DEF SyncNext

\* What is made a session of is the declaration the operation applies, and no
\* other has one.
LEMMA SessionsMade ==
    ASSUME SyncAssumption, Undisturbed, SyncInv, Setup \/ Resume
    PROVE  /\ files # Undeclared /\ files.mirrored /\ Head(todo)[2] = files /\ files \in Declared
           /\ OnlyAt(files) /\ OnlyAt(files)'
           /\ Setup => op = "reconcile" /\ ToSetUp(todo, applied, files) /\ LeftBehind(applied, files)
           /\ Resume => op \in {"start", "fresh"}
<1>1. /\ op \in {"reconcile", "start", "fresh"} /\ todo # <<>> /\ target = files /\ vm = "running"
      /\ Setup => Head(todo)[1] = "setup"
      /\ Resume => Head(todo)[1] = "resume"
  BY StepsOfOperations DEF Setup, Resume, Step, SyncInv, SyncTypeOK, PlanInv
<1>2. CASE op = "reconcile"
  <2>1. Setup /\ Head(todo)[1] = "setup" BY <1>1, <1>2, StageOfStep DEF SyncInv
  <2>2. /\ ToSetUp(todo, applied, target) /\ LeftBehind(applied, target) /\ OnlyAt(target)
        /\ target # Undeclared /\ Head(todo)[2] = target /\ target.mirrored
    BY <1>1, <1>2, <2>1, StageOfStep DEF SyncInv
  <2>3. ~Resume BY <1>1, <2>1
  <2>4. QED BY <1>1, <1>2, <2>1, <2>2, <2>3 DEF Setup, Done, OnlyAt, HasSession, Mirrors, SyncInv, SyncTypeOK, Declared
<1>3. CASE op \in {"start", "fresh"}
  <2>1. Resume /\ Head(todo)[1] = "resume" BY <1>1, <1>3, ColdStep DEF SyncInv
  <2>2. target # Undeclared /\ Head(todo)[2] = target /\ target.mirrored
    BY <1>1, <1>3, <2>1, ColdStep DEF SyncInv
  <2>3. ~Setup BY <1>1, <2>1
  <2>4. OnlyAt(target) BY <1>1, <1>3 DEF SyncInv, WhereInv, OnlyAt
  <2>5. QED BY <1>1, <1>3, <2>1, <2>2, <2>3, <2>4 DEF Resume, Done, OnlyAt, HasSession, Mirrors, SyncInv, SyncTypeOK, Declared
<1>4. QED BY <1>1, <1>2, <1>3

LEMMA OnlyAtIsOne ==
    ASSUME NEW d, OnlyAt(d)
    PROVE  \A l, m \in Labels : HasSession(l) /\ HasSession(m) => l = m
BY DEF OnlyAt, Mirrors

\* A reconcile that has no steps left has come to the last of its stages.
LEMMA ReconcileIsOver ==
    ASSUME TodoInv, op = "reconcile", todo = <<>>
    PROVE  LeftBehind(applied, target) /\ OnlyAt(target)
BY DEF TodoInv, Stage, ToTerminate, ToMove, ToRename, ToSwitch, ToRemove, ToRemoveEmpty, StartsWith

LEMMA WhereInvKept ==
    ASSUME SyncAssumption, Undisturbed, SyncInv, FreshInv, [SyncNext]_syncVars
    PROVE  WhereInv'
<1>w. WhereInv /\ PlanInv /\ SyncTypeOK BY DEF SyncInv
<1>1. CASE Setup \/ Resume
  <2>1. /\ OnlyAt(files)' /\ UNCHANGED <<files, applied, vm, op>> /\ vm = "running"
    BY <1>1, SessionsMade DEF Setup, Resume, Done, Step, OnlyAt, HasSession, Mirrors
  <2>2. QED BY <1>w, <2>1, OnlyAtIsOne DEF WhereInv, OnlyAt, HasSession, Mirrors
<1>2. CASE ~Setup /\ ~Resume
  <2>f. \A l \in Labels : HasSession(l)' => HasSession(l) BY <1>w, <1>2, SessionsFewer
  <2>n. session = Nothing => session' = Nothing
    <3>1. session = Nothing => \A l \in Labels : session'[l] = NoSession
      BY <2>f DEF HasSession, Nothing
    <3>2. session' \in [Labels -> Sessions \cup {NoSession}] BY <1>w, SyncTypesKept DEF SyncTypeOK
    <3>3. QED BY <3>1, <3>2 DEF Nothing
  <2>i. ASSUME UNCHANGED <<files, applied, op>>, vm' = vm PROVE WhereInv'
    BY <1>w, <2>f, <2>i, <2>n DEF WhereInv, Mirrors, Nothing
  <2>z. ASSUME session' = Nothing PROVE WhereInv'
    BY <2>z DEF WhereInv, HasSession, Nothing
  <2>1. CASE Edit
    <3>1. (vm = "running" /\ files = applied) \/ NoGuest
      BY <2>1 DEF Edit, Undisturbed
    <3>2. CASE NoGuest
      BY <3>2, <2>n, <2>z DEF FreshInv
    <3>3. CASE vm = "running" /\ files = applied
      BY <1>w, <2>1, <2>f, <3>3 DEF WhereInv, Edit, work, Idle, Mirrors
    <3>4. QED BY <3>1, <3>2, <3>3
  <2>2. ASSUME NEW p \in Paths, GuestWrite(p) PROVE WhereInv' BY <2>2, <2>i DEF GuestWrite, work
  <2>3. ASSUME NEW l \in Labels, MacWrite(l) \/ Cycle(l) PROVE WhereInv'
    BY <2>3, <2>i DEF MacWrite, Cycle, work
  <2>4. CASE Done BY <2>4, <2>i DEF Done
  <2>5. CASE Terminate \/ Move \/ Rename \/ Clone \/ RemoveMirror \/ FlushAll
    BY <2>4, <2>5 DEF Terminate, Move, Rename, Clone, RemoveMirror, FlushAll
  <2>6. CASE StartVM
    BY <1>w, <2>6, <2>f, <2>n, <2>z DEF StartVM, WhereInv, Mirrors
  <2>7. CASE Reconcile
    BY <1>w, <2>7, <2>f DEF Reconcile, WhereInv, Mirrors
  <2>8. CASE Finish
    <3>1. /\ op \in {"reconcile", "start", "fresh"} /\ target = files /\ todo = <<>>
          /\ applied' = files /\ files' = files /\ op' = "none" /\ vm' = "running"
      BY <1>w, <2>8 DEF Finish, PlanInv, SyncTypeOK
    <3>2. OnlyAt(files)
      BY <1>w, <3>1, ReconcileIsOver DEF SyncInv, WhereInv, OnlyAt
    <3>3. QED BY <1>w, <2>f, <3>1, <3>2 DEF WhereInv, OnlyAt, Mirrors
  <2>9. CASE StepFails
    <3>1. session' = Nothing \/ (UNCHANGED <<files, applied>> /\ vm' = vm /\ vm = "running" /\ op' = "none")
      BY <1>w, <2>9 DEF StepFails, Terminated, PlanInv
    <3>2. QED BY <1>w, <2>f, <2>z, <3>1 DEF WhereInv, Mirrors
  <2>10. CASE Stop
    BY <1>w, <2>10, <2>f DEF Stop, Undisturbed, WhereInv, Mirrors, work, Idle
  <2>11. CASE Destroy
    BY <2>11, <2>z DEF Destroy, Undisturbed, Terminated
  <2>12. CASE UNCHANGED syncVars BY <2>12, <2>i DEF syncVars
  <2>13. QED
    BY <1>2, <2>1, <2>2, <2>3, <2>5, <2>6, <2>7, <2>8, <2>9, <2>10, <2>11, <2>12 DEF SyncNext
<1>3. QED BY <1>1, <1>2

Relabelled == applied # Undeclared /\ files # Undeclared /\ applied.label # files.label

\* A cycle of the new label's session leaves alone what is under the old label.
LEMMA CycleKeepsLeft ==
    ASSUME SyncAssumption, Undisturbed, SyncInv, NEW l \in Labels, Flushes(l, Now),
           guest' = Cycled(l, Now).guest, mirror' = Cycled(l, Now).mirror,
           UNCHANGED <<applied, files>>,
           Relabelled, op \in {"none", "reconcile"}, HasSession(files.label), LeftBehind(applied, files)
    PROVE  LeftBehind(applied, files)'
<1>1. SyncTypeOK /\ PlanInv /\ WhereInv /\ LeftInv BY DEF SyncInv
<1>2. /\ applied \in Declared /\ files \in Declared /\ applied.kind \in {"volume", "repo"}
      /\ applied.kind = "repo" => applied.path # files.path
  BY <1>1, PlanFacts DEF Relabelled, Undisturbed
<1>3. /\ applied.label \in Labels /\ files.label \in Labels /\ applied.path \in Paths
  BY <1>2 DEF SyncAssumption
<1>4. PICK v \in Versions : /\ guest' = [guest EXCEPT ![session[l].path] = v]
                            /\ mirror' = [mirror EXCEPT ![l] = v]
  BY <1>1, CycleEffect
<1>5. l = files.label
  BY <1>1, <1>3, CycleEffect DEF WhereInv
<1>6. session[files.label].path = files.path
  BY <1>1 DEF LeftInv, Relabelled
<1>7. applied.kind = "volume" => mirror'[applied.label] = mirror[applied.label]
  BY <1>1, <1>3, <1>4, <1>5 DEF SyncTypeOK, Relabelled
<1>8. applied.kind = "repo" => guest'[applied.path] = guest[applied.path]
  BY <1>1, <1>2, <1>3, <1>4, <1>5, <1>6 DEF SyncTypeOK
<1>9. QED BY <1>2, <1>7, <1>8 DEF LeftBehind, Relabelled

\* The step of a move comes when no session is left.
LEMMA MoveHasNoSession ==
    ASSUME SyncAssumption, Undisturbed, SyncInv, Move
    PROVE  /\ op = "reconcile" /\ target = files /\ session = Nothing
           /\ applied # Undeclared /\ files # Undeclared
           /\ ToMove(todo, applied, files)
           /\ Head(todo) = <<"move", applied.path, files.path>>
<1>1. SyncTypeOK /\ PlanInv /\ WhereInv /\ LeftInv /\ TodoInv BY DEF SyncInv
<1>2. op # "none" /\ todo # <<>> /\ Head(todo)[1] = "move"
  BY <1>1, StepsOfOperations DEF Move, Step
<1>3. op \notin {"start", "fresh"} BY <1>1, <1>2, ColdStep
<1>4. op = "reconcile" /\ target = files BY <1>1, <1>2, <1>3 DEF SyncTypeOK, PlanInv
<1>5. ToMove(todo, applied, files) /\ OnlyAt(files) /\ ~HasSession(applied.label)
  BY <1>1, <1>2, <1>4, StageOfStep
<1>6. /\ applied # Undeclared /\ files # Undeclared /\ applied.path # files.path
      /\ Head(todo) = <<"move", applied.path, files.path>>
  BY <1>5 DEF ToMove, StartsWith
<1>7. guest[applied.path] # Gone
  <2>1. Head(todo)[2] = applied.path BY <1>6
  <2>2. QED BY <2>1 DEF Move
<1>8. ~HasSession(files.label)
  <2>1. CASE applied.label = files.label BY <1>5, <2>1
  <2>2. CASE applied.label # files.label
    <3>1. applied.kind = "repo" BY <1>1, <1>6, <2>2, PlanFacts DEF Undisturbed
    <3>2. ~LeftBehind(applied, files) BY <1>6, <1>7, <2>2, <3>1 DEF LeftBehind
    <3>3. QED BY <1>1, <1>4, <1>6, <2>2, <3>2 DEF LeftInv
  <2>3. QED BY <2>1, <2>2
<1>9. session = Nothing
  <2>1. \A l \in Labels : session[l] = NoSession BY <1>5, <1>8 DEF OnlyAt, HasSession, Mirrors
  <2>2. QED BY <1>1, <2>1 DEF SyncTypeOK, Nothing
<1>10. QED BY <1>4, <1>5, <1>6, <1>9

LEMMA RenameOldLabel ==
    ASSUME SyncAssumption, Undisturbed, SyncInv, Rename
    PROVE  /\ op = "reconcile" /\ target = files /\ ToRename(todo, applied, files)
           /\ OnlyAt(files) /\ ~HasSession(applied.label)
           /\ applied.kind = "repo" => session = Nothing /\ LeftBehind(applied, files)
           /\ Relabelled
           /\ Head(todo)[2] = applied.label /\ Head(todo)[3] = files.label
           /\ applied.label \in Labels /\ files.label \in Labels
           /\ mirror'[applied.label] = Gone
           /\ mirror'[files.label] = IF mirror[applied.label] = Gone THEN 0 ELSE mirror[applied.label]
           /\ \A l \in Labels \ {applied.label, files.label} : mirror'[l] = mirror[l]
           /\ ~Populated(mirror[files.label])
<1>1. SyncTypeOK /\ PlanInv /\ WhereInv /\ LeftInv /\ TodoInv BY DEF SyncInv
<1>2. op # "none" /\ todo # <<>> /\ Head(todo)[1] = "rename"
  BY <1>1, StepsOfOperations DEF Rename, Step
<1>3. op \notin {"start", "fresh"} BY <1>1, <1>2, ColdStep
<1>4. op = "reconcile" /\ target = files BY <1>1, <1>2, <1>3 DEF SyncTypeOK, PlanInv
<1>5. /\ ToRename(todo, applied, files) /\ OnlyAt(files) /\ ~HasSession(applied.label)
      /\ applied.kind = "repo" => session = Nothing /\ LeftBehind(applied, files)
  BY <1>1, <1>2, <1>4, StageOfStep
<1>6. Relabelled /\ Head(todo) = <<"rename", applied.label, files.label>>
  BY <1>5 DEF ToRename, StartsWith, Relabelled
<1>7. Head(todo)[2] = applied.label /\ Head(todo)[3] = files.label BY <1>6
<1>8. applied.label \in Labels /\ files.label \in Labels /\ applied.label # files.label
  BY <1>1, <1>6, PlanFacts, VersionsAreNumbers DEF Relabelled, Undisturbed
<1>9. Made(mirror, applied.label)[applied.label] =
        IF mirror[applied.label] = Gone THEN 0 ELSE mirror[applied.label]
  BY <1>1, <1>8, MadeTypes DEF SyncTypeOK
<1>10. /\ mirror' = [mirror EXCEPT ![applied.label] = Gone,
                                  ![files.label] = Made(mirror, applied.label)[applied.label]]
       /\ ~Populated(mirror[files.label])
  BY <1>7 DEF Rename
<1>11. /\ mirror'[applied.label] = Gone
       /\ mirror'[files.label] = Made(mirror, applied.label)[applied.label]
       /\ \A l \in Labels \ {applied.label, files.label} : mirror'[l] = mirror[l]
  BY <1>1, <1>8, <1>10 DEF SyncTypeOK
<1>12. QED BY <1>4, <1>5, <1>6, <1>7, <1>8, <1>9, <1>10, <1>11

\* Making or filling the new declaration's directories leaves the old label's.
LEMMA MadeKeepsLeft ==
    ASSUME SyncAssumption, Undisturbed, SyncInv, Relabelled, UNCHANGED <<applied, files>>,
           LeftBehind(applied, files),
           \A p \in Paths : p # files.path => guest'[p] = guest[p],
           \A l \in Labels : l # files.label => mirror'[l] = mirror[l]
    PROVE  LeftBehind(applied, files)'
<1>1. /\ applied \in Declared /\ files \in Declared /\ applied.kind \in {"volume", "repo"}
      /\ applied.kind = "repo" => applied.path # files.path
  BY PlanFacts DEF Relabelled, Undisturbed, SyncInv
<1>2. applied.label \in Labels /\ applied.path \in Paths BY <1>1 DEF SyncAssumption
<1>3. QED BY <1>1, <1>2 DEF LeftBehind, Relabelled

\* A set-up and a resume make the declaration's directories and its session.
LEMMA SetUpEffect ==
    ASSUME SyncAssumption, SyncTypeOK, NEW d \in Declared, Head(todo)[2] = d, Setup \/ Resume
    PROVE  /\ \A p \in Paths : p # d.path => guest'[p] = guest[p]
           /\ guest'[d.path] = IF guest[d.path] = Gone THEN 0 ELSE guest[d.path]
           /\ \A l \in Labels : l # d.label => mirror'[l] = mirror[l] /\ session'[l] = session[l]
           /\ mirror'[d.label] = IF mirror[d.label] = Gone THEN 0 ELSE mirror[d.label]
           /\ HasSession(d.label) =>
                /\ session'[d.label].path = session[d.label].path
                /\ session'[d.label].base = session[d.label].base
           /\ ~HasSession(d.label) =>
                GuardOK(d) /\ session'[d.label].path = d.path /\ session'[d.label].base = 0
           /\ UNCHANGED <<files, applied, vm, op, target, edits, writes>>
<1>1. d.label \in Labels /\ d.path \in Paths BY DEF SyncAssumption
<1>2. /\ guest' = Made(guest, d.path) /\ mirror' = Made(mirror, d.label)
      /\ ~HasSession(d.label) => GuardOK(d)
      /\ session' = [session EXCEPT ![d.label] = session'[d.label]]
      /\ \/ session'[d.label] = IF session[d.label] = NoSession THEN Created(d) ELSE session[d.label]
         \/ session'[d.label] = IF session[d.label] = NoSession THEN Created(d)
                                ELSE [session[d.label] EXCEPT !.paused = FALSE]
      /\ UNCHANGED <<files, applied, vm, op, target, edits, writes>>
  BY <1>1 DEF Setup, Resume, Done, HasSession, SyncTypeOK
<1>3. /\ \A p \in Paths : p # d.path => guest'[p] = guest[p]
      /\ guest'[d.path] = IF guest[d.path] = Gone THEN 0 ELSE guest[d.path]
      /\ \A l \in Labels : l # d.label => mirror'[l] = mirror[l]
      /\ mirror'[d.label] = IF mirror[d.label] = Gone THEN 0 ELSE mirror[d.label]
  <2>1. guest \in [Paths -> Versions \cup {Gone}] /\ mirror \in [Labels -> Versions \cup {Gone}]
    BY DEF SyncTypeOK
  <2>2. /\ \A p \in Paths : p # d.path => Made(guest, d.path)[p] = guest[p]
        /\ Made(guest, d.path)[d.path] = IF guest[d.path] = Gone THEN 0 ELSE guest[d.path]
    BY <1>1, <2>1, MadeTypes
  <2>3. /\ \A l \in Labels : l # d.label => Made(mirror, d.label)[l] = mirror[l]
        /\ Made(mirror, d.label)[d.label] = IF mirror[d.label] = Gone THEN 0 ELSE mirror[d.label]
    BY <1>1, <2>1, MadeTypes
  <2>4. QED BY <1>2, <2>2, <2>3
<1>4. \A l \in Labels : l # d.label => session'[l] = session[l]
  BY <1>1, <1>2 DEF SyncTypeOK
<1>5. HasSession(d.label) =>
        /\ session'[d.label].path = session[d.label].path
        /\ session'[d.label].base = session[d.label].base
  <2>1. HasSession(d.label) => session[d.label] \in Sessions
    BY <1>1 DEF SyncTypeOK, HasSession
  <2>2. HasSession(d.label) => /\ [session[d.label] EXCEPT !.paused = FALSE].path = session[d.label].path
                               /\ [session[d.label] EXCEPT !.paused = FALSE].base = session[d.label].base
    BY <2>1 DEF Sessions
  <2>3. QED BY <1>2, <2>2 DEF HasSession
<1>6. ~HasSession(d.label) => session'[d.label].path = d.path /\ session'[d.label].base = 0
  BY <1>2 DEF HasSession, Created
<1>7. QED BY <1>2, <1>3, <1>4, <1>5, <1>6

\* A clone touches the declaration's directories only, and fills the guest's
\* when it and the mirror are empty.
LEMMA CloneEffect ==
    ASSUME SyncAssumption, SyncTypeOK, NEW d \in Declared, Head(todo)[2] = d, Clone
    PROVE  /\ \A p \in Paths : p # d.path => guest'[p] = guest[p]
           /\ \/ guest'[d.path] = guest[d.path]
              \/ guest[d.path] = Gone /\ guest'[d.path] = 0
              \/ /\ ~Populated(guest[d.path]) /\ guest'[d.path] = Remote
                 /\ Head(todo)[1] = "clone" => ~Populated(mirror[d.label])
           /\ \A l \in Labels : l # d.label => mirror'[l] = mirror[l]
           /\ \/ mirror'[d.label] = mirror[d.label]
              \/ mirror[d.label] = Gone /\ mirror'[d.label] = 0
           /\ Head(todo)[1] \in {"clone", "clone only"}
           /\ UNCHANGED <<files, applied, vm, op, target, edits, writes, session>>
<1>1. d.label \in Labels /\ d.path \in Paths BY DEF SyncAssumption
<1>2. /\ \/ /\ guest' = [guest EXCEPT ![d.path] = Remote] /\ ~Populated(guest[d.path])
            /\ Head(todo)[1] = "clone" => ~Populated(mirror[d.label])
         \/ guest' = guest \/ guest' = Made(guest, d.path)
      /\ mirror' = Made(mirror, d.label) \/ mirror' = mirror
      /\ Head(todo)[1] \in {"clone", "clone only"}
      /\ UNCHANGED <<files, applied, vm, op, target, edits, writes, session>>
  BY DEF Clone, Done, Step
<1>3. /\ \A p \in Paths : p # d.path => Made(guest, d.path)[p] = guest[p]
      /\ Made(guest, d.path)[d.path] = IF guest[d.path] = Gone THEN 0 ELSE guest[d.path]
      /\ \A l \in Labels : l # d.label => Made(mirror, d.label)[l] = mirror[l]
      /\ Made(mirror, d.label)[d.label] = IF mirror[d.label] = Gone THEN 0 ELSE mirror[d.label]
  BY <1>1, MadeTypes DEF SyncTypeOK
<1>4. /\ \A p \in Paths : p # d.path => [guest EXCEPT ![d.path] = Remote][p] = guest[p]
      /\ [guest EXCEPT ![d.path] = Remote][d.path] = Remote
  BY <1>1 DEF SyncTypeOK
<1>5. QED BY <1>2, <1>3, <1>4

\* What a cycle or a pause makes of a session keeps its path.
LEMMA PathsKept ==
    ASSUME SyncAssumption, SyncTypeOK, NEW l \in Labels, Flushes(l, Now),
           session' = Cycled(l, Now).session, NEW m \in Labels
    PROVE  /\ HasSession(m)' <=> HasSession(m)
           /\ HasSession(m) => session'[m].path = session[m].path
<1>1. PICK v \in Versions : session' = [session EXCEPT ![l].base = v] BY CycleEffect
<1>2. HasSession(l) /\ session[l] \in Sessions BY CycleEffect
<1>3. CASE m # l BY <1>1, <1>3 DEF SyncTypeOK, HasSession
<1>4. CASE m = l
  <2>1. session'[l] = [session[l] EXCEPT !.base = v] BY <1>1 DEF SyncTypeOK
  <2>2. session'[l] \in Sessions /\ session'[l].path = session[l].path
    BY <1>2, <2>1 DEF Sessions
  <2>3. QED BY <1>2, <1>4, <2>2, VersionsAreNumbers DEF HasSession
<1>5. QED BY <1>3, <1>4

LEMMA LeftInvKept ==
    ASSUME SyncAssumption, Undisturbed, SyncInv, FreshInv, [SyncNext]_syncVars
    PROVE  LeftInv'
<1>w. WhereInv /\ PlanInv /\ SyncTypeOK /\ LeftInv /\ TodoInv BY DEF SyncInv
<1>s. SUFFICES ASSUME op' \in {"none", "reconcile"}, Relabelled', HasSession(files.label)'
               PROVE  LeftBehind(applied, files)' /\ session'[files'.label].path = files'.path
  BY DEF LeftInv, Relabelled
<1>p. /\ applied' \in Declared /\ files' \in Declared
      /\ files'.label \in Labels /\ applied'.label \in Labels
  <2>1. PlanInv' BY <1>w, PlanInvKept
  <2>2. applied' \in Declared /\ files' \in Declared
    BY <1>s, <2>1 DEF PlanInv, Relabelled, Declared, Declarations
  <2>3. QED BY <2>2, VersionsAreNumbers
<1>i. ASSUME UNCHANGED <<files, applied, session>>, op \in {"none", "reconcile"}
      PROVE  /\ LeftBehind(applied, files) /\ session'[files'.label].path = files'.path
             /\ Relabelled /\ HasSession(files.label)
  BY <1>w, <1>s, <1>i DEF LeftInv, Relabelled, HasSession
<1>k. ASSUME UNCHANGED <<files, applied, session>>, op \in {"none", "reconcile"},
             \A p \in Paths : guest[p] = Gone => guest'[p] = Gone,
             \A l \in Labels : mirror[l] = Gone => mirror'[l] = Gone
      PROVE  LeftBehind(applied, files)' /\ session'[files'.label].path = files'.path
  <2>1. applied.label \in Labels /\ applied.path \in Paths BY <1>k, <1>p, VersionsAreNumbers
  <2>2. QED BY <1>k, <1>i, <2>1 DEF LeftBehind
<1>1. CASE Edit
  <2>1. /\ UNCHANGED <<applied, session>> /\ ((vm = "running" /\ files = applied) \/ NoGuest)
    BY <1>1 DEF Edit, Undisturbed
  <2>2. session[files'.label] # NoSession BY <1>s, <2>1 DEF HasSession
  <2>3. ~NoGuest BY <1>p, <2>2 DEF FreshInv, Nothing
  <2>4. files'.label = applied.label
    BY <1>w, <1>p, <2>1, <2>2, <2>3 DEF WhereInv, Mirrors, HasSession
  <2>5. QED BY <1>s, <2>1, <2>4 DEF Relabelled
<1>2. ASSUME NEW p \in Paths, GuestWrite(p)
      PROVE  LeftBehind(applied, files)' /\ session'[files'.label].path = files'.path
  <2>1. /\ UNCHANGED <<files, applied, session, op, mirror>> /\ guest[p] # Gone
        /\ guest' = [guest EXCEPT ![p] = writes + 1]
    BY <1>2 DEF GuestWrite, work
  <2>2. \A q \in Paths : guest[q] = Gone => guest'[q] = Gone BY <1>w, <2>1 DEF SyncTypeOK
  <2>3. QED BY <1>s, <1>k, <2>1, <2>2
<1>3. ASSUME NEW l \in Labels, MacWrite(l)
      PROVE  LeftBehind(applied, files)' /\ session'[files'.label].path = files'.path
  <2>1. /\ UNCHANGED <<files, applied, session, op, guest>> /\ mirror[l] # Gone
        /\ mirror' = [mirror EXCEPT ![l] = writes + 1]
    BY <1>3 DEF MacWrite, work
  <2>2. \A m \in Labels : mirror[m] = Gone => mirror'[m] = Gone BY <1>w, <2>1 DEF SyncTypeOK
  <2>3. QED BY <1>s, <1>k, <2>1, <2>2
<1>4. ASSUME NEW l \in Labels, Cycle(l)
      PROVE  LeftBehind(applied, files)' /\ session'[files'.label].path = files'.path
  <2>1. /\ UNCHANGED <<files, applied, op>> /\ Flushes(l, Now)
        /\ guest' = Cycled(l, Now).guest /\ mirror' = Cycled(l, Now).mirror
        /\ session' = Cycled(l, Now).session
    BY <1>4 DEF Cycle, work
  <2>2. /\ Relabelled /\ op \in {"none", "reconcile"} /\ files.label \in Labels
        /\ HasSession(files.label)'
    BY <1>s, <1>p, <2>1 DEF Relabelled, HasSession
  <2>3. HasSession(files.label) /\ session'[files.label].path = session[files.label].path
    BY <1>w, <2>1, <2>2, PathsKept
  <2>4. LeftBehind(applied, files) /\ session[files.label].path = files.path
    BY <1>w, <2>2, <2>3 DEF LeftInv, Relabelled
  <2>5. LeftBehind(applied, files)' BY <2>1, <2>2, <2>3, <2>4, CycleKeepsLeft
  <2>6. QED BY <2>1, <2>3, <2>4, <2>5
<1>d. ASSUME Done PROVE /\ UNCHANGED <<files, applied, op, target>> /\ Relabelled
                        /\ op \in {"none", "reconcile"} /\ files.label \in Labels
  BY <1>d, <1>s, <1>p DEF Done, Relabelled
<1>5. CASE Terminate
  <2>1. PICK l \in Labels :
          /\ session' = [session EXCEPT ![l] = NoSession]
          /\ (~HasSession(l) /\ UNCHANGED sides) \/ HasSession(l)
    BY <1>w, <1>5, TerminateEffect
  <2>2. UNCHANGED <<files, applied, op>> /\ op \in {"none", "reconcile"} /\ files.label \in Labels
    BY <1>5, <1>d DEF Terminate
  <2>3. l # files.label /\ HasSession(files.label)
    BY <1>w, <1>s, <2>1, <2>2 DEF HasSession, SyncTypeOK
  <2>4. ~HasSession(l) BY <1>w, <2>2, <2>3 DEF WhereInv
  <2>5. session' = session BY <1>w, <2>1, <2>4 DEF HasSession, SyncTypeOK
  <2>6. QED BY <1>k, <2>1, <2>2, <2>4, <2>5 DEF sides
<1>6. CASE Move
  <2>1. session = Nothing /\ session' = session /\ files' = files
    BY <1>6, MoveHasNoSession DEF Move, Done
  <2>2. QED BY <1>s, <1>p, <2>1 DEF HasSession, Nothing
<1>7. CASE Rename
  <2>1. /\ UNCHANGED <<files, applied, op, session, guest>>
        /\ op \in {"none", "reconcile"} /\ files.label \in Labels
    BY <1>7, <1>d DEF Rename
  <2>2. /\ mirror'[applied.label] = Gone
        /\ applied.kind = "repo" => session = Nothing
    BY <1>7, RenameOldLabel
  <2>3. HasSession(files.label) /\ session'[files'.label].path = files'.path
    BY <1>i, <2>1
  <2>4. applied.kind # "repo" BY <2>1, <2>2, <2>3 DEF HasSession, Nothing
  <2>5. applied.kind = "volume" BY <1>p, <2>1, <2>4 DEF SyncAssumption
  <2>6. QED BY <2>1, <2>2, <2>3, <2>5 DEF LeftBehind
<1>8. CASE Setup
  <2>1. /\ Done /\ Relabelled /\ files \in Declared /\ Head(todo)[2] = files
        /\ LeftBehind(applied, files)
    BY <1>8, <1>d, SessionsMade DEF Setup
  <2>2. /\ \A p \in Paths : p # files.path => guest'[p] = guest[p]
        /\ \A l \in Labels : l # files.label => mirror'[l] = mirror[l]
        /\ HasSession(files.label) => session'[files.label].path = session[files.label].path
        /\ ~HasSession(files.label) => session'[files.label].path = files.path
        /\ UNCHANGED <<files, applied, op>>
    BY <1>w, <1>8, <2>1, SetUpEffect
  <2>3. LeftBehind(applied, files)' BY <2>1, <2>2, MadeKeepsLeft
  <2>4. HasSession(files.label) => session[files.label].path = files.path
    BY <1>w, <1>s, <2>1, <2>2 DEF LeftInv, Relabelled
  <2>5. QED BY <2>2, <2>3, <2>4
<1>9. CASE Resume
  <2>1. op \in {"start", "fresh"} BY <1>9, SessionsMade
  <2>2. QED BY <1>9, <1>d, <2>1 DEF Resume
<1>10. CASE Clone
  <2>1. Done /\ todo # <<>> /\ Head(todo)[1] \in {"clone", "clone only"} /\ op # "none"
    BY <1>w, <1>10, StepsOfOperations DEF Clone, Step
  <2>2. op = "reconcile" /\ target = files /\ Relabelled
    BY <1>w, <1>d, <2>1 DEF PlanInv
  <2>3. Head(todo)[2] = files /\ files \in Declared
    BY <1>w, <1>p, <1>d, <2>1, <2>2, StageOfStep
  <2>4. /\ \A p \in Paths : p # files.path => guest'[p] = guest[p]
        /\ \A l \in Labels : l # files.label => mirror'[l] = mirror[l]
        /\ UNCHANGED <<files, applied, op, session>>
    BY <1>w, <1>10, <2>3, CloneEffect
  <2>5. LeftBehind(applied, files) /\ session'[files'.label].path = files'.path
    BY <1>i, <2>2, <2>4
  <2>6. LeftBehind(applied, files)' BY <2>2, <2>4, <2>5, MadeKeepsLeft
  <2>7. QED BY <2>5, <2>6
<1>11. CASE RemoveMirror
  <2>1. UNCHANGED <<files, applied, op, session, guest>> /\ op \in {"none", "reconcile"}
    BY <1>11, <1>d DEF RemoveMirror
  <2>2. \A l \in Labels : mirror[l] = Gone => mirror'[l] = Gone
    BY <1>w, <1>11 DEF RemoveMirror, SyncTypeOK
  <2>3. QED BY <1>k, <2>1, <2>2
<1>12. CASE FlushAll
  BY <1>12, <1>d, <1>k DEF FlushAll, sides
<1>13. CASE StartVM BY <1>13, <1>s DEF StartVM
<1>14. CASE Reconcile
  BY <1>14, <1>k DEF Reconcile, sides, Idle
<1>15. CASE Finish
  <2>1. applied' = files' BY <1>w, <1>15 DEF Finish, PlanInv
  <2>2. QED BY <1>s, <2>1 DEF Relabelled
<1>16. CASE StepFails
  <2>1. session' = Nothing \/ (op = "reconcile" /\ UNCHANGED <<files, applied, session, sides>>)
    BY <1>16 DEF StepFails, Terminated
  <2>2. session' # Nothing BY <1>s, <1>p DEF HasSession, Nothing
  <2>3. QED BY <1>k, <2>1, <2>2 DEF sides
<1>17. CASE Stop
  BY <1>17, <1>s DEF Stop, Undisturbed, Relabelled
<1>18. CASE Destroy
  BY <1>18, <1>s DEF Destroy, Undisturbed, Relabelled
<1>19. CASE UNCHANGED syncVars
  BY <1>19, <1>s, <1>k DEF syncVars
<1>20. QED
  BY <1>1, <1>2, <1>3, <1>4, <1>5, <1>6, <1>7, <1>8, <1>9, <1>10, <1>11, <1>12, <1>13, <1>14,
     <1>15, <1>16, <1>17, <1>18, <1>19 DEF SyncNext

\* What is synced stays so when the sides do not change and no session does more
\* than pause or end.
LEMMA SidesUnchanged ==
    ASSUME SideInv, UNCHANGED <<guest, mirror, writes>>,
           \A l \in Labels : HasSession(l)' =>
               /\ HasSession(l) /\ session'[l].path = session[l].path
               /\ session'[l].base = session[l].base
    PROVE  SideInv'
<1>1. ASSUME NEW l \in Labels, HasSession(l)'
      PROVE  InStep(l)' /\ session'[l].base <= writes'
  BY <1>1 DEF SideInv, InStep
<1>2. /\ \A l \in Labels : mirror'[l] # Gone => mirror'[l] <= writes'
      /\ \A p \in Paths : guest'[p] # Gone => guest'[p] <= writes'
      /\ Remote <= writes'
  BY DEF SideInv
<1>3. QED BY <1>1, <1>2 DEF SideInv

\* Without sessions only the sides' versions are looked at.
LEMMA SidesWithout ==
    ASSUME \A l \in Labels : ~HasSession(l)',
           \A l \in Labels : mirror'[l] # Gone => mirror'[l] <= writes',
           \A p \in Paths : guest'[p] # Gone => guest'[p] <= writes',
           Remote <= writes'
    PROVE  SideInv'
BY DEF SideInv

\* Everything is as new as the newest version, after a cycle as well.
LEMMA CycleSides ==
    ASSUME SyncAssumption, SyncTypeOK, SideInv, NEW l \in Labels, Flushes(l, Now),
           guest' = Cycled(l, Now).guest, mirror' = Cycled(l, Now).mirror, writes' = writes
    PROVE  /\ \A m \in Labels : mirror'[m] # Gone => mirror'[m] <= writes'
           /\ \A p \in Paths : guest'[p] # Gone => guest'[p] <= writes'
           /\ Remote <= writes'
           /\ mirror'[l] = guest'[session[l].path] /\ mirror'[l] \in Versions
           /\ session' = Cycled(l, Now).session =>
                session'[l].base = mirror'[l] /\ session'[l].path = session[l].path
<1>1. /\ HasSession(l) /\ session[l] \in Sessions /\ session[l].path \in Paths
      /\ \E v \in Versions :
           /\ v = Merged(session[l], mirror[l], guest[session[l].path])
           /\ Cycled(l, Now).guest = [guest EXCEPT ![session[l].path] = v]
           /\ Cycled(l, Now).mirror = [mirror EXCEPT ![l] = v]
           /\ Cycled(l, Now).session = [session EXCEPT ![l].base = v]
  BY CycleEffect
<1>2. PICK v \in Versions :
           /\ v = Merged(session[l], mirror[l], guest[session[l].path])
           /\ guest' = [guest EXCEPT ![session[l].path] = v]
           /\ mirror' = [mirror EXCEPT ![l] = v]
           /\ Cycled(l, Now).session = [session EXCEPT ![l].base = v]
  BY <1>1
<1>3. InStep(l) BY <1>1 DEF SideInv
<1>4. v = 0 \/ v = mirror[l] \/ v = guest[session[l].path] BY <1>1, <1>2, <1>3, MergeIsNewer
<1>5. writes \in Nat /\ v # Gone BY <1>2, VersionsAreNumbers DEF SyncTypeOK
<1>6. v <= writes BY <1>1, <1>4, <1>5 DEF SideInv
<1>7. /\ \A m \in Labels : m # l => mirror'[m] = mirror[m]
      /\ \A p \in Paths : p # session[l].path => guest'[p] = guest[p]
      /\ mirror'[l] = v /\ guest'[session[l].path] = v
  BY <1>1, <1>2 DEF SyncTypeOK
<1>8. session' = Cycled(l, Now).session => session'[l].base = v /\ session'[l].path = session[l].path
  <2>1. session' = Cycled(l, Now).session => session'[l] = [session[l] EXCEPT !.base = v]
    BY <1>2 DEF SyncTypeOK
  <2>2. [session[l] EXCEPT !.base = v].base = v /\ [session[l] EXCEPT !.base = v].path = session[l].path
    BY <1>1 DEF Sessions
  <2>3. QED BY <2>1, <2>2
<1>9. QED BY <1>6, <1>7, <1>8 DEF SideInv

\* The sides of a session of which one at most is populated are in step.
LEMMA MadeSides ==
    ASSUME NEW l, NEW p, HasSession(l)', session'[l].path = p, session'[l].base = session[l].base,
           HasSession(l), session[l].path = p, InStep(l),
           mirror'[l] = mirror[l] \/ (~Populated(mirror[l]) /\ mirror'[l] = 0),
           guest'[p] = guest[p] \/ (~Populated(guest[p]) /\ guest'[p] = 0)
    PROVE  InStep(l)'
<1>1. /\ Populated(mirror'[l]) <=> Populated(mirror[l])
      /\ Populated(guest'[p]) <=> Populated(guest[p])
      /\ Populated(mirror[l]) => mirror'[l] = mirror[l]
      /\ Populated(guest[p]) => guest'[p] = guest[p]
  BY DEF Populated
<1>2. QED BY <1>1 DEF InStep

LEMMA SetUpSides ==
    ASSUME SyncAssumption, Undisturbed, SyncInv, Setup \/ Resume
    PROVE  SideInv'
<1>w. WhereInv /\ PlanInv /\ SyncTypeOK /\ SideInv BY DEF SyncInv
<1> DEFINE d == files
<1>1. /\ d \in Declared /\ Head(todo)[2] = d /\ OnlyAt(d)'
      /\ d.label \in Labels /\ d.path \in Paths
  BY SessionsMade, VersionsAreNumbers
<1>2. /\ \A p \in Paths : p # d.path => guest'[p] = guest[p]
      /\ guest'[d.path] = IF guest[d.path] = Gone THEN 0 ELSE guest[d.path]
      /\ \A l \in Labels : l # d.label => mirror'[l] = mirror[l]
      /\ mirror'[d.label] = IF mirror[d.label] = Gone THEN 0 ELSE mirror[d.label]
      /\ HasSession(d.label) =>
           /\ session'[d.label].path = session[d.label].path
           /\ session'[d.label].base = session[d.label].base
      /\ ~HasSession(d.label) =>
           GuardOK(d) /\ session'[d.label].path = d.path /\ session'[d.label].base = 0
      /\ writes' = writes /\ files' = files
  BY <1>w, <1>1, SetUpEffect
<1>3. writes \in Nat BY <1>w, VersionsAreNumbers DEF SyncTypeOK
<1>4. /\ \A l \in Labels : mirror'[l] # Gone => mirror'[l] <= writes'
      /\ \A p \in Paths : guest'[p] # Gone => guest'[p] <= writes'
      /\ Remote <= writes'
  BY <1>w, <1>2, <1>3 DEF SideInv
<1>5. ASSUME NEW l \in Labels, HasSession(l)' PROVE InStep(l)' /\ session'[l].base <= writes'
  <2>1. l = d.label BY <1>1, <1>2, <1>5 DEF OnlyAt, Mirrors
  <2>2. CASE HasSession(l)
    <3> DEFINE p == session[l].path
    <3>1. InStep(l) /\ session[l].base <= writes BY <1>w, <2>2 DEF SideInv
    <3>2. p \in Paths BY <1>w, <2>2 DEF SyncTypeOK, HasSession, Sessions
    <3>3. /\ session'[l].path = p /\ session'[l].base = session[l].base
          /\ mirror'[l] = mirror[l] \/ (~Populated(mirror[l]) /\ mirror'[l] = 0)
          /\ guest'[p] = guest[p] \/ (~Populated(guest[p]) /\ guest'[p] = 0)
      BY <1>2, <2>1, <2>2, <3>2 DEF Populated
    <3> HIDE DEF p
    <3>4. session[l].path = p BY DEF p
    <3>5. InStep(l)' BY <1>5, <2>2, <3>1, <3>3, <3>4, MadeSides
    <3>6. QED BY <1>2, <3>1, <3>3, <3>5
  <2>3. CASE ~HasSession(l)
    <3>1. /\ session'[l].path = d.path /\ session'[l].base = 0
          /\ ~Populated(mirror[d.label]) \/ ~Populated(guest[d.path])
      BY <1>2, <2>1, <2>3 DEF GuardOK, Undisturbed
    <3>2. /\ mirror'[l] \in Versions /\ guest'[d.path] \in Versions
      BY <1>w, <1>1, <1>2, <2>1, VersionsAreNumbers DEF SyncTypeOK
    <3>3. ~Populated(mirror'[l]) \/ ~Populated(guest'[d.path])
      BY <1>2, <2>1, <3>1 DEF Populated
    <3>4. mirror'[l] >= 0 /\ guest'[d.path] >= 0 /\ 0 <= writes'
      BY <1>2, <1>3, <3>2, VersionsAreNumbers
    <3>5. QED BY <3>1, <3>3, <3>4 DEF InStep, Populated
  <2>4. QED BY <2>2, <2>3
<1>6. QED BY <1>4, <1>5 DEF SideInv

\* Where a clone fills an empty directory a session has nothing it remembers.
LEMMA CloneSides ==
    ASSUME SyncAssumption, Undisturbed, SyncInv, Clone
    PROVE  SideInv'
<1>w. WhereInv /\ PlanInv /\ SyncTypeOK /\ SideInv /\ TodoInv BY DEF SyncInv
<1>1. /\ op # "none" /\ todo # <<>> /\ Head(todo)[1] \in {"clone", "clone only"} /\ target = files
  BY <1>w, StepsOfOperations DEF Clone, Step, PlanInv
<1>2. /\ OnlyAt(files) /\ files # Undeclared /\ Head(todo)[2] = files
      /\ files.mirrored <=> Head(todo)[1] # "clone only"
  <2>1. CASE op = "reconcile" BY <1>w, <1>1, <2>1, StageOfStep
  <2>2. CASE op \in {"start", "fresh"}
    <3>1. OnlyAt(files) BY <1>w, <2>2 DEF WhereInv, OnlyAt
    <3>2. QED BY <1>w, <1>1, <2>2, <3>1, ColdStep
  <2>3. QED BY <1>w, <1>1, <2>1, <2>2 DEF SyncTypeOK
<1> DEFINE d == files
<1>3. d \in Declared /\ d.label \in Labels /\ d.path \in Paths
  BY <1>w, <1>2, VersionsAreNumbers DEF SyncTypeOK, Declared
<1>4. /\ \A p \in Paths : p # d.path => guest'[p] = guest[p]
      /\ \/ guest'[d.path] = guest[d.path]
         \/ guest[d.path] = Gone /\ guest'[d.path] = 0
         \/ /\ ~Populated(guest[d.path]) /\ guest'[d.path] = Remote
            /\ Head(todo)[1] = "clone" => ~Populated(mirror[d.label])
      /\ \A l \in Labels : l # d.label => mirror'[l] = mirror[l]
      /\ \/ mirror'[d.label] = mirror[d.label]
         \/ mirror[d.label] = Gone /\ mirror'[d.label] = 0
      /\ UNCHANGED <<writes, session>>
  BY <1>w, <1>2, <1>3, CloneEffect
<1>5. writes \in Nat BY <1>w, VersionsAreNumbers DEF SyncTypeOK
<1>6. /\ \A l \in Labels : mirror'[l] # Gone => mirror'[l] <= writes'
      /\ \A p \in Paths : guest'[p] # Gone => guest'[p] <= writes'
      /\ Remote <= writes'
  BY <1>w, <1>4, <1>5 DEF SideInv
<1>7. ASSUME NEW l \in Labels, HasSession(l)' PROVE InStep(l)' /\ session'[l].base <= writes'
  <2> DEFINE p == session[l].path
  <2>1. HasSession(l) /\ l = d.label /\ Head(todo)[1] = "clone"
    BY <1>1, <1>2, <1>4, <1>7 DEF OnlyAt, Mirrors, HasSession
  <2>2. InStep(l) /\ session[l].base <= writes BY <1>w, <2>1 DEF SideInv
  <2>3. p \in Paths /\ session[l].base \in Versions BY <1>w, <2>1 DEF SyncTypeOK, HasSession, Sessions
  <2>4. mirror'[l] = mirror[l] \/ (~Populated(mirror[l]) /\ mirror'[l] = 0)
    BY <1>4, <2>1 DEF Populated
  <2>5. CASE guest'[p] = guest[p] \/ (~Populated(guest[p]) /\ guest'[p] = 0)
    <3> HIDE DEF p
    <3>1. session[l].path = p /\ session' = session BY <1>4 DEF p
    <3>2. InStep(l)' BY <1>7, <2>1, <2>2, <2>4, <2>5, <3>1, MadeSides
    <3>3. QED BY <1>4, <2>2, <3>2
  <2>6. CASE ~(guest'[p] = guest[p] \/ (~Populated(guest[p]) /\ guest'[p] = 0))
    <3>1. /\ p = d.path /\ guest'[p] = Remote /\ ~Populated(mirror[l])
      BY <1>4, <2>1, <2>3, <2>6 DEF Populated
    <3>2. session[l].base = 0
      BY <2>2, <2>3, <3>1, VersionsAreNumbers DEF InStep, Populated
    <3>3. ~Populated(mirror'[l]) BY <2>4, <3>1 DEF Populated
    <3>4. session'[l].path = p /\ session'[l].base = 0 BY <1>4, <3>2
    <3>5. guest'[p] >= 0 BY <3>1 DEF Remote
    <3> HIDE DEF p
    <3>6. InStep(l)' BY <3>3, <3>4, <3>5 DEF InStep, Populated
    <3>7. QED BY <1>4, <2>2, <3>6
  <2>7. QED BY <2>5, <2>6
<1>8. QED BY <1>6, <1>7 DEF SideInv

LEMMA SideInvKept ==
    ASSUME SyncAssumption, Undisturbed, SyncInv, FreshInv, [SyncNext]_syncVars
    PROVE  SideInv'
<1>w. WhereInv /\ PlanInv /\ SyncTypeOK /\ LeftInv /\ TodoInv /\ SideInv BY DEF SyncInv
<1>n. writes \in Nat BY <1>w, VersionsAreNumbers DEF SyncTypeOK
<1>i. ASSUME UNCHANGED <<guest, mirror, writes, session>> PROVE SideInv'
  BY <1>w, <1>i, SidesUnchanged DEF HasSession
<1>1. CASE Edit \/ FlushAll \/ StartVM \/ Reconcile \/ Finish
  BY <1>1, <1>i DEF Edit, FlushAll, StartVM, Reconcile, Finish, sides
<1>2. ASSUME NEW p \in Paths, GuestWrite(p) PROVE SideInv'
  <2>1. /\ UNCHANGED <<mirror, session>> /\ writes' = writes + 1 /\ Synced(p)
        /\ guest' = [guest EXCEPT ![p] = writes + 1]
    BY <1>2 DEF GuestWrite
  <2>g. writes + 1 # Gone
    BY <1>n, <1>2, VersionsAreNumbers DEF GuestWrite, Versions, SyncAssumption
  <2>2. guest'[p] = writes' /\ \A q \in Paths : q # p => guest'[q] = guest[q]
    BY <1>w, <2>1 DEF SyncTypeOK
  <2>3. /\ \A l \in Labels : mirror'[l] # Gone => mirror'[l] <= writes'
        /\ \A q \in Paths : guest'[q] # Gone => guest'[q] <= writes'
        /\ Remote <= writes'
    <3>1. /\ \A l \in Labels : mirror[l] # Gone => mirror[l] \in Nat
          /\ \A q \in Paths : guest[q] # Gone => guest[q] \in Nat
      BY <1>w, VersionsAreNumbers DEF SyncTypeOK
    <3>2. QED BY <1>w, <1>n, <2>1, <2>2, <3>1 DEF SideInv, Remote
  <2>4. ASSUME NEW l \in Labels, HasSession(l)' PROVE InStep(l)' /\ session'[l].base <= writes'
    <3>1. /\ HasSession(l) /\ session'[l] = session[l] /\ mirror'[l] = mirror[l]
          /\ session[l].base \in Nat /\ session[l].path \in Paths
      BY <1>w, <2>1, <2>4, VersionsAreNumbers DEF HasSession, SyncTypeOK, Sessions
    <3>2. InStep(l) /\ session[l].base <= writes BY <1>w, <3>1 DEF SideInv
    <3>3. session'[l].base <= writes' /\ session[l].base <= writes + 1 BY <1>n, <2>1, <3>1, <3>2
    <3>4. CASE session[l].path # p
      <4>1. guest'[session[l].path] = guest[session[l].path] BY <2>2, <3>1, <3>4
      <4>2. QED BY <3>1, <3>2, <3>3, <4>1 DEF InStep
    <3>5. CASE session[l].path = p
      <4>1. mirror[l] \in {session[l].base, Gone} BY <2>1, <3>1, <3>5 DEF Synced, HasSession
      <4>2. guest'[p] = writes + 1 /\ writes + 1 # 0 /\ writes + 1 # Gone
        BY <1>n, <2>g, <2>1, <2>2
      <4>3. /\ Populated(guest'[p]) /\ guest'[p] >= session[l].base
            /\ Populated(session[l].base) => Populated(mirror[l])
        BY <1>n, <3>1, <3>2, <3>3, <4>2 DEF Populated, InStep
      <4>4. /\ Populated(mirror[l]) => mirror[l] >= session[l].base
            /\ ~Populated(mirror[l]) \/ mirror[l] = session[l].base
        BY <3>2, <4>1 DEF InStep, Populated
      <4>5. session'[l].path = p /\ session'[l].base = session[l].base BY <3>1, <3>5
      <4>6. QED BY <3>1, <3>3, <4>3, <4>4, <4>5 DEF InStep
    <3>6. QED BY <3>4, <3>5
  <2>5. QED BY <2>3, <2>4 DEF SideInv
<1>3. ASSUME NEW l \in Labels, MacWrite(l) PROVE SideInv'
  <2>1. /\ UNCHANGED <<guest, session>> /\ writes' = writes + 1
        /\ session[l] # NoSession => guest[session[l].path] \in {session[l].base, Gone}
        /\ mirror' = [mirror EXCEPT ![l] = writes + 1]
    BY <1>3 DEF MacWrite
  <2>g. writes + 1 # Gone
    BY <1>n, <1>3, VersionsAreNumbers DEF MacWrite, Versions, SyncAssumption
  <2>2. mirror'[l] = writes' /\ \A m \in Labels : m # l => mirror'[m] = mirror[m]
    BY <1>w, <2>1 DEF SyncTypeOK
  <2>3. /\ \A m \in Labels : mirror'[m] # Gone => mirror'[m] <= writes'
        /\ \A q \in Paths : guest'[q] # Gone => guest'[q] <= writes'
        /\ Remote <= writes'
    <3>1. /\ \A m \in Labels : mirror[m] # Gone => mirror[m] \in Nat
          /\ \A q \in Paths : guest[q] # Gone => guest[q] \in Nat
      BY <1>w, VersionsAreNumbers DEF SyncTypeOK
    <3>2. QED BY <1>w, <1>n, <2>1, <2>2, <3>1 DEF SideInv, Remote
  <2>4. ASSUME NEW m \in Labels, HasSession(m)' PROVE InStep(m)' /\ session'[m].base <= writes'
    <3>1. /\ HasSession(m) /\ session'[m] = session[m] /\ guest' = guest
          /\ session[m].base \in Nat /\ session[m].path \in Paths
      BY <1>w, <2>1, <2>4, VersionsAreNumbers DEF HasSession, SyncTypeOK, Sessions
    <3>2. InStep(m) /\ session[m].base <= writes BY <1>w, <3>1 DEF SideInv
    <3>3. session'[m].base <= writes' /\ session[m].base <= writes + 1 BY <1>n, <2>1, <3>1, <3>2
    <3>4. CASE m # l
      <4>1. mirror'[m] = mirror[m] BY <2>2, <3>4
      <4>2. QED BY <3>1, <3>2, <3>3, <4>1 DEF InStep
    <3>5. CASE m = l
      <4> DEFINE g == guest[session[l].path]
      <4>1. g \in {session[l].base, Gone} BY <2>1, <3>1, <3>5 DEF HasSession
      <4>2. mirror'[l] = writes + 1 /\ writes + 1 # 0 /\ writes + 1 # Gone
        BY <1>n, <2>g, <2>1, <2>2
      <4>3. /\ Populated(mirror'[l]) /\ mirror'[l] >= session[l].base
            /\ Populated(session[l].base) => Populated(g)
        BY <1>n, <3>1, <3>2, <3>3, <3>5, <4>2 DEF Populated, InStep
      <4>4. /\ Populated(g) => g >= session[l].base
            /\ ~Populated(g) \/ g = session[l].base
        BY <3>2, <3>5, <4>1 DEF InStep, Populated
      <4>5. session'[l] = session[l] /\ guest'[session'[l].path] = g BY <3>1, <3>5
      <4> HIDE DEF g
      <4>6. QED BY <3>3, <3>5, <4>3, <4>4, <4>5 DEF InStep
    <3>6. QED BY <3>4, <3>5
  <2>5. QED BY <2>3, <2>4 DEF SideInv
<1>4. ASSUME NEW l \in Labels, Cycle(l) PROVE SideInv'
  <2>1. /\ Flushes(l, Now) /\ writes' = writes
        /\ guest' = Cycled(l, Now).guest /\ mirror' = Cycled(l, Now).mirror
        /\ session' = Cycled(l, Now).session
    BY <1>4 DEF Cycle
  <2>2. /\ \A m \in Labels : mirror'[m] # Gone => mirror'[m] <= writes'
        /\ \A p \in Paths : guest'[p] # Gone => guest'[p] <= writes'
        /\ Remote <= writes'
        /\ mirror'[l] = guest'[session[l].path] /\ mirror'[l] \in Versions
        /\ session'[l].base = mirror'[l] /\ session'[l].path = session[l].path
    BY <1>w, <2>1, CycleSides
  <2>3. ASSUME NEW m \in Labels, HasSession(m)' PROVE m = l
    <3>1. HasSession(m) /\ HasSession(l) BY <1>w, <2>1, <2>3, PathsKept, CycleEffect
    <3>2. QED BY <1>w, <3>1 DEF WhereInv
  <2>4. mirror'[l] # Gone /\ mirror'[l] \in Nat BY <2>2, VersionsAreNumbers
  <2>5. InStep(l)' /\ session'[l].base <= writes'
    BY <2>2, <2>4 DEF InStep, Populated
  <2>6. QED BY <2>2, <2>3, <2>5 DEF SideInv
<1>5. CASE Terminate
  <2>1. PICK l \in Labels :
          /\ session' = [session EXCEPT ![l] = NoSession]
          /\ \/ ~HasSession(l) /\ UNCHANGED sides
             \/ /\ HasSession(l) /\ Flushes(l, Now)
                /\ guest' = Cycled(l, Now).guest /\ mirror' = Cycled(l, Now).mirror
    BY <1>w, <1>5, TerminateEffect
  <2>2. writes' = writes BY <1>5 DEF Terminate
  <2>3. CASE ~HasSession(l) /\ UNCHANGED sides
    <3>1. session' = session BY <1>w, <2>1, <2>3 DEF HasSession, SyncTypeOK
    <3>2. QED BY <1>i, <2>2, <2>3, <3>1 DEF sides
  <2>4. CASE /\ HasSession(l) /\ Flushes(l, Now)
             /\ guest' = Cycled(l, Now).guest /\ mirror' = Cycled(l, Now).mirror
    <3>1. \A m \in Labels : ~HasSession(m)'
      BY <1>w, <2>1, <2>4 DEF WhereInv, HasSession, SyncTypeOK
    <3>2. /\ \A m \in Labels : mirror'[m] # Gone => mirror'[m] <= writes'
          /\ \A p \in Paths : guest'[p] # Gone => guest'[p] <= writes'
          /\ Remote <= writes'
      BY <1>w, <2>2, <2>4, CycleSides
    <3>3. QED BY <3>1, <3>2, SidesWithout
  <2>5. QED BY <2>1, <2>3, <2>4
<1>6. CASE Move
  <2>1. session = Nothing /\ UNCHANGED <<mirror, session, writes>>
    BY <1>6, MoveHasNoSession DEF Move
  <2>2. \A p \in Paths : guest'[p] = Gone \/ \E q \in Paths : guest'[p] = guest[q]
    <3>1. Head(todo)[2] \in Paths /\ Head(todo)[3] \in Paths
      BY <1>w, <1>6, StepsOfOperations, StepArguments DEF Move
    <3>2. QED BY <1>w, <1>6, <3>1 DEF Move, SyncTypeOK
  <2>3. \A p \in Paths : guest'[p] # Gone => guest'[p] <= writes' BY <1>w, <2>1, <2>2 DEF SideInv
  <2>4. \A l \in Labels : ~HasSession(l)' BY <2>1 DEF HasSession, Nothing
  <2>5. QED BY <1>w, <2>1, <2>3, <2>4, SidesWithout DEF SideInv
<1>7. CASE Rename
  <2>1. /\ OnlyAt(files) /\ Relabelled /\ op = "reconcile"
        /\ applied.kind = "repo" => session = Nothing
        /\ applied.label \in Labels /\ files.label \in Labels
        /\ mirror'[applied.label] = Gone
        /\ mirror'[files.label] = IF mirror[applied.label] = Gone THEN 0 ELSE mirror[applied.label]
        /\ \A l \in Labels \ {applied.label, files.label} : mirror'[l] = mirror[l]
        /\ ~Populated(mirror[files.label])
    BY <1>7, RenameOldLabel
  <2>2. UNCHANGED <<guest, session, writes>> BY <1>7 DEF Rename
  <2>3. /\ \A l \in Labels : mirror'[l] # Gone => mirror'[l] <= writes'
        /\ \A p \in Paths : guest'[p] # Gone => guest'[p] <= writes'
        /\ Remote <= writes'
    BY <1>w, <1>n, <2>1, <2>2 DEF SideInv
  <2>4. ASSUME NEW l \in Labels, HasSession(l)' PROVE InStep(l)' /\ session'[l].base <= writes'
    <3>1. HasSession(l) /\ l = files.label BY <2>1, <2>2, <2>4 DEF OnlyAt, Mirrors, HasSession
    <3>2. applied.kind = "volume"
      <4>1. applied.kind # "repo" BY <2>1, <3>1 DEF HasSession, Nothing
      <4>2. QED BY <1>w, <2>1, <4>1, PlanFacts DEF Relabelled, Undisturbed
    <3>3. mirror[applied.label] = Gone
      BY <1>w, <2>1, <3>1, <3>2 DEF LeftInv, Relabelled, LeftBehind
    <3>4. mirror'[l] = 0 BY <2>1, <3>1, <3>3
    <3>5. InStep(l) /\ session[l].base <= writes /\ ~Populated(mirror[l])
      BY <1>w, <2>1, <3>1 DEF SideInv
    <3>6. QED BY <2>2, <3>4, <3>5 DEF InStep, Populated
  <2>5. QED BY <2>3, <2>4 DEF SideInv
<1>8. CASE Setup \/ Resume BY <1>8, SetUpSides
<1>9. CASE Clone BY <1>9, CloneSides
<1>10. CASE RemoveMirror
  <2>1. /\ op # "none" /\ todo # <<>> /\ Head(todo)[1] \in {"remove", "remove empty"}
    BY <1>w, <1>10, StepsOfOperations DEF RemoveMirror, Step
  <2>2. op = "reconcile" BY <1>w, <2>1, ColdStep DEF SyncTypeOK
  <2>3. session = Nothing BY <1>w, <2>1, <2>2, StageOfStep
  <2>4. UNCHANGED <<guest, session, writes>> /\ \A l \in Labels : mirror'[l] = mirror[l] \/ mirror'[l] = Gone
    BY <1>w, <1>10 DEF RemoveMirror, SyncTypeOK
  <2>5. \A l \in Labels : ~HasSession(l)' BY <2>3, <2>4 DEF HasSession, Nothing
  <2>6. QED BY <1>w, <2>4, <2>5, SidesWithout DEF SideInv
<1>z. ASSUME session' = Nothing, Destroyed, writes' = writes PROVE SideInv'
  <2>1. \A l \in Labels : ~HasSession(l)' BY <1>z DEF HasSession, Nothing
  <2>2. /\ mirror' = mirror /\ \A p \in Paths : guest'[p] = Gone BY <1>z DEF Destroyed
  <2>3. QED BY <1>w, <1>z, <2>1, <2>2, SidesWithout DEF SideInv
<1>11. CASE StepFails
  BY <1>11, <1>i, <1>z DEF StepFails, sides, Terminated
<1>12. CASE Stop
  <2>1. UNCHANGED <<guest, mirror, writes>> /\ session' = Paused BY <1>12 DEF Stop, sides
  <2>2. QED BY <1>w, <2>1, PausedTypes, SidesUnchanged DEF HasSession
<1>13. CASE Destroy
  BY <1>13, <1>z DEF Destroy, Undisturbed, Terminated
<1>14. CASE UNCHANGED syncVars BY <1>14, <1>i DEF syncVars
<1>15. QED
  BY <1>1, <1>2, <1>3, <1>4, <1>5, <1>6, <1>7, <1>8, <1>9, <1>10, <1>11, <1>12, <1>13, <1>14
     DEF SyncNext

\* How the steps of two changes follow one another.
LEMMA OneFirst ==
    ASSUME NEW S, NEW q \in Seq(S), NEW x
    PROVE  /\ <<x>> \o q # <<>> /\ Head(<<x>> \o q) = x /\ Tail(<<x>> \o q) = q
OBVIOUS

LEMMA EmptyLast ==
    ASSUME NEW S, NEW q \in Seq(S)
    PROVE  q \o <<>> = q /\ <<>> \o q = q
OBVIOUS

LEMMA TwoFirst ==
    ASSUME NEW S, NEW q \in Seq(S), NEW x \in S, NEW y \in S
    PROVE  /\ <<x, y>> \o q # <<>> /\ Head(<<x, y>> \o q) = x
           /\ Tail(<<x, y>> \o q) = <<y>> \o q
<1>1. <<x, y>> \o q # <<>> /\ Head(<<x, y>> \o q) = x OBVIOUS
<1>2. Tail(<<x, y>> \o q) = <<y>> \o q OBVIOUS
<1>3. QED BY <1>1, <1>2

LEMMA FewLast ==
    ASSUME NEW b, NEW a, a # Undeclared
    PROVE  /\ <<>> \in Seq(LastSteps(b, a))
           /\ a.mirrored => /\ SetUp(a) \in Seq(LastSteps(b, a))
                            /\ <<<<"terminate", a.label>>>> \o SetUp(a) \in Seq(LastSteps(b, a))
           /\ ~a.mirrored /\ b = Undeclared => Added(a) \in Seq(LastSteps(b, a))
<1>1. <<>> \in Seq(LastSteps(b, a)) OBVIOUS
<1>2. ASSUME a.mirrored
      PROVE  /\ SetUp(a) \in Seq(LastSteps(b, a))
             /\ <<<<"terminate", a.label>>>> \o SetUp(a) \in Seq(LastSteps(b, a))
  <2>1. /\ <<"terminate", a.label>> \in LastSteps(b, a)
        /\ <<"setup", a>> \in LastSteps(b, a) /\ <<"clone", a>> \in LastSteps(b, a)
    BY <1>2 DEF LastSteps
  <2> DEFINE L == LastSteps(b, a)
             t == <<"terminate", a.label>>
             s == <<"setup", a>>
             c == <<"clone", a>>
  <2> HIDE DEF L, t, s, c
  <2>2. <<s, c>> \in Seq(L) /\ <<t>> \in Seq(L) BY <2>1, FewSteps DEF L, t, s, c
  <2>3. <<t>> \o <<s, c>> \in Seq(L) BY <2>2, StepsJoined
  <2>4. QED BY <2>2, <2>3 DEF SetUp, L, t, s, c
<1>3. ASSUME ~a.mirrored, b = Undeclared PROVE Added(a) \in Seq(LastSteps(b, a))
  <2>1. <<"clone only", a>> \in LastSteps(b, a) BY <1>3 DEF LastSteps
  <2> DEFINE c == <<"clone only", a>>
  <2> HIDE DEF c
  <2>2. <<c>> \in Seq(LastSteps(b, a)) BY <2>1, FewSteps DEF c
  <2>3. QED BY <1>3, <2>2 DEF Added, c
<1>4. QED BY <1>1, <1>2, <1>3

\* What the fields that differ make of a volume's change.
LEMMA VolumeStages ==
    ASSUME NEW b, NEW a, b # Undeclared, a # Undeclared, b.kind = "volume",
           b.mirrored, a.mirrored, b.label = a.label \/ b.path = a.path
    PROVE  LET q == VolumeChanges(b, a) IN
           /\ b.path # a.path \/ b.label # a.label => ToTerminate(q, b, a)
           /\ b.path = a.path /\ b.label = a.label => ToSetUp(q, b, a)
<1> DEFINE L == LastSteps(b, a)
           t == <<"terminate", b.label>>
           m == <<"move", b.path, a.path>>
           r == <<"rename", b.label, a.label>>
           u == SetUp(a)
           i == If(b.ignore # a.ignore, <<<<"terminate", a.label>>>> \o SetUp(a))
           all == {t, m, r} \cup L
<1>1. u \in Seq(L) /\ i \in Seq(L) /\ <<>> \in Seq(L) BY FewLast DEF If
<1>2. VolumeChanges(b, a) = (If(b.path # a.path, <<t, m>> \o u) \o If(b.label # a.label, <<t, r>> \o u)) \o i
  BY DEF VolumeChanges
<1> HIDE DEF L, t, m, r, u, i
<1>3. u \in Seq(all) /\ i \in Seq(all) /\ <<t, m>> \in Seq(all) /\ <<t, r>> \in Seq(all)
  BY <1>1
<1>4. u \o i \in Seq(L) BY <1>1, StepsJoined
<1>5. <<t, m>> \o u \in Seq(all) /\ <<t, r>> \o u \in Seq(all) BY <1>3, StepsJoined
<1>6. CASE b.path # a.path
  <2>1. VolumeChanges(b, a) = ((<<t, m>> \o u) \o <<>>) \o i
    BY <1>2, <1>6 DEF If
  <2>2. VolumeChanges(b, a) = <<t, m>> \o (u \o i)
    <3>1. (<<t, m>> \o u) \o <<>> = <<t, m>> \o u BY <1>5, EmptyLast
    <3>2. (<<t, m>> \o u) \o i = <<t, m>> \o (u \o i) BY <1>3
    <3>3. QED BY <2>1, <3>1, <3>2
  <2>3. u \o i \in Seq(all) /\ t \in all /\ m \in all BY <1>4
  <2>4. /\ VolumeChanges(b, a) # <<>> /\ Head(VolumeChanges(b, a)) = t
        /\ Tail(VolumeChanges(b, a)) = <<m>> \o (u \o i)
    <3> DEFINE x == u \o i
    <3>1. x \in Seq(all) BY <2>3
    <3> HIDE DEF all, x
    <3>2. /\ <<t, m>> \o x # <<>> /\ Head(<<t, m>> \o x) = t
          /\ Tail(<<t, m>> \o x) = <<m>> \o x
      BY <2>3, <3>1, TwoFirst
    <3>3. QED BY <2>2, <3>2 DEF x
  <2>5. /\ <<m>> \o (u \o i) # <<>> /\ Head(<<m>> \o (u \o i)) = m
        /\ Tail(<<m>> \o (u \o i)) = u \o i
    BY <1>4, OneFirst
  <2>6. ToMove(<<m>> \o (u \o i), b, a) BY <1>4, <1>6, <2>5 DEF ToMove, ToSetUp, StartsWith, L, m
  <2>7. ToTerminate(VolumeChanges(b, a), b, a) BY <2>4, <2>6 DEF ToTerminate, StartsWith, t
  <2>8. QED BY <1>6, <2>7
<1>7. CASE b.label # a.label
  <2>1. VolumeChanges(b, a) = (<<>> \o (<<t, r>> \o u)) \o i
    BY <1>2, <1>7 DEF If
  <2>2. VolumeChanges(b, a) = <<t, r>> \o (u \o i)
    <3>1. <<>> \o (<<t, r>> \o u) = <<t, r>> \o u BY <1>5, EmptyLast
    <3>2. (<<t, r>> \o u) \o i = <<t, r>> \o (u \o i) BY <1>3
    <3>3. QED BY <2>1, <3>1, <3>2
  <2>3. u \o i \in Seq(all) /\ t \in all /\ r \in all BY <1>4
  <2>4. /\ VolumeChanges(b, a) # <<>> /\ Head(VolumeChanges(b, a)) = t
        /\ Tail(VolumeChanges(b, a)) = <<r>> \o (u \o i)
    <3> DEFINE x == u \o i
    <3>1. x \in Seq(all) BY <2>3
    <3> HIDE DEF all, x
    <3>2. /\ <<t, r>> \o x # <<>> /\ Head(<<t, r>> \o x) = t
          /\ Tail(<<t, r>> \o x) = <<r>> \o x
      BY <2>3, <3>1, TwoFirst
    <3>3. QED BY <2>2, <3>2 DEF x
  <2>5. /\ <<r>> \o (u \o i) # <<>> /\ Head(<<r>> \o (u \o i)) = r
        /\ Tail(<<r>> \o (u \o i)) = u \o i
    BY <1>4, OneFirst
  <2>6. ToRename(<<r>> \o (u \o i), b, a) BY <1>4, <1>7, <2>5 DEF ToRename, ToSetUp, StartsWith, L, r
  <2>7. ToTerminate(VolumeChanges(b, a), b, a) BY <2>4, <2>6 DEF ToTerminate, StartsWith, t
  <2>8. QED BY <1>7, <2>7
<1>8. CASE b.path = a.path /\ b.label = a.label
  <2>1. VolumeChanges(b, a) = (<<>> \o <<>>) \o i BY <1>2, <1>8 DEF If
  <2>2. VolumeChanges(b, a) = i BY <1>1, <2>1, EmptyLast
  <2>3. QED BY <1>1, <1>8, <2>2 DEF ToSetUp, L
<1>9. QED BY <1>6, <1>7, <1>8

\* What follows the move of a repo's directory.
AfterMove(b, a) ==
    (If(a.mirrored, <<<<"rename", b.label, a.label>>>> \o SetUp(a))
     \o If(b.mirrored # a.mirrored,
           IF a.mirrored THEN SetUp(a)
           ELSE <<<<"terminate", a.label>>, <<"remove", a.label>>>>))
    \o If(b.ignore # a.ignore /\ a.mirrored, <<<<"terminate", a.label>>>> \o SetUp(a))

\* A switched-off mirror's steps.
LEMMA SwitchedOff ==
    ASSUME NEW b, NEW a, b # Undeclared, a # Undeclared, ~a.mirrored
    PROVE  ToSwitch(<<<<"terminate", a.label>>, <<"remove", a.label>>>>, b, a)
<1> DEFINE t == <<"terminate", a.label>>
           d == <<"remove", a.label>>
<1> HIDE DEF t, d
<1>1. /\ <<t, d>> # <<>> /\ Head(<<t, d>>) = t /\ Tail(<<t, d>>) = <<d>>
      /\ <<d>> # <<>> /\ Head(<<d>>) = d /\ Tail(<<d>>) = <<>>
  OBVIOUS
<1>2. ToRemove(<<d>>, b, a) BY <1>1, FewLast DEF ToRemove, StartsWith, ToSetUp, d
<1>3. ToSwitch(<<t, d>>, b, a) BY <1>1, <1>2 DEF ToSwitch, StartsWith, t
<1>4. QED BY <1>3 DEF t, d

LEMMA AfterMoveStages ==
    ASSUME NEW b, NEW a, b # Undeclared, a # Undeclared, b.label # a.label,
           b.mirrored \in BOOLEAN, a.mirrored \in BOOLEAN
    PROVE  LET z == AfterMove(b, a) IN
           ToRename(z, b, a) \/ ToSwitch(z, b, a) \/ ToSetUp(z, b, a)
<1> DEFINE L == LastSteps(b, a)
           r == <<"rename", b.label, a.label>>
           off == <<<<"terminate", a.label>>, <<"remove", a.label>>>>
           u == SetUp(a)
           w == If(b.mirrored # a.mirrored, IF a.mirrored THEN u ELSE off)
           i == If(b.ignore # a.ignore /\ a.mirrored, <<<<"terminate", a.label>>>> \o u)
<1>1. AfterMove(b, a) = (If(a.mirrored, <<r>> \o u) \o w) \o i BY DEF AfterMove
<1>2. i \in Seq(L) /\ <<>> \in Seq(L) BY FewLast DEF If
<1>3. CASE a.mirrored
  <2>1. u \in Seq(L) /\ w \in Seq(L) BY <1>3, FewLast DEF If
  <2> HIDE DEF L, r, u, w, i
  <2>2. AfterMove(b, a) = ((<<r>> \o u) \o w) \o i BY <1>1, <1>3 DEF If
  <2> DEFINE all == {r} \cup L
  <2>3. u \in Seq(all) /\ w \in Seq(all) /\ i \in Seq(all) /\ <<r>> \in Seq(all) BY <1>2, <2>1
  <2>4. <<r>> \o u \in Seq(all) /\ w \o i \in Seq(all) /\ w \o i \in Seq(L) BY <1>2, <2>1, <2>3, StepsJoined
  <2>5. AfterMove(b, a) = <<r>> \o (u \o (w \o i))
    <3>1. ((<<r>> \o u) \o w) \o i = (<<r>> \o u) \o (w \o i) BY <2>3, <2>4
    <3>2. (<<r>> \o u) \o (w \o i) = <<r>> \o (u \o (w \o i)) BY <2>3, <2>4
    <3>3. QED BY <2>2, <3>1, <3>2
  <2>6. u \o (w \o i) \in Seq(L) BY <2>1, <2>4, StepsJoined
  <2>7. /\ AfterMove(b, a) # <<>> /\ Head(AfterMove(b, a)) = r
        /\ Tail(AfterMove(b, a)) = u \o (w \o i)
    BY <2>5, <2>6, OneFirst
  <2>8. ToRename(AfterMove(b, a), b, a) BY <1>3, <2>6, <2>7 DEF ToRename, StartsWith, ToSetUp, L, r
  <2>9. QED BY <2>8
<1>4. CASE ~a.mirrored
  <2>1. i = <<>> /\ If(a.mirrored, <<r>> \o u) = <<>> BY <1>4 DEF If
  <2>2. AfterMove(b, a) = (<<>> \o w) \o <<>> BY <1>1, <2>1
  <2>3. CASE b.mirrored
    <3>1. w = off BY <1>4, <2>3 DEF If
    <3>2. off \in Seq({<<"terminate", a.label>>, <<"remove", a.label>>}) BY FewSteps
    <3> HIDE DEF off, w
    <3>3. AfterMove(b, a) = off BY <2>2, <3>1, <3>2, EmptyLast
    <3>4. ToSwitch(off, b, a) BY <1>4, SwitchedOff DEF off
    <3>5. QED BY <3>3, <3>4
  <2>4. CASE ~b.mirrored
    <3>1. w = <<>> BY <1>4, <2>4 DEF If
    <3>2. AfterMove(b, a) = <<>> BY <1>2, <2>2, <3>1, EmptyLast
    <3>3. QED BY <1>2, <3>2 DEF ToSetUp
  <2>5. QED BY <2>3, <2>4
<1>5. QED BY <1>3, <1>4

\* What the fields that differ make of a repo's change.
LEMMA RepoStages ==
    ASSUME NEW b, NEW a, b # Undeclared, a # Undeclared,
           b.mirrored \in BOOLEAN, a.mirrored \in BOOLEAN, b.label = a.label <=> b.path = a.path
    PROVE  LET q == RepoChanges(b, a) IN
           /\ b.label # a.label => IF b.mirrored THEN ToTerminate(q, b, a) ELSE ToMove(q, b, a)
           /\ b.label = a.label =>
                IF b.mirrored /\ ~a.mirrored THEN ToSwitch(q, b, a) ELSE ToSetUp(q, b, a)
<1> DEFINE L == LastSteps(b, a)
           t == <<"terminate", b.label>>
           m == <<"move", b.path, a.path>>
           ta == <<"terminate", a.label>>
           d == <<"remove", a.label>>
           u == SetUp(a)
           r == If(a.mirrored, <<<<"rename", b.label, a.label>>>> \o u)
           w == If(b.mirrored # a.mirrored, IF a.mirrored THEN u ELSE <<ta, d>>)
           i == If(b.ignore # a.ignore /\ a.mirrored, <<ta>> \o u)
           all == {t, m, ta, d, <<"rename", b.label, a.label>>} \cup L
<1>1. RepoChanges(b, a) =
        (If(b.label # a.label, (If(b.mirrored, <<t>>) \o <<m>>) \o r) \o w) \o i
  BY DEF RepoChanges
<1>2. i \in Seq(L) /\ <<>> \in Seq(L) /\ (a.mirrored => u \in Seq(L))
  BY FewLast DEF If
<1>3. CASE b.label # a.label
  <2>1. i \in Seq(all) /\ <<>> \in Seq(all) /\ (a.mirrored => u \in Seq(all))
    <3> HIDE DEF u, i
    <3>1. QED BY <1>2
  <2>2. r \in Seq(all)
    <3> DEFINE r1 == <<"rename", b.label, a.label>>
    <3>1. r1 \in all OBVIOUS
    <3> HIDE DEF r1, u, all
    <3>2. <<r1>> \in Seq(all) BY <3>1, FewSteps
    <3>3. a.mirrored => <<r1>> \o u \in Seq(all) BY <2>1, <3>2, StepsJoined
    <3>4. r = If(a.mirrored, <<r1>> \o u) BY DEF r1
    <3>5. QED BY <2>1, <3>3, <3>4 DEF If
  <2>3. w \in Seq(all)
    <3>1. <<ta, d>> \in Seq(all) BY FewSteps
    <3> HIDE DEF u, all, ta, d
    <3>2. QED BY <2>1, <3>1 DEF If
  <2>4. <<m>> \in Seq(all) /\ <<t>> \in Seq(all) /\ If(b.mirrored, <<t>>) \in Seq(all)
    BY <2>1, FewSteps DEF If
  <2>5. (r \o w) \o i = AfterMove(b, a) BY DEF AfterMove
  <2>6. AfterMove(b, a) \in Seq(all)
    <3> HIDE DEF r, w, i, all
    <3>1. r \o w \in Seq(all) BY <2>2, <2>3, StepsJoined
    <3>2. i \in Seq(all) BY <2>1
    <3>3. (r \o w) \o i \in Seq(all) BY <3>1, <3>2, StepsJoined
    <3>4. QED BY <2>5, <3>3
  <2> DEFINE c == If(b.mirrored, <<t>>)
             z == AfterMove(b, a)
  <2>7. RepoChanges(b, a) = (((c \o <<m>>) \o r) \o w) \o i
    BY <1>1, <1>3 DEF If
  <2> HIDE DEF c, z, r, w, i, u, m, t, all
  <2>8. c \o <<m>> \in Seq(all) /\ r \o w \in Seq(all) BY <2>2, <2>3, <2>4, StepsJoined DEF c
  <2>9. RepoChanges(b, a) = (c \o <<m>>) \o z
    <3> DEFINE x == c \o <<m>>
               y == r \o w
    <3>1. /\ x \in Seq(all) /\ y \in Seq(all) /\ r \in Seq(all) /\ w \in Seq(all)
          /\ i \in Seq(all)
      BY <2>1, <2>2, <2>3, <2>8
    <3> HIDE DEF x, y
    <3>2. (x \o r) \o w = x \o (r \o w) BY <3>1
    <3>3. (x \o y) \o i = x \o (y \o i)
      <4>1. x \in Seq(all) /\ y \in Seq(all) /\ i \in Seq(all) BY <3>1
      <4> HIDE DEF all, i
      <4>2. QED BY <4>1
    <3>4. RepoChanges(b, a) = x \o (y \o i) BY <2>7, <3>2, <3>3 DEF x, y
    <3>5. QED BY <2>5, <3>4 DEF x, y, z
  <2>10. RepoChanges(b, a) = c \o (<<m>> \o z)
    <3>1. (c \o <<m>>) \o z = c \o (<<m>> \o z) BY <2>4, <2>6 DEF c, z
    <3>2. QED BY <2>9, <3>1
  <2>11. <<m>> \o z # <<>> /\ Head(<<m>> \o z) = m /\ Tail(<<m>> \o z) = z
    BY <2>6, OneFirst DEF z
  <2>12. ToMove(<<m>> \o z, b, a)
    <3>1. ToRename(z, b, a) \/ ToSwitch(z, b, a) \/ ToSetUp(z, b, a)
      BY <1>3, AfterMoveStages DEF z
    <3>2. QED BY <1>3, <2>11, <3>1 DEF ToMove, StartsWith, m
  <2>13. <<m>> \o z \in Seq(all) BY <2>4, <2>6, StepsJoined DEF z
  <2>14. CASE b.mirrored
    <3>1. RepoChanges(b, a) = <<t>> \o (<<m>> \o z) BY <2>10, <2>14 DEF c, If
    <3>2. /\ RepoChanges(b, a) # <<>> /\ Head(RepoChanges(b, a)) = t
          /\ Tail(RepoChanges(b, a)) = <<m>> \o z
      BY <2>13, <3>1, OneFirst
    <3>3. ToTerminate(RepoChanges(b, a), b, a) BY <2>12, <2>14, <3>2 DEF ToTerminate, StartsWith, t
    <3>4. QED BY <1>3, <2>14, <3>3
  <2>15. CASE ~b.mirrored
    <3>1. RepoChanges(b, a) = <<>> \o (<<m>> \o z) BY <2>10, <2>15 DEF c, If
    <3>2. RepoChanges(b, a) = <<m>> \o z BY <2>13, <3>1, EmptyLast
    <3>3. QED BY <1>3, <2>12, <2>15, <3>2
  <2>16. QED BY <2>14, <2>15
<1>4. CASE b.label = a.label
  <2>1. RepoChanges(b, a) = (<<>> \o w) \o i BY <1>1, <1>4 DEF If
  <2>2. CASE b.mirrored /\ ~a.mirrored
    <3>1. w = <<ta, d>> /\ i = <<>> BY <2>2 DEF If
    <3>2. <<ta, d>> \in Seq({ta, d}) BY FewSteps
    <3>3. ToSwitch(<<ta, d>>, b, a) BY <2>2, SwitchedOff
    <3> HIDE DEF w, i, ta, d
    <3>4. RepoChanges(b, a) = <<ta, d>> BY <2>1, <3>1, <3>2, EmptyLast
    <3>5. QED BY <1>4, <2>2, <3>3, <3>4
  <2>3. CASE ~(b.mirrored /\ ~a.mirrored)
    <3>1. w \in Seq(L) BY <1>2, <2>3 DEF If
    <3> HIDE DEF w, i, L
    <3>2. <<>> \o w = w /\ w \o i \in Seq(L) BY <1>2, <3>1, EmptyLast, StepsJoined
    <3>3. ToSetUp(RepoChanges(b, a), b, a) BY <2>1, <3>2 DEF ToSetUp, L
    <3>4. QED BY <1>4, <2>3, <3>3
  <2>4. QED BY <2>2, <2>3
<1>5. QED BY <1>3, <1>4

\* A reconcile starts at one of the stages.
LEMMA ReconcileStage ==
    ASSUME SyncAssumption, Undisturbed, SyncInv, Reconcile
    PROVE  Stage(applied, target)'
<1> DEFINE b == applied
           a == files
           q == Changes(b, a)
<1>1. /\ todo' = q /\ applied' = b /\ target' = a /\ a # b
      /\ UNCHANGED <<guest, mirror, session>>
  BY DEF Reconcile, sides
<1>2. SyncTypeOK /\ PlanInv /\ WhereInv BY DEF SyncInv
<1>3. \A d : (OnlyAt(d)' <=> OnlyAt(d)) BY <1>1 DEF OnlyAt, HasSession, Mirrors
<1>4. LeftBehind(b, a) => LeftBehind(applied, target)' BY <1>1 DEF LeftBehind
<1>5. CASE b = Undeclared
  <2>1. a # Undeclared /\ q = Added(a) BY <1>1, <1>5 DEF Changes, If
  <2>2. a.mirrored => Added(a) = SetUp(a) BY DEF Added
  <2>3. ToSetUp(q, b, a) BY <1>5, <2>1, <2>2, FewLast DEF ToSetUp
  <2>4. OnlyAt(a) /\ LeftBehind(b, a) BY <1>2, <1>5 DEF WhereInv, OnlyAt, Mirrors, LeftBehind
  <2>5. (ToSetUp(todo, applied, target) /\ LeftBehind(applied, target) /\ OnlyAt(target))'
    BY <1>1, <1>3, <1>4, <2>3, <2>4 DEF ToSetUp, LastSteps
  <2>6. QED BY <2>5 DEF Stage
<1>6. CASE b # Undeclared /\ a = Undeclared
  <2>1. q = Removed(b) /\ <<>> \in Seq(LastSteps(b, a)) BY <1>6 DEF Changes
  <2>2. CASE b.mirrored
    <3> DEFINE t == <<"terminate", b.label>>
               r == <<"remove empty", b.label>>
    <3>1. q = <<t, r>> BY <2>1, <2>2 DEF Removed
    <3> HIDE DEF t, r, q
    <3>2. /\ q # <<>> /\ Head(q) = t /\ Tail(q) = <<r>>
          /\ <<r>> # <<>> /\ Head(<<r>>) = r /\ Tail(<<r>>) = <<>>
      BY <3>1
    <3>3. ToRemoveEmpty(<<r>>, b, a) BY <1>6, <2>1, <3>2 DEF ToRemoveEmpty, StartsWith, ToSetUp, r
    <3>4. ToTerminate(q, b, a) BY <1>6, <2>2, <3>2, <3>3 DEF ToTerminate, StartsWith, t
    <3>5. ToTerminate(todo, applied, target)'
      BY <1>1, <3>4 DEF ToTerminate, ToMove, ToRename, ToRemoveEmpty, ToSwitch, ToRemove, ToSetUp, LastSteps
    <3>6. QED BY <3>5 DEF Stage
  <2>3. CASE ~b.mirrored
    <3>1. q = <<>> BY <2>1, <2>3 DEF Removed
    <3>2. OnlyAt(a) /\ LeftBehind(b, a)
      BY <1>2, <1>6, <2>3 DEF WhereInv, OnlyAt, Mirrors, LeftBehind
    <3>3. ToSetUp(q, b, a) BY <2>1, <3>1 DEF ToSetUp
    <3>4. (ToSetUp(todo, applied, target) /\ LeftBehind(applied, target) /\ OnlyAt(target))'
      BY <1>1, <1>3, <1>4, <3>2, <3>3 DEF ToSetUp, LastSteps
    <3>5. QED BY <3>4 DEF Stage
  <2>4. QED BY <2>2, <2>3
<1>7. CASE b # Undeclared /\ a # Undeclared
  <2>1. /\ b \in Declared /\ a \in Declared /\ b.kind = a.kind /\ b.kind \in {"volume", "repo"}
        /\ b.kind = "volume" => b.mirrored /\ a.mirrored
        /\ b.kind = "volume" => b.label = a.label \/ b.path = a.path
        /\ b.kind = "repo" => (b.label = a.label <=> b.path = a.path)
        /\ b.mirrored \in BOOLEAN /\ a.mirrored \in BOOLEAN
    <3>1. /\ b \in Declared /\ a \in Declared
          /\ b.kind = a.kind /\ b.kind \in {"volume", "repo"}
          /\ b.kind = "volume" => b.mirrored /\ a.mirrored
          /\ b.kind = "volume" => b.label = a.label \/ b.path = a.path
          /\ b.kind = "repo" => (b.label = a.label <=> b.path = a.path)
      BY <1>2, <1>7, PlanFacts DEF Undisturbed
    <3>2. QED BY <3>1 DEF SyncAssumption
  <2>2. q = IF a.kind = "volume" THEN VolumeChanges(b, a) ELSE RepoChanges(b, a)
    BY <1>7, <2>1 DEF Changes
  <2>3. \/ ToTerminate(q, b, a)
        \/ ToMove(q, b, a) /\ b.label # a.label /\ ~b.mirrored
        \/ ToSwitch(q, b, a) /\ b.label = a.label
        \/ ToSetUp(q, b, a) /\ b.label = a.label /\ (b.mirrored => a.mirrored)
    <3>1. CASE b.kind = "volume"
      <4>1. \/ ToTerminate(VolumeChanges(b, a), b, a)
            \/ ToSetUp(VolumeChanges(b, a), b, a) /\ b.label = a.label
        BY <1>7, <2>1, <3>1, VolumeStages
      <4>2. QED BY <2>1, <2>2, <3>1, <4>1
    <3>2. CASE b.kind = "repo"
      <4>1. /\ b.label # a.label => IF b.mirrored THEN ToTerminate(RepoChanges(b, a), b, a)
                                    ELSE ToMove(RepoChanges(b, a), b, a)
            /\ b.label = a.label => IF b.mirrored /\ ~a.mirrored
                                    THEN ToSwitch(RepoChanges(b, a), b, a)
                                    ELSE ToSetUp(RepoChanges(b, a), b, a)
        BY <1>7, <2>1, <3>2, RepoStages
      <4>2. QED BY <2>1, <2>2, <3>2, <4>1
    <3>3. QED BY <2>1, <3>1, <3>2
  <2>4. b.label = a.label => LeftBehind(b, a) BY DEF LeftBehind
  <2> HIDE DEF q
  <2>5. CASE ToTerminate(q, b, a)
    <3>1. ToTerminate(todo, applied, target)'
      BY <1>1, <2>5 DEF ToTerminate, ToMove, ToRename, ToRemoveEmpty, ToSwitch, ToRemove, ToSetUp, LastSteps
    <3>2. QED BY <3>1 DEF Stage
  <2>6. CASE ToMove(q, b, a) /\ b.label # a.label /\ ~b.mirrored
    <3>1. OnlyAt(a) BY <1>2, <2>6 DEF WhereInv, OnlyAt, Mirrors
    <3>2. ~HasSession(b.label) BY <2>1, <2>6, <3>1, VersionsAreNumbers DEF OnlyAt, Mirrors
    <3>3. ToMove(todo, applied, target)'
      BY <1>1, <2>6 DEF ToMove, ToRename, ToSwitch, ToRemove, ToSetUp, LastSteps
    <3>4. OnlyAt(target)' /\ ~HasSession(applied.label)' BY <1>1, <1>3, <3>1, <3>2 DEF HasSession, OnlyAt, Mirrors
    <3>5. QED BY <3>3, <3>4 DEF Stage
  <2>7. CASE ToSwitch(q, b, a) /\ b.label = a.label
    <3>1. \A l \in Labels : HasSession(l) => l = a.label BY <1>2, <2>7 DEF WhereInv, Mirrors
    <3>2. ToSwitch(todo, applied, target)'
      BY <1>1, <2>7 DEF ToSwitch, ToRemove, ToSetUp, LastSteps
    <3>3. \A l \in Labels : HasSession(l)' => l = target'.label /\ applied'.label = target'.label
      BY <1>1, <2>7, <3>1 DEF HasSession
    <3>4. QED BY <1>4, <2>4, <2>7, <3>2, <3>3 DEF Stage
  <2>8. CASE ToSetUp(q, b, a) /\ b.label = a.label /\ (b.mirrored => a.mirrored)
    <3>1. OnlyAt(a) BY <1>2, <1>7, <2>8 DEF WhereInv, OnlyAt, Mirrors
    <3>2. (ToSetUp(todo, applied, target) /\ LeftBehind(applied, target) /\ OnlyAt(target))'
      BY <1>1, <1>3, <1>4, <2>4, <2>8, <3>1 DEF ToSetUp, LastSteps, OnlyAt, Mirrors, HasSession
    <3>3. QED BY <3>2 DEF Stage
  <2>9. QED BY <2>3, <2>5, <2>6, <2>7, <2>8
<1>8. QED BY <1>5, <1>6, <1>7

\* A cold start has these steps.
LEMMA ColdStarts == ASSUME NEW d PROVE ColdStart(d) \in Seq(ColdSteps(d))
<1>1. CASE d = Undeclared
  <2>1. <<"flush">> \in ColdSteps(d) BY DEF ColdSteps
  <2> DEFINE f == <<"flush">>
  <2> HIDE DEF f
  <2>2. <<f>> \in Seq(ColdSteps(d)) BY <2>1, FewSteps DEF f
  <2>3. QED BY <1>1, <2>2 DEF ColdStart, f
<1>2. CASE d # Undeclared
  <2> DEFINE f == <<"flush">>
             r == <<"resume", d>>
             c == <<"clone", d>>
             o == <<"clone only", d>>
  <2>1. f \in ColdSteps(d) /\ (d.mirrored => r \in ColdSteps(d) /\ c \in ColdSteps(d))
        /\ (~d.mirrored => o \in ColdSteps(d))
    BY <1>2 DEF ColdSteps
  <2>2. ColdStart(d) = IF d.mirrored THEN <<r, c, f>> ELSE <<o, f>> BY <1>2 DEF ColdStart
  <2> HIDE DEF f, r, c, o
  <2>3. QED BY <2>1, <2>2, FewSteps
<1>3. QED BY <1>1, <1>2

\* Cycles of the new label's session leave the old label's side alone.
LEMMA CyclesKeepLeft ==
    ASSUME SyncAssumption, Undisturbed, SyncInv, op = "reconcile",
           NEW l \in Labels, Flushes(l, Now),
           guest' = Cycled(l, Now).guest, mirror' = Cycled(l, Now).mirror,
           UNCHANGED <<applied, files>>, LeftBehind(applied, files),
           \A m \in Labels : HasSession(m) => m = files.label
    PROVE  LeftBehind(applied, files)'
<1>1. HasSession(l) /\ l = files.label BY CycleEffect DEF SyncInv
<1>2. CASE Relabelled BY <1>1, <1>2, CycleKeepsLeft
<1>3. CASE ~Relabelled BY <1>3 DEF Relabelled, LeftBehind
<1>4. QED BY <1>2, <1>3

\* A stage stays where it is while no session is made, unless what is left under
\* the old label changes.
LEMMA StageStays ==
    ASSUME SyncAssumption, SyncTypeOK, SyncTypeOK', Stage(applied, target),
           UNCHANGED <<todo, applied, target>>,
           \A l \in Labels : HasSession(l)' => HasSession(l),
           LeftBehind(applied, target) /\ (\A l \in Labels : HasSession(l) => l = target.label)
                => LeftBehind(applied, target)'
    PROVE  Stage(applied, target)'
<1> DEFINE b == applied
           a == target
<1>1. /\ applied' = b /\ target' = a /\ todo' = todo
      /\ OnlyAt(a) => OnlyAt(a)'
      /\ OnlyAt(a) => \A l \in Labels : HasSession(l) => l = a.label
      /\ \A l \in Labels : ~HasSession(l) => ~HasSession(l)'
  BY DEF OnlyAt, Mirrors
<1>2. session = Nothing => session' = Nothing
  <2>1. session = Nothing => \A l \in Labels : session'[l] = NoSession
    BY DEF HasSession, Nothing
  <2>2. QED BY <2>1 DEF SyncTypeOK, Nothing
<1>3. session = Nothing => \A l \in Labels : HasSession(l) => l = a.label
  BY DEF HasSession, Nothing
<1>4. OnlyAt(target)' <=> OnlyAt(a)' BY <1>1 DEF OnlyAt, HasSession, Mirrors
<1>5. ASSUME ToTerminate(todo, b, a) PROVE Stage(applied, target)'
  <2>1. ToTerminate(todo, applied, target)'
    BY <1>1, <1>5 DEF ToTerminate, ToMove, ToRename, ToRemoveEmpty, ToSwitch, ToRemove, ToSetUp, LastSteps
  <2>2. QED BY <2>1 DEF Stage
<1>6. ASSUME ToMove(todo, b, a), OnlyAt(a), ~HasSession(b.label) PROVE Stage(applied, target)'
  <2>1. ToMove(todo, applied, target)'
    BY <1>1, <1>6 DEF ToMove, ToRename, ToSwitch, ToRemove, ToSetUp, LastSteps
  <2>2. OnlyAt(target)' BY <1>1, <1>4, <1>6
  <2>3. b.label \in Labels
    BY <1>6, VersionsAreNumbers DEF ToMove, SyncTypeOK, Declared
  <2>4. ~HasSession(applied.label)' BY <1>1, <1>6, <2>3 DEF HasSession
  <2>5. QED BY <2>1, <2>2, <2>4 DEF Stage
<1>7. ASSUME ToSetUp(todo, b, a), LeftBehind(b, a), OnlyAt(a) PROVE Stage(applied, target)'
  <2>1. (ToSetUp(todo, applied, target) /\ LeftBehind(applied, target) /\ OnlyAt(target))'
    BY <1>1, <1>4, <1>7 DEF ToSetUp, LastSteps
  <2>2. QED BY <2>1 DEF Stage
<1>8. ASSUME ToRename(todo, b, a), OnlyAt(a), ~HasSession(b.label),
             b.kind = "repo" => session = Nothing /\ LeftBehind(b, a)
      PROVE  Stage(applied, target)'
  <2>1. ToRename(todo, applied, target)'
    BY <1>1, <1>8 DEF ToRename, ToSetUp, LastSteps
  <2>2. OnlyAt(target)' BY <1>1, <1>4, <1>8
  <2>3. b.label \in Labels
    BY <1>8, VersionsAreNumbers DEF ToRename, SyncTypeOK, Declared
  <2>4. ~HasSession(applied.label)' BY <1>1, <1>8, <2>3 DEF HasSession
  <2>5. (applied.kind = "repo")' => session' = Nothing /\ LeftBehind(applied, target)'
    BY <1>1, <1>2, <1>3, <1>8
  <2>6. QED BY <2>1, <2>2, <2>4, <2>5 DEF Stage, Nothing
<1>9. ASSUME ToSwitch(todo, b, a), LeftBehind(b, a),
             \A l \in Labels : HasSession(l) => l = a.label /\ b.label = a.label
      PROVE  Stage(applied, target)'
  <2>1. ToSwitch(todo, applied, target)'
    BY <1>1, <1>9 DEF ToSwitch, ToRemove, ToSetUp, LastSteps
  <2>2. LeftBehind(applied, target)' BY <1>9
  <2>3. \A l \in Labels : HasSession(l)' => l = target'.label /\ applied'.label = target'.label
    BY <1>1, <1>9
  <2>4. QED BY <2>1, <2>2, <2>3 DEF Stage
<1>10. ASSUME ToRemove(todo, b, a), LeftBehind(b, a), session = Nothing
       PROVE  Stage(applied, target)'
  <2>1. ToRemove(todo, applied, target)' BY <1>1, <1>10 DEF ToRemove, ToSetUp, LastSteps
  <2>2. LeftBehind(applied, target)' /\ session' = Nothing BY <1>2, <1>3, <1>10
  <2>3. QED BY <2>1, <2>2 DEF Stage, Nothing
<1>11. ASSUME ToRemoveEmpty(todo, b, a), session = Nothing PROVE Stage(applied, target)'
  <2>1. ToRemoveEmpty(todo, applied, target)' BY <1>1, <1>11 DEF ToRemoveEmpty, ToSetUp, LastSteps
  <2>2. QED BY <1>2, <1>11, <2>1 DEF Stage, Nothing
<1>12. QED BY <1>5, <1>6, <1>7, <1>8, <1>9, <1>10, <1>11 DEF Stage

\* The last of the stages.
LEMMA LastStage ==
    ASSUME NEW b, NEW a, applied' = b, target' = a, ToSetUp(todo', b, a),
           LeftBehind(applied, target)', \A l \in Labels : HasSession(l)' => Mirrors(a, l)
    PROVE  Stage(applied, target)'
<1>1. ToSetUp(todo, applied, target)' BY DEF ToSetUp, LastSteps
<1>2. OnlyAt(target)' BY DEF OnlyAt, Mirrors
<1>3. QED BY <1>1, <1>2 DEF Stage

\* What is left when a step of a reconcile is done.
LEMMA TerminateStage ==
    ASSUME SyncAssumption, Undisturbed, SyncInv, op = "reconcile", Terminate
    PROVE  Stage(applied, target)'
<1>w. SyncTypeOK /\ PlanInv /\ WhereInv /\ TodoInv BY DEF SyncInv
<1> DEFINE b == applied
           a == target
<1>1. /\ applied' = b /\ target' = a /\ todo' = Tail(todo) /\ files' = files
      /\ target = files /\ todo # <<>> /\ Head(todo)[1] = "terminate"
  BY <1>w DEF Terminate, Done, Step, PlanInv
<1>2. PICK l \in Labels :
        /\ l = Head(todo)[2]
        /\ session' = [session EXCEPT ![l] = NoSession]
        /\ \/ ~HasSession(l) /\ UNCHANGED sides
           \/ /\ HasSession(l) /\ Flushes(l, Now)
              /\ guest' = Cycled(l, Now).guest /\ mirror' = Cycled(l, Now).mirror
  BY <1>w, TerminateEffect
<1>3. /\ ~HasSession(l)'
      /\ \A m \in Labels : HasSession(m)' => HasSession(m) /\ m # l
  BY <1>w, <1>2 DEF SyncTypeOK, HasSession
<1>4. ASSUME \A m \in Labels : ~HasSession(m)' PROVE session' = Nothing
  <2>1. session' \in [Labels -> Sessions \cup {NoSession}] BY <1>w, <1>2 DEF SyncTypeOK
  <2>2. QED BY <1>4, <2>1 DEF HasSession, Nothing
<1>5. ASSUME LeftBehind(b, a), \A m \in Labels : HasSession(m) => m = a.label
      PROVE  LeftBehind(applied, target)'
  <2>1. CASE UNCHANGED sides BY <1>1, <1>5, <2>1 DEF LeftBehind, sides
  <2>2. CASE /\ HasSession(l) /\ Flushes(l, Now)
             /\ guest' = Cycled(l, Now).guest /\ mirror' = Cycled(l, Now).mirror
    <3>1. LeftBehind(applied, files)' BY <1>1, <1>5, <2>2, CyclesKeepLeft
    <3>2. QED BY <1>1, <3>1
  <2>3. QED BY <1>2, <2>1, <2>2
<1>6. CASE ToTerminate(todo, b, a)
  <2>1. /\ b # Undeclared /\ b.mirrored /\ Head(todo) = <<"terminate", b.label>>
        /\ \/ ToMove(Tail(todo), b, a) \/ ToRemoveEmpty(Tail(todo), b, a)
           \/ b.kind = "volume" /\ ToRename(Tail(todo), b, a)
    BY <1>6 DEF ToTerminate, StartsWith
  <2>2. l = b.label BY <1>2, <2>1
  <2>3. \A m \in Labels : HasSession(m)' => Mirrors(a, m)
    BY <1>w, <1>1, <1>3, <2>2 DEF WhereInv, Mirrors
  <2>4. OnlyAt(target)' /\ ~HasSession(applied.label)'
    BY <1>1, <1>3, <2>2, <2>3 DEF OnlyAt, Mirrors, HasSession
  <2>5. CASE ToMove(Tail(todo), b, a)
    <3>1. ToMove(todo, applied, target)'
      BY <1>1, <2>5 DEF ToMove, ToRename, ToSwitch, ToRemove, ToSetUp, LastSteps
    <3>2. QED BY <2>4, <3>1 DEF Stage
  <2>6. CASE b.kind = "volume" /\ ToRename(Tail(todo), b, a)
    <3>1. ToRename(todo, applied, target)' /\ (applied.kind # "repo")'
      BY <1>1, <2>6 DEF ToRename, ToSetUp, LastSteps
    <3>2. QED BY <2>4, <3>1 DEF Stage
  <2>7. CASE ToRemoveEmpty(Tail(todo), b, a)
    <3>1. ToRemoveEmpty(todo, applied, target)' /\ a = Undeclared
      BY <1>1, <2>7 DEF ToRemoveEmpty, ToSetUp, LastSteps
    <3>2. session' = Nothing BY <1>4, <2>3, <3>1 DEF Mirrors
    <3>3. QED BY <3>1, <3>2 DEF Stage, Nothing
  <2>8. QED BY <2>1, <2>5, <2>6, <2>7
<1>7. CASE /\ ToSwitch(todo, b, a) /\ LeftBehind(b, a)
           /\ \A m \in Labels : HasSession(m) => m = a.label /\ b.label = a.label
  <2>1. Head(todo) = <<"terminate", a.label>> /\ ToRemove(Tail(todo), b, a)
    BY <1>7 DEF ToSwitch, StartsWith
  <2>2. l = a.label BY <1>2, <2>1
  <2>3. ToRemove(todo, applied, target)' BY <1>1, <2>1 DEF ToRemove, ToSetUp, LastSteps
  <2>4. session' = Nothing BY <1>3, <1>4, <1>7, <2>2
  <2>5. LeftBehind(applied, target)' BY <1>5, <1>7
  <2>6. QED BY <2>3, <2>4, <2>5 DEF Stage, Nothing
<1>8. CASE ToSetUp(todo, b, a) /\ LeftBehind(b, a) /\ OnlyAt(a)
  <2>1. ToSetUp(todo', b, a) BY <1>1, <1>8, StepsLeft DEF ToSetUp
  <2>2. LeftBehind(applied, target)' BY <1>5, <1>8 DEF OnlyAt, Mirrors
  <2>3. \A m \in Labels : HasSession(m)' => Mirrors(a, m) BY <1>3, <1>8 DEF OnlyAt
  <2>4. QED BY <1>1, <2>1, <2>2, <2>3, LastStage
<1>9. QED BY <1>w, <1>1, <1>6, <1>7, <1>8, StageOfStep

LEMMA MoveStage ==
    ASSUME SyncAssumption, Undisturbed, SyncInv, Move
    PROVE  Stage(applied, target)'
<1>w. SyncTypeOK /\ PlanInv BY DEF SyncInv
<1> DEFINE b == applied
           a == files
<1>1. /\ op = "reconcile" /\ target = a /\ session = Nothing /\ b # Undeclared /\ a # Undeclared
      /\ ToMove(todo, b, a) /\ Head(todo) = <<"move", b.path, a.path>>
  BY MoveHasNoSession
<1>2. /\ applied' = b /\ target' = a /\ todo' = Tail(todo) /\ session' = Nothing
      /\ \A l \in Labels : ~HasSession(l)'
  BY <1>1 DEF Move, Done, HasSession, Nothing
<1>3. /\ b.path # a.path
      /\ ToRename(Tail(todo), b, a) \/ ToSwitch(Tail(todo), b, a) \/ ToSetUp(Tail(todo), b, a)
  BY <1>1 DEF ToMove
<1>4. guest'[b.path] = Gone
  <2>1. Head(todo)[2] = b.path /\ Head(todo)[3] = a.path BY <1>1
  <2>2. b.path \in Paths BY <1>w, <1>1, VersionsAreNumbers DEF SyncTypeOK, Declared
  <2>3. guest' = [guest EXCEPT ![b.path] = Gone, ![a.path] = guest'[a.path]]
    BY <1>w, <1>3, <2>1, <2>2 DEF Move, SyncTypeOK
  <2>4. QED BY <1>w, <1>3, <2>2, <2>3 DEF SyncTypeOK
<1>5. LeftBehind(applied, target)'
  <2>1. b.label # a.label => b.kind # "volume"
    BY <1>w, <1>1, <1>3, PlanFacts DEF Undisturbed
  <2>2. QED BY <1>2, <1>4, <2>1 DEF LeftBehind
<1>6. OnlyAt(target)' BY <1>2 DEF OnlyAt
<1>7. CASE ToRename(Tail(todo), b, a)
  <2>1. ToRename(todo, applied, target)' BY <1>2, <1>7 DEF ToRename, ToSetUp, LastSteps
  <2>2. ~HasSession(applied.label)'
    <3>1. b.label \in Labels BY <1>w, <1>1, VersionsAreNumbers DEF SyncTypeOK, Declared
    <3>2. QED BY <1>2, <3>1 DEF HasSession
  <2>3. QED BY <1>2, <1>5, <1>6, <2>1, <2>2 DEF Stage, Nothing
<1>8. CASE ToSwitch(Tail(todo), b, a)
  <2>1. ToSwitch(todo, applied, target)' BY <1>2, <1>8 DEF ToSwitch, ToRemove, ToSetUp, LastSteps
  <2>2. QED BY <1>2, <1>5, <2>1 DEF Stage
<1>9. CASE ToSetUp(Tail(todo), b, a)
  BY <1>2, <1>5, <1>9, LastStage
<1>10. QED BY <1>3, <1>7, <1>8, <1>9

LEMMA RenameStage ==
    ASSUME SyncAssumption, Undisturbed, SyncInv, Rename
    PROVE  Stage(applied, target)'
<1>1. /\ target = files /\ ToRename(todo, applied, files) /\ OnlyAt(files)
      /\ applied.kind = "repo" => LeftBehind(applied, files)
      /\ mirror'[applied.label] = Gone
  BY RenameOldLabel
<1>2. /\ applied' = applied /\ target' = files /\ todo' = Tail(todo)
      /\ UNCHANGED <<session, guest>>
  BY <1>1 DEF Rename, Done
<1>3. ToSetUp(todo', applied, files) BY <1>1, <1>2 DEF ToRename
<1>4. applied \in Declared BY <1>1 DEF ToRename, SyncInv, SyncTypeOK, Declared
<1>5. LeftBehind(applied, target)'
  <2>1. CASE applied.kind = "repo" BY <1>1, <1>2, <2>1 DEF LeftBehind
  <2>2. CASE applied.kind = "volume" BY <1>1, <1>2, <2>2 DEF LeftBehind
  <2>3. QED BY <1>4, <2>1, <2>2 DEF SyncAssumption
<1>6. \A l \in Labels : HasSession(l)' => Mirrors(files, l) BY <1>1, <1>2 DEF OnlyAt, HasSession
<1>7. QED BY <1>2, <1>3, <1>5, <1>6, LastStage

LEMMA SetupStage ==
    ASSUME SyncAssumption, Undisturbed, SyncInv, Setup
    PROVE  Stage(applied, target)'
<1>1. /\ files \in Declared /\ Head(todo)[2] = files /\ OnlyAt(files)' /\ op = "reconcile"
      /\ ToSetUp(todo, applied, files) /\ LeftBehind(applied, files)
  BY SessionsMade
<1>2. /\ \A p \in Paths : p # files.path => guest'[p] = guest[p]
      /\ \A l \in Labels : l # files.label => mirror'[l] = mirror[l]
      /\ UNCHANGED <<files, applied, target>>
  BY <1>1, SetUpEffect DEF SyncInv
<1>3. target = files /\ todo # <<>> /\ todo' = Tail(todo)
  BY <1>1 DEF SyncInv, PlanInv, Setup, Step, Done
<1>4. LeftBehind(applied, files)'
  <2>1. CASE Relabelled BY <1>1, <1>2, <2>1, MadeKeepsLeft
  <2>2. CASE ~Relabelled BY <1>2, <2>2 DEF Relabelled, LeftBehind
  <2>3. QED BY <2>1, <2>2
<1>5. ToSetUp(todo', applied, files) BY <1>1, <1>3, StepsLeft DEF ToSetUp
<1>6. \A l \in Labels : HasSession(l)' => Mirrors(files, l) BY <1>1, <1>2 DEF OnlyAt, Mirrors
<1>7. applied' = applied /\ target' = files /\ LeftBehind(applied, target)'
  BY <1>2, <1>3, <1>4
<1>8. QED BY <1>5, <1>6, <1>7, LastStage

LEMMA CloneStage ==
    ASSUME SyncAssumption, Undisturbed, SyncInv, op = "reconcile", Clone
    PROVE  Stage(applied, target)'
<1>w. SyncTypeOK /\ PlanInv /\ TodoInv BY DEF SyncInv
<1>1. /\ todo # <<>> /\ Head(todo)[1] \in {"clone", "clone only"} /\ target = files
      /\ todo' = Tail(todo)
  BY <1>w DEF Clone, Step, Done, PlanInv
<1>2. /\ ToSetUp(todo, applied, files) /\ LeftBehind(applied, files) /\ OnlyAt(files)
      /\ files # Undeclared /\ Head(todo)[2] = files
  BY <1>w, <1>1, StageOfStep
<1>3. files \in Declared BY <1>w, <1>2 DEF SyncTypeOK, Declared
<1>4. /\ \A p \in Paths : p # files.path => guest'[p] = guest[p]
      /\ \A l \in Labels : l # files.label => mirror'[l] = mirror[l]
      /\ UNCHANGED <<files, applied, target, session>>
  BY <1>w, <1>2, <1>3, CloneEffect
<1>5. LeftBehind(applied, files)'
  <2>1. CASE Relabelled BY <1>2, <1>4, <2>1, MadeKeepsLeft
  <2>2. CASE ~Relabelled BY <1>4, <2>2 DEF Relabelled, LeftBehind
  <2>3. QED BY <2>1, <2>2
<1>6. ToSetUp(todo', applied, files) BY <1>1, <1>2, StepsLeft DEF ToSetUp
<1>7. \A l \in Labels : HasSession(l)' => Mirrors(files, l) BY <1>2, <1>4 DEF OnlyAt, HasSession
<1>8. applied' = applied /\ target' = files /\ LeftBehind(applied, target)'
  BY <1>1, <1>4, <1>5
<1>9. QED BY <1>6, <1>7, <1>8, LastStage

LEMMA RemoveStage ==
    ASSUME SyncAssumption, Undisturbed, SyncInv, op = "reconcile", RemoveMirror
    PROVE  Stage(applied, target)'
<1>w. SyncTypeOK /\ PlanInv /\ TodoInv BY DEF SyncInv
<1>1. /\ todo # <<>> /\ Head(todo)[1] \in {"remove", "remove empty"}
      /\ applied' = applied /\ target' = target /\ todo' = Tail(todo)
      /\ UNCHANGED <<session, guest>>
  BY DEF RemoveMirror, Step, Done
<1>2. /\ session = Nothing
      /\ \/ ToRemove(todo, applied, target) /\ LeftBehind(applied, target)
         \/ ToRemoveEmpty(todo, applied, target)
  BY <1>w, <1>1, StageOfStep
<1>3. ToSetUp(todo', applied, target) BY <1>1, <1>2 DEF ToRemove, ToRemoveEmpty
<1>4. \A l \in Labels : mirror[l] = Gone => mirror'[l] = Gone
  BY <1>w DEF RemoveMirror, SyncTypeOK
<1>5. LeftBehind(applied, target)'
  <2>1. CASE target = Undeclared BY <1>1, <2>1 DEF LeftBehind
  <2>2. CASE applied = Undeclared BY <1>1, <2>2 DEF LeftBehind
  <2>3. CASE target # Undeclared /\ applied # Undeclared
    <3>1. LeftBehind(applied, target) BY <1>2, <2>3 DEF ToRemoveEmpty
    <3>2. applied.label \in Labels
      BY <1>w, <2>3, VersionsAreNumbers DEF SyncTypeOK, Declared
    <3>3. QED BY <1>1, <1>4, <3>1, <3>2 DEF LeftBehind
  <2>4. QED BY <2>1, <2>2, <2>3
<1>6. \A l \in Labels : HasSession(l)' => Mirrors(target, l) BY <1>1, <1>2 DEF HasSession, Nothing
<1>7. QED BY <1>1, <1>3, <1>5, <1>6, LastStage

LEMMA TodoInvKept ==
    ASSUME SyncAssumption, Undisturbed, SyncInv, [SyncNext]_syncVars
    PROVE  TodoInv'
<1>w. SyncTypeOK /\ PlanInv /\ WhereInv /\ TodoInv /\ SyncTypeOK'
  BY SyncTypesKept DEF SyncInv
<1>n. op' = "none" => TodoInv' BY DEF TodoInv
<1>d. ASSUME Done, todo # <<>>, op # "none", op = "reconcile" => Stage(applied, target)'
      PROVE  TodoInv'
  <2>1. op' = op /\ target' = target /\ todo' = Tail(todo) BY <1>d DEF Done
  <2>2. op \in {"start", "fresh"} => todo' \in Seq(ColdSteps(target'))
    BY <1>w, <1>d, <2>1, ColdStep
  <2>3. QED BY <1>d, <2>1, <2>2 DEF TodoInv, ColdSteps
<1>k. ASSUME UNCHANGED <<op, todo, target, applied>>,
             \A l \in Labels : HasSession(l)' => HasSession(l),
             op = "reconcile" /\ LeftBehind(applied, target)
                 /\ (\A l \in Labels : HasSession(l) => l = target.label)
                 => LeftBehind(applied, target)'
      PROVE  TodoInv'
  <2>1. op = "reconcile" => Stage(applied, target)' BY <1>w, <1>k, StageStays DEF TodoInv
  <2>2. QED BY <1>w, <1>k, <2>1 DEF TodoInv, ColdSteps
<1>1. CASE Edit BY <1>1, <1>n DEF Edit, Idle, work
<1>2. ASSUME NEW p \in Paths, GuestWrite(p) PROVE TodoInv'
  <2>1. /\ UNCHANGED <<op, todo, target, applied, session, mirror>> /\ guest[p] # Gone
        /\ \A q \in Paths : q # p => guest'[q] = guest[q]
    BY <1>w, <1>2 DEF GuestWrite, work, SyncTypeOK
  <2>2. LeftBehind(applied, target) => LeftBehind(applied, target)'
    <3>1. applied # Undeclared => applied.path \in Paths
      BY <1>w, VersionsAreNumbers DEF SyncTypeOK, Declared
    <3>2. QED BY <2>1, <3>1 DEF LeftBehind
  <2>3. QED BY <1>k, <2>1, <2>2 DEF HasSession
<1>3. ASSUME NEW l \in Labels, MacWrite(l) PROVE TodoInv'
  <2>1. /\ UNCHANGED <<op, todo, target, applied, session, guest>> /\ mirror[l] # Gone
        /\ \A m \in Labels : m # l => mirror'[m] = mirror[m]
    BY <1>w, <1>3 DEF MacWrite, work, SyncTypeOK
  <2>2. LeftBehind(applied, target) => LeftBehind(applied, target)'
    <3>1. applied # Undeclared => applied.label \in Labels
      BY <1>w, VersionsAreNumbers DEF SyncTypeOK, Declared
    <3>2. QED BY <2>1, <3>1 DEF LeftBehind
  <2>3. QED BY <1>k, <2>1, <2>2 DEF HasSession
<1>4. ASSUME NEW l \in Labels, Cycle(l) PROVE TodoInv'
  <2>1. /\ UNCHANGED <<op, todo, target, applied, files>> /\ Flushes(l, Now)
        /\ guest' = Cycled(l, Now).guest /\ mirror' = Cycled(l, Now).mirror
        /\ session' = Cycled(l, Now).session
    BY <1>4 DEF Cycle, work
  <2>2. ASSUME op = "reconcile", LeftBehind(applied, target),
               \A m \in Labels : HasSession(m) => m = target.label
        PROVE  LeftBehind(applied, target)'
    <3>1. target = files /\ target' = files' BY <1>w, <2>1, <2>2 DEF PlanInv
    <3>2. LeftBehind(applied, files)' BY <2>1, <2>2, <3>1, CyclesKeepLeft
    <3>3. QED BY <3>1, <3>2
  <2>3. \A m \in Labels : HasSession(m)' => HasSession(m) BY <1>w, <2>1, PathsKept
  <2>4. QED BY <1>k, <2>1, <2>2, <2>3
<1>6. CASE Terminate
  <2>1. Done /\ todo # <<>> BY <1>6 DEF Terminate, Step
  <2>2. QED BY <1>w, <1>6, <1>d, <2>1, TerminateStage DEF SyncTypeOK
<1>7. CASE Move
  <2>1. Done /\ todo # <<>> BY <1>7 DEF Move, Step
  <2>2. QED BY <1>w, <1>7, <1>d, <2>1, MoveStage DEF SyncTypeOK
<1>8. CASE Rename
  <2>1. Done /\ todo # <<>> BY <1>8 DEF Rename, Step
  <2>2. QED BY <1>w, <1>8, <1>d, <2>1, RenameStage DEF SyncTypeOK
<1>9. CASE Setup
  <2>1. Done /\ todo # <<>> BY <1>9 DEF Setup, Step
  <2>2. QED BY <1>w, <1>9, <1>d, <2>1, SetupStage DEF SyncTypeOK
<1>10. CASE Resume
  <2>1. Done /\ todo # <<>> BY <1>10 DEF Resume, Step
  <2>2. op \in {"start", "fresh"} BY <1>10, SessionsMade
  <2>3. QED BY <1>d, <2>1, <2>2
<1>11. CASE Clone
  <2>1. Done /\ todo # <<>> BY <1>11 DEF Clone, Step
  <2>2. QED BY <1>w, <1>11, <1>d, <2>1, CloneStage DEF SyncTypeOK
<1>12. CASE RemoveMirror
  <2>1. Done /\ todo # <<>> BY <1>12 DEF RemoveMirror, Step
  <2>2. QED BY <1>w, <1>12, <1>d, <2>1, RemoveStage DEF SyncTypeOK
<1>13. CASE FlushAll
  <2>1. Done /\ todo # <<>> /\ Head(todo)[1] = "flush" BY <1>13 DEF FlushAll, Step
  <2>2. op # "reconcile" BY <1>w, <2>1, StageOfStep
  <2>3. QED BY <1>w, <1>d, <2>1, <2>2 DEF SyncTypeOK
<1>14. CASE StartVM
  BY <1>14, ColdStarts DEF StartVM, TodoInv, ColdSteps
<1>15. CASE Reconcile
  <2>1. op' = "reconcile" BY <1>15 DEF Reconcile
  <2>2. QED BY <1>15, <2>1, ReconcileStage DEF TodoInv
<1>16. CASE Finish \/ StepFails BY <1>16, <1>n DEF Finish, StepFails
<1>17. CASE Stop \/ Destroy BY <1>17, <1>n DEF Stop, Destroy, Idle, work
<1>18. CASE UNCHANGED syncVars
  BY <1>18, <1>k DEF syncVars, HasSession, LeftBehind
<1>19. QED
  BY <1>1, <1>2, <1>3, <1>4, <1>6, <1>7, <1>8, <1>9, <1>10, <1>11, <1>12, <1>13, <1>14, <1>15,
     <1>16, <1>17, <1>18 DEF SyncNext

LEMMA SyncInvInit ==
    ASSUME SyncAssumption, SyncInit
    PROVE  SyncInv /\ FreshInv
<1>1. \A l \in Labels : ~HasSession(l) BY DEF SyncInit, HasSession, Nothing
<1>2. PlanInv BY DEF SyncInit, PlanInv, SyncAssumption, Declarations
<1>3. WhereInv /\ LeftInv BY <1>1 DEF SyncInit, WhereInv, LeftInv
<1>4. SideInv BY <1>1 DEF SyncInit, SideInv, Remote
<1>5. TodoInv BY DEF SyncInit, TodoInv
<1>6. FreshInv BY DEF SyncInit, FreshInv
<1>7. QED BY <1>2, <1>3, <1>4, <1>5, <1>6, SyncTypesInit DEF SyncInv

LEMMA SyncInvKept ==
    ASSUME SyncAssumption, Undisturbed, SyncInv, FreshInv, [SyncNext]_syncVars
    PROVE  SyncInv' /\ FreshInv'
<1>1. SyncTypeOK' /\ PlanInv' BY SyncTypesKept, PlanInvKept DEF SyncInv
<1>2. WhereInv' /\ LeftInv' /\ SideInv' /\ TodoInv'
  BY WhereInvKept, LeftInvKept, SideInvKept, TodoInvKept
<1>3. FreshInv' BY FreshInvKept DEF SyncInv, Undisturbed
<1>4. QED BY <1>1, <1>2, <1>3 DEF SyncInv

\* What a guest directory holds after a step is no older.
GuestKept == \A p \in Paths : Populated(guest[p]) => Populated(guest'[p]) /\ guest'[p] >= guest[p]
GuestNewer ==
    \A p \in Paths : Populated(guest[p]) /\ Populated(guest'[p]) => guest'[p] >= guest[p]
MirrorNewer ==
    \A l \in Labels : Populated(mirror[l]) /\ Populated(mirror'[l]) => mirror'[l] >= mirror[l]
GuestElsewhere ==
    vm = "running" /\ vm' = "running" =>
        \A p \in Paths : Populated(guest[p]) /\ ~Nests(p) =>
            \E q \in Paths : Populated(guest'[q]) /\ guest'[q] >= guest[p]

\* A cycle, which a terminate begins with, leaves the newer of the two sides.
LEMMA CycleIsNewer ==
    ASSUME SyncAssumption, SyncTypeOK, SideInv, NEW l \in Labels, Flushes(l, Now),
           guest' = Cycled(l, Now).guest, mirror' = Cycled(l, Now).mirror
    PROVE  GuestKept /\ MirrorNewer
<1> DEFINE place == session[l].path
<1>1. place \in Paths /\ HasSession(l) BY CycleEffect
<1>2. PICK v \in Versions : /\ v = Merged(session[l], mirror[l], guest[place])
                            /\ guest' = [guest EXCEPT ![place] = v]
                            /\ mirror' = [mirror EXCEPT ![l] = v]
  BY CycleEffect
<1>3. /\ Populated(mirror[l]) => v >= mirror[l]
      /\ Populated(guest[place]) => v >= guest[place]
  BY <1>1, <1>2, MergeIsNewer DEF SideInv
<1> HIDE DEF place
<1>4. /\ \A p \in Paths : Populated(guest[p]) => guest[p] \in Nat /\ guest[p] # 0
      /\ \A m \in Labels : Populated(mirror[m]) => mirror[m] \in Nat
      /\ v \in Nat /\ v # Gone
  BY <1>2, VersionsAreNumbers DEF SyncTypeOK, Populated
<1>5. ASSUME NEW p \in Paths, Populated(guest[p])
      PROVE  Populated(guest'[p]) /\ guest'[p] >= guest[p]
  <2>1. CASE p = place
    <3>1. guest'[p] = v BY <1>1, <1>2, <2>1 DEF SyncTypeOK
    <3>2. QED BY <1>3, <1>4, <1>5, <2>1, <3>1 DEF Populated
  <2>2. CASE p # place
    <3>1. guest'[p] = guest[p] BY <1>2, <2>2 DEF SyncTypeOK
    <3>2. QED BY <1>4, <1>5, <3>1
  <2>3. QED BY <2>1, <2>2
<1>6. ASSUME NEW m \in Labels, Populated(mirror[m]) PROVE mirror'[m] >= mirror[m]
  <2>1. CASE m = l
    <3>1. mirror'[m] = v BY <1>2, <2>1 DEF SyncTypeOK
    <3>2. QED BY <1>3, <1>4, <1>6, <2>1, <3>1
  <2>2. CASE m # l
    <3>1. mirror'[m] = mirror[m] BY <1>2, <2>2 DEF SyncTypeOK
    <3>2. QED BY <1>4, <1>6, <3>1
  <2>3. QED BY <2>1, <2>2
<1>7. QED BY <1>5, <1>6 DEF GuestKept, MirrorNewer

\* Whatever step is taken.
LEMMA ContentStep ==
    ASSUME SyncAssumption, Undisturbed, SyncInv, [SyncNext]_syncVars
    PROVE  GuestNewer /\ MirrorNewer /\ GuestElsewhere
<1>w. SyncTypeOK /\ PlanInv /\ SideInv BY DEF SyncInv
<1>v. /\ \A p \in Paths : Populated(guest[p]) => guest[p] \in Nat
      /\ \A l \in Labels : Populated(mirror[l]) => mirror[l] \in Nat
      /\ writes \in Nat
  BY <1>w, VersionsAreNumbers DEF SyncTypeOK, Populated
<1>k. GuestKept => GuestNewer /\ GuestElsewhere
  BY DEF GuestKept, GuestNewer, GuestElsewhere
<1>g. ASSUME \A p \in Paths : guest'[p] = guest[p] \/ ~Populated(guest[p])
      PROVE  GuestNewer /\ GuestElsewhere
  BY <1>g, <1>k, <1>v DEF GuestKept
<1>m. ASSUME \A l \in Labels : mirror'[l] = mirror[l] \/ ~Populated(mirror[l]) \/ mirror'[l] = Gone
      PROVE  MirrorNewer
  BY <1>m, <1>v DEF MirrorNewer, Populated
<1>i. ASSUME UNCHANGED <<guest, mirror>> PROVE GuestNewer /\ MirrorNewer /\ GuestElsewhere
  BY <1>i, <1>g, <1>m
<1>1. CASE Edit \/ FlushAll \/ StartVM \/ Reconcile \/ Finish \/ Stop
  BY <1>1, <1>i DEF Edit, FlushAll, StartVM, Reconcile, Finish, Stop, sides
<1>2. ASSUME NEW p \in Paths, GuestWrite(p) PROVE GuestNewer /\ MirrorNewer /\ GuestElsewhere
  <2>1. /\ mirror' = mirror /\ guest'[p] = writes + 1
        /\ \A q \in Paths : q # p => guest'[q] = guest[q]
    BY <1>w, <1>2 DEF GuestWrite, SyncTypeOK
  <2>2. writes + 1 # Gone
    BY <1>v, <1>2, VersionsAreNumbers DEF GuestWrite, Versions, SyncAssumption
  <2>3. ASSUME NEW q \in Paths, Populated(guest[q])
        PROVE  Populated(guest'[q]) /\ guest'[q] >= guest[q]
    <3>1. guest[q] \in Nat /\ guest[q] <= writes
      BY <1>v, <1>w, <2>3 DEF SideInv, Populated
    <3>2. CASE q = p BY <1>v, <2>1, <2>2, <3>1, <3>2 DEF Populated
    <3>3. CASE q # p BY <2>1, <2>3, <3>1, <3>3
    <3>4. QED BY <3>2, <3>3
  <2>4. GuestKept BY <2>3 DEF GuestKept
  <2>5. QED BY <1>k, <1>m, <2>1, <2>4
<1>3. ASSUME NEW l \in Labels, MacWrite(l) PROVE GuestNewer /\ MirrorNewer /\ GuestElsewhere
  <2>1. /\ guest' = guest /\ mirror'[l] = writes + 1
        /\ \A m \in Labels : m # l => mirror'[m] = mirror[m]
    BY <1>w, <1>3 DEF MacWrite, SyncTypeOK
  <2>2. ASSUME NEW m \in Labels, Populated(mirror[m]) PROVE mirror'[m] >= mirror[m]
    <3>1. mirror[m] \in Nat /\ mirror[m] <= writes
      BY <1>v, <1>w, <2>2 DEF SideInv, Populated
    <3>2. QED BY <1>v, <2>1, <3>1
  <2>3. QED BY <1>g, <2>1, <2>2 DEF MirrorNewer
<1>4. ASSUME NEW l \in Labels, Cycle(l) PROVE GuestNewer /\ MirrorNewer /\ GuestElsewhere
  BY <1>w, <1>k, <1>4, CycleIsNewer DEF Cycle
<1>5. CASE Terminate
  <2>1. PICK l \in Labels :
          \/ UNCHANGED sides
          \/ /\ Flushes(l, Now)
             /\ guest' = Cycled(l, Now).guest /\ mirror' = Cycled(l, Now).mirror
    BY <1>w, <1>5, TerminateEffect
  <2>2. QED BY <1>w, <1>i, <1>k, <2>1, CycleIsNewer DEF sides
<1>6. CASE Move
  <2> DEFINE from == applied.path
             to == files.path
  <2>1. /\ Head(todo) = <<"move", from, to>> /\ from # to
        /\ applied # Undeclared /\ files # Undeclared
    BY <1>6, MoveHasNoSession DEF ToMove
  <2>2. from \in Paths /\ to \in Paths /\ Head(todo)[2] = from /\ Head(todo)[3] = to
    BY <1>w, <2>1, VersionsAreNumbers DEF SyncTypeOK, Declared
  <2>3. /\ guest' = [guest EXCEPT ![from] = Gone, ![to] = IF @ = Gone THEN guest[from] ELSE @]
        /\ mirror' = mirror /\ Step("move")
    BY <1>6, <2>2 DEF Move
  <2> HIDE DEF from, to
  <2>4. /\ guest'[from] = Gone
        /\ guest'[to] = IF guest[to] = Gone THEN guest[from] ELSE guest[to]
        /\ \A p \in Paths : p # from /\ p # to => guest'[p] = guest[p]
    BY <1>w, <2>1, <2>2, <2>3 DEF SyncTypeOK
  <2>5. GuestNewer BY <1>v, <2>2, <2>4 DEF GuestNewer, Populated
  <2>6. ASSUME NEW p \in Paths, Populated(guest[p]), ~Nests(p)
        PROVE  \E q \in Paths : Populated(guest'[q]) /\ guest'[q] >= guest[p]
    <3>1. CASE p = from
      <4>1. guest[to] = Gone BY <2>2, <2>3, <2>6, <3>1 DEF Nests
      <4>2. guest'[to] = guest[p] BY <2>4, <3>1, <4>1
      <4>3. QED BY <1>v, <2>2, <2>6, <4>2
    <3>2. CASE p # from
      <4>1. guest'[p] = guest[p] BY <2>4, <2>6, <3>2 DEF Populated
      <4>2. QED BY <1>v, <2>6, <4>1
    <3>3. QED BY <3>1, <3>2
  <2>7. QED BY <1>m, <2>3, <2>5, <2>6 DEF GuestElsewhere
<1>7. CASE Rename
  <2>1. /\ mirror'[applied.label] = Gone /\ ~Populated(mirror[files.label])
        /\ \A l \in Labels \ {applied.label, files.label} : mirror'[l] = mirror[l]
    BY <1>7, RenameOldLabel
  <2>2. MirrorNewer BY <1>m, <2>1
  <2>3. guest' = guest BY <1>7 DEF Rename
  <2>4. QED BY <1>g, <2>2, <2>3
<1>8. CASE Setup \/ Resume
  <2>1. PICK d \in Declared : Head(todo)[2] = d /\ d.label \in Labels /\ d.path \in Paths
    BY <1>8, SessionsMade, VersionsAreNumbers
  <2>2. /\ \A p \in Paths : p # d.path => guest'[p] = guest[p]
        /\ guest'[d.path] = IF guest[d.path] = Gone THEN 0 ELSE guest[d.path]
        /\ \A l \in Labels : l # d.label => mirror'[l] = mirror[l]
        /\ mirror'[d.label] = IF mirror[d.label] = Gone THEN 0 ELSE mirror[d.label]
    BY <1>w, <1>8, <2>1, SetUpEffect
  <2>3. QED BY <1>g, <1>m, <2>2 DEF Populated
<1>9. CASE Clone
  <2>1. PICK d \in Declared : Head(todo)[2] = d
    BY <1>w, <1>9, StepsOfOperations, StepArguments DEF Clone
  <2>2. /\ \A p \in Paths : p # d.path => guest'[p] = guest[p]
        /\ guest'[d.path] = guest[d.path] \/ ~Populated(guest[d.path])
        /\ \A l \in Labels : l # d.label => mirror'[l] = mirror[l]
        /\ mirror'[d.label] = mirror[d.label] \/ mirror[d.label] = Gone
    BY <1>w, <1>9, <2>1, CloneEffect DEF Populated
  <2>3. QED BY <1>g, <1>m, <2>2 DEF Populated
<1>10. CASE RemoveMirror
  <2>1. guest' = guest /\ \A l \in Labels : mirror'[l] = mirror[l] \/ mirror'[l] = Gone
    BY <1>w, <1>10 DEF RemoveMirror, SyncTypeOK
  <2>2. QED BY <1>g, <1>m, <2>1
<1>z. ASSUME Destroyed PROVE GuestNewer /\ MirrorNewer /\ GuestElsewhere
  <2>1. mirror' = mirror /\ vm' = "stopped" /\ \A p \in Paths : guest'[p] = Gone
    BY <1>z DEF Destroyed
  <2>2. QED BY <1>m, <2>1 DEF GuestNewer, GuestElsewhere, Populated
<1>11. CASE StepFails BY <1>11, <1>i, <1>z DEF StepFails, sides
<1>12. CASE Destroy BY <1>12, <1>z DEF Destroy
<1>13. CASE UNCHANGED syncVars BY <1>13, <1>i DEF syncVars
<1>14. QED
  BY <1>1, <1>2, <1>3, <1>4, <1>5, <1>6, <1>7, <1>8, <1>9, <1>10, <1>11, <1>12, <1>13 DEF SyncNext

\* The inductive invariant holds in every behaviour that nothing disturbs.
THEOREM SyncInvariant ==
    ASSUME Undisturbed
    PROVE  SyncSpec => [](SyncInv /\ FreshInv)
<1>1. SyncInit => SyncInv /\ FreshInv BY SyncInvInit, SyncAssumption
<1>2. SyncInv /\ FreshInv /\ [SyncNext]_syncVars => (SyncInv /\ FreshInv)'
  BY SyncInvKept, SyncAssumption
<1>3. QED BY <1>1, <1>2, PTL DEF SyncSpec

\* For any labels, paths and plans of declarations: neither a session created or
\* resumed (mutagen/cli.go), nor a live change's moves, renames and set-ups
\* (apply_live.go), nor a failure among them replaces what either side holds by
\* an older version, while devm.yaml changes one thing at a time, no edit is
\* pending over a stop or another edit, no disk goes without its sessions, and
\* the guest's du counts its directories (Undisturbed).
THEOREM OldNeverReplacesNew ==
    ASSUME Undisturbed
    PROVE  SyncSpec => OldNeverWins
<1>1. SyncInv /\ [SyncNext]_syncVars =>
        [/\ \A p \in Paths : Populated(guest[p]) /\ Populated(guest'[p]) => guest'[p] >= guest[p]
         /\ \A l \in Labels : Populated(mirror[l]) /\ Populated(mirror'[l])
                                  => mirror'[l] >= mirror[l]]_syncVars
  BY ContentStep, SyncAssumption DEF GuestNewer, MirrorNewer
<1>2. QED BY <1>1, SyncInvariant, PTL DEF SyncSpec, OldNeverWins

\* Likewise what a guest directory holds stays in one of the entity's, or a
\* newer version does, over every step of a live change or a start that leaves
\* the VM running, but for what mv nests below a directory that is there.
THEOREM GuestContentKept ==
    ASSUME Undisturbed
    PROVE  SyncSpec => GuestKeepsContent
<1>1. SyncInv /\ [SyncNext]_syncVars =>
        [vm = "running" /\ vm' = "running" =>
            \A p \in Paths : Populated(guest[p]) /\ ~Nests(p) =>
                \E q \in Paths : Populated(guest'[q]) /\ guest'[q] >= guest[p]]_syncVars
  BY ContentStep, SyncAssumption DEF GuestElsewhere
<1>2. QED BY <1>1, SyncInvariant, PTL DEF SyncSpec, GuestKeepsContent
=============================================================================
