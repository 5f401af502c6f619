-------------------------- MODULE ActivationProofs --------------------------
(***************************************************************************)
(* Proofs about Activation, for every set of processes, stores and modes.  *)
(* Inv is inductive: the lemmas *Step show, action by action, that a step  *)
(* keeps each part of it, and the theorems that follow take it apart.  The *)
(* loop guard has an inductive invariant of its own, GuardsInv, relative   *)
(* to Inv.                                                                 *)
(***************************************************************************)
EXTENDS Activation, TLAPS

\* attached_pids as a function: what membership in AttachedMaps amounts to.
LEMMA AttachedMapsDef ==
    ASSUME NEW m
    PROVE  m \in AttachedMaps <=>
             /\ DOMAIN m \subseteq Pids
             /\ m = [q \in DOMAIN m |-> m[q]]
             /\ \A q \in DOMAIN m : m[q] \in Attachments
  BY DEF AttachedMaps

\* Inserting an attachment adds one PID to the map and keeps the others.
LEMMA InsertType ==
    ASSUME NEW m \in AttachedMaps, NEW p \in Pids, NEW a \in Attachments
    PROVE  /\ Insert(m, p, a) \in AttachedMaps
           /\ DOMAIN Insert(m, p, a) = DOMAIN m \cup {p}
           /\ Insert(m, p, a)[p] = a
           /\ \A q \in DOMAIN m : q # p => Insert(m, p, a)[q] = m[q]
  BY AttachedMapsDef DEF Insert

\* Removing a PID keeps the other attachments.
LEMMA RemoveType ==
    ASSUME NEW m \in AttachedMaps, NEW p
    PROVE  /\ Remove(m, p) \in AttachedMaps
           /\ DOMAIN Remove(m, p) = DOMAIN m \ {p}
           /\ \A q \in DOMAIN m : q # p => Remove(m, p)[q] = m[q]
  BY AttachedMapsDef DEF Remove

\* The types of the fields of state.json.
LEMMA StateFields ==
    ASSUME NEW a \in ActivationStates
    PROVE  /\ a.mode \in Modes
           /\ a.ready \in ReadyValues
           /\ a.executive \in Activators \cup {NoPid}
           /\ a.attached \in AttachedMaps
           /\ DOMAIN a.attached \subseteq Pids
           /\ \A q \in DOMAIN a.attached : a.attached[q] \in Attachments
  BY AttachedMapsDef DEF ActivationStates

\* ActivationState::new has no executive, no attachment and is not ready.
LEMMA NewType ==
    ASSUME NEW mode \in Modes
    PROVE  /\ New(mode) \in ActivationStates
           /\ New(mode).mode = mode
           /\ New(mode).executive = NoPid
           /\ New(mode).ready = ReadyFalse
           /\ DOMAIN New(mode).attached = {}
  BY AttachedMapsDef DEF New, ActivationStates, ReadyFalse, ReadyValues

\* attach yields a state.
LEMMA AttachToType ==
    ASSUME NEW a \in ActivationStates, NEW p \in Pids, NEW id \in StartIds
    PROVE  AttachTo(a, p, id) \in ActivationStates
  <1>1. [start |-> id, exp |-> FALSE] \in Attachments
    BY DEF Attachments
  <1> QED
    BY <1>1, InsertType DEF AttachTo, ActivationStates

\* start yields a state.
LEMMA StartByType ==
    ASSUME NEW a \in ActivationStates, NEW p \in Activators, NEW id \in StartIds
    PROVE  StartBy(a, p, id) \in ActivationStates
  <1>1. AttachTo(a, p, id) \in ActivationStates
    BY AttachToType DEF Pids
  <1>2. ReadyStarting(p, id) \in ReadyValues
    BY DEF ReadyStarting, ReadyValues
  <1> QED
    BY <1>1, <1>2 DEF StartBy, ActivationStates

\* set_ready yields a state.
LEMMA SetReadyType ==
    ASSUME NEW a \in ActivationStates, NEW id \in StartIds
    PROVE  SetReady(a, id) \in ActivationStates
  <1>1. ReadyTrue(id) \in ReadyValues
    BY DEF ReadyTrue, ReadyValues
  <1> QED
    BY <1>1 DEF SetReady, ActivationStates

\* detach yields a state.
LEMMA DetachPidType ==
    ASSUME NEW a \in ActivationStates, NEW p
    PROVE  DetachPid(a, p) \in ActivationStates
  <1> DEFINE m == Remove(a.attached, p)
  <1>1. m \in AttachedMaps
    BY RemoveType, StateFields
  <1>2. ReadyAfterDetach(a.ready, m) \in ReadyValues
    BY StateFields DEF ReadyAfterDetach, ReadyFalse, ReadyValues
  <1> QED
    BY <1>1, <1>2 DEF DetachPid, ActivationStates

\* replace_attachment yields a state.
LEMMA ReplaceAttachmentType ==
    ASSUME NEW a \in ActivationStates, NEW id \in StartIds, NEW old,
           NEW new \in Pids, NEW exp \in BOOLEAN
    PROVE  ReplaceAttachment(a, id, old, new, exp) \in ActivationStates
  <1>1. Remove(a.attached, old) \in AttachedMaps
    BY RemoveType, StateFields
  <1>2. [start |-> id, exp |-> exp] \in Attachments
    BY DEF Attachments
  <1>3. Insert(Remove(a.attached, old), new, [start |-> id, exp |-> exp])
            \in AttachedMaps
    BY <1>1, <1>2, InsertType
  <1> QED
    BY <1>3 DEF ReplaceAttachment, ActivationStates

\* What an activator loads under the lock is a state.
LEMMA LoadedType ==
    ASSUME TypeOK, NEW p \in Activators
    PROVE  Loaded(p) \in ActivationStates
  BY NewType DEF Loaded, TypeOK, Contexts

\* ensure_monitoring_pids yields a map of watcher threads.
LEMMA MonitoringType ==
    ASSUME TypeOK, NEW e \in Activators, NEW S
    PROVE  Monitoring(e, S) \in [Pids -> WatchStates]
  BY DEF Monitoring, Watcher, TypeOK, WatchStates

\* write_activations_json stores a state and notifies executives.
LEMMA WriteType ==
    ASSUME TypeOK, NEW a \in ActivationStates, Write(a)
    PROVE  state' \in ActivationStates /\ notify' \subseteq Activators
  BY DEF Write, TypeOK, Listening

\* cleanup_pid yields a state.
LEMMA CleanedUpType ==
    ASSUME state \in ActivationStates, NEW p
    PROVE  CleanedUp(p) \in ActivationStates
  BY DetachPidType DEF CleanedUp

\* A step is one of the actions, or changes nothing.
LEMMA NextCases ==
    ASSUME [Next]_vars
    PROVE  \/ UNCHANGED vars
           \/ \E p \in Activators : Activate(p)
           \/ \E p \in Activators : RefuseMode(p)
           \/ \E p \in Activators : Attach(p)
           \/ \E p \in Activators : Start(p)
           \/ \E p \in Activators : ExecutiveLost(p)
           \/ \E p \in Activators : HookCompletes(p)
           \/ \E p \in Activators : MarkReady(p)
           \/ \E p \in Activators : LoadStartDiff(p)
           \/ \E p \in Activators : ActivateInPlace(p)
           \/ \E p \in Activators : ExitPrinted(p)
           \/ \E p \in UserShells : EvalAttach(p)
           \/ \E p \in UserShells : Resume(p)
           \/ \E p \in Pids : Detach(p)
           \/ \E p \in Pids : Exit(p)
           \/ \E p \in Pids : ReusePid(p)
           \/ \E p \in Pids : ForeignExit(p)
           \/ \E p \in Activators : Expire(p)
           \/ \E p \in Activators : SpawnAllWatchers(p)
           \/ \E p \in Activators : SignalParent(p)
           \/ \E e \in Activators, p \in Pids : WatcherFires(e, p)
           \/ \E e \in Activators, p \in Pids : ProcessExited(e, p)
           \/ \E p \in Activators : RecheckPid(p)
           \/ \E p \in Activators : CleanupAfterError(p)
           \/ \E p \in Activators : StateFileChanged(p)
           \/ \E p \in Activators : Terminate(p)
  BY DEF Next, ActivatorStep, ExecutiveStep, MainThread, Finished

\* Before any activation the inductive invariant holds.
LEMMA InitInv == Init => Inv
  <1> SUFFICES ASSUME Init PROVE Inv
    OBVIOUS
  <1> QED
    BY ConstantsDistinct DEF Init, Inv, TypeOK, StartRecorded, ExecutiveRecorded,
         OneChild, ExecutiveOwnsState, AttachmentsKept, ModesAgree,
         StartDirsPresent, AttachedPidsWatched, Joined, Alive, Running,
         ExecAlive, NoExecutiveDied, Pids, ActivatorStates, ShellStates,
         ExecStates, WatchStates, Contexts

\* Every step keeps the types.
LEMMA TypeStep == ASSUME Inv, [Next]_vars PROVE TypeOK'
  <1> USE DEF Inv, TypeOK, procVars, execVars
  <1>1. ASSUME NEW p \in Activators, Activate(p) PROVE TypeOK'
    <2>1. CASE ctx[p].shell = NoPid
      BY <1>1, <2>1 DEF Activate, ActivatorStates, ShellStates, Pids
    <2>2. CASE ctx[p].shell # NoPid
      <3>1. ctx[p].shell \in UserShells
        BY <2>2 DEF Contexts
      <3>2. /\ pc' = [pc EXCEPT ![p] = "try", ![ctx[p].shell] = "blocked"]
            /\ child' = [child EXCEPT ![ctx[p].shell] = p]
        BY <1>1, <2>2 DEF Activate
      <3>3. p # ctx[p].shell
        BY <3>1, ConstantsDistinct
      <3>4. pc' \in [Pids -> ActivatorStates \cup ShellStates]
        BY <3>1, <3>2 DEF ActivatorStates, ShellStates, Pids
      <3>5. /\ \A q \in Activators : pc'[q] \in ActivatorStates
            /\ \A q \in UserShells : pc'[q] \in ShellStates
        BY <3>1, <3>2, <3>3, ConstantsDistinct
        DEF ActivatorStates, ShellStates, Pids
      <3> QED
        BY <1>1, <3>1, <3>2, <3>4, <3>5 DEF Activate
    <2> QED
      BY <2>1, <2>2
  <1>2. ASSUME NEW p \in Activators, RefuseMode(p) PROVE TypeOK'
    BY <1>2 DEF RefuseMode, Pids, ActivatorStates, ShellStates, ExecStates, WatchStates, Contexts, Write, Alive, Running
  <1>3. ASSUME NEW p \in Activators, Attach(p) PROVE TypeOK'
    <2>1. Loaded(p) \in ActivationStates
      BY LoadedType
    <2>2. Loaded(p).ready.start \in StartIds
      BY <1>3, <2>1, StateFields DEF Attach, CanAttach, ReadyValues
    <2>3. AttachTo(Loaded(p), p, Loaded(p).ready.start) \in ActivationStates
      BY <2>1, <2>2, AttachToType DEF Pids
    <2>4. state' \in ActivationStates /\ notify' \subseteq Activators
      BY <1>3, <2>3, WriteType DEF Attach
    <2> QED
      BY <1>3, <2>2, <2>4 DEF Attach, ActivatorStates, ShellStates, Pids
  <1>4. ASSUME NEW p \in Activators, Start(p) PROVE TypeOK'
    <2> DEFINE id == [store |-> ctx[p].store, by |-> p]
               a == StartBy(Loaded(p), p, id)
               spawn == Loaded(p).executive = NoPid
    <2>1. id \in StartIds
      BY DEF StartIds, Contexts
    <2>2. a \in ActivationStates
      BY <2>1, LoadedType, StartByType
    <2>3. [a EXCEPT !.executive = IF spawn THEN p ELSE @] \in ActivationStates
      BY <2>2 DEF ActivationStates
    <2>4. state' \in ActivationStates /\ notify' \subseteq Activators
      BY <1>4, <2>3, WriteType DEF Start
    <2> HIDE DEF id, a, spawn
    <2>5. /\ startDirs' \subseteq StartIds
          /\ sid' \in [Pids -> StartIds \cup {NoStart}]
      BY <1>4, <2>1 DEF Start, Pids, id
    <2> QED
      BY <1>4, <2>4, <2>5 DEF Start, ActivatorStates, ShellStates, ExecStates, Pids
  <1>5. ASSUME NEW p \in Activators, ExecutiveLost(p) PROVE TypeOK'
    BY <1>5 DEF ExecutiveLost, Pids, ActivatorStates, ShellStates, ExecStates, WatchStates, Contexts, Write, Alive, Running
  <1>6. ASSUME NEW p \in Activators, HookCompletes(p) PROVE TypeOK'
    BY <1>6 DEF HookCompletes, Pids, ActivatorStates, ShellStates, ExecStates, WatchStates, Contexts, Write, Alive, Running
  <1>7. ASSUME NEW p \in Activators, MarkReady(p) PROVE TypeOK'
    <2>1. CASE state = NoState
      BY <1>7, <2>1 DEF MarkReady, ActivatorStates, ShellStates, Pids
    <2>2. CASE state # NoState
      <3>1. sid[p] \in StartIds
        BY <1>7 DEF MarkReady, StartRecorded, Pids
      <3>2. SetReady(state, sid[p]) \in ActivationStates
        BY <2>2, <3>1, SetReadyType
      <3>3. state' \in ActivationStates /\ notify' \subseteq Activators
        BY <1>7, <2>2, <3>2, WriteType DEF MarkReady
      <3> QED
        BY <1>7, <2>2, <3>3 DEF MarkReady, ActivatorStates, ShellStates, Pids
    <2> QED
      BY <2>1, <2>2
  <1>8. ASSUME NEW p \in Activators, LoadStartDiff(p) PROVE TypeOK'
    BY <1>8 DEF LoadStartDiff, Pids, ActivatorStates, ShellStates, ExecStates, WatchStates, Contexts, Write, Alive, Running
  <1>9. ASSUME NEW p \in Activators, ActivateInPlace(p) PROVE TypeOK'
    <2> DEFINE ok == state # NoState /\ CanReplace(state, p, sid[p])
    <2>1. CASE ~ok
      BY <1>9, <2>1 DEF ActivateInPlace, ActivatorStates, ShellStates, Pids
    <2>2. CASE ok
      <3>1. sid[p] \in StartIds
        BY <2>2, StateFields DEF CanReplace, Attachments
      <3>2. ReplaceAttachment(state, sid[p], p, p, TRUE) \in ActivationStates
        BY <2>2, <3>1, ReplaceAttachmentType DEF Pids
      <3>3. state' \in ActivationStates /\ notify' \subseteq Activators
        BY <1>9, <2>2, <3>2, WriteType DEF ActivateInPlace
      <3> QED
        BY <1>9, <2>2, <3>3 DEF ActivateInPlace, ActivatorStates, ShellStates, Pids
    <2> QED
      BY <2>1, <2>2
  <1>10. ASSUME NEW p \in Activators, ExitPrinted(p) PROVE TypeOK'
    BY <1>10 DEF ExitPrinted, Pids, ActivatorStates, ShellStates, ExecStates, WatchStates, Contexts, Write, Alive, Running
  <1>11. ASSUME NEW p \in UserShells, EvalAttach(p) PROVE TypeOK'
    <2> DEFINE old == child[p]
               ok == state # NoState /\ CanReplace(state, old, sid[old])
    <2>1. CASE ~ok
      BY <1>11, <2>1 DEF EvalAttach, ActivatorStates, ShellStates, Pids
    <2>2. CASE ok
      <3>1. sid[old] \in StartIds
        BY <2>2, StateFields DEF CanReplace, Attachments
      <3>2. ReplaceAttachment(state, sid[old], old, p, FALSE) \in ActivationStates
        BY <2>2, <3>1, ReplaceAttachmentType DEF Pids
      <3>3. state' \in ActivationStates /\ notify' \subseteq Activators
        BY <1>11, <2>2, <3>2, WriteType DEF EvalAttach
      <3> QED
        BY <1>11, <2>2, <3>1, <3>3 DEF EvalAttach, ActivatorStates, ShellStates, Pids
    <2> QED
      BY <2>1, <2>2
  <1>12. ASSUME NEW p \in UserShells, Resume(p) PROVE TypeOK'
    BY <1>12 DEF Resume, Pids, ActivatorStates, ShellStates, ExecStates, WatchStates, Contexts, Write, Alive, Running
  <1>13. ASSUME NEW p \in Pids, Detach(p) PROVE TypeOK'
    <2>1. state' \in ActivationStates \cup {NoState} /\ notify' \subseteq Activators
      BY <1>13, DetachPidType, WriteType DEF Detach
    <2>2. startDirs' \subseteq StartIds
      BY <1>13 DEF Detach
    <2> QED
      BY <1>13, <2>1, <2>2 DEF Detach, ActivatorStates, ShellStates, Pids
  <1>14. ASSUME NEW p \in Pids, Exit(p) PROVE TypeOK'
    BY <1>14 DEF Exit, Pids, ActivatorStates, ShellStates, ExecStates, WatchStates, Contexts, Write, Alive, Running
  <1>15. ASSUME NEW p \in Pids, ReusePid(p) PROVE TypeOK'
    BY <1>15 DEF ReusePid, Pids, ActivatorStates, ShellStates, ExecStates, WatchStates, Contexts, Write, Alive, Running
  <1>16. ASSUME NEW p \in Pids, ForeignExit(p) PROVE TypeOK'
    BY <1>16 DEF ForeignExit, Pids, ActivatorStates, ShellStates, ExecStates, WatchStates, Contexts, Write, Alive, Running
  <1>17. ASSUME NEW p \in Activators, Expire(p) PROVE TypeOK'
    BY <1>17 DEF Expire, Pids, ActivatorStates, ShellStates, ExecStates, WatchStates, Contexts, Write, Alive, Running
  <1>18. ASSUME NEW p \in Activators, SpawnAllWatchers(p) PROVE TypeOK'
    <2>1. Monitoring(p, DOMAIN state.attached) \in [Pids -> WatchStates]
      BY MonitoringType
    <2> QED
      BY <1>18, <2>1 DEF SpawnAllWatchers, ExecStates
  <1>19. ASSUME NEW p \in Activators, SignalParent(p) PROVE TypeOK'
    BY <1>19 DEF SignalParent, Pids, ActivatorStates, ShellStates, ExecStates, WatchStates, Contexts, Write, Alive, Running
  <1>20. ASSUME NEW e \in Activators, NEW p \in Pids, WatcherFires(e, p) PROVE TypeOK'
    BY <1>20 DEF WatcherFires, Pids, ActivatorStates, ShellStates, ExecStates, WatchStates, Contexts, Write, Alive, Running
  <1>21. ASSUME NEW e \in Activators, NEW p \in Pids, ProcessExited(e, p) PROVE TypeOK'
    <2>1. state' \in ActivationStates \cup {NoState} /\ notify' \subseteq Activators
      <3>1. CASE state = NoState
        BY <1>21, <3>1 DEF ProcessExited
      <3>2. CASE state # NoState
        <4>1. CleanedUp(p) \in ActivationStates
          BY <3>2, CleanedUpType
        <4> QED
          BY <1>21, <3>2, <4>1, WriteType DEF ProcessExited, RemoveAll
      <3> QED
        BY <3>1, <3>2
    <2>2. startDirs' \subseteq StartIds
      BY <1>21 DEF ProcessExited, RemoveAll
    <2>3. exec' \in [Activators -> ExecStates] /\ cur' \in [Activators -> Pids \cup {NoPid}]
      BY <1>21 DEF ProcessExited, ExecStates
    <2>4. [watch[e] EXCEPT ![p] = "none"] \in [Pids -> WatchStates]
      BY DEF WatchStates
    <2>5. watch' \in [Activators -> [Pids -> WatchStates]]
      BY <1>21, <2>4 DEF ProcessExited
    <2> QED
      BY <1>21, <2>1, <2>2, <2>3, <2>5 DEF ProcessExited
  <1>22. ASSUME NEW p \in Activators, RecheckPid(p) PROVE TypeOK'
    <2>1. watch' \in [Activators -> [Pids -> WatchStates]]
      <3>1. Monitoring(p, {cur[p]}) \in [Pids -> WatchStates]
        BY MonitoringType
      <3>2. [watch[p] EXCEPT ![cur[p]] = "skipped"] \in [Pids -> WatchStates]
        BY DEF WatchStates
      <3> QED
        BY <1>22, <3>1, <3>2 DEF RecheckPid
    <2>2. guard' \in [Activators -> [pid : Pids \cup {NoPid}, count : Nat]]
      <3>1. CASE state # NoState /\ cur[p] \in DOMAIN state.attached
        <4>1. NextGuard(guard[p], cur[p]) \in [pid : Pids \cup {NoPid}, count : Nat]
          BY DEF NextGuard
        <4> QED
          BY <1>22, <3>1, <4>1 DEF RecheckPid
      <3> QED
        BY <1>22, <3>1 DEF RecheckPid
    <2> QED
      BY <1>22, <2>1, <2>2 DEF RecheckPid, ExecStates
  <1>23. ASSUME NEW p \in Activators, CleanupAfterError(p) PROVE TypeOK'
    BY <1>23 DEF CleanupAfterError, RemoveAll, ExecStates
  <1>24. ASSUME NEW p \in Activators, StateFileChanged(p) PROVE TypeOK'
    <2>1. watch' \in [Activators -> [Pids -> WatchStates]]
      <3>1. Monitoring(p, DOMAIN state.attached) \in [Pids -> WatchStates]
        BY MonitoringType
      <3> QED
        BY <1>24, <3>1 DEF StateFileChanged
    <2> QED
      BY <1>24, <2>1 DEF StateFileChanged, RemoveAll, ExecStates
  <1>25. ASSUME NEW p \in Activators, Terminate(p) PROVE TypeOK'
    BY <1>25 DEF Terminate, Pids, ActivatorStates, ShellStates, ExecStates, WatchStates, Contexts, Write, Alive, Running
  <1>26. CASE UNCHANGED vars
    BY <1>26 DEF vars
  <1> QED
    BY <1>1, <1>2, <1>3, <1>4, <1>5, <1>6, <1>7, <1>8, <1>9, <1>10, <1>11, <1>12, <1>13, <1>14, <1>15, <1>16, <1>17, <1>18, <1>19, <1>20, <1>21, <1>22, <1>23, <1>24, <1>25, <1>26, NextCases

\* A live activator that moves on, or exits, disturbs no user shell.
LEMMA OneChildFrame ==
    ASSUME Inv, NEW p \in Activators, Alive(p), UNCHANGED <<ctx, child>>,
           \A q \in Pids : q # p => pc'[q] = pc[q]
    PROVE  OneChild'
  <1> USE DEF Inv, TypeOK, OneChild, Alive, Running, Pids
  <1>1. \A s \in UserShells : s # p /\ pc'[s] = pc[s] /\ child'[s] = child[s]
    BY ConstantsDistinct
  <1>2. ASSUME NEW s \in UserShells, NEW q \in Activators, Alive(q)', ctx'[q].shell = s
        PROVE  (pc[s] = "blocked" /\ child[s] = q)' \/ pc'[s] \in {"dead", "foreign", "gone"}
    <2>1. Alive(q) /\ ctx[q].shell = s
      BY <1>2
    <2> QED
      BY <1>1, <2>1
  <1>3. ASSUME NEW s \in UserShells, pc'[s] = "eval"
        PROVE  child'[s] \in Activators /\ pc'[child'[s]] \in {"dead", "foreign", "gone"}
    <2>1. pc[s] = "eval" /\ child[s] # p
      BY <1>1, <1>3
    <2> QED
      BY <1>1, <2>1
  <1> QED
    BY <1>2, <1>3

\* Who has registered what, and which shell waits for which activator.
LEMMA ProcessStep == ASSUME Inv, [Next]_vars PROVE StartRecorded' /\ OneChild'
  <1> USE ConstantsDistinct DEF Inv, TypeOK, procVars, execVars, StartRecorded, OneChild,
          Alive, Running, Pids, Contexts
  <1>1. ASSUME NEW p \in Activators, Activate(p) PROVE StartRecorded' /\ OneChild'
    <2>1. CASE ctx[p].shell = NoPid
      <3>1. /\ pc[p] = "free" /\ pc' = [pc EXCEPT ![p] = "try"]
            /\ UNCHANGED <<ctx, sid, exec, child>>
        BY <1>1, <2>1 DEF Activate
      <3>2. StartRecorded'
        BY <3>1
      <3>3. OneChild'
        <4>1. \A s \in UserShells : pc'[s] = pc[s] /\ ctx[p].shell # s
          BY <2>1, <3>1
        <4>2. \A s \in UserShells : pc[s] = "eval" => child[s] # p
          BY <3>1
        <4> QED
          BY <3>1, <4>1, <4>2
      <3> QED
        BY <3>2, <3>3
    <2>2. CASE ctx[p].shell # NoPid
      <3>1. ctx[p].shell \in UserShells /\ ctx[p].shell \notin Activators
        BY <2>2
      <3>2. /\ pc[p] = "free" /\ pc[ctx[p].shell] \in {"user", "shell"}
            /\ pc' = [pc EXCEPT ![p] = "try", ![ctx[p].shell] = "blocked"]
            /\ child' = [child EXCEPT ![ctx[p].shell] = p]
            /\ UNCHANGED <<ctx, sid, exec>>
        BY <1>1, <2>2 DEF Activate
      <3>3. \A q \in Activators : pc'[q] = IF q = p THEN "try" ELSE pc[q]
        BY <3>1, <3>2
      <3>4. \A s \in UserShells : s # ctx[p].shell => pc'[s] = pc[s] /\ child'[s] = child[s]
        BY <3>1, <3>2
      <3>5. pc'[ctx[p].shell] = "blocked" /\ child'[ctx[p].shell] = p
        BY <3>1, <3>2
      <3>6. StartRecorded'
        BY <3>2, <3>3
      <3>7. ASSUME NEW s \in UserShells, NEW q \in Activators,
                   Alive(q)', ctx'[q].shell = s
            PROVE  (pc[s] = "blocked" /\ child[s] = q)' \/ pc'[s] \in {"dead", "foreign", "gone"}
        BY <3>1, <3>2, <3>3, <3>4, <3>5, <3>7
      <3>8. ASSUME NEW s \in UserShells, pc'[s] = "eval"
            PROVE  child'[s] \in Activators /\ pc'[child'[s]] \in {"dead", "foreign", "gone"}
        <4>1. s # ctx[p].shell /\ pc[s] = "eval" /\ child'[s] = child[s]
          BY <3>4, <3>5, <3>8
        <4>2. child[s] # p /\ child[s] \in Activators
          BY <3>2, <4>1
        <4> QED
          BY <3>3, <4>1, <4>2
      <3> QED
        BY <3>6, <3>7, <3>8
    <2> QED
      BY <2>1, <2>2
  <1>2. ASSUME NEW p \in Activators, RefuseMode(p) PROVE StartRecorded' /\ OneChild'
    BY <1>2 DEF RefuseMode
  <1>3. ASSUME NEW p \in Activators, Attach(p) PROVE StartRecorded' /\ OneChild'
    <2>1. Loaded(p).ready.start \in StartIds
      BY <1>3, LoadedType, StateFields DEF Attach, CanAttach, ReadyValues
    <2>2. /\ pc[p] = "try" /\ pc' = [pc EXCEPT ![p] = "attach"]
          /\ sid' = [sid EXCEPT ![p] = Loaded(p).ready.start]
          /\ UNCHANGED <<ctx, child, exec>>
      BY <1>3 DEF Attach
    <2> QED
      BY <2>1, <2>2
  <1>4. ASSUME NEW p \in Activators, Start(p) PROVE StartRecorded' /\ OneChild'
    <2> DEFINE id == [store |-> ctx[p].store, by |-> p]
    <2>1. id \in StartIds
      BY DEF StartIds
    <2>2. /\ pc[p] = "try" /\ pc'[p] \in {"waitExec", "hook"}
          /\ \A q \in Pids : q # p => pc'[q] = pc[q]
          /\ UNCHANGED <<ctx, child>>
      BY <1>4 DEF Start
    <2>3. sid'[p] = id /\ \A q \in Activators : q # p => sid'[q] = sid[q] /\ exec'[q] = exec[q]
      BY <1>4 DEF Start
    <2> HIDE DEF id
    <2>4. OneChild'
      <3>1. Alive(p)
        BY <2>2
      <3> HIDE DEF Inv, TypeOK, OneChild, StartRecorded, Alive, Running, Pids
      <3> QED
        BY <2>2, <3>1, OneChildFrame
    <2>5. StartRecorded'
      <3>1. id # NoStart
        BY <2>1
      <3>2. pc'[p] \notin {"free", "try"} /\ sid'[p] # NoStart
        BY <2>2, <2>3, <3>1
      <3>3. \A q \in Activators : q # p =>
                 pc'[q] = pc[q] /\ sid'[q] = sid[q] /\ exec'[q] = exec[q]
        BY <2>2, <2>3
      <3> QED
        BY <3>2, <3>3
    <2> QED
      BY <2>4, <2>5
  <1>5. ASSUME NEW p \in Activators, ExecutiveLost(p) PROVE StartRecorded' /\ OneChild'
    BY <1>5 DEF ExecutiveLost
  <1>6. ASSUME NEW p \in Activators, HookCompletes(p) PROVE StartRecorded' /\ OneChild'
    BY <1>6 DEF HookCompletes
  <1>7. ASSUME NEW p \in Activators, MarkReady(p) PROVE StartRecorded' /\ OneChild'
    <2>1. /\ pc[p] = "mark" /\ pc'[p] \in {"dead", "attach"}
          /\ \A q \in Pids : q # p => pc'[q] = pc[q]
          /\ UNCHANGED <<ctx, child, sid, exec>>
      BY <1>7 DEF MarkReady
    <2>2. OneChild'
      <3>1. Alive(p)
        BY <2>1
      <3> HIDE DEF Inv, TypeOK, OneChild, StartRecorded, Alive, Running, Pids
      <3> QED
        BY <2>1, <3>1, OneChildFrame
    <2> QED
      BY <2>1, <2>2
  <1>8. ASSUME NEW p \in Activators, LoadStartDiff(p) PROVE StartRecorded' /\ OneChild'
    BY <1>8 DEF LoadStartDiff
  <1>9. ASSUME NEW p \in Activators, ActivateInPlace(p) PROVE StartRecorded' /\ OneChild'
    <2>1. /\ pc[p] = "inplace" /\ pc'[p] \in {"dead", "printed"}
          /\ \A q \in Pids : q # p => pc'[q] = pc[q]
          /\ UNCHANGED <<ctx, child, sid, exec>>
      BY <1>9 DEF ActivateInPlace
    <2>2. OneChild'
      <3>1. Alive(p)
        BY <2>1
      <3> HIDE DEF Inv, TypeOK, OneChild, StartRecorded, Alive, Running, Pids
      <3> QED
        BY <2>1, <3>1, OneChildFrame
    <2> QED
      BY <2>1, <2>2
  <1>10. ASSUME NEW p \in Activators, ExitPrinted(p) PROVE StartRecorded' /\ OneChild'
    <2> DEFINE s == ctx[p].shell
    <2>1. /\ pc[p] = "printed"
          /\ pc' = [pc EXCEPT ![p] = "dead", ![s] = IF @ = "blocked" THEN "eval" ELSE @]
          /\ UNCHANGED <<ctx, child, sid, exec>>
      BY <1>10 DEF ExitPrinted
    <2>2. \A q \in Activators : pc'[q] = IF q = p THEN "dead" ELSE pc[q]
      BY <2>1
    <2>3. \A t \in UserShells :
            pc'[t] = IF t = s /\ pc[t] = "blocked" THEN "eval" ELSE pc[t]
      BY <2>1
    <2>4. StartRecorded'
      BY <2>1, <2>2
    <2>5. ASSUME NEW t \in UserShells, NEW q \in Activators,
                 Alive(q)', ctx'[q].shell = t
          PROVE  (pc[t] = "blocked" /\ child[t] = q)' \/ pc'[t] \in {"dead", "foreign", "gone"}
      <3>1. q # p /\ Alive(q) /\ ctx[q].shell = t
        BY <2>1, <2>2, <2>5
      <3>2. CASE t = s
        BY <2>1, <2>3, <3>1, <3>2
      <3>3. CASE t # s
        BY <2>1, <2>3, <3>1, <3>3
      <3> QED
        BY <3>2, <3>3
    <2>6. ASSUME NEW t \in UserShells, pc'[t] = "eval"
          PROVE  child'[t] \in Activators /\ pc'[child'[t]] \in {"dead", "foreign", "gone"}
      <3>1. CASE pc[t] = "eval"
        BY <2>1, <2>2, <3>1
      <3>2. CASE pc[t] = "blocked" /\ t = s
        <4>1. child[t] = p
          BY <2>1, <3>2
        <4> QED
          BY <2>1, <2>2, <4>1
      <3> QED
        BY <2>3, <2>6, <3>1, <3>2
    <2> QED
      BY <2>4, <2>5, <2>6
  <1>11. ASSUME NEW p \in UserShells, EvalAttach(p) PROVE StartRecorded' /\ OneChild'
    <2>1. /\ pc[p] = "eval" /\ pc'[p] \in {"user", "shell"}
          /\ \A q \in Pids : q # p => pc'[q] = pc[q]
          /\ child' = [child EXCEPT ![p] = NoPid]
          /\ UNCHANGED <<ctx, exec>>
      <3>1. pc[p] = "eval" /\ child' = [child EXCEPT ![p] = NoPid]
        BY <1>11 DEF EvalAttach
      <3>2. UNCHANGED <<ctx, exec>>
        BY <1>11 DEF EvalAttach
      <3>3. pc' = [pc EXCEPT ![p] = "shell"] \/ pc' = [pc EXCEPT ![p] = "user"]
        BY <1>11 DEF EvalAttach
      <3> QED
        BY <3>1, <3>2, <3>3
    <2>2. \A q \in Activators : sid'[q] = sid[q]
      <3>1. sid' = sid \/ sid' = [sid EXCEPT ![p] = sid[child[p]]]
        BY <1>11 DEF EvalAttach
      <3> QED
        BY <3>1
    <2>3. StartRecorded'
      BY <2>1, <2>2
    <2>4. OneChild'
      <3>1. \A q \in Activators : Alive(q) => ctx[q].shell # p
        <4>1. \A q \in Activators : Alive(q) /\ ctx[q].shell = p =>
                  pc[p] = "blocked" \/ pc[p] \in {"dead", "foreign", "gone"}
          <5> HIDE DEF TypeOK, Alive, Running, Pids
          <5> QED OBVIOUS
        <4> HIDE DEF Inv, TypeOK, OneChild, StartRecorded, Alive, Running, Pids
        <4> QED
          BY <2>1, <4>1
      <3> QED
        BY <2>1, <3>1
    <2> QED
      BY <2>3, <2>4
  <1>12. ASSUME NEW p \in UserShells, Resume(p) PROVE StartRecorded' /\ OneChild'
    BY <1>12 DEF Resume
  <1>13. ASSUME NEW p \in Pids, Detach(p) PROVE StartRecorded' /\ OneChild'
    BY <1>13 DEF Detach
  <1>14. ASSUME NEW p \in Pids, Exit(p) PROVE StartRecorded' /\ OneChild'
    BY <1>14 DEF Exit
  <1>15. ASSUME NEW p \in Pids, ReusePid(p) PROVE StartRecorded' /\ OneChild'
    BY <1>15 DEF ReusePid
  <1>16. ASSUME NEW p \in Pids, ForeignExit(p) PROVE StartRecorded' /\ OneChild'
    BY <1>16 DEF ForeignExit
  <1>17. ASSUME NEW p \in Activators, Expire(p) PROVE StartRecorded' /\ OneChild'
    BY <1>17 DEF Expire
  <1>18. ASSUME NEW p \in Activators, SpawnAllWatchers(p) PROVE StartRecorded' /\ OneChild'
    BY <1>18 DEF SpawnAllWatchers
  <1>19. ASSUME NEW p \in Activators, SignalParent(p) PROVE StartRecorded' /\ OneChild'
    BY <1>19 DEF SignalParent
  <1>20. ASSUME NEW e \in Activators, NEW p \in Pids, WatcherFires(e, p) PROVE StartRecorded' /\ OneChild'
    BY <1>20 DEF WatcherFires
  <1>21. ASSUME NEW e \in Activators, NEW p \in Pids, ProcessExited(e, p) PROVE StartRecorded' /\ OneChild'
    BY <1>21 DEF ProcessExited
  <1>22. ASSUME NEW p \in Activators, RecheckPid(p) PROVE StartRecorded' /\ OneChild'
    BY <1>22 DEF RecheckPid
  <1>23. ASSUME NEW p \in Activators, CleanupAfterError(p) PROVE StartRecorded' /\ OneChild'
    BY <1>23 DEF CleanupAfterError
  <1>24. ASSUME NEW p \in Activators, StateFileChanged(p) PROVE StartRecorded' /\ OneChild'
    BY <1>24 DEF StateFileChanged
  <1>25. ASSUME NEW p \in Activators, Terminate(p) PROVE StartRecorded' /\ OneChild'
    BY <1>25 DEF Terminate, ExecAlive
  <1>26. CASE UNCHANGED vars
    BY <1>26 DEF vars
  <1> QED
    BY <1>1, <1>2, <1>3, <1>4, <1>5, <1>6, <1>7, <1>8, <1>9, <1>10, <1>11, <1>12, <1>13, <1>14, <1>15, <1>16, <1>17, <1>18, <1>19, <1>20, <1>21, <1>22, <1>23, <1>24, <1>25, <1>26, NextCases

\* attach, set_ready and detach change neither the executive nor the mode.
LEMMA OperationsKeep ==
    ASSUME NEW a \in ActivationStates, NEW p, NEW id
    PROVE  /\ AttachTo(a, p, id).executive = a.executive
           /\ AttachTo(a, p, id).mode = a.mode
           /\ SetReady(a, id).executive = a.executive
           /\ SetReady(a, id).mode = a.mode
           /\ DetachPid(a, p).executive = a.executive
           /\ DetachPid(a, p).mode = a.mode
  BY DEF AttachTo, SetReady, DetachPid, ActivationStates

\* AttachTo adds p and keeps the other attachments.
LEMMA AttachToAttached ==
    ASSUME NEW a \in ActivationStates, NEW p \in Pids, NEW id \in StartIds
    PROVE  /\ DOMAIN AttachTo(a, p, id).attached = DOMAIN a.attached \cup {p}
           /\ AttachTo(a, p, id).attached[p].start = id
           /\ \A q \in DOMAIN a.attached : q # p => AttachTo(a, p, id).attached[q] = a.attached[q]
           /\ AttachTo(a, p, id).ready = a.ready
  <1> DEFINE x == [start |-> id, exp |-> FALSE]
  <1>1. x \in Attachments /\ x.start = id
    BY DEF Attachments
  <1>2. a.attached \in AttachedMaps
    BY StateFields
  <1>3. /\ AttachTo(a, p, id).attached = Insert(a.attached, p, x)
        /\ AttachTo(a, p, id).ready = a.ready
    BY DEF AttachTo, ActivationStates
  <1> HIDE DEF x
  <1>4. /\ DOMAIN Insert(a.attached, p, x) = DOMAIN a.attached \cup {p}
        /\ Insert(a.attached, p, x)[p] = x
        /\ \A q \in DOMAIN a.attached : q # p => Insert(a.attached, p, x)[q] = a.attached[q]
    BY <1>1, <1>2, InsertType
  <1> QED
    BY <1>1, <1>3, <1>4

\* DetachPid removes p and nothing else.
LEMMA DetachPidAttached ==
    ASSUME NEW a \in ActivationStates, NEW p
    PROVE  /\ DetachPid(a, p).attached = Remove(a.attached, p)
           /\ DOMAIN DetachPid(a, p).attached = DOMAIN a.attached \ {p}
           /\ \A q \in DOMAIN a.attached : q # p => DetachPid(a, p).attached[q] = a.attached[q]
  <1>1. a.attached \in AttachedMaps
    BY StateFields
  <1>2. DetachPid(a, p).attached = Remove(a.attached, p)
    BY DEF DetachPid, ActivationStates
  <1>3. /\ DOMAIN Remove(a.attached, p) = DOMAIN a.attached \ {p}
        /\ \A q \in DOMAIN a.attached : q # p => Remove(a.attached, p)[q] = a.attached[q]
    BY <1>1, RemoveType
  <1> QED
    BY <1>2, <1>3

\* An activator resets the state only when no executive is alive.
LEMMA LoadedState ==
    ASSUME Inv, NEW p \in Activators
    PROVE  \/ Loaded(p) = state /\ state # NoState
           \/ /\ Loaded(p) = New(ctx[p].mode)
              /\ \A e \in Activators : ~ExecAlive(e)
  BY ConstantsDistinct
  DEF Loaded, ExecutiveRunning, Inv, ExecutiveOwnsState, Pids

\* An executive that is alive stays so or dies; nothing else changes it.
ExecLives ==
    \A e \in Activators :
        exec'[e] = exec[e] \/ (ExecAlive(e) /\ (ExecAlive(e)' \/ exec'[e] = "dead"))
\* The four kinds of step: state.json is unchanged; it is rewritten by a
\* process that keeps its executive and mode; a start; it is removed.
Quiet == state' = state /\ ExecLives
Modified == /\ state # NoState /\ state' # NoState
            /\ state'.executive = state.executive
            /\ state'.mode = state.mode
            /\ ExecLives
Starts == \E p \in Activators : Start(p)
Removed == /\ state' = NoState
           /\ \E e \in Activators :
                /\ ExecAlive(e)
                /\ exec'[e] \in {"done", "dead"}
                /\ \A f \in Activators : f # e => exec'[f] = exec[f]

\* What a step can do to state.json, as far as its executive is concerned.
LEMMA StateKinds == ASSUME Inv, [Next]_vars PROVE Quiet \/ Modified \/ Starts \/ Removed
  <1> USE DEF procVars, execVars
  <1>a. TypeOK /\ TypeOK'
    BY TypeStep DEF Inv
  <1>b. state # NoState => state \in ActivationStates
    BY <1>a DEF TypeOK
  <1>c. \A a \in ActivationStates : a # NoState
    BY ConstantsDistinct
  <1>1. ASSUME NEW p \in Activators, Activate(p) PROVE Quiet \/ Modified \/ Starts \/ Removed
    BY <1>1 DEF Activate, Quiet, ExecLives
  <1>2. ASSUME NEW p \in Activators, RefuseMode(p) PROVE Quiet \/ Modified \/ Starts \/ Removed
    BY <1>2 DEF RefuseMode, Quiet, ExecLives
  <1>3. ASSUME NEW p \in Activators, Attach(p) PROVE Quiet \/ Modified \/ Starts \/ Removed
    <2>1. Loaded(p) = state /\ state # NoState
      <3>1. New(ctx[p].mode).ready.is = "false"
        BY DEF New, ReadyFalse
      <3> QED
        BY <1>3, <3>1, LoadedState DEF Attach, CanAttach
    <2>2. state' = AttachTo(state, p, state.ready.start) /\ exec' = exec
      BY <1>3, <2>1 DEF Attach, Write
    <2>3. state.ready.start \in StartIds
      BY <1>3, <1>b, <2>1, StateFields DEF Attach, CanAttach, ReadyValues
    <2>4. state' \in ActivationStates
      BY <1>b, <2>1, <2>2, <2>3, AttachToType DEF Pids
    <2> QED
      BY <1>b, <1>c, <2>1, <2>2, <2>4, OperationsKeep DEF Modified, ExecLives
  <1>4. ASSUME NEW p \in Activators, Start(p) PROVE Quiet \/ Modified \/ Starts \/ Removed
    BY <1>4 DEF Starts
  <1>5. ASSUME NEW p \in Activators, ExecutiveLost(p) PROVE Quiet \/ Modified \/ Starts \/ Removed
    BY <1>5 DEF ExecutiveLost, Quiet, ExecLives
  <1>6. ASSUME NEW p \in Activators, HookCompletes(p) PROVE Quiet \/ Modified \/ Starts \/ Removed
    BY <1>6 DEF HookCompletes, Quiet, ExecLives
  <1>7. ASSUME NEW p \in Activators, MarkReady(p) PROVE Quiet \/ Modified \/ Starts \/ Removed
    <2>1. CASE state = NoState
      BY <1>7, <2>1 DEF MarkReady, Quiet, ExecLives
    <2>2. CASE state # NoState
      <3>1. sid[p] \in StartIds
        BY <1>7, <1>a DEF MarkReady, Inv, StartRecorded, Pids, TypeOK
      <3>2. state' = SetReady(state, sid[p]) /\ exec' = exec
        BY <1>7, <2>2 DEF MarkReady, Write
      <3> QED
        BY <1>b, <1>c, <2>2, <3>1, <3>2, SetReadyType, OperationsKeep DEF Modified, ExecLives
    <2> QED
      BY <2>1, <2>2
  <1>8. ASSUME NEW p \in Activators, LoadStartDiff(p) PROVE Quiet \/ Modified \/ Starts \/ Removed
    BY <1>8 DEF LoadStartDiff, Quiet, ExecLives
  <1>9. ASSUME NEW p \in Activators, ActivateInPlace(p) PROVE Quiet \/ Modified \/ Starts \/ Removed
    <2> DEFINE ok == state # NoState /\ CanReplace(state, p, sid[p])
    <2>1. CASE ~ok
      BY <1>9, <2>1 DEF ActivateInPlace, Quiet, ExecLives
    <2>2. CASE ok
      <3>1. sid[p] \in StartIds
        BY <1>b, <2>2, StateFields DEF CanReplace, Attachments
      <3>2. state' = ReplaceAttachment(state, sid[p], p, p, TRUE) /\ exec' = exec
        BY <1>9, <2>2 DEF ActivateInPlace, Write
      <3>3. state' \in ActivationStates
        BY <1>b, <2>2, <3>1, <3>2, ReplaceAttachmentType DEF Pids
      <3>4. state'.executive = state.executive /\ state'.mode = state.mode
        BY <1>b, <2>2, <3>2 DEF ReplaceAttachment, ActivationStates
      <3> QED
        BY <1>c, <2>2, <3>2, <3>3, <3>4 DEF Modified, ExecLives
    <2> QED
      BY <2>1, <2>2
  <1>10. ASSUME NEW p \in Activators, ExitPrinted(p) PROVE Quiet \/ Modified \/ Starts \/ Removed
    BY <1>10 DEF ExitPrinted, Quiet, ExecLives
  <1>11. ASSUME NEW p \in UserShells, EvalAttach(p) PROVE Quiet \/ Modified \/ Starts \/ Removed
    <2> DEFINE ok == state # NoState /\ CanReplace(state, child[p], sid[child[p]])
    <2>1. CASE ~ok
      BY <1>11, <2>1 DEF EvalAttach, Quiet, ExecLives
    <2>2. CASE ok
      <3>1. sid[child[p]] \in StartIds
        BY <1>b, <2>2, StateFields DEF CanReplace, Attachments
      <3>2. state' = ReplaceAttachment(state, sid[child[p]], child[p], p, FALSE) /\ exec' = exec
        BY <1>11, <2>2 DEF EvalAttach, Write
      <3>3. state' \in ActivationStates
        BY <1>b, <2>2, <3>1, <3>2, ReplaceAttachmentType DEF Pids
      <3>4. state'.executive = state.executive /\ state'.mode = state.mode
        BY <1>b, <2>2, <3>2 DEF ReplaceAttachment, ActivationStates
      <3> QED
        BY <1>c, <2>2, <3>2, <3>3, <3>4 DEF Modified, ExecLives
    <2> QED
      BY <2>1, <2>2
  <1>12. ASSUME NEW p \in UserShells, Resume(p) PROVE Quiet \/ Modified \/ Starts \/ Removed
    BY <1>12 DEF Resume, Quiet, ExecLives
  <1>13. ASSUME NEW p \in Pids, Detach(p) PROVE Quiet \/ Modified \/ Starts \/ Removed
    <2>1. exec' = exec
      BY <1>13 DEF Detach
    <2>2. state' = state \/ (state # NoState /\ state' = DetachPid(state, p))
      BY <1>13 DEF Detach, Write
    <2> QED
      BY <1>b, <1>c, <2>1, <2>2, DetachPidType, OperationsKeep
      DEF Quiet, Modified, ExecLives
  <1>14. ASSUME NEW p \in Pids, Exit(p) PROVE Quiet \/ Modified \/ Starts \/ Removed
    BY <1>14 DEF Exit, Quiet, ExecLives
  <1>15. ASSUME NEW p \in Pids, ReusePid(p) PROVE Quiet \/ Modified \/ Starts \/ Removed
    BY <1>15 DEF ReusePid, Quiet, ExecLives
  <1>16. ASSUME NEW p \in Pids, ForeignExit(p) PROVE Quiet \/ Modified \/ Starts \/ Removed
    BY <1>16 DEF ForeignExit, Quiet, ExecLives
  <1>17. ASSUME NEW p \in Activators, Expire(p) PROVE Quiet \/ Modified \/ Starts \/ Removed
    BY <1>17 DEF Expire, Quiet, ExecLives
  <1>18. ASSUME NEW p \in Activators, SpawnAllWatchers(p) PROVE Quiet \/ Modified \/ Starts \/ Removed
    BY <1>18, <1>a DEF SpawnAllWatchers, Quiet, ExecLives, ExecAlive, TypeOK
  <1>19. ASSUME NEW p \in Activators, SignalParent(p) PROVE Quiet \/ Modified \/ Starts \/ Removed
    BY <1>19, <1>a DEF SignalParent, Quiet, ExecLives, ExecAlive, TypeOK
  <1>20. ASSUME NEW e \in Activators, NEW p \in Pids, WatcherFires(e, p) PROVE Quiet \/ Modified \/ Starts \/ Removed
    BY <1>20 DEF WatcherFires, Quiet, ExecLives
  <1>21. ASSUME NEW e \in Activators, NEW p \in Pids, ProcessExited(e, p) PROVE Quiet \/ Modified \/ Starts \/ Removed
    <2>1. exec[e] = "idle" /\ (\A f \in Activators : f # e => exec'[f] = exec[f])
      BY <1>21, <1>a DEF ProcessExited, TypeOK
    <2>2. CASE state = NoState
      BY <1>21, <1>a, <2>1, <2>2 DEF ProcessExited, Quiet, ExecLives, ExecAlive, TypeOK
    <2>3. CASE state # NoState
      <3>1. CASE DOMAIN CleanedUp(p).attached = {}
        BY <1>21, <1>a, <2>1, <2>3, <3>1
        DEF ProcessExited, RemoveAll, Removed, ExecAlive, TypeOK
      <3>2. CASE DOMAIN CleanedUp(p).attached # {}
        <4>1. exec'[e] \in {"recheck", "failed"}
          BY <1>21, <1>a, <2>3, <3>2 DEF ProcessExited, TypeOK
        <4>2. state' = state \/ state' = CleanedUp(p)
          BY <1>21, <2>3, <3>2 DEF ProcessExited, Write
        <4>3. state' = state \/ state' = DetachPid(state, p)
          BY <4>2 DEF CleanedUp
        <4>4. ExecLives
          BY <2>1, <4>1 DEF ExecLives, ExecAlive
        <4> QED
          BY <1>b, <1>c, <2>3, <4>3, <4>4, DetachPidType, OperationsKeep DEF Quiet, Modified, ExecLives
      <3> QED
        BY <3>1, <3>2
    <2> QED
      BY <2>2, <2>3
  <1>22. ASSUME NEW p \in Activators, RecheckPid(p) PROVE Quiet \/ Modified \/ Starts \/ Removed
    BY <1>22, <1>a DEF RecheckPid, Quiet, ExecLives, ExecAlive, TypeOK
  <1>23. ASSUME NEW p \in Activators, CleanupAfterError(p) PROVE Quiet \/ Modified \/ Starts \/ Removed
    BY <1>23, <1>a DEF CleanupAfterError, RemoveAll, Removed, Quiet, ExecLives, ExecAlive, TypeOK
  <1>24. ASSUME NEW p \in Activators, StateFileChanged(p) PROVE Quiet \/ Modified \/ Starts \/ Removed
    BY <1>24, <1>a DEF StateFileChanged, RemoveAll, Removed, Quiet, ExecLives, ExecAlive, TypeOK
  <1>25. ASSUME NEW p \in Activators, Terminate(p) PROVE Quiet \/ Modified \/ Starts \/ Removed
    BY <1>25, <1>a DEF Terminate, Quiet, ExecLives, ExecAlive, TypeOK
  <1>26. CASE UNCHANGED vars
    BY <1>26 DEF vars, Quiet, ExecLives
  <1> QED
    BY <1>1, <1>2, <1>3, <1>4, <1>5, <1>6, <1>7, <1>8, <1>9, <1>10, <1>11, <1>12, <1>13, <1>14, <1>15, <1>16, <1>17, <1>18, <1>19, <1>20, <1>21, <1>22, <1>23, <1>24, <1>25, <1>26, NextCases

\* Every step keeps one executive, named by state.json, and none recovers
\* from its death.
LEMMA ExecutiveStepInv ==
    ASSUME Inv, [Next]_vars
    PROVE  ExecutiveOwnsState' /\ ExecutiveRecorded' /\ (NoExecutiveDied' => NoExecutiveDied)
  <1> USE DEF Inv, ExecutiveOwnsState, ExecutiveRecorded, NoExecutiveDied, ExecAlive
  <1>1. CASE Quiet
    BY <1>1 DEF Quiet, ExecLives
  <1>2. CASE Modified
    BY <1>2 DEF Modified, ExecLives
  <1>3. CASE Removed
    BY <1>3 DEF Removed
  <1>4. ASSUME NEW p \in Activators, Start(p)
        PROVE  ExecutiveOwnsState' /\ ExecutiveRecorded' /\ (NoExecutiveDied' => NoExecutiveDied)
    <2> DEFINE id == [store |-> ctx[p].store, by |-> p]
               spawn == Loaded(p).executive = NoPid
    <2>1. exec[p] = "none"
      BY <1>4 DEF Start, StartRecorded
    <2>2. Loaded(p) \in ActivationStates /\ id \in StartIds
      BY LoadedType DEF StartIds, TypeOK, Contexts
    <2>3. StartBy(Loaded(p), p, id) \in ActivationStates
      BY <2>2, StartByType
    <2>4. state' \in ActivationStates
      BY TypeStep, <1>4, <2>3 DEF Start, Write, ActivationStates
    <2>5. state' # NoState
      BY <2>4, ConstantsDistinct
    <2>6. StartBy(Loaded(p), p, id).executive = Loaded(p).executive
      BY <2>2 DEF StartBy, AttachTo, ActivationStates
    <2>7. state'.executive = IF spawn THEN p ELSE Loaded(p).executive
      BY <1>4, <2>3, <2>6 DEF Start, Write, ActivationStates
    <2>8. exec' = IF spawn THEN [exec EXCEPT ![p] = "spawned"] ELSE exec
      BY <1>4 DEF Start
    <2> HIDE DEF id, spawn
    <2>9. CASE spawn
      <3>1. \A e \in Activators : ~ExecAlive(e)
        BY <2>9, LoadedState, ConstantsDistinct DEF spawn, Pids
      <3>2. exec'[p] = "spawned" /\ \A e \in Activators : e # p => exec'[e] = exec[e]
        BY <2>8, <2>9 DEF TypeOK
      <3> QED
        BY <2>1, <2>5, <2>7, <2>9, <3>1, <3>2
    <2>10. CASE ~spawn
      <3>1. Loaded(p) = state /\ state # NoState
        <4>1. New(ctx[p].mode).executive = NoPid
          BY DEF New
        <4> QED
          BY <2>10, <4>1, LoadedState DEF spawn
      <3> QED
        BY <2>5, <2>7, <2>8, <2>10, <3>1
    <2> QED
      BY <2>9, <2>10
  <1> QED
    BY <1>1, <1>2, <1>3, <1>4, StateKinds DEF Starts

\* q's attachment survives, and with it the mode it was made under.
Kept(q) == /\ state # NoState
           /\ q \in DOMAIN state.attached
           /\ state.attached[q].start = sid[q]
           /\ q \in Activators => state.mode = ctx[q].mode

\* The two properties of live processes, in terms of Kept.
LEMMA KeptDef ==
    (AttachmentsKept /\ ModesAgree)
      <=> (NoExecutiveDied => \A q \in Pids : Joined(q) => Kept(q))
  BY DEF AttachmentsKept, ModesAgree, Kept, Pids

\* A step that leaves state.json and the registrations alone, and brings no
\* registered process to life.
LEMMA KeptFrame ==
    ASSUME UNCHANGED <<state, ctx, sid>>, NEW q, Joined(q) => Kept(q), Joined(q)' => Joined(q)
    PROVE  Joined(q)' => Kept(q)'
  BY DEF Kept

\* As long as no executive died, an activator finds the state it needs: it
\* works on a new one only if there was none.
LEMMA LoadedAlive ==
    ASSUME Inv, NoExecutiveDied, NEW p \in Activators
    PROVE  Loaded(p) = IF state = NoState THEN New(ctx[p].mode) ELSE state
  BY ConstantsDistinct
  DEF Inv, NoExecutiveDied, ExecutiveRecorded, Loaded, ExecutiveRunning, Pids

\* No step of another process loses a live process's attachment.
LEMMA KeepStep == ASSUME Inv, [Next]_vars PROVE AttachmentsKept' /\ ModesAgree'
  <1> SUFFICES ASSUME NoExecutiveDied', NEW q \in Pids, Joined(q)'
               PROVE  Kept(q)'
    BY DEF AttachmentsKept, ModesAgree, Kept, Pids
  <1>a. NoExecutiveDied
    BY ExecutiveStepInv
  <1>b. Joined(q) => Kept(q)
    BY <1>a, KeptDef DEF Inv
  <1>c. TypeOK /\ TypeOK'
    BY TypeStep DEF Inv
  <1>d. state # NoState => state \in ActivationStates
    BY <1>c DEF TypeOK
  <1>e. \A a \in ActivationStates : a # NoState
    BY ConstantsDistinct
  <1> USE DEF procVars, execVars
  <1>1. ASSUME NEW p \in Activators, Activate(p) PROVE Kept(q)'
    BY <1>1, <1>b, <1>c, KeptFrame DEF Activate, Joined, Alive, Running, TypeOK, Pids, Inv, StartRecorded, Contexts
  <1>2. ASSUME NEW p \in Activators, RefuseMode(p) PROVE Kept(q)'
    BY <1>2, <1>b, <1>c, KeptFrame DEF RefuseMode, Joined, Alive, Running, TypeOK, Pids
  <1>3. ASSUME NEW p \in Activators, Attach(p) PROVE Kept(q)'
    <2>1. Loaded(p) = state /\ state # NoState
      <3>1. New(ctx[p].mode).ready.is = "false"
        BY DEF New, ReadyFalse
      <3> QED
        BY <1>3, <3>1, LoadedState DEF Attach, CanAttach
    <2>2. state' = AttachTo(state, p, state.ready.start) /\ state.mode = ctx[p].mode
      BY <1>3, <2>1 DEF Attach, Write
    <2>3. state.ready.start \in StartIds
      BY <1>3, <1>d, <2>1, StateFields DEF Attach, CanAttach, ReadyValues
    <2>4. state' \in ActivationStates
      BY <1>d, <2>1, <2>2, <2>3, AttachToType DEF Pids
    <2>5. /\ sid' = [sid EXCEPT ![p] = state.ready.start]
          /\ pc' = [pc EXCEPT ![p] = "attach"] /\ ctx' = ctx
      BY <1>3, <2>1 DEF Attach
    <2>6. /\ DOMAIN state'.attached = DOMAIN state.attached \cup {p}
          /\ state'.attached[p].start = state.ready.start
          /\ \A r \in DOMAIN state.attached : r # p => state'.attached[r] = state.attached[r]
          /\ state'.mode = state.mode
      BY <1>d, <2>1, <2>2, <2>3, AttachToAttached, OperationsKeep DEF Pids
    <2>7. CASE q = p
      BY <1>c, <1>e, <2>2, <2>4, <2>5, <2>6, <2>7 DEF Kept, TypeOK
    <2>8. CASE q # p
      <3>1. Joined(q) /\ sid'[q] = sid[q]
        BY <1>c, <2>5, <2>8 DEF Joined, Alive, Running, TypeOK
      <3> QED
        BY <1>b, <1>e, <2>4, <2>5, <2>6, <2>8, <3>1 DEF Kept
    <2> QED
      BY <2>7, <2>8
  <1>4. ASSUME NEW p \in Activators, Start(p) PROVE Kept(q)'
    <2> DEFINE id == [store |-> ctx[p].store, by |-> p]
               a == Loaded(p)
    <2>1. a \in ActivationStates /\ id \in StartIds /\ a.mode = ctx[p].mode
      BY <1>4, <1>c, LoadedType DEF Start, StartIds, TypeOK, Contexts
    <2>2. StartBy(a, p, id) \in ActivationStates
      BY <2>1, StartByType
    <2>3. /\ state'.attached = AttachTo(a, p, id).attached
          /\ state'.mode = a.mode
          /\ state' \in ActivationStates
      BY <1>4, <2>1, <2>2, AttachToType
      DEF Start, Write, StartBy, AttachTo, ActivationStates, Pids
    <2>4. /\ DOMAIN state'.attached = DOMAIN a.attached \cup {p}
          /\ state'.attached[p].start = id
          /\ \A r \in DOMAIN a.attached : r # p => state'.attached[r] = a.attached[r]
      BY <2>1, <2>3, AttachToAttached DEF Pids
    <2>5. sid' = [sid EXCEPT ![p] = id] /\ ctx' = ctx
      BY <1>4 DEF Start
    <2>6. \A r \in Pids : r # p => pc'[r] = pc[r]
      BY <1>4, <1>c DEF Start, TypeOK
    <2>7. Joined(q) => a = state
      BY <1>a, <1>b, LoadedAlive DEF Kept
    <2> HIDE DEF id, a
    <2>8. CASE q = p
      BY <1>c, <1>e, <2>1, <2>3, <2>4, <2>5, <2>8 DEF Kept, TypeOK
    <2>9. CASE q # p
      <3>1. Joined(q) /\ sid'[q] = sid[q]
        BY <1>c, <2>5, <2>6, <2>9 DEF Joined, Alive, Running, TypeOK
      <3> QED
        BY <1>b, <1>e, <2>3, <2>4, <2>5, <2>7, <2>9, <3>1 DEF Kept
    <2> QED
      BY <2>8, <2>9
  <1>5. ASSUME NEW p \in Activators, ExecutiveLost(p) PROVE Kept(q)'
    BY <1>5, <1>b, <1>c, KeptFrame DEF ExecutiveLost, Joined, Alive, Running, TypeOK, Pids
  <1>6. ASSUME NEW p \in Activators, HookCompletes(p) PROVE Kept(q)'
    BY <1>6, <1>b, <1>c, KeptFrame DEF HookCompletes, Joined, Alive, Running, TypeOK, Pids
  <1>7. ASSUME NEW p \in Activators, MarkReady(p) PROVE Kept(q)'
    <2>1. UNCHANGED <<ctx, sid>> /\ (Joined(q)' => Joined(q))
      BY <1>7, <1>c DEF MarkReady, Joined, Alive, Running, TypeOK, Pids
    <2>2. CASE state = NoState
      BY <1>7, <1>b, <2>1, <2>2 DEF MarkReady, Kept
    <2>3. CASE state # NoState
      <3>1. sid[p] \in StartIds
        BY <1>7, <1>c DEF MarkReady, Inv, StartRecorded, Pids, TypeOK
      <3>2. state' = SetReady(state, sid[p])
        BY <1>7, <2>3 DEF MarkReady, Write
      <3>3. state' \in ActivationStates
        BY <1>d, <2>3, <3>1, <3>2, SetReadyType
      <3>4. state'.attached = state.attached /\ state'.mode = state.mode
        BY <1>d, <2>3, <3>2 DEF SetReady, ActivationStates
      <3> QED
        BY <1>b, <1>e, <2>1, <3>3, <3>4 DEF Kept
    <2> QED
      BY <2>2, <2>3
  <1>8. ASSUME NEW p \in Activators, LoadStartDiff(p) PROVE Kept(q)'
    BY <1>8, <1>b, <1>c, KeptFrame DEF LoadStartDiff, Joined, Alive, Running, TypeOK, Pids
  <1>9. ASSUME NEW p \in Activators, ActivateInPlace(p) PROVE Kept(q)'
    <2> DEFINE ok == state # NoState /\ CanReplace(state, p, sid[p])
    <2>1. UNCHANGED <<ctx, sid>> /\ (Joined(q)' => Joined(q))
      BY <1>9, <1>c DEF ActivateInPlace, Joined, Alive, Running, TypeOK, Pids
    <2>2. CASE ~ok
      BY <1>9, <1>b, <2>1, <2>2, KeptFrame DEF ActivateInPlace
    <2>3. CASE ok
      <3>1. sid[p] \in StartIds
        BY <1>d, <2>3, StateFields DEF CanReplace, Attachments
      <3>2. state' = ReplaceAttachment(state, sid[p], p, p, TRUE)
        BY <1>9, <2>3 DEF ActivateInPlace, Write
      <3>3. state' \in ActivationStates
        BY <1>d, <2>3, <3>1, <3>2, ReplaceAttachmentType DEF Pids
      <3> DEFINE x == [start |-> sid[p], exp |-> TRUE]
      <3>p. /\ p \in Pids /\ state.attached \in AttachedMaps
            /\ x \in Attachments /\ x.start = sid[p]
        BY <1>d, <2>3, <3>1, StateFields DEF Pids, Attachments
      <3>s. /\ state'.attached = Insert(Remove(state.attached, p), p, x)
            /\ state'.mode = state.mode
        BY <1>d, <2>3, <3>2 DEF ReplaceAttachment, ActivationStates
      <3> HIDE DEF x
      <3>m. /\ DOMAIN Insert(Remove(state.attached, p), p, x)
                = (DOMAIN state.attached \ {p}) \cup {p}
            /\ Insert(Remove(state.attached, p), p, x)[p] = x
            /\ \A r \in DOMAIN state.attached : r # p /\ r # p =>
                  Insert(Remove(state.attached, p), p, x)[r] = state.attached[r]
        BY <3>p DEF Insert, Remove
      <3>4. /\ DOMAIN state'.attached = (DOMAIN state.attached \ {p}) \cup {p}
            /\ state'.attached[p].start = sid[p]
            /\ \A r \in DOMAIN state.attached : r # p => state'.attached[r] = state.attached[r]
            /\ state'.mode = state.mode
        BY <3>p, <3>s, <3>m
      <3> QED
        BY <1>b, <1>e, <2>1, <3>3, <3>4 DEF Kept
    <2> QED
      BY <2>2, <2>3
  <1>10. ASSUME NEW p \in Activators, ExitPrinted(p) PROVE Kept(q)'
    BY <1>10, <1>b, <1>c, KeptFrame DEF ExitPrinted, Joined, Alive, Running, TypeOK, Pids
  <1>11. ASSUME NEW p \in UserShells, EvalAttach(p) PROVE Kept(q)'
    <2> DEFINE old == child[p]
               ok == state # NoState /\ CanReplace(state, old, sid[old])
    <2>1. /\ pc[p] = "eval" /\ ctx' = ctx
          /\ \A r \in Pids : r # p => pc'[r] = pc[r]
      BY <1>11, <1>c DEF EvalAttach, TypeOK, Pids
    <2>2. CASE ~ok
      <3>1. UNCHANGED <<state, sid>> /\ (Joined(q)' => Joined(q))
        BY <1>11, <2>1, <2>2 DEF EvalAttach, Joined, Alive, Running
      <3> QED
        BY <1>b, <2>1, <3>1, KeptFrame
    <2>3. CASE ok
      <3>1. sid[old] \in StartIds
        BY <1>d, <2>3, StateFields DEF CanReplace, Attachments
      <3>2. /\ state' = ReplaceAttachment(state, sid[old], old, p, FALSE)
            /\ sid' = [sid EXCEPT ![p] = sid[old]]
        BY <1>11, <2>3 DEF EvalAttach, Write
      <3>3. state' \in ActivationStates
        BY <1>d, <2>3, <3>1, <3>2, ReplaceAttachmentType DEF Pids
      <3> DEFINE x == [start |-> sid[old], exp |-> FALSE]
      <3>p. /\ p \in Pids /\ state.attached \in AttachedMaps
            /\ x \in Attachments /\ x.start = sid[old]
        BY <1>d, <2>3, <3>1, StateFields DEF Pids, Attachments
      <3>s. /\ state'.attached = Insert(Remove(state.attached, old), p, x)
            /\ state'.mode = state.mode
        BY <1>d, <2>3, <3>2 DEF ReplaceAttachment, ActivationStates
      <3> HIDE DEF x
      <3>m. /\ DOMAIN Insert(Remove(state.attached, old), p, x)
                = (DOMAIN state.attached \ {old}) \cup {p}
            /\ Insert(Remove(state.attached, old), p, x)[p] = x
            /\ \A r \in DOMAIN state.attached : r # old /\ r # p =>
                  Insert(Remove(state.attached, old), p, x)[r] = state.attached[r]
        BY <3>p DEF Insert, Remove
      <3>4. /\ DOMAIN state'.attached = (DOMAIN state.attached \ {old}) \cup {p}
            /\ state'.attached[p].start = sid[old]
            /\ \A r \in DOMAIN state.attached :
                  r # old /\ r # p => state'.attached[r] = state.attached[r]
            /\ state'.mode = state.mode
        BY <3>p, <3>s, <3>m
      <3>5. ~Alive(old)
        BY <2>1 DEF Inv, OneChild, Alive, Running
      <3> HIDE DEF old
      <3>6. CASE q = p
        <4>1. q \notin Activators
          BY <3>6, ConstantsDistinct
        <4>2. sid'[q] = sid[old]
          BY <1>c, <3>2, <3>6 DEF TypeOK
        <4> QED
          BY <1>e, <3>3, <3>4, <3>6, <4>1, <4>2 DEF Kept
      <3>7. CASE q # p
        <4>1. Joined(q) /\ sid'[q] = sid[q]
          BY <1>c, <2>1, <3>2, <3>7 DEF Joined, Alive, Running, TypeOK
        <4>2. q # old
          BY <3>5, <4>1 DEF Joined
        <4> QED
          BY <1>b, <1>e, <2>1, <3>3, <3>4, <3>7, <4>1, <4>2 DEF Kept
      <3> QED
        BY <3>6, <3>7
    <2> QED
      BY <2>2, <2>3
  <1>12. ASSUME NEW p \in UserShells, Resume(p) PROVE Kept(q)'
    BY <1>12, <1>b, <1>c, KeptFrame DEF Resume, Joined, Alive, Running, TypeOK, Pids
  <1>13. ASSUME NEW p \in Pids, Detach(p) PROVE Kept(q)'
    <2>1. /\ sid' = [sid EXCEPT ![p] = NoStart] /\ ctx' = ctx
          /\ \A r \in Pids : r # p => pc'[r] = pc[r]
      BY <1>13, <1>c DEF Detach, TypeOK
    <2>2. q # p /\ Joined(q) /\ sid'[q] = sid[q]
      BY <1>c, <2>1 DEF Joined, Alive, Running, TypeOK
    <2>3. state' = state \/ (state # NoState /\ state' = DetachPid(state, p))
      BY <1>13 DEF Detach, Write
    <2>4. CASE state' = state
      BY <1>b, <2>1, <2>2, <2>4 DEF Kept
    <2>5. CASE state # NoState /\ state' = DetachPid(state, p)
      <3>1. state' \in ActivationStates
        BY <1>d, <2>5, DetachPidType
      <3>2. /\ DOMAIN state'.attached = DOMAIN state.attached \ {p}
            /\ \A r \in DOMAIN state.attached : r # p => state'.attached[r] = state.attached[r]
            /\ state'.mode = state.mode
        BY <1>d, <2>5, DetachPidAttached, OperationsKeep
      <3> QED
        BY <1>b, <1>e, <2>1, <2>2, <3>1, <3>2 DEF Kept
    <2> QED
      BY <2>3, <2>4, <2>5
  <1>14. ASSUME NEW p \in Pids, Exit(p) PROVE Kept(q)'
    BY <1>14, <1>b, <1>c, KeptFrame DEF Exit, Joined, Alive, Running, TypeOK, Pids
  <1>15. ASSUME NEW p \in Pids, ReusePid(p) PROVE Kept(q)'
    BY <1>15, <1>b, <1>c, KeptFrame DEF ReusePid, Joined, Alive, Running, TypeOK, Pids
  <1>16. ASSUME NEW p \in Pids, ForeignExit(p) PROVE Kept(q)'
    BY <1>16, <1>b, <1>c, KeptFrame DEF ForeignExit, Joined, Alive, Running, TypeOK, Pids
  <1>17. ASSUME NEW p \in Activators, Expire(p) PROVE Kept(q)'
    BY <1>17, <1>b, <1>c, KeptFrame DEF Expire, Joined, Alive, Running, TypeOK, Pids
  <1>18. ASSUME NEW p \in Activators, SpawnAllWatchers(p) PROVE Kept(q)'
    BY <1>18, <1>b, <1>c, KeptFrame DEF SpawnAllWatchers, Joined, Alive, Running, TypeOK, Pids
  <1>19. ASSUME NEW p \in Activators, SignalParent(p) PROVE Kept(q)'
    BY <1>19, <1>b, <1>c, KeptFrame DEF SignalParent, Joined, Alive, Running, TypeOK, Pids
  <1>20. ASSUME NEW e \in Activators, NEW p \in Pids, WatcherFires(e, p) PROVE Kept(q)'
    BY <1>20, <1>b, <1>c, KeptFrame DEF WatcherFires, Joined, Alive, Running, TypeOK, Pids
  <1>21. ASSUME NEW e \in Activators, NEW p \in Pids, ProcessExited(e, p) PROVE Kept(q)'
    <2>1. UNCHANGED <<pc, ctx, sid>> /\ Joined(q)
      BY <1>21 DEF ProcessExited, Joined, Alive, Running
    <2>2. Kept(q) /\ state # NoState /\ state \in ActivationStates /\ Running(q)
      BY <1>b, <1>d, <2>1 DEF Kept, Joined, Alive
    <2>3. /\ q \in DOMAIN CleanedUp(p).attached
          /\ CleanedUp(p).attached[q] = state.attached[q]
          /\ CleanedUp(p).mode = state.mode
          /\ CleanedUp(p) \in ActivationStates
      <3>1. CASE q = p
        BY <2>2, <3>1 DEF CleanedUp, Keeps, Kept
      <3>2. CASE q # p
        <4>1. CASE CleanedUp(p) = state
          BY <2>2, <4>1 DEF Kept
        <4>2. CASE CleanedUp(p) = DetachPid(state, p)
          <5>1. DetachPid(state, p) \in ActivationStates
            BY <2>2, DetachPidType
          <5>2. /\ DOMAIN DetachPid(state, p).attached = DOMAIN state.attached \ {p}
                /\ \A r \in DOMAIN state.attached :
                      r # p => DetachPid(state, p).attached[r] = state.attached[r]
                /\ DetachPid(state, p).mode = state.mode
            BY <2>2, DetachPidAttached, OperationsKeep
          <5> QED
            BY <2>2, <3>2, <4>2, <5>1, <5>2 DEF Kept
        <4> QED
          BY <4>1, <4>2 DEF CleanedUp
      <3> QED
        BY <3>1, <3>2
    <2>4. state' = state \/ state' = CleanedUp(p)
      BY <1>21, <2>2, <2>3 DEF ProcessExited, Write
    <2> QED
      BY <1>e, <2>1, <2>2, <2>3, <2>4 DEF Kept
  <1>22. ASSUME NEW p \in Activators, RecheckPid(p) PROVE Kept(q)'
    BY <1>22, <1>b, <1>c, KeptFrame DEF RecheckPid, Joined, Alive, Running, TypeOK, Pids
  <1>23. ASSUME NEW p \in Activators, CleanupAfterError(p) PROVE Kept(q)'
    <2>1. UNCHANGED <<pc, ctx, sid>> /\ Joined(q)
      BY <1>23 DEF CleanupAfterError, Joined, Alive, Running
    <2>2. state' = state
      BY <1>23, <1>b, <2>1 DEF CleanupAfterError, Kept
    <2> QED
      BY <1>b, <2>1, <2>2 DEF Kept
  <1>24. ASSUME NEW p \in Activators, StateFileChanged(p) PROVE Kept(q)'
    <2>1. UNCHANGED <<pc, ctx, sid>> /\ Joined(q)
      BY <1>24 DEF StateFileChanged, Joined, Alive, Running
    <2>2. state' = state
      BY <1>24, <1>b, <2>1 DEF StateFileChanged, Kept
    <2> QED
      BY <1>b, <2>1, <2>2 DEF Kept
  <1>25. ASSUME NEW p \in Activators, Terminate(p) PROVE Kept(q)'
    BY <1>25, <1>b, <1>c, KeptFrame DEF Terminate, Joined, Alive, Running, TypeOK, Pids
  <1>26. CASE UNCHANGED vars
    BY <1>26, <1>b, KeptFrame DEF vars, Joined, Alive, Running
  <1> QED
    BY <1>1, <1>2, <1>3, <1>4, <1>5, <1>6, <1>7, <1>8, <1>9, <1>10, <1>11, <1>12, <1>13, <1>14, <1>15, <1>16, <1>17, <1>18, <1>19, <1>20, <1>21, <1>22, <1>23, <1>24, <1>25, <1>26, NextCases

\* The executive knows p, or an event that makes it known is pending.
Watched(ex, p) == \/ watch[ex][p] # "none"
                  \/ ex \in notify
                  \/ exec[ex] = "recheck" /\ cur[ex] = p

\* No step leaves an attached PID unwatched: a write of state.json notifies
\* every executive that already has its file watcher, and an exit event that
\* ends a watch leaves the PID to the recheck.
LEMMA WatchStep == ASSUME Inv, [Next]_vars PROVE AttachedPidsWatched'
  <1> SUFFICES ASSUME NEW ex \in Activators,
                      exec'[ex] \in {"watching", "idle", "recheck"},
                      NEW q \in DOMAIN state'.attached
               PROVE  Watched(ex, q)'
    BY DEF AttachedPidsWatched, Watched
  <1>a. TypeOK /\ TypeOK'
    BY TypeStep DEF Inv
  <1>b. exec[ex] \in {"watching", "idle", "recheck"} =>
            \A r \in DOMAIN state.attached : Watched(ex, r)
    BY DEF Inv, AttachedPidsWatched, Watched
  <1>f. \A f \in Activators : f # ex /\ exec'[ex] = exec[ex] => ~ExecAlive(f)
    BY DEF Inv, ExecutiveOwnsState, ExecAlive
  <1>g. q \in Pids
    <2>1. state' # NoState
      BY ExecutiveStepInv DEF ExecutiveOwnsState, ExecAlive
    <2>2. state' \in ActivationStates
      BY <1>a, <2>1 DEF TypeOK
    <2> QED
      BY <2>2, StateFields
  <1> USE DEF procVars, execVars
  <1>1. ASSUME NEW p \in Activators, Activate(p) PROVE Watched(ex, q)'
    BY <1>1, <1>b DEF Activate, Watched
  <1>2. ASSUME NEW p \in Activators, RefuseMode(p) PROVE Watched(ex, q)'
    BY <1>2, <1>b DEF RefuseMode, Watched
  <1>3. ASSUME NEW p \in Activators, Attach(p) PROVE Watched(ex, q)'
    BY <1>3, <1>b DEF Attach, Watched, Write, Listening, ExecAlive
  <1>4. ASSUME NEW p \in Activators, Start(p) PROVE Watched(ex, q)'
    BY <1>4, <1>b, <1>a DEF Start, Watched, Write, Listening, ExecAlive, TypeOK
  <1>5. ASSUME NEW p \in Activators, ExecutiveLost(p) PROVE Watched(ex, q)'
    BY <1>5, <1>b DEF ExecutiveLost, Watched
  <1>6. ASSUME NEW p \in Activators, HookCompletes(p) PROVE Watched(ex, q)'
    BY <1>6, <1>b DEF HookCompletes, Watched
  <1>7. ASSUME NEW p \in Activators, MarkReady(p) PROVE Watched(ex, q)'
    BY <1>7, <1>b DEF MarkReady, Watched, Write, Listening, ExecAlive
  <1>8. ASSUME NEW p \in Activators, LoadStartDiff(p) PROVE Watched(ex, q)'
    BY <1>8, <1>b DEF LoadStartDiff, Watched
  <1>9. ASSUME NEW p \in Activators, ActivateInPlace(p) PROVE Watched(ex, q)'
    BY <1>9, <1>b DEF ActivateInPlace, Watched, Write, Listening, ExecAlive
  <1>10. ASSUME NEW p \in Activators, ExitPrinted(p) PROVE Watched(ex, q)'
    BY <1>10, <1>b DEF ExitPrinted, Watched
  <1>11. ASSUME NEW p \in UserShells, EvalAttach(p) PROVE Watched(ex, q)'
    BY <1>11, <1>b DEF EvalAttach, Watched, Write, Listening, ExecAlive
  <1>12. ASSUME NEW p \in UserShells, Resume(p) PROVE Watched(ex, q)'
    BY <1>12, <1>b DEF Resume, Watched
  <1>13. ASSUME NEW p \in Pids, Detach(p) PROVE Watched(ex, q)'
    BY <1>13, <1>b DEF Detach, Watched, Write, Listening, ExecAlive
  <1>14. ASSUME NEW p \in Pids, Exit(p) PROVE Watched(ex, q)'
    BY <1>14, <1>b DEF Exit, Watched
  <1>15. ASSUME NEW p \in Pids, ReusePid(p) PROVE Watched(ex, q)'
    BY <1>15, <1>b DEF ReusePid, Watched
  <1>16. ASSUME NEW p \in Pids, ForeignExit(p) PROVE Watched(ex, q)'
    BY <1>16, <1>b DEF ForeignExit, Watched
  <1>17. ASSUME NEW p \in Activators, Expire(p) PROVE Watched(ex, q)'
    BY <1>17, <1>b DEF Expire, Watched
  <1>18. ASSUME NEW p \in Activators, SpawnAllWatchers(p) PROVE Watched(ex, q)'
    <2>1. CASE p = ex
      <3>1. state # NoState /\ state' = state
        BY <1>18, <1>a, <2>1 DEF SpawnAllWatchers, TypeOK
      <3>2. watch'[ex][q] = Monitoring(ex, DOMAIN state.attached)[q]
        BY <1>18, <1>a, <2>1, <3>1 DEF SpawnAllWatchers, TypeOK
      <3> QED
        BY <1>g, <3>1, <3>2 DEF Monitoring, Watcher, Watched
    <2>2. CASE p # ex
      BY <1>18, <1>a, <1>b, <2>2 DEF SpawnAllWatchers, TypeOK, Watched
    <2> QED
      BY <2>1, <2>2
  <1>19. ASSUME NEW p \in Activators, SignalParent(p) PROVE Watched(ex, q)'
    BY <1>19, <1>a, <1>b DEF SignalParent, Watched, TypeOK
  <1>20. ASSUME NEW e \in Activators, NEW p \in Pids, WatcherFires(e, p) PROVE Watched(ex, q)'
    BY <1>20, <1>a, <1>b, <1>g DEF WatcherFires, Watched, TypeOK
  <1>21. ASSUME NEW e \in Activators, NEW p \in Pids, ProcessExited(e, p) PROVE Watched(ex, q)'
    <2>1. CASE e = ex
      <3>1. exec[ex] = "idle" /\ exec'[ex] = "recheck" /\ cur'[ex] = p
        BY <1>21, <1>a, <2>1 DEF ProcessExited, TypeOK
      <3>2. \A r \in Pids : r # p => watch'[ex][r] = watch[ex][r]
        BY <1>21, <1>a, <2>1 DEF ProcessExited, TypeOK
      <3>3. \/ state' = state /\ notify' = notify
            \/ notify' = notify \cup Listening
        BY <1>21, <1>a, <2>1, <3>1 DEF ProcessExited, TypeOK, Write
      <3>4. ex \in Listening
        BY <3>1 DEF Listening, ExecAlive
      <3> QED
        BY <1>b, <1>g, <3>1, <3>2, <3>3, <3>4 DEF Watched
    <2>2. CASE e # ex
      BY <1>21, <1>a, <1>f, <2>2 DEF ProcessExited, ExecAlive, TypeOK
    <2> QED
      BY <2>1, <2>2
  <1>22. ASSUME NEW p \in Activators, RecheckPid(p) PROVE Watched(ex, q)'
    <2>1. CASE p = ex
      <3>1. exec[ex] = "recheck" /\ exec'[ex] = "idle" /\ state # NoState /\ state' = state /\ notify' = notify
        BY <1>22, <1>a, <2>1 DEF RecheckPid, TypeOK
      <3>2. CASE q = cur[ex]
        <4>1. \/ watch'[ex][q] = Monitoring(ex, {q})[q]
              \/ watch'[ex][q] = "skipped"
          BY <1>22, <1>a, <1>g, <2>1, <3>1, <3>2 DEF RecheckPid, TypeOK
        <4> QED
          BY <1>g, <3>1, <4>1 DEF Monitoring, Watcher, Watched
      <3>3. CASE q # cur[ex]
        <4>1. \/ watch'[ex][q] = Monitoring(ex, {cur[ex]})[q]
              \/ watch'[ex][q] = watch[ex][q]
          BY <1>22, <1>a, <1>g, <2>1, <3>1, <3>3 DEF RecheckPid, TypeOK
        <4>2. watch'[ex][q] = watch[ex][q]
          BY <1>g, <3>3, <4>1 DEF Monitoring
        <4> QED
          BY <1>b, <3>1, <3>3, <4>2 DEF Watched
      <3> QED
        BY <3>2, <3>3
    <2>2. CASE p # ex
      BY <1>22, <1>a, <1>f, <2>2 DEF RecheckPid, ExecAlive, TypeOK
    <2> QED
      BY <2>1, <2>2
  <1>23. ASSUME NEW p \in Activators, CleanupAfterError(p) PROVE Watched(ex, q)'
    BY <1>23, <1>a, <1>f DEF CleanupAfterError, ExecAlive, TypeOK
  <1>24. ASSUME NEW p \in Activators, StateFileChanged(p) PROVE Watched(ex, q)'
    <2>1. CASE p = ex
      <3>1. state # NoState /\ state' = state
        BY <1>24, <1>a, <2>1 DEF StateFileChanged, RemoveAll, TypeOK
      <3>2. watch'[ex][q] = Monitoring(ex, DOMAIN state.attached)[q]
        BY <1>24, <1>a, <2>1, <3>1 DEF StateFileChanged, TypeOK
      <3> QED
        BY <1>g, <3>1, <3>2 DEF Monitoring, Watcher, Watched
    <2>2. CASE p # ex
      BY <1>24, <1>a, <1>f, <2>2 DEF StateFileChanged, ExecAlive, TypeOK
    <2> QED
      BY <2>1, <2>2
  <1>25. ASSUME NEW p \in Activators, Terminate(p) PROVE Watched(ex, q)'
    BY <1>25, <1>a, <1>b DEF Terminate, TypeOK, Watched
  <1>26. CASE UNCHANGED vars
    BY <1>26, <1>b DEF vars, Watched
  <1> QED
    BY <1>1, <1>2, <1>3, <1>4, <1>5, <1>6, <1>7, <1>8, <1>9, <1>10, <1>11, <1>12, <1>13, <1>14, <1>15, <1>16, <1>17, <1>18, <1>19, <1>20, <1>21, <1>22, <1>23, <1>24, <1>25, <1>26, NextCases

\* The directories of the starts that a state refers to are among dirs.
DirsPresent(a, dirs) ==
    /\ \A p \in DOMAIN a.attached : a.attached[p].start \in dirs
    /\ a.ready.is = "true" => a.ready.start \in dirs

\* cleanup_pid removes the directory of a start only when no attachment
\* refers to it and update_ready_after_detach has reset ready.
LEMMA DetachKeepsDirs ==
    ASSUME NEW a \in ActivationStates, NEW p \in DOMAIN a.attached, NEW dirs,
           DirsPresent(a, dirs), DOMAIN DetachPid(a, p).attached # {}
    PROVE  DirsPresent(DetachPid(a, p), dirs \ EmptiedBy(a, p))
  <1> DEFINE m == Remove(a.attached, p)
             id == a.attached[p].start
  <1>1. DetachPid(a, p).attached = m
    BY DEF DetachPid, ActivationStates
  <1>2. DetachPid(a, p).ready = ReadyAfterDetach(a.ready, m)
    BY <1>1 DEF DetachPid, ActivationStates
  <1>3. DOMAIN m = DOMAIN a.attached \ {p} /\ \A q \in DOMAIN m : m[q] = a.attached[q]
    BY DEF Remove
  <1>4. EmptiedBy(a, p) = IF RefersTo(m, id) THEN {} ELSE {id}
    BY DEF EmptiedBy
  <1> HIDE DEF m, id
  <1>5. \A q \in DOMAIN m : m[q].start \in dirs \ EmptiedBy(a, p)
    BY <1>3, <1>4 DEF DirsPresent, RefersTo
  <1>6. ASSUME ReadyAfterDetach(a.ready, m).is = "true"
        PROVE  ReadyAfterDetach(a.ready, m).start \in dirs \ EmptiedBy(a, p)
    <2>1. a.ready.is = "true" /\ RefersTo(m, a.ready.start) /\ ReadyAfterDetach(a.ready, m) = a.ready
      BY <1>6 DEF ReadyAfterDetach, ReadyFalse
    <2> QED
      BY <1>4, <2>1 DEF DirsPresent
  <1> QED
    BY <1>1, <1>2, <1>5, <1>6 DEF DirsPresent

\* No step takes away a directory that state.json still refers to.
LEMMA DirsStep == ASSUME Inv, [Next]_vars PROVE StartDirsPresent'
  <1> SUFFICES ASSUME Detachable = {}, NoExecutiveDied', state' # NoState
               PROVE  DirsPresent(state', startDirs')
    BY DEF StartDirsPresent, DirsPresent
  <1>n. NoExecutiveDied
    BY ExecutiveStepInv
  <1>a. TypeOK /\ TypeOK'
    BY TypeStep DEF Inv
  <1>b. state # NoState => DirsPresent(state, startDirs)
    BY <1>n DEF Inv, StartDirsPresent, DirsPresent
  <1> USE DEF procVars, execVars
  <1>1. ASSUME NEW p \in Activators, Activate(p) PROVE DirsPresent(state', startDirs')
    BY <1>1, <1>b DEF Activate
  <1>2. ASSUME NEW p \in Activators, RefuseMode(p) PROVE DirsPresent(state', startDirs')
    BY <1>2, <1>b DEF RefuseMode
  <1>3. ASSUME NEW p \in Activators, Attach(p) PROVE DirsPresent(state', startDirs')
    <2>1. Loaded(p) = state /\ state # NoState
      <3>1. New(ctx[p].mode).ready.is = "false"
        BY DEF New, ReadyFalse
      <3> QED
        BY <1>3, <3>1, LoadedState DEF Attach, CanAttach
    <2>2. /\ state' = AttachTo(state, p, state.ready.start)
          /\ state.ready.is = "true" /\ startDirs' = startDirs
      BY <1>3, <2>1 DEF Attach, Write, CanAttach
    <2>3. state.ready.start \in StartIds /\ p \in Pids /\ state \in ActivationStates
      BY <1>a, <2>1, <2>2, StateFields DEF TypeOK, ReadyValues, Pids
    <2>4. /\ DOMAIN state'.attached = DOMAIN state.attached \cup {p}
          /\ state'.attached[p].start = state.ready.start
          /\ \A r \in DOMAIN state.attached : r # p => state'.attached[r] = state.attached[r]
          /\ state'.ready = state.ready
      BY <2>2, <2>3, AttachToAttached
    <2> QED
      BY <1>b, <2>1, <2>2, <2>4 DEF DirsPresent
  <1>4. ASSUME NEW p \in Activators, Start(p) PROVE DirsPresent(state', startDirs')
    <2> DEFINE id == [store |-> ctx[p].store, by |-> p]
               a == Loaded(p)
    <2>1. a \in ActivationStates /\ id \in StartIds /\ p \in Pids
      BY <1>a, LoadedType DEF StartIds, TypeOK, Contexts, Pids
    <2>2. StartBy(a, p, id) \in ActivationStates
      BY <2>1, StartByType
    <2>3. /\ state'.attached = AttachTo(a, p, id).attached
          /\ state'.ready = ReadyStarting(p, id)
      BY <1>4, <2>1, <2>2, AttachToType
      DEF Start, Write, StartBy, AttachTo, ActivationStates, Pids
    <2>4. /\ DOMAIN state'.attached = DOMAIN a.attached \cup {p}
          /\ state'.attached[p].start = id
          /\ \A r \in DOMAIN a.attached : r # p => state'.attached[r] = a.attached[r]
      BY <2>1, <2>3, AttachToAttached
    <2>5. startDirs' = startDirs \cup {id}
      BY <1>4 DEF Start
    <2>6. \A r \in DOMAIN a.attached : a.attached[r].start \in startDirs
      <3>1. CASE state = NoState
        BY <1>a, <1>n, <3>1, LoadedAlive, NewType DEF TypeOK, Contexts
      <3>2. CASE state # NoState
        BY <1>b, <1>n, <3>2, LoadedAlive DEF DirsPresent
      <3> QED
        BY <3>1, <3>2
    <2> HIDE DEF id, a
    <2> QED
      BY <2>3, <2>4, <2>5, <2>6 DEF DirsPresent, ReadyStarting
  <1>5. ASSUME NEW p \in Activators, ExecutiveLost(p) PROVE DirsPresent(state', startDirs')
    BY <1>5, <1>b DEF ExecutiveLost
  <1>6. ASSUME NEW p \in Activators, HookCompletes(p) PROVE DirsPresent(state', startDirs')
    BY <1>6, <1>b DEF HookCompletes
  <1>7. ASSUME NEW p \in Activators, MarkReady(p) PROVE DirsPresent(state', startDirs')
    <2>1. state # NoState /\ state' = SetReady(state, sid[p]) /\ startDirs' = startDirs
      BY <1>7 DEF MarkReady, Write
    <2>2. p \in Pids /\ Joined(p)
      BY <1>7 DEF MarkReady, Joined, Alive, Running, Inv, StartRecorded, Pids
    <2>3. p \in DOMAIN state.attached /\ state.attached[p].start = sid[p]
      BY <1>n, <2>2 DEF Inv, AttachmentsKept
    <2>4. state'.attached = state.attached /\ state'.ready = ReadyTrue(sid[p])
      BY <1>a, <2>1 DEF TypeOK, SetReady, ActivationStates
    <2> QED
      BY <1>b, <2>1, <2>3, <2>4 DEF DirsPresent, ReadyTrue
  <1>8. ASSUME NEW p \in Activators, LoadStartDiff(p) PROVE DirsPresent(state', startDirs')
    BY <1>8, <1>b DEF LoadStartDiff
  <1>9. ASSUME NEW p \in Activators, ActivateInPlace(p) PROVE DirsPresent(state', startDirs')
    <2> DEFINE ok == state # NoState /\ CanReplace(state, p, sid[p])
    <2>1. startDirs' = startDirs /\ p \in Pids
      BY <1>9 DEF ActivateInPlace, Pids
    <2>2. CASE ~ok
      BY <1>9, <1>b, <2>1, <2>2 DEF ActivateInPlace
    <2>3. CASE ok
      <3> DEFINE x == [start |-> sid[p], exp |-> TRUE]
      <3>1. state \in ActivationStates /\ sid[p] \in startDirs /\ x.start = sid[p]
        BY <1>a, <1>b, <2>3 DEF TypeOK, CanReplace, DirsPresent
      <3>2. state' = ReplaceAttachment(state, sid[p], p, p, TRUE)
        BY <1>9, <2>3 DEF ActivateInPlace, Write
      <3>3. /\ state'.attached = Insert(Remove(state.attached, p), p, x)
            /\ state'.ready = state.ready
        BY <3>1, <3>2 DEF ReplaceAttachment, ActivationStates
      <3> HIDE DEF x
      <3>4. \A r \in DOMAIN state'.attached :
                \/ state'.attached[r] = x
                \/ r \in DOMAIN state.attached /\ state'.attached[r] = state.attached[r]
        BY <3>3 DEF Insert, Remove
      <3> QED
        BY <1>b, <2>1, <2>3, <3>1, <3>3, <3>4 DEF DirsPresent
    <2> QED
      BY <2>2, <2>3
  <1>10. ASSUME NEW p \in Activators, ExitPrinted(p) PROVE DirsPresent(state', startDirs')
    BY <1>10, <1>b DEF ExitPrinted
  <1>11. ASSUME NEW p \in UserShells, EvalAttach(p) PROVE DirsPresent(state', startDirs')
    <2> DEFINE ok == state # NoState /\ CanReplace(state, child[p], sid[child[p]])
    <2>1. startDirs' = startDirs /\ p \in Pids
      BY <1>11 DEF EvalAttach, Pids
    <2>2. CASE ~ok
      BY <1>11, <1>b, <2>1, <2>2 DEF EvalAttach
    <2>3. CASE ok
      <3> DEFINE x == [start |-> sid[child[p]], exp |-> FALSE]
      <3>1. state \in ActivationStates /\ sid[child[p]] \in startDirs /\ x.start = sid[child[p]]
        BY <1>a, <1>b, <2>3 DEF TypeOK, CanReplace, DirsPresent
      <3>2. state' = ReplaceAttachment(state, sid[child[p]], child[p], p, FALSE)
        BY <1>11, <2>3 DEF EvalAttach, Write
      <3>3. /\ state'.attached = Insert(Remove(state.attached, child[p]), p, x)
            /\ state'.ready = state.ready
        BY <3>1, <3>2 DEF ReplaceAttachment, ActivationStates
      <3> HIDE DEF x
      <3>4. \A r \in DOMAIN state'.attached :
                \/ state'.attached[r] = x
                \/ r \in DOMAIN state.attached /\ state'.attached[r] = state.attached[r]
        BY <3>3 DEF Insert, Remove
      <3> QED
        BY <1>b, <2>1, <2>3, <3>1, <3>3, <3>4 DEF DirsPresent
    <2> QED
      BY <2>2, <2>3
  <1>12. ASSUME NEW p \in UserShells, Resume(p) PROVE DirsPresent(state', startDirs')
    BY <1>12, <1>b DEF Resume
  <1>13. ASSUME NEW p \in Pids, Detach(p) PROVE DirsPresent(state', startDirs')
    BY <1>13 DEF Detach
  <1>14. ASSUME NEW p \in Pids, Exit(p) PROVE DirsPresent(state', startDirs')
    BY <1>14, <1>b DEF Exit
  <1>15. ASSUME NEW p \in Pids, ReusePid(p) PROVE DirsPresent(state', startDirs')
    BY <1>15, <1>b DEF ReusePid
  <1>16. ASSUME NEW p \in Pids, ForeignExit(p) PROVE DirsPresent(state', startDirs')
    BY <1>16, <1>b DEF ForeignExit
  <1>17. ASSUME NEW p \in Activators, Expire(p) PROVE DirsPresent(state', startDirs')
    BY <1>17, <1>b DEF Expire
  <1>18. ASSUME NEW p \in Activators, SpawnAllWatchers(p) PROVE DirsPresent(state', startDirs')
    BY <1>18, <1>b DEF SpawnAllWatchers
  <1>19. ASSUME NEW p \in Activators, SignalParent(p) PROVE DirsPresent(state', startDirs')
    BY <1>19, <1>b DEF SignalParent
  <1>20. ASSUME NEW e \in Activators, NEW p \in Pids, WatcherFires(e, p) PROVE DirsPresent(state', startDirs')
    BY <1>20, <1>b DEF WatcherFires
  <1>21. ASSUME NEW e \in Activators, NEW p \in Pids, ProcessExited(e, p) PROVE DirsPresent(state', startDirs')
    <2>1. state # NoState /\ state \in ActivationStates
      BY <1>21, <1>a DEF ProcessExited, TypeOK
    <2>2. DOMAIN CleanedUp(p).attached # {}
      BY <1>21, <2>1 DEF ProcessExited, RemoveAll
    <2>3. \/ state' = state /\ startDirs' = startDirs
          \/ state' = CleanedUp(p) /\ startDirs' = startDirs \ ToRemove(p)
      BY <1>21, <2>1, <2>2 DEF ProcessExited, Write
    <2>4. CASE p \in DOMAIN state.attached /\ ~Keeps(p)
      <3>1. CleanedUp(p) = DetachPid(state, p) /\ ToRemove(p) = EmptiedBy(state, p)
        BY <2>4 DEF CleanedUp, ToRemove
      <3>2. DirsPresent(DetachPid(state, p), startDirs \ EmptiedBy(state, p))
        BY <1>b, <2>1, <2>2, <2>4, <3>1, DetachKeepsDirs
      <3> QED
        BY <1>b, <2>1, <2>3, <3>1, <3>2
    <2>5. CASE ~(p \in DOMAIN state.attached /\ ~Keeps(p))
      <3>1. CleanedUp(p) = state /\ ToRemove(p) = {}
        BY <2>5 DEF CleanedUp, ToRemove
      <3> QED
        BY <1>b, <2>1, <2>3, <3>1 DEF DirsPresent
    <2> QED
      BY <2>4, <2>5
  <1>22. ASSUME NEW p \in Activators, RecheckPid(p) PROVE DirsPresent(state', startDirs')
    BY <1>22, <1>b DEF RecheckPid
  <1>23. ASSUME NEW p \in Activators, CleanupAfterError(p) PROVE DirsPresent(state', startDirs')
    BY <1>23, <1>b DEF CleanupAfterError, RemoveAll
  <1>24. ASSUME NEW p \in Activators, StateFileChanged(p) PROVE DirsPresent(state', startDirs')
    BY <1>24, <1>b DEF StateFileChanged, RemoveAll
  <1>25. ASSUME NEW p \in Activators, Terminate(p) PROVE DirsPresent(state', startDirs')
    BY <1>25, <1>b DEF Terminate
  <1>26. CASE UNCHANGED vars
    BY <1>26, <1>b DEF vars
  <1> QED
    BY <1>1, <1>2, <1>3, <1>4, <1>5, <1>6, <1>7, <1>8, <1>9, <1>10, <1>11, <1>12, <1>13, <1>14, <1>15, <1>16, <1>17, <1>18, <1>19, <1>20, <1>21, <1>22, <1>23, <1>24, <1>25, <1>26, NextCases

-----------------------------------------------------------------------------
\* The inductive step: every conjunct of Inv survives every step.
LEMMA InvStep == Inv /\ [Next]_vars => Inv'
  BY TypeStep, ProcessStep, ExecutiveStepInv, KeepStep, WatchStep, DirsStep DEF Inv

\* The inductive invariant holds in every reachable state.
LEMMA Invariance == Spec => []Inv
  BY InitInv, InvStep, PTL DEF Spec

\* Every variable keeps its type: state.json is a well-formed record or is
\* absent, and no process or executive reaches a state the code has not.
THEOREM TypeCorrect == Spec => []TypeOK
  BY Invariance, PTL DEF Inv

\* An executive that is alive is the one state.json names, whatever processes
\* are killed and PIDs reused: no two executives of one environment coexist,
\* and state.json never disappears beneath the executive.
THEOREM OneExecutive == Spec => []ExecutiveOwnsState
  BY Invariance, PTL DEF Inv

\* As long as no executive died, no cleanup, reset, replacement or detach of
\* another process loses the attachment of a live process.
THEOREM NoAttachmentLost == Spec => []AttachmentsKept
  BY Invariance, PTL DEF Inv

\* As long as no executive died, the live activations of an environment agree
\* on its mode.
THEOREM OneMode == Spec => []ModesAgree
  BY Invariance, PTL DEF Inv

\* Without detach, and as long as no executive died, a start that somebody is
\* or may become attached to keeps its state directory.
THEOREM DirectoriesKept == Spec => []StartDirsPresent
  BY Invariance, PTL DEF Inv

\* The executive misses no attached PID.
THEOREM NoMissedPid == Spec => []AttachedPidsWatched
  BY Invariance, PTL DEF Inv

-----------------------------------------------------------------------------
(* The loop guard.  A PID that stays attached after an exit event was kept *)
(* because its expiration had not passed, or because another process has   *)
(* the PID.  The watcher thread that follows sleeps until the expiration,  *)
(* or waits for that other process: each reason occurs once.               *)

\* The process the model started under this PID has exited.
Over(p) == pc[p] \in {"dead", "foreign", "gone"}

Attached(p) == state # NoState /\ p \in DOMAIN state.attached
Expires(p) == state.attached[p].exp

\* Once expired, or never to expire.
Lapsed(p) == Expires(p) => p \in expired

\* An exit event is only sent for a process that exited.
SentOver(e) == \A p \in Pids : watch[e][p] = "sent" => Over(p)

\* The guard names nobody at first, and then only processes that exited.
GuardOver(e) ==
    /\ guard[e].pid \in Pids => Over(guard[e].pid)
    /\ exec[e] \in {"none", "spawned", "watching"} => guard[e].pid = NoPid

\* Between the two critical sections of handle_process_exited.
Rechecked(e) ==
    exec[e] = "recheck" =>
        /\ cur[e] \in Pids /\ Over(cur[e]) /\ watch[e][cur[e]] = "none"
        /\ Attached(cur[e]) => Expires(cur[e]) \/ pc[cur[e]] # "dead"

\* After the first time a PID was monitored again ...
Once(e, p) ==
    \/ watch[e][p] = "sleep" /\ Expires(p)
    \/ watch[e][p] = "wait" /\ ~Expires(p) /\ pc[p] = "gone"
    \/ watch[e][p] = "sleepReused" /\ pc[p] # "dead"
    \/ watch[e][p] = "waitReused" /\ pc[p] # "dead" /\ ~Expires(p)
    \/ watch[e][p] = "sent" /\ Lapsed(p) /\ (Expires(p) \/ pc[p] = "gone")
    \/ /\ watch[e][p] = "none" /\ exec[e] = "recheck" /\ cur[e] = p
       /\ Lapsed(p) /\ pc[p] # "dead"

\* ... and after the second: there is no third.
Twice(e, p) ==
    \/ watch[e][p] = "sleep" /\ pc[p] = "gone"
    \/ watch[e][p] = "wait" /\ ~Expires(p) /\ pc[p] = "gone"
    \/ watch[e][p] = "sleepReused" /\ pc[p] # "dead"
    \/ watch[e][p] = "waitReused" /\ pc[p] # "dead" /\ ~Expires(p)
    \/ watch[e][p] = "sent" /\ Lapsed(p) /\ pc[p] = "gone"

Guarded(e) ==
    \A p \in Pids :
        exec[e] \in {"idle", "recheck"} /\ guard[e].pid = p /\ Attached(p) =>
            \/ guard[e].count = 1 /\ Once(e, p)
            \/ guard[e].count = 2 /\ Twice(e, p)

NoneSkipped(e) == \A p \in Pids : watch[e][p] # "skipped"

GuardInv(e) ==
    SentOver(e) /\ GuardOver(e) /\ Rechecked(e) /\ Guarded(e) /\ NoneSkipped(e)

\* What a step does to a PID whose process exited: it is given to another
\* process, which exits in turn.
StaysOver(p) == /\ Over(p)'
                /\ pc[p] # "dead" => pc'[p] # "dead"
                /\ pc[p] = "gone" => pc'[p] = "gone"

\* Every step leaves a PID whose process exited over.
LEMMA OverStep ==
    ASSUME Inv, [Next]_vars, NEW p \in Pids, Over(p)
    PROVE  StaysOver(p)
  <1> USE DEF procVars, execVars, StaysOver, Over
  <1>a. TypeOK
    BY DEF Inv
  <1>1. ASSUME NEW q \in Activators, Activate(q) PROVE StaysOver(p)
    <2>1. CASE ctx[q].shell = NoPid
      BY <1>1, <1>a, <2>1 DEF Activate, TypeOK, Pids
    <2>2. CASE ctx[q].shell # NoPid
      <3>1. ctx[q].shell \in UserShells
        BY <1>a, <2>2 DEF TypeOK, Contexts
      <3> QED
        BY <1>1, <1>a, <2>2, <3>1 DEF Activate, TypeOK, Pids
    <2> QED
      BY <2>1, <2>2
  <1>2. ASSUME NEW q \in Activators, RefuseMode(q) PROVE StaysOver(p)
    BY <1>2, <1>a DEF RefuseMode, TypeOK, Pids
  <1>3. ASSUME NEW q \in Activators, Attach(q) PROVE StaysOver(p)
    BY <1>3, <1>a DEF Attach, TypeOK, Pids
  <1>4. ASSUME NEW q \in Activators, Start(q) PROVE StaysOver(p)
    BY <1>4, <1>a DEF Start, TypeOK, Pids
  <1>5. ASSUME NEW q \in Activators, ExecutiveLost(q) PROVE StaysOver(p)
    BY <1>5, <1>a DEF ExecutiveLost, TypeOK, Pids
  <1>6. ASSUME NEW q \in Activators, HookCompletes(q) PROVE StaysOver(p)
    BY <1>6, <1>a DEF HookCompletes, TypeOK, Pids
  <1>7. ASSUME NEW q \in Activators, MarkReady(q) PROVE StaysOver(p)
    BY <1>7, <1>a DEF MarkReady, TypeOK, Pids
  <1>8. ASSUME NEW q \in Activators, LoadStartDiff(q) PROVE StaysOver(p)
    BY <1>8, <1>a DEF LoadStartDiff, TypeOK, Pids
  <1>9. ASSUME NEW q \in Activators, ActivateInPlace(q) PROVE StaysOver(p)
    BY <1>9, <1>a DEF ActivateInPlace, TypeOK, Pids
  <1>10. ASSUME NEW q \in Activators, ExitPrinted(q) PROVE StaysOver(p)
    BY <1>10, <1>a DEF ExitPrinted, TypeOK, Pids
  <1>11. ASSUME NEW q \in UserShells, EvalAttach(q) PROVE StaysOver(p)
    BY <1>11, <1>a DEF EvalAttach, TypeOK, Pids
  <1>12. ASSUME NEW q \in UserShells, Resume(q) PROVE StaysOver(p)
    BY <1>12, <1>a DEF Resume, TypeOK, Pids
  <1>13. ASSUME NEW q \in Pids, Detach(q) PROVE StaysOver(p)
    BY <1>13, <1>a DEF Detach, TypeOK, Pids
  <1>14. ASSUME NEW q \in Pids, Exit(q) PROVE StaysOver(p)
    BY <1>14, <1>a DEF Exit, TypeOK, Pids, Alive, Running
  <1>15. ASSUME NEW q \in Pids, ReusePid(q) PROVE StaysOver(p)
    BY <1>15, <1>a DEF ReusePid, TypeOK, Pids
  <1>16. ASSUME NEW q \in Pids, ForeignExit(q) PROVE StaysOver(p)
    BY <1>16, <1>a DEF ForeignExit, TypeOK, Pids
  <1>17. ASSUME NEW q \in Activators, Expire(q) PROVE StaysOver(p)
    BY <1>17 DEF Expire
  <1>18. ASSUME NEW q \in Activators, SpawnAllWatchers(q) PROVE StaysOver(p)
    BY <1>18 DEF SpawnAllWatchers
  <1>19. ASSUME NEW q \in Activators, SignalParent(q) PROVE StaysOver(p)
    BY <1>19, <1>a DEF SignalParent, TypeOK, Pids
  <1>20. ASSUME NEW f \in Activators, NEW q \in Pids, WatcherFires(f, q) PROVE StaysOver(p)
    BY <1>20 DEF WatcherFires
  <1>21. ASSUME NEW f \in Activators, NEW q \in Pids, ProcessExited(f, q) PROVE StaysOver(p)
    BY <1>21 DEF ProcessExited
  <1>22. ASSUME NEW q \in Activators, RecheckPid(q) PROVE StaysOver(p)
    BY <1>22 DEF RecheckPid
  <1>23. ASSUME NEW q \in Activators, CleanupAfterError(q) PROVE StaysOver(p)
    BY <1>23 DEF CleanupAfterError
  <1>24. ASSUME NEW q \in Activators, StateFileChanged(q) PROVE StaysOver(p)
    BY <1>24 DEF StateFileChanged
  <1>25. ASSUME NEW q \in Activators, Terminate(q) PROVE StaysOver(p)
    BY <1>25 DEF Terminate
  <1>26. CASE UNCHANGED vars
    BY <1>26 DEF vars
  <1> HIDE DEF procVars, execVars, StaysOver, Over
  <1> QED
    BY <1>1, <1>2, <1>3, <1>4, <1>5, <1>6, <1>7, <1>8, <1>9, <1>10, <1>11, <1>12, <1>13, <1>14, <1>15, <1>16, <1>17, <1>18, <1>19, <1>20, <1>21, <1>22, <1>23, <1>24, <1>25, <1>26, NextCases

\* replace_attachment keeps the attachments of the other PIDs.
LEMMA ReplaceKeeps ==
    ASSUME NEW m \in AttachedMaps, NEW old, NEW new \in Pids, NEW x \in Attachments
    PROVE  \A q \in DOMAIN Insert(Remove(m, old), new, x) : q # new =>
             q \in DOMAIN m /\ Insert(Remove(m, old), new, x)[q] = m[q]
  <1> DEFINE r == Remove(m, old)
  <1>1. /\ r \in AttachedMaps
        /\ DOMAIN r = DOMAIN m \ {old}
        /\ \A q \in DOMAIN m : q # old => r[q] = m[q]
    BY RemoveType
  <1> HIDE DEF r
  <1>2. /\ DOMAIN Insert(r, new, x) = DOMAIN r \cup {new}
        /\ \A q \in DOMAIN r : q # new => Insert(r, new, x)[q] = r[q]
    BY <1>1, InsertType
  <1>3. \A q \in DOMAIN Insert(r, new, x) : q # new =>
             q \in DOMAIN m /\ Insert(r, new, x)[q] = m[q]
    BY <1>1, <1>2
  <1> QED
    BY <1>3 DEF r

\* While its executive is alive, an activation is not reset, and nobody
\* attaches a PID whose process exited: its attachment stays as it is, or
\* goes.
Unattached(p) == Attached(p)' => Attached(p) /\ (Expires(p)' <=> Expires(p))

\* No step of the others attaches it again.
LEMMA OverKept ==
    ASSUME Inv, [Next]_vars, NEW e \in Activators, ExecAlive(e), ExecAlive(e)',
           NEW p \in Pids, Over(p)
    PROVE  Unattached(p)
  <1> USE DEF procVars, execVars, Unattached, Attached, Expires
  <1>a. TypeOK
    BY DEF Inv
  <1>b. state # NoState /\ state \in ActivationStates
    BY <1>a DEF Inv, ExecutiveOwnsState, TypeOK
  <1>c. \A q \in Activators : Loaded(q) = state
    BY LoadedState
  <1>1. ASSUME NEW q \in Activators, Activate(q) PROVE Unattached(p)
    BY <1>1 DEF Activate
  <1>2. ASSUME NEW q \in Activators, RefuseMode(q) PROVE Unattached(p)
    BY <1>2 DEF RefuseMode
  <1>3. ASSUME NEW q \in Activators, Attach(q) PROVE Unattached(p)
    <2>1. state' = AttachTo(state, q, state.ready.start)
      BY <1>3, <1>c DEF Attach, Write
    <2>2. state.ready.start \in StartIds
      BY <1>3, <1>b, <1>c, StateFields DEF Attach, CanAttach, ReadyValues
    <2>3. p # q
      BY <1>3 DEF Attach, Over
    <2>4. q \in Pids
      BY DEF Pids
    <2> QED
      BY <1>b, <2>1, <2>2, <2>3, <2>4, AttachToAttached
  <1>4. ASSUME NEW q \in Activators, Start(q) PROVE Unattached(p)
    <2> DEFINE id == [store |-> ctx[q].store, by |-> q]
    <2>1. id \in StartIds
      BY <1>a DEF StartIds, TypeOK, Contexts
    <2>2. /\ StartBy(state, q, id) \in ActivationStates
          /\ StartBy(state, q, id).attached = AttachTo(state, q, id).attached
      <3>1. AttachTo(state, q, id) \in ActivationStates
        BY <1>b, <2>1, AttachToType DEF Pids
      <3> QED
        BY <1>b, <2>1, <3>1, StartByType DEF StartBy, ActivationStates
    <2>3. state'.attached = StartBy(state, q, id).attached
      BY <1>4, <1>c, <2>2 DEF Start, Write, ActivationStates
    <2>4. p # q
      BY <1>4 DEF Start, Over
    <2>5. q \in Pids
      BY DEF Pids
    <2> HIDE DEF id
    <2> QED
      BY <1>b, <2>1, <2>2, <2>3, <2>4, <2>5, AttachToAttached
  <1>5. ASSUME NEW q \in Activators, ExecutiveLost(q) PROVE Unattached(p)
    BY <1>5 DEF ExecutiveLost
  <1>6. ASSUME NEW q \in Activators, HookCompletes(q) PROVE Unattached(p)
    BY <1>6 DEF HookCompletes
  <1>7. ASSUME NEW q \in Activators, MarkReady(q) PROVE Unattached(p)
    <2>1. state' = SetReady(state, sid[q])
      BY <1>7, <1>b DEF MarkReady, Write
    <2>2. state'.attached = state.attached
      BY <1>b, <2>1 DEF SetReady, ActivationStates
    <2> QED
      BY <1>b, <2>2
  <1>8. ASSUME NEW q \in Activators, LoadStartDiff(q) PROVE Unattached(p)
    BY <1>8 DEF LoadStartDiff
  <1>9. ASSUME NEW q \in Activators, ActivateInPlace(q) PROVE Unattached(p)
    <2> DEFINE ok == CanReplace(state, q, sid[q])
    <2>1. CASE ~ok
      BY <1>9, <1>b, <2>1 DEF ActivateInPlace
    <2>2. CASE ok
      <3>1. sid[q] \in StartIds
        BY <1>b, <2>2, StateFields DEF CanReplace, Attachments
      <3>2. state' = ReplaceAttachment(state, sid[q], q, q, TRUE)
        BY <1>9, <1>b, <2>2 DEF ActivateInPlace, Write
      <3>3. p # q
        BY <1>9 DEF ActivateInPlace, Over
      <3>4. q \in Pids
        BY DEF Pids
      <3> DEFINE x == [start |-> sid[q], exp |-> TRUE]
      <3>5. x \in Attachments /\ state.attached \in AttachedMaps
        BY <1>b, <3>1, StateFields DEF Attachments
      <3>6. state'.attached = Insert(Remove(state.attached, q), q, x)
        BY <1>b, <3>2 DEF ReplaceAttachment, ActivationStates
      <3> HIDE DEF x
      <3>7. \A r \in DOMAIN state'.attached : r # q =>
              r \in DOMAIN state.attached /\ state'.attached[r] = state.attached[r]
        BY <3>4, <3>5, <3>6, ReplaceKeeps
      <3> QED
        BY <1>b, <3>3, <3>7
    <2> QED
      BY <2>1, <2>2
  <1>10. ASSUME NEW q \in Activators, ExitPrinted(q) PROVE Unattached(p)
    BY <1>10 DEF ExitPrinted
  <1>11. ASSUME NEW q \in UserShells, EvalAttach(q) PROVE Unattached(p)
    <2> DEFINE ok == CanReplace(state, child[q], sid[child[q]])
    <2>1. CASE ~ok
      BY <1>11, <1>b, <2>1 DEF EvalAttach
    <2>2. CASE ok
      <3>1. sid[child[q]] \in StartIds
        BY <1>b, <2>2, StateFields DEF CanReplace, Attachments
      <3>2. state' = ReplaceAttachment(state, sid[child[q]], child[q], q, FALSE)
        BY <1>11, <1>b, <2>2 DEF EvalAttach, Write
      <3>3. p # q
        BY <1>11 DEF EvalAttach, Over
      <3>4. q \in Pids
        BY DEF Pids
      <3> DEFINE x == [start |-> sid[child[q]], exp |-> FALSE]
      <3>5. x \in Attachments /\ state.attached \in AttachedMaps
        BY <1>b, <3>1, StateFields DEF Attachments
      <3>6. state'.attached = Insert(Remove(state.attached, child[q]), q, x)
        BY <1>b, <3>2 DEF ReplaceAttachment, ActivationStates
      <3> HIDE DEF x
      <3>7. \A r \in DOMAIN state'.attached : r # q =>
              r \in DOMAIN state.attached /\ state'.attached[r] = state.attached[r]
        BY <3>4, <3>5, <3>6, ReplaceKeeps
      <3> QED
        BY <1>b, <3>3, <3>7
    <2> QED
      BY <2>1, <2>2
  <1>12. ASSUME NEW q \in UserShells, Resume(q) PROVE Unattached(p)
    BY <1>12 DEF Resume
  <1>13. ASSUME NEW q \in Pids, Detach(q) PROVE Unattached(p)
    <2>1. state' = state \/ state' = DetachPid(state, q)
      BY <1>13 DEF Detach, Write
    <2> QED
      BY <1>b, <2>1, DetachPidAttached
  <1>14. ASSUME NEW q \in Pids, Exit(q) PROVE Unattached(p)
    BY <1>14 DEF Exit
  <1>15. ASSUME NEW q \in Pids, ReusePid(q) PROVE Unattached(p)
    BY <1>15 DEF ReusePid
  <1>16. ASSUME NEW q \in Pids, ForeignExit(q) PROVE Unattached(p)
    BY <1>16 DEF ForeignExit
  <1>17. ASSUME NEW q \in Activators, Expire(q) PROVE Unattached(p)
    BY <1>17 DEF Expire
  <1>18. ASSUME NEW q \in Activators, SpawnAllWatchers(q) PROVE Unattached(p)
    BY <1>18 DEF SpawnAllWatchers
  <1>19. ASSUME NEW q \in Activators, SignalParent(q) PROVE Unattached(p)
    BY <1>19 DEF SignalParent
  <1>20. ASSUME NEW f \in Activators, NEW q \in Pids, WatcherFires(f, q) PROVE Unattached(p)
    BY <1>20 DEF WatcherFires
  <1>21. ASSUME NEW f \in Activators, NEW q \in Pids, ProcessExited(f, q) PROVE Unattached(p)
    <2>1. state' \in {state, NoState, CleanedUp(q)}
      BY <1>21 DEF ProcessExited, Write, RemoveAll
    <2>2. state' \in {state, NoState, DetachPid(state, q)}
      BY <2>1 DEF CleanedUp
    <2> QED
      BY <1>b, <2>2, DetachPidAttached
  <1>22. ASSUME NEW q \in Activators, RecheckPid(q) PROVE Unattached(p)
    BY <1>22 DEF RecheckPid
  <1>23. ASSUME NEW q \in Activators, CleanupAfterError(q) PROVE Unattached(p)
    BY <1>23 DEF CleanupAfterError, RemoveAll
  <1>24. ASSUME NEW q \in Activators, StateFileChanged(q) PROVE Unattached(p)
    BY <1>24 DEF StateFileChanged, RemoveAll
  <1>25. ASSUME NEW q \in Activators, Terminate(q) PROVE Unattached(p)
    BY <1>25 DEF Terminate
  <1>26. CASE UNCHANGED vars
    BY <1>26 DEF vars
  <1> HIDE DEF procVars, execVars, Unattached, Attached, Expires
  <1> QED
    BY <1>1, <1>2, <1>3, <1>4, <1>5, <1>6, <1>7, <1>8, <1>9, <1>10, <1>11, <1>12, <1>13, <1>14, <1>15, <1>16, <1>17, <1>18, <1>19, <1>20, <1>21, <1>22, <1>23, <1>24, <1>25, <1>26, NextCases

\* A step that leaves an executive's threads alone, other than to spawn it,
\* to let it signal its parent, or to end it.
Framed(e) ==
    /\ watch'[e] = watch[e] /\ cur'[e] = cur[e] /\ guard'[e] = guard[e]
    /\ \/ exec'[e] = exec[e]
       \/ exec'[e] = "dead"
       \/ exec[e] = "none" /\ exec'[e] = "spawned"
       \/ exec[e] = "watching" /\ exec'[e] = "idle"

\* The steps that matter to the guard of an executive.
GuardStep(e) ==
    \/ SpawnAllWatchers(e)
    \/ StateFileChanged(e)
    \/ RecheckPid(e)
    \/ \E p \in Pids : WatcherFires(e, p)
    \/ \E p \in Pids : ProcessExited(e, p)

\* Every other step leaves what the guard depends on as it is, or ends the
\* executive, or sets it up.
LEMMA GuardKinds ==
    ASSUME Inv, [Next]_vars, NEW e \in Activators
    PROVE  Framed(e) \/ GuardStep(e)
  <1> USE DEF procVars, execVars, Framed
  <1>a. TypeOK
    BY DEF Inv
  <1>1. ASSUME NEW q \in Activators, Activate(q) PROVE Framed(e) \/ GuardStep(e)
    BY <1>1 DEF Activate
  <1>2. ASSUME NEW q \in Activators, RefuseMode(q) PROVE Framed(e) \/ GuardStep(e)
    BY <1>2 DEF RefuseMode
  <1>3. ASSUME NEW q \in Activators, Attach(q) PROVE Framed(e) \/ GuardStep(e)
    BY <1>3 DEF Attach
  <1>4. ASSUME NEW q \in Activators, Start(q) PROVE Framed(e) \/ GuardStep(e)
    <2>1. exec[q] = "none"
      BY <1>4 DEF Start, Inv, StartRecorded
    <2> QED
      BY <1>4, <1>a, <2>1 DEF Start, TypeOK
  <1>5. ASSUME NEW q \in Activators, ExecutiveLost(q) PROVE Framed(e) \/ GuardStep(e)
    BY <1>5 DEF ExecutiveLost
  <1>6. ASSUME NEW q \in Activators, HookCompletes(q) PROVE Framed(e) \/ GuardStep(e)
    BY <1>6 DEF HookCompletes
  <1>7. ASSUME NEW q \in Activators, MarkReady(q) PROVE Framed(e) \/ GuardStep(e)
    BY <1>7 DEF MarkReady
  <1>8. ASSUME NEW q \in Activators, LoadStartDiff(q) PROVE Framed(e) \/ GuardStep(e)
    BY <1>8 DEF LoadStartDiff
  <1>9. ASSUME NEW q \in Activators, ActivateInPlace(q) PROVE Framed(e) \/ GuardStep(e)
    BY <1>9 DEF ActivateInPlace
  <1>10. ASSUME NEW q \in Activators, ExitPrinted(q) PROVE Framed(e) \/ GuardStep(e)
    BY <1>10 DEF ExitPrinted
  <1>11. ASSUME NEW q \in UserShells, EvalAttach(q) PROVE Framed(e) \/ GuardStep(e)
    BY <1>11 DEF EvalAttach
  <1>12. ASSUME NEW q \in UserShells, Resume(q) PROVE Framed(e) \/ GuardStep(e)
    BY <1>12 DEF Resume
  <1>13. ASSUME NEW q \in Pids, Detach(q) PROVE Framed(e) \/ GuardStep(e)
    BY <1>13 DEF Detach
  <1>14. ASSUME NEW q \in Pids, Exit(q) PROVE Framed(e) \/ GuardStep(e)
    BY <1>14 DEF Exit
  <1>15. ASSUME NEW q \in Pids, ReusePid(q) PROVE Framed(e) \/ GuardStep(e)
    BY <1>15 DEF ReusePid
  <1>16. ASSUME NEW q \in Pids, ForeignExit(q) PROVE Framed(e) \/ GuardStep(e)
    BY <1>16 DEF ForeignExit
  <1>17. ASSUME NEW q \in Activators, Expire(q) PROVE Framed(e) \/ GuardStep(e)
    BY <1>17 DEF Expire
  <1>18. ASSUME NEW q \in Activators, SpawnAllWatchers(q) PROVE Framed(e) \/ GuardStep(e)
    <2>1. CASE q = e
      BY <1>18, <2>1 DEF GuardStep
    <2>2. CASE q # e
      BY <1>18, <1>a, <2>2 DEF SpawnAllWatchers, TypeOK
    <2> QED
      BY <2>1, <2>2
  <1>19. ASSUME NEW q \in Activators, SignalParent(q) PROVE Framed(e) \/ GuardStep(e)
    BY <1>19, <1>a DEF SignalParent, TypeOK
  <1>20. ASSUME NEW f \in Activators, NEW q \in Pids, WatcherFires(f, q) PROVE Framed(e) \/ GuardStep(e)
    <2>1. CASE f = e
      BY <1>20, <2>1 DEF GuardStep
    <2>2. CASE f # e
      BY <1>20, <1>a, <2>2 DEF WatcherFires, TypeOK
    <2> QED
      BY <2>1, <2>2
  <1>21. ASSUME NEW f \in Activators, NEW q \in Pids, ProcessExited(f, q) PROVE Framed(e) \/ GuardStep(e)
    <2>1. CASE f = e
      BY <1>21, <2>1 DEF GuardStep
    <2>2. CASE f # e
      BY <1>21, <1>a, <2>2 DEF ProcessExited, TypeOK
    <2> QED
      BY <2>1, <2>2
  <1>22. ASSUME NEW q \in Activators, RecheckPid(q) PROVE Framed(e) \/ GuardStep(e)
    <2>1. CASE q = e
      BY <1>22, <2>1 DEF GuardStep
    <2>2. CASE q # e
      BY <1>22, <1>a, <2>2 DEF RecheckPid, TypeOK
    <2> QED
      BY <2>1, <2>2
  <1>23. ASSUME NEW q \in Activators, CleanupAfterError(q) PROVE Framed(e) \/ GuardStep(e)
    BY <1>23, <1>a DEF CleanupAfterError, TypeOK
  <1>24. ASSUME NEW q \in Activators, StateFileChanged(q) PROVE Framed(e) \/ GuardStep(e)
    <2>1. CASE q = e
      BY <1>24, <2>1 DEF GuardStep
    <2>2. CASE q # e
      BY <1>24, <1>a, <2>2 DEF StateFileChanged, TypeOK
    <2> QED
      BY <2>1, <2>2
  <1>25. ASSUME NEW q \in Activators, Terminate(q) PROVE Framed(e) \/ GuardStep(e)
    BY <1>25, <1>a DEF Terminate, TypeOK
  <1>26. CASE UNCHANGED vars
    BY <1>26 DEF vars
  <1> HIDE DEF procVars, execVars, Framed
  <1> QED
    BY <1>1, <1>2, <1>3, <1>4, <1>5, <1>6, <1>7, <1>8, <1>9, <1>10, <1>11, <1>12, <1>13, <1>14, <1>15, <1>16, <1>17, <1>18, <1>19, <1>20, <1>21, <1>22, <1>23, <1>24, <1>25, <1>26, NextCases

\* What OverStep and OverKept say of a PID whose process exited, while the
\* executive handles events.
LEMMA OverSteps ==
    ASSUME Inv, [Next]_vars, NEW e \in Activators, NEW p \in Pids, Over(p)
    PROVE  /\ StaysOver(p)
           /\ exec[e] \in {"idle", "recheck"} /\ exec'[e] \in {"idle", "recheck"}
                => Unattached(p)
  BY OverStep, OverKept DEF ExecAlive

\* Time only passes.
LEMMA ExpiredStep == ASSUME [Next]_vars PROVE expired \subseteq expired'
  BY NextCases
  DEF vars, procVars, execVars, Activate, RefuseMode, Attach, Start,
      ExecutiveLost, HookCompletes, MarkReady, LoadStartDiff, ActivateInPlace,
      ExitPrinted, EvalAttach, Resume, Detach, Exit, ReusePid, ForeignExit,
      Expire, SpawnAllWatchers, SignalParent, WatcherFires, ProcessExited,
      RecheckPid, CleanupAfterError, StateFileChanged, Terminate

\* A PID that was monitored again once, or twice, stays so in a step that
\* leaves its watcher thread alone.
LEMMA OnceFrame ==
    ASSUME NEW e, NEW p, Over(p), Attached(p)', StaysOver(p), Unattached(p),
           expired \subseteq expired', watch'[e][p] = watch[e][p]
    PROVE  /\ Once(e, p) /\ (watch[e][p] # "none" \/ (exec'[e] = exec[e] /\ cur'[e] = cur[e]))
                => Once(e, p)'
           /\ Twice(e, p) => Twice(e, p)'
  <1>1. (Expires(p)' <=> Expires(p)) /\ (Lapsed(p) => Lapsed(p)')
    BY DEF Unattached, Lapsed
  <1>2. (pc[p] # "dead" => pc'[p] # "dead") /\ (pc[p] = "gone" => pc'[p] = "gone")
    BY DEF StaysOver
  <1>3. ASSUME Once(e, p), watch[e][p] # "none" \/ (exec'[e] = exec[e] /\ cur'[e] = cur[e])
        PROVE  Once(e, p)'
    BY <1>1, <1>2, <1>3 DEF Once
  <1>4. ASSUME Twice(e, p) PROVE Twice(e, p)'
    BY <1>1, <1>2, <1>4 DEF Twice
  <1> QED
    BY <1>3, <1>4

\* A step that leaves the executive's threads alone keeps what is known of
\* the guard.
LEMMA GuardFrame ==
    ASSUME Inv, [Next]_vars, NEW e \in Activators, GuardInv(e), Framed(e)
    PROVE  GuardInv(e)'
  <1> USE DEF GuardInv
  <1>a. \A p \in Pids : Over(p) => StaysOver(p)
    BY OverStep
  <1>b. exec[e] \in {"idle", "recheck"} /\ exec'[e] \in {"idle", "recheck"}
          => \A p \in Pids : Over(p) => Unattached(p)
    BY OverSteps
  <1>1. SentOver(e)'
    BY <1>a DEF SentOver, Framed, StaysOver
  <1>2. GuardOver(e)'
    BY <1>a DEF GuardOver, Framed, StaysOver
  <1>3. Rechecked(e)'
    BY <1>a, <1>b DEF Rechecked, Framed, StaysOver, Unattached
  <1>4. Guarded(e)'
    <2> SUFFICES ASSUME NEW p \in Pids, exec'[e] \in {"idle", "recheck"},
                        guard'[e].pid = p, Attached(p)'
                 PROVE  \/ guard'[e].count = 1 /\ Once(e, p)'
                        \/ guard'[e].count = 2 /\ Twice(e, p)'
      BY DEF Guarded
    <2>1. p # NoPid
      BY ConstantsDistinct
    <2>2. guard[e].pid = p /\ Over(p)
      BY DEF Framed, GuardOver
    <2>3. exec'[e] = exec[e]
      BY <2>1, <2>2 DEF Framed, GuardOver
    <2>4. Unattached(p) /\ StaysOver(p)
      BY <1>a, <1>b, <2>2, <2>3
    <2>5. \/ guard[e].count = 1 /\ Once(e, p)
          \/ guard[e].count = 2 /\ Twice(e, p)
      BY <2>2, <2>3, <2>4 DEF Guarded, Unattached
    <2> QED
      BY <2>2, <2>3, <2>4, <2>5, OnceFrame, ExpiredStep DEF Framed
  <1>5. NoneSkipped(e)'
    BY DEF NoneSkipped, Framed
  <1> QED
    BY <1>1, <1>2, <1>3, <1>4, <1>5

\* The watcher thread of a PID sends its exit event.
LEMMA GuardFires ==
    ASSUME Inv, [Next]_vars, NEW e \in Activators, GuardInv(e),
           NEW q \in Pids, WatcherFires(e, q)
    PROVE  GuardInv(e)'
  <1> USE DEF GuardInv
  <1>a. TypeOK
    BY DEF Inv
  <1>b. /\ watch'[e][q] = "sent"
        /\ \A p \in Pids : p # q => watch'[e][p] = watch[e][p]
    BY <1>a DEF WatcherFires, TypeOK
  <1>c. UNCHANGED <<state, pc, expired, exec, cur, guard>>
    BY DEF WatcherFires, procVars
  <1>d. Over(q)
    BY DEF WatcherFires, Over
  <1>1. SentOver(e)'
    BY <1>b, <1>c, <1>d DEF SentOver, Over
  <1>2. GuardOver(e)'
    BY <1>c DEF GuardOver, Over
  <1>3. Rechecked(e)'
    BY <1>b, <1>c DEF Rechecked, Over, Attached, Expires, WatcherFires
  <1>4. Guarded(e)'
    <2> SUFFICES ASSUME NEW p \in Pids, exec[e] \in {"idle", "recheck"},
                        guard[e].pid = p, Attached(p)
                 PROVE  \/ guard[e].count = 1 /\ Once(e, p)'
                        \/ guard[e].count = 2 /\ Twice(e, p)'
      BY <1>c DEF Guarded, Attached
    <2>1. \/ guard[e].count = 1 /\ Once(e, p)
          \/ guard[e].count = 2 /\ Twice(e, p)
      BY DEF Guarded
    <2>2. CASE p # q
      BY <1>b, <1>c, <2>1, <2>2 DEF Once, Twice, Lapsed, Expires
    <2>3. CASE p = q
      <3>1. /\ watch[e][p] \in {"wait", "sleep", "waitReused", "sleepReused"}
            /\ watch[e][p] \in {"waitReused", "sleepReused"} => pc[p] = "gone"
            /\ watch[e][p] \in {"sleep", "sleepReused"} => p \in expired
        BY <2>3 DEF WatcherFires
      <3>2. Once(e, p) => Lapsed(p) /\ (Expires(p) \/ pc[p] = "gone")
        BY <3>1 DEF Once, Lapsed
      <3>3. Twice(e, p) => Lapsed(p) /\ pc[p] = "gone"
        BY <3>1 DEF Twice, Lapsed
      <3> QED
        BY <1>b, <1>c, <2>1, <2>3, <3>2, <3>3 DEF Once, Twice, Lapsed, Expires
    <2> QED
      BY <2>2, <2>3
  <1>5. NoneSkipped(e)'
    BY <1>b DEF NoneSkipped
  <1> QED
    BY <1>1, <1>2, <1>3, <1>4, <1>5

\* ensure_monitoring_pids leaves the PIDs alone that have a watcher thread.
LEMMA MonitoringKeeps ==
    ASSUME NEW e, NEW S, NEW p \in Pids
    PROVE  /\ \/ Monitoring(e, S)[p] = watch[e][p]
              \/ /\ watch[e][p] \in {"none", "skipped"}
                 /\ p \in S
                 /\ Monitoring(e, S)[p] = Watcher(p, state.attached[p].exp)
           /\ p \in S /\ watch[e][p] = "none"
                => Monitoring(e, S)[p] = Watcher(p, state.attached[p].exp)
  BY DEF Monitoring

\* The executive monitors the PIDs that are attached, when it starts and
\* after a write of state.json: the guard's own PID has a watcher already.
LEMMA GuardMonitors ==
    ASSUME Inv, [Next]_vars, NEW e \in Activators, GuardInv(e),
           SpawnAllWatchers(e) \/ StateFileChanged(e)
    PROVE  GuardInv(e)'
  <1> USE DEF GuardInv
  <1>a. TypeOK
    BY DEF Inv
  <1>b. \/ watch'[e] = watch[e]
        \/ watch'[e] = Monitoring(e, DOMAIN state.attached)
    BY <1>a DEF SpawnAllWatchers, StateFileChanged, TypeOK
  <1>c. \A p \in Pids :
          \/ watch'[e][p] = watch[e][p]
          \/ /\ watch[e][p] \in {"none", "skipped"}
             /\ watch'[e][p] = Watcher(p, state.attached[p].exp)
    BY <1>b, MonitoringKeeps
  <1>d. UNCHANGED <<pc, expired, cur, guard>>
    BY DEF SpawnAllWatchers, StateFileChanged, procVars
  <1>e. /\ exec[e] \in {"spawned", "idle"}
        /\ exec[e] = "spawned" => exec'[e] \in {"watching", "dead"}
        /\ exec[e] = "idle" => exec'[e] \in {"idle", "dead", "done"}
        /\ exec'[e] = "idle" => state' = state
    BY <1>a DEF SpawnAllWatchers, StateFileChanged, RemoveAll, TypeOK
  <1>1. SentOver(e)'
    BY <1>c, <1>d DEF SentOver, Over, Watcher
  <1>2. GuardOver(e)'
    BY <1>d, <1>e DEF GuardOver, Over
  <1>3. Rechecked(e)'
    BY <1>e DEF Rechecked
  <1>4. Guarded(e)'
    <2> SUFFICES ASSUME NEW p \in Pids, exec'[e] \in {"idle", "recheck"},
                        guard'[e].pid = p, Attached(p)'
                 PROVE  \/ guard'[e].count = 1 /\ Once(e, p)'
                        \/ guard'[e].count = 2 /\ Twice(e, p)'
      BY DEF Guarded
    <2>1. exec[e] = "idle" /\ exec'[e] = "idle" /\ state' = state
      BY <1>e
    <2>2. \/ guard[e].count = 1 /\ Once(e, p)
          \/ guard[e].count = 2 /\ Twice(e, p)
      BY <1>d, <2>1 DEF Guarded, Attached
    <2>3. watch[e][p] \notin {"none", "skipped"}
      BY <2>1, <2>2 DEF Once, Twice
    <2>4. watch'[e][p] = watch[e][p]
      BY <1>c, <2>3
    <2> QED
      BY <1>d, <2>1, <2>2, <2>4 DEF Once, Twice, Lapsed, Expires
  <1>5. NoneSkipped(e)'
    BY <1>c DEF NoneSkipped, Watcher
  <1> QED
    BY <1>1, <1>2, <1>3, <1>4, <1>5

\* The first critical section of handle_process_exited: what stays attached
\* has not expired, or its PID belongs to another process.
LEMMA GuardExits ==
    ASSUME Inv, [Next]_vars, NEW e \in Activators, GuardInv(e),
           NEW q \in Pids, ProcessExited(e, q)
    PROVE  GuardInv(e)'
  <1> USE DEF GuardInv
  <1>a. TypeOK
    BY DEF Inv
  <1>b. /\ exec[e] = "idle" /\ watch[e][q] = "sent"
        /\ watch'[e][q] = "none"
        /\ \A p \in Pids : p # q => watch'[e][p] = watch[e][p]
    BY <1>a DEF ProcessExited, TypeOK
  <1>c. UNCHANGED <<pc, expired, guard>>
    BY DEF ProcessExited, procVars
  <1>d. Over(q)
    BY <1>b DEF SentOver
  <1>e. state # NoState /\ state \in ActivationStates
    BY <1>a, <1>b DEF Inv, ExecutiveOwnsState, ExecAlive, TypeOK
  <1>f. exec'[e] \in {"done", "recheck", "failed"}
    BY <1>a, <1>e DEF ProcessExited, TypeOK
  <1>g. exec'[e] = "recheck" => cur'[e] = q /\ state' = CleanedUp(q)
    BY <1>a, <1>e DEF ProcessExited, Write, TypeOK
  <1>h. ASSUME exec'[e] = "recheck", Attached(q)'
        PROVE  Attached(q) /\ Keeps(q) /\ (Expires(q)' <=> Expires(q))
    <2>1. q \in DOMAIN CleanedUp(q).attached
      BY <1>g, <1>h DEF Attached
    <2>2. q \notin DOMAIN DetachPid(state, q).attached
      BY <1>e, DetachPidAttached
    <2>3. q \in DOMAIN state.attached /\ Keeps(q) /\ CleanedUp(q) = state
      BY <2>1, <2>2 DEF CleanedUp
    <2> QED
      BY <1>e, <1>g, <1>h, <2>3 DEF Attached, Expires
  <1>1. SentOver(e)'
    BY <1>b, <1>c DEF SentOver, Over
  <1>2. GuardOver(e)'
    BY <1>c, <1>f DEF GuardOver, Over
  <1>3. Rechecked(e)'
    <2> SUFFICES ASSUME exec'[e] = "recheck"
                 PROVE  /\ cur'[e] \in Pids /\ Over(cur[e])'
                        /\ watch'[e][cur'[e]] = "none"
                        /\ Attached(cur[e])' => Expires(cur[e])' \/ pc'[cur'[e]] # "dead"
      BY DEF Rechecked
    <2>1. cur'[e] = q
      BY <1>g
    <2>2. ASSUME Attached(q)' PROVE Expires(q)' \/ pc'[q] # "dead"
      BY <1>c, <1>h, <2>2 DEF Keeps, Running, Expires
    <2> QED
      BY <1>b, <1>c, <1>d, <2>1, <2>2 DEF Over, Attached, Expires
  <1>4. Guarded(e)'
    <2> SUFFICES ASSUME NEW p \in Pids, exec'[e] \in {"idle", "recheck"},
                        guard'[e].pid = p, Attached(p)'
                 PROVE  \/ guard'[e].count = 1 /\ Once(e, p)'
                        \/ guard'[e].count = 2 /\ Twice(e, p)'
      BY DEF Guarded
    <2>1. exec'[e] = "recheck"
      BY <1>f
    <2>2. guard[e].pid = p /\ Over(p)
      BY <1>c DEF GuardOver
    <2>3. Unattached(p) /\ StaysOver(p)
      BY <1>b, <2>1, <2>2, OverSteps
    <2>4. \/ guard[e].count = 1 /\ Once(e, p)
          \/ guard[e].count = 2 /\ Twice(e, p)
      BY <1>b, <2>2, <2>3 DEF Guarded, Unattached
    <2>5. CASE p # q
      <3>1. watch'[e][p] = watch[e][p] /\ (Once(e, p) => watch[e][p] # "none")
        BY <1>b, <2>5 DEF Once
      <3> QED
        BY <1>c, <2>2, <2>3, <2>4, <3>1, OnceFrame, ExpiredStep
    <2>6. CASE p = q
      <3>1. Keeps(p) /\ (Expires(p)' <=> Expires(p))
        BY <1>h, <2>1, <2>6
      <3>2. Once(e, p) \/ Twice(e, p) => Lapsed(p)
        BY <1>b, <2>6 DEF Once, Twice
      <3>3. Running(p)
        BY <2>4, <3>1, <3>2 DEF Keeps, Lapsed, Expires
      <3>4. pc[p] = "foreign"
        BY <2>2, <3>3 DEF Running, Over
      <3>5. ~Twice(e, p)
        BY <1>b, <2>6, <3>4 DEF Twice
      <3>6. Once(e, p)'
        BY <1>b, <1>c, <1>g, <2>1, <2>4, <2>6, <3>1, <3>2, <3>4 DEF Once, Lapsed
      <3> QED
        BY <1>c, <2>4, <3>5, <3>6
    <2> QED
      BY <2>5, <2>6
  <1>5. NoneSkipped(e)'
    BY <1>b DEF NoneSkipped
  <1> QED
    BY <1>1, <1>2, <1>3, <1>4, <1>5

\* The second critical section: a PID that is still attached is monitored
\* again, for the first or for the second time.
LEMMA GuardRechecks ==
    ASSUME Inv, [Next]_vars, NEW e \in Activators, GuardInv(e), RecheckPid(e),
           RemonitorLimit >= 2
    PROVE  GuardInv(e)'
  <1> USE DEF GuardInv
  <1>a. TypeOK
    BY DEF Inv
  <1>q. PICK q \in Pids : q = cur[e]
    BY DEF RecheckPid, Rechecked
  <1> DEFINE g == NextGuard(guard[e], q)
  <1>b. exec[e] = "recheck" /\ cur[e] = q /\ Over(q) /\ watch[e][q] = "none"
    BY <1>q DEF RecheckPid, Rechecked
  <1>c. UNCHANGED <<state, pc, expired>>
    BY DEF RecheckPid, procVars
  <1>d. state # NoState /\ exec'[e] = "idle"
    BY <1>a, <1>b DEF Inv, ExecutiveOwnsState, ExecAlive, TypeOK, RecheckPid
  <1>f. CASE ~Attached(q)
    <2>1. watch'[e] = watch[e] /\ guard'[e] = guard[e]
      BY <1>b, <1>d, <1>f DEF RecheckPid, Attached
    <2>2. Guarded(e)'
      <3> SUFFICES ASSUME NEW p \in Pids, guard[e].pid = p, Attached(p)
                   PROVE  \/ guard[e].count = 1 /\ Once(e, p)'
                          \/ guard[e].count = 2 /\ Twice(e, p)'
        BY <1>c, <2>1 DEF Guarded, Attached
      <3>1. \/ guard[e].count = 1 /\ Once(e, p)
            \/ guard[e].count = 2 /\ Twice(e, p)
        BY <1>b DEF Guarded
      <3>2. p # q
        BY <1>f
      <3> QED
        BY <1>b, <1>c, <2>1, <3>1, <3>2 DEF Once, Twice, Lapsed, Expires
    <2> QED
      BY <1>c, <1>d, <2>1, <2>2 DEF SentOver, GuardOver, Rechecked, NoneSkipped, Over
  <1>g. CASE Attached(q)
    <2>1. /\ guard'[e] = g
          /\ watch'[e] = IF g.count <= RemonitorLimit THEN Monitoring(e, {q})
                         ELSE [watch[e] EXCEPT ![q] = "skipped"]
      BY <1>a, <1>b, <1>g DEF RecheckPid, Attached, TypeOK
    <2>2. guard[e].pid = q => guard[e].count = 1 /\ Lapsed(q) /\ pc[q] # "dead"
      BY <1>b, <1>g DEF Guarded, Once, Twice
    <2>3. /\ g.pid = q
          /\ guard[e].pid # q => g.count = 1
          /\ guard[e].pid = q => g.count = 2
      <3>1. guard[e] \in [pid : Pids \cup {NoPid}, count : Nat]
        BY <1>a DEF TypeOK
      <3> QED
        BY <2>2, <3>1 DEF NextGuard
    <2> HIDE DEF g
    <2>4. watch'[e] = Monitoring(e, {q})
      BY <2>1, <2>3, ActivationAssumption
    <2>5. /\ watch'[e][q] = Watcher(q, state.attached[q].exp)
          /\ \A p \in Pids : p # q => watch'[e][p] = watch[e][p]
      BY <1>b, <2>4, MonitoringKeeps
    <2>6. Expires(q) \/ pc[q] # "dead"
      BY <1>b, <1>g DEF Rechecked
    <2>7. pc[q] \in {"dead", "foreign", "gone"}
      BY <1>b DEF Over
    <2>8. /\ pc[q] = "foreign" /\ Expires(q) => watch'[e][q] = "sleepReused"
          /\ pc[q] = "foreign" /\ ~Expires(q) => watch'[e][q] = "waitReused"
          /\ pc[q] # "foreign" /\ Expires(q) => watch'[e][q] = "sleep"
          /\ pc[q] # "foreign" /\ ~Expires(q) => watch'[e][q] = "wait"
      BY <2>5 DEF Watcher, Expires
    <2>9. (Expires(q)' <=> Expires(q)) /\ pc'[q] = pc[q]
      BY <1>c DEF Expires
    <2>10. Once(e, q)'
      BY <2>6, <2>7, <2>8, <2>9 DEF Once
    <2>11. pc[q] # "dead" => Twice(e, q)'
      BY <2>7, <2>8, <2>9 DEF Twice
    <2>12. Guarded(e)'
      BY <2>1, <2>2, <2>3, <2>10, <2>11 DEF Guarded
    <2>13. GuardOver(e)'
      BY <1>b, <1>c, <1>d, <2>1, <2>3 DEF GuardOver, Over
    <2>14. SentOver(e)'
      BY <1>b, <1>c, <2>5, <2>8 DEF SentOver, Over
    <2>15. NoneSkipped(e)'
      BY <2>5, <2>8 DEF NoneSkipped
    <2> QED
      BY <1>d, <2>12, <2>13, <2>14, <2>15 DEF Rechecked
  <1> QED
    BY <1>f, <1>g

\* Every step keeps what is known of the guard of each executive.
LEMMA GuardInvStep ==
    ASSUME Inv, [Next]_vars, NEW e \in Activators, GuardInv(e), RemonitorLimit >= 2
    PROVE  GuardInv(e)'
  BY GuardKinds, GuardFrame, GuardFires, GuardMonitors, GuardExits, GuardRechecks
  DEF GuardStep

GuardsInv == \A e \in Activators : GuardInv(e)

\* The loop guard never gives up an attached PID, for every limit of at least
\* two (handle_process_exited uses five): a PID is monitored again at most
\* once because its expiration had not passed, and at most once because
\* another process had been given it.
THEOREM GuardHolds == ASSUME RemonitorLimit >= 2 PROVE Spec => []GuardNeverTrips
  <1>1. Init => GuardsInv
    <2> SUFFICES ASSUME Init, NEW e \in Activators PROVE GuardInv(e)
      BY DEF GuardsInv
    <2> QED
      BY ConstantsDistinct
      DEF Init, GuardInv, SentOver, GuardOver, Rechecked, Guarded, NoneSkipped
  <1>2. Inv /\ GuardsInv /\ [Next]_vars => GuardsInv'
    BY GuardInvStep DEF GuardsInv
  <1>3. GuardsInv => GuardNeverTrips
    BY DEF GuardsInv, GuardInv, NoneSkipped, GuardNeverTrips
  <1> QED
    BY <1>1, <1>2, <1>3, Invariance, PTL DEF Spec

=============================================================================
