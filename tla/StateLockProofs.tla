--------------------------- MODULE StateLockProofs ---------------------------
(***************************************************************************)
(* Until a cleanup leaves a process waiting for the old lock file, the     *)
(* lock excludes, no attachment is lost, and StateLock implements          *)
(* AtomicState: for any number of activators and of directories, and       *)
(* whichever activators are killed wherever they are.                      *)
(*                                                                         *)
(* The inductive invariant says what a process that is inside, from the    *)
(* open lock file to its release, knows: its lock file is the one at the   *)
(* path, nobody else holds it, and so what it read is still there when it  *)
(* writes.                                                                 *)
(***************************************************************************)
EXTENDS StateLock, TLAPS

Inside(x) == step[x] \in {"wait", "locked", "decide", "write", "rename"}
Dead(e) == step[Exe(e)] \in {"exited", "failed"}

\* A directory that is not made yet has no state.
DirsFresh ==
    /\ dir \in 0..made
    /\ \A d \in Dirs : d > made => json[d] = NoState

\* The lock file that a process has open is the one at the path.
InsideCurrent == \A x \in Processes : Inside(x) => dir # 0 /\ fd[x] = dir

HolderInside == \A x \in Processes : InCriticalSection(x) => holder[dir] = x

\* An activator spawns its executive once, when it starts an activation.
SpawnOnce ==
    \A p \in Activators :
        /\ step[Act(p)] \in {"acquire", "open", "wait", "locked", "decide"}
             => step[Exe(p)] = "none"
        /\ step[Act(p)] \notin {"none", "rename"}

\* What was read is still there.
SeenCurrent == \A x \in Processes : step[x] = "decide" => seen[x] = json[dir]

\* What an activator is about to write: a new state, in place of none or of one
\* whose executive is dead, or the state that is there and itself in it.
StartPending(p) ==
    /\ seen[Act(p)] = [executive |-> p, attached |-> {p}]
    /\ json[dir] # NoState => Dead(json[dir].executive)
    /\ step[Exe(p)] \in {"acquire", "open", "wait"}

AttachPending(p) ==
    /\ json[dir] # NoState
    /\ seen[Act(p)] = [json[dir] EXCEPT !.attached = @ \cup {p}]

ActivatorPending ==
    \A p \in Activators : step[Act(p)] = "write" => StartPending(p) \/ AttachPending(p)

\* What an executive is about to do: take one process out that is not running,
\* or remove a state with only such a process in it.
CleanupPending(e, q) ==
    /\ json[dir] # NoState
    /\ q \in json[dir].attached /\ ~Running(q)
    /\ step[Exe(e)] = "write" =>
          /\ json[dir].attached # {q}
          /\ seen[Exe(e)] = [json[dir] EXCEPT !.attached = @ \ {q}]
    /\ step[Exe(e)] = "rename" => json[dir].attached = {q}

ExecutivePending ==
    \A e \in Activators : step[Exe(e)] \in {"write", "rename"} =>
        \E q \in Activators : CleanupPending(e, q)

\* The executive that a state names was spawned.
ExecutiveSpawned ==
    /\ dir # 0 /\ json[dir] # NoState => step[Exe(json[dir].executive)] # "none"
    /\ \A p \in Activators : step[Act(p)] = "idle" =>
           /\ seen[Act(p)] \in States
           /\ step[Exe(seen[Act(p)].executive)] # "none"

Ordered ==
    /\ DirsFresh /\ InsideCurrent /\ HolderInside /\ SpawnOnce /\ SeenCurrent
    /\ ActivatorPending /\ ExecutivePending /\ ExecutiveSpawned /\ NoLostAttachment

Sound == TypeOK /\ (~overlap => Ordered)

-----------------------------------------------------------------------------
LEMMA ProcessForms ==
    /\ \A p \in Activators : Act(p) \in Processes /\ Exe(p) \in Processes
    /\ \A x \in Processes : \E p \in Activators : x = Act(p) \/ x = Exe(p)
    /\ \A p, q \in Activators : Act(p) # Exe(q)
    /\ \A p, q \in Activators : p # q => Act(p) # Act(q) /\ Exe(p) # Exe(q)
  BY DEF Act, Exe, Processes

LEMMA InitSound == Init => Sound
  <1> SUFFICES ASSUME Init PROVE Sound
    OBVIOUS
  <1>1. \A p \in Activators : step[Act(p)] = "acquire" /\ step[Exe(p)] = "none"
    BY DEF Init, Processes, Act, Exe
  <1>2. TypeOK
    <2>1. 0 \in 0..MaxDirs
      BY StateLockAssumption
    <2> QED
      BY <2>1 DEF Init, TypeOK, Steps
  <1>3. Ordered
    <2>1. \A x \in Processes : step[x] \in {"acquire", "none"}
      BY <1>1, ProcessForms
    <2>2. DirsFresh
      BY DEF Init, DirsFresh
    <2>3. InsideCurrent /\ HolderInside /\ SeenCurrent
      BY <2>1 DEF InsideCurrent, Inside, HolderInside, InCriticalSection, SeenCurrent
    <2>4. SpawnOnce /\ ActivatorPending /\ ExecutivePending /\ NoLostAttachment
      BY <1>1 DEF SpawnOnce, ActivatorPending, ExecutivePending, NoLostAttachment
    <2>5. ExecutiveSpawned
      BY <1>1 DEF Init, ExecutiveSpawned
    <2> QED
      BY <2>2, <2>3, <2>4, <2>5 DEF Ordered
  <1> QED
    BY <1>2, <1>3 DEF Sound

LEMMA TypeKept == TypeOK /\ [Next]_vars => TypeOK'
  <1> SUFFICES ASSUME TypeOK, [Next]_vars PROVE TypeOK'
    OBVIOUS
  <1> USE ProcessForms, StateLockAssumption DEF TypeOK
  <1>1. ASSUME NEW x \in Processes, CreateParent(x) PROVE TypeOK'
    BY <1>1 DEF CreateParent, EnsureDir, Steps
  <1>2. ASSUME NEW x \in Processes, OpenLock(x) PROVE TypeOK'
    BY <1>2 DEF OpenLock, Steps
  <1>3. ASSUME NEW x \in Processes, TakeLock(x) PROVE TypeOK'
    BY <1>3 DEF TakeLock, Steps
  <1>4. ASSUME NEW x \in Processes, ReadState(x) PROVE TypeOK'
    BY <1>4 DEF ReadState, Steps, Dirs
  <1>5. ASSUME NEW x \in Processes, WriteState(x) PROVE TypeOK'
    BY <1>5 DEF WriteState, Release, Steps
  <1>6. ASSUME NEW p \in Activators, StartActivation(p) PROVE TypeOK'
    BY <1>6 DEF StartActivation, EnsureDir, Steps, States
  <1>7. ASSUME NEW p \in Activators, AttachActivation(p) PROVE TypeOK'
    BY <1>7 DEF AttachActivation, Reset, Steps, States
  <1>8. ASSUME NEW p \in Activators, Exit(p) PROVE TypeOK'
    BY <1>8 DEF Exit, Release, Steps
  <1>9. ASSUME NEW e \in Activators, Wake(e) PROVE TypeOK'
    BY <1>9 DEF Wake, Steps
  <1>10. ASSUME NEW e \in Activators, Bail(e) PROVE TypeOK'
    BY <1>10 DEF Bail, Release, Steps
  <1>11. ASSUME NEW e \in Activators, CleanupPid(e) PROVE TypeOK'
    BY <1>11 DEF CleanupPid, Steps, States
  <1>12. ASSUME NEW e \in Activators, MonitorOnly(e) PROVE TypeOK'
    BY <1>12 DEF MonitorOnly, Release, Steps
  <1>13. ASSUME NEW e \in Activators, RenameDir(e) PROVE TypeOK'
    <2>1. overlap' \in BOOLEAN
      BY <1>13, Zenon DEF RenameDir
    <2>2. dir' \in 0..MaxDirs /\ made' \in 0..MaxDirs
      BY <1>13 DEF RenameDir
    <2>3. holder' \in [Dirs -> Processes \cup {NoProcess}]
      BY <1>13 DEF RenameDir, Release
    <2>4. step' \in [Processes -> Steps]
      BY <1>13 DEF RenameDir, Steps
    <2>5. UNCHANGED <<json, fd, seen, up>>
      BY <1>13 DEF RenameDir
    <2> QED
      BY <2>1, <2>2, <2>3, <2>4, <2>5
  <1>14. CASE UNCHANGED vars
    BY <1>14 DEF vars
  <1> QED
    BY <1>1, <1>2, <1>3, <1>4, <1>5, <1>6, <1>7, <1>8, <1>9, <1>10, <1>11, <1>12, <1>13, <1>14
    DEF Next, Quiet

\* Two processes are never both in a critical section.
LEMMA Alone ==
    ASSUME TypeOK, Ordered, NEW x \in Processes, NEW y \in Processes,
           InCriticalSection(x), InCriticalSection(y)
    PROVE  x = y
  BY DEF Ordered, HolderInside

LEMMA CreateParentOrdered ==
    ASSUME TypeOK, TypeOK', Ordered, ~overlap, ~overlap', NEW x \in Processes, CreateParent(x)
    PROVE  Ordered'
  <1> USE ProcessForms, StateLockAssumption DEF TypeOK, Ordered, Inside, InCriticalSection, CreateParent, EnsureDir
  <1>1. DirsFresh'
    BY DEF DirsFresh, Dirs
  <1>2. InsideCurrent'
    BY DEF InsideCurrent, Inside
  <1>3. HolderInside'
    BY DEF HolderInside, InCriticalSection, InsideCurrent, DirsFresh, Dirs
  <1>4. SpawnOnce'
    BY DEF SpawnOnce
  <1>5. SeenCurrent'
    BY DEF SeenCurrent, InsideCurrent, DirsFresh, Dirs
  <1>6. ActivatorPending'
    <2> SUFFICES ASSUME NEW p \in Activators, step'[Act(p)] = "write"
                 PROVE  (StartPending(p) \/ AttachPending(p))'
      BY DEF ActivatorPending
    <2>1. step[Act(p)] = "write" /\ x # Act(p)
      OBVIOUS
    <2>2. dir # 0 /\ UNCHANGED <<dir, json, seen>>
      BY <2>1 DEF InsideCurrent
    <2>3. StartPending(p) \/ AttachPending(p)
      BY <2>1 DEF ActivatorPending
    <2>4. ASSUME StartPending(p) PROVE StartPending(p)'
      BY <2>1, <2>2, <2>4 DEF StartPending, Dead, States
    <2>5. ASSUME AttachPending(p) PROVE AttachPending(p)'
      BY <2>2, <2>5 DEF AttachPending
    <2> QED
      BY <2>3, <2>4, <2>5
  <1>7. ExecutivePending'
    BY DEF ExecutivePending, CleanupPending, Running, InsideCurrent, DirsFresh, Dirs
  <1>8. ExecutiveSpawned'
    BY DEF ExecutiveSpawned, InsideCurrent, DirsFresh, Dirs
  <1>9. NoLostAttachment'
    BY DEF NoLostAttachment, ExecutiveAlive
  <1> QED
    BY <1>1, <1>2, <1>3, <1>4, <1>5, <1>6, <1>7, <1>8, <1>9

LEMMA OpenLockOrdered ==
    ASSUME TypeOK, TypeOK', Ordered, ~overlap, ~overlap', NEW x \in Processes, OpenLock(x)
    PROVE  Ordered'
  <1> USE ProcessForms, StateLockAssumption DEF TypeOK, Ordered, Inside, InCriticalSection, OpenLock
  <1>1. DirsFresh'
    BY DEF DirsFresh, Dirs
  <1>2. InsideCurrent'
    BY DEF InsideCurrent, Inside
  <1>3. HolderInside'
    BY DEF HolderInside, InCriticalSection
  <1>4. SpawnOnce'
    BY DEF SpawnOnce
  <1>5. SeenCurrent'
    BY DEF SeenCurrent
  <1>6. ActivatorPending'
    BY DEF ActivatorPending, StartPending, AttachPending, Dead, InsideCurrent
  <1>7. ExecutivePending'
    BY DEF ExecutivePending, CleanupPending, Running
  <1>8. ExecutiveSpawned'
    BY DEF ExecutiveSpawned
  <1>9. NoLostAttachment'
    BY DEF NoLostAttachment, ExecutiveAlive
  <1> QED
    BY <1>1, <1>2, <1>3, <1>4, <1>5, <1>6, <1>7, <1>8, <1>9

LEMMA TakeLockOrdered ==
    ASSUME TypeOK, TypeOK', Ordered, ~overlap, ~overlap', NEW x \in Processes, TakeLock(x)
    PROVE  Ordered'
  <1> USE ProcessForms, StateLockAssumption DEF TypeOK, Ordered, Inside, InCriticalSection, TakeLock
  <1>1. DirsFresh'
    BY DEF DirsFresh, Dirs
  <1>2. InsideCurrent'
    BY DEF InsideCurrent, Inside
  <1>3. HolderInside'
    BY DEF HolderInside, InCriticalSection, InsideCurrent
  <1>4. SpawnOnce'
    BY DEF SpawnOnce
  <1>5. SeenCurrent'
    BY DEF SeenCurrent
  <1>6. ActivatorPending'
    BY DEF ActivatorPending, StartPending, AttachPending, Dead, InsideCurrent, HolderInside
  <1>7. ExecutivePending'
    BY DEF ExecutivePending, CleanupPending, Running
  <1>8. ExecutiveSpawned'
    BY DEF ExecutiveSpawned
  <1>9. NoLostAttachment'
    BY DEF NoLostAttachment, ExecutiveAlive
  <1> QED
    BY <1>1, <1>2, <1>3, <1>4, <1>5, <1>6, <1>7, <1>8, <1>9

LEMMA ReadStateOrdered ==
    ASSUME TypeOK, TypeOK', Ordered, ~overlap, ~overlap', NEW x \in Processes, ReadState(x)
    PROVE  Ordered'
  <1> USE ProcessForms, StateLockAssumption DEF TypeOK, Ordered, Inside, InCriticalSection, ReadState
  <1>1. DirsFresh'
    BY DEF DirsFresh, Dirs
  <1>2. InsideCurrent'
    BY DEF InsideCurrent, Inside
  <1>3. HolderInside'
    BY DEF HolderInside, InCriticalSection
  <1>4. SpawnOnce'
    BY DEF SpawnOnce
  <1>5. SeenCurrent'
    BY DEF SeenCurrent, InsideCurrent
  <1>6. ActivatorPending'
    BY DEF ActivatorPending, StartPending, AttachPending, Dead
  <1>7. ExecutivePending'
    BY DEF ExecutivePending, CleanupPending, Running
  <1>8. ExecutiveSpawned'
    BY DEF ExecutiveSpawned
  <1>9. NoLostAttachment'
    BY DEF NoLostAttachment, ExecutiveAlive
  <1> QED
    BY <1>1, <1>2, <1>3, <1>4, <1>5, <1>6, <1>7, <1>8, <1>9

LEMMA WriteStateOrdered ==
    ASSUME TypeOK, TypeOK', Ordered, ~overlap, ~overlap', NEW x \in Processes, WriteState(x)
    PROVE  Ordered'
  <1> USE ProcessForms, StateLockAssumption DEF TypeOK, Ordered, Inside, InCriticalSection, WriteState, Release
  <1>0. \A y \in Processes : InCriticalSection(y) => y = x
    BY Alone
  <1>a. /\ dir # 0 /\ dir \in Dirs /\ fd[x] = dir /\ dir' = dir
        /\ json' = [json EXCEPT ![dir] = seen[x]] /\ UNCHANGED seen
        /\ step' = [step EXCEPT ![x] = "idle"]
    BY DEF InsideCurrent, Dirs
  <1>b. /\ seen[x] \in States
        /\ step[Exe(seen[x].executive)] # "none"
        /\ \A q \in Activators :
              /\ json[dir] # NoState /\ ~Dead(json[dir].executive)
              /\ Running(q) /\ q \in json[dir].attached
              => q \in seen[x].attached /\ seen[x].executive = json[dir].executive
    <2>1. ASSUME NEW p \in Activators, x = Act(p), StartPending(p) PROVE <1>b!:
      BY <2>1 DEF StartPending, States
    <2>2. ASSUME NEW p \in Activators, x = Act(p), AttachPending(p) PROVE <1>b!:
      BY <1>a, <2>2 DEF AttachPending, States, ExecutiveSpawned
    <2>3. ASSUME NEW e \in Activators, x = Exe(e) PROVE <1>b!:
      <3>1. PICK q \in Activators : CleanupPending(e, q)
        BY <2>3 DEF ExecutivePending
      <3> QED
        BY <1>a, <2>3, <3>1 DEF CleanupPending, States, ExecutiveSpawned
    <2> QED
      BY <2>1, <2>2, <2>3 DEF ActivatorPending
  <1>1. DirsFresh'
    BY DEF DirsFresh, Dirs
  <1>2. InsideCurrent'
    BY DEF InsideCurrent, Inside
  <1>3. HolderInside'
    BY DEF HolderInside, InCriticalSection
  <1>4. SpawnOnce'
    BY DEF SpawnOnce
  <1>5. SeenCurrent'
    BY <1>0 DEF SeenCurrent, InsideCurrent, ActivatorPending, ExecutivePending, StartPending, AttachPending, CleanupPending, Dead, Running
  <1>6. ActivatorPending'
    BY <1>0 DEF ActivatorPending, StartPending, AttachPending, Dead, InsideCurrent, ExecutivePending, CleanupPending, Running
  <1>7. ExecutivePending'
    BY <1>0 DEF ExecutivePending, CleanupPending, Running, InsideCurrent, ActivatorPending, StartPending, AttachPending, Dead
  <1>8. ExecutiveSpawned'
    <2>1. json'[dir'] = seen[x] /\ seen[x].executive \in Activators
      BY <1>a, <1>b DEF States
    <2>2. step'[Exe(json'[dir'].executive)] # "none"
      BY <1>a, <1>b, <2>1
    <2>3. ASSUME NEW p \in Activators, step'[Act(p)] = "idle"
          PROVE  seen'[Act(p)] \in States /\ step'[Exe(seen'[Act(p)].executive)] # "none"
      BY <1>a, <1>b, <2>3 DEF ExecutiveSpawned, States
    <2> QED
      BY <2>2, <2>3 DEF ExecutiveSpawned
  <1>9. NoLostAttachment'
    <2> SUFFICES ASSUME NEW p \in Activators, step'[Act(p)] = "idle",
                        ExecutiveAlive(seen[Act(p)].executive)'
                 PROVE  /\ json'[dir] # NoState
                        /\ json'[dir].executive = seen[Act(p)].executive
                        /\ p \in json'[dir].attached
      BY <1>a DEF NoLostAttachment
    <2>1. json'[dir] = seen[x] /\ seen[x] # NoState
      BY <1>a, <1>b
    <2>2. CASE x = Act(p)
      <3>1. StartPending(p) \/ AttachPending(p)
        BY <2>2 DEF ActivatorPending
      <3>2. p \in seen[Act(p)].attached
        BY <2>1, <2>2, <3>1 DEF StartPending, AttachPending, States
      <3> QED
        BY <2>1, <2>2, <3>2
    <2>3. CASE x # Act(p)
      <3>1. step[Act(p)] = "idle" /\ seen[Act(p)] \in States /\ Running(p)
        BY <1>a, <2>3 DEF ExecutiveSpawned, Running
      <3>2. ExecutiveAlive(seen[Act(p)].executive)
        BY <1>a, <3>1 DEF ExecutiveAlive, States
      <3>3. /\ json[dir] # NoState /\ p \in json[dir].attached
            /\ json[dir].executive = seen[Act(p)].executive
        BY <3>1, <3>2 DEF NoLostAttachment
      <3>4. ~Dead(json[dir].executive)
        BY <3>2, <3>3 DEF ExecutiveAlive, Dead
      <3> QED
        BY <1>b, <2>1, <3>1, <3>3, <3>4
    <2> QED
      BY <2>2, <2>3
  <1> QED
    BY <1>1, <1>2, <1>3, <1>4, <1>5, <1>6, <1>7, <1>8, <1>9

LEMMA StartActivationOrdered ==
    ASSUME TypeOK, TypeOK', Ordered, ~overlap, ~overlap', NEW p \in Activators, StartActivation(p)
    PROVE  Ordered'
  <1> USE ProcessForms, StateLockAssumption DEF TypeOK, Ordered, Inside, InCriticalSection, StartActivation, EnsureDir, Reset
  <1>0. \A y \in Processes : InCriticalSection(y) => y = Act(p)
    BY Alone
  <1>a. /\ step' = [step EXCEPT ![Act(p)] = "write", ![Exe(p)] = "acquire"]
        /\ step[Exe(p)] = "none" /\ step[Act(p)] = "decide"
        /\ dir # 0 /\ UNCHANGED <<dir, made, json>> /\ seen[Act(p)] = json[dir]
        /\ dir \in Dirs
    BY DEF InsideCurrent, SpawnOnce, SeenCurrent, Dirs
  <1>1. DirsFresh'
    BY DEF DirsFresh, Dirs
  <1>2. InsideCurrent'
    BY DEF InsideCurrent, Inside
  <1>3. HolderInside'
    BY <1>0 DEF HolderInside, InCriticalSection, InsideCurrent, SpawnOnce, SeenCurrent, ExecutiveSpawned, ExecutiveAlive
  <1>4. SpawnOnce'
    BY DEF SpawnOnce
  <1>5. SeenCurrent'
    BY <1>0 DEF SeenCurrent, InsideCurrent, SpawnOnce, ExecutiveSpawned, ExecutiveAlive
  <1>6. ActivatorPending'
    <2> SUFFICES ASSUME NEW q \in Activators, step'[Act(q)] = "write"
                 PROVE  (StartPending(q) \/ AttachPending(q))'
      BY DEF ActivatorPending
    <2>1. q = p
      BY <1>0, <1>a
    <2>2. json[dir] # NoState => Dead(json[dir].executive) /\ json[dir].executive \in Activators
      BY <1>a DEF Dead, ExecutiveAlive, ExecutiveSpawned, States
    <2>3. json[dir] # NoState => json[dir].executive # p
      BY <1>a, <2>2 DEF Dead
    <2>4. json[dir] # NoState => Dead(json[dir].executive)'
      BY <1>a, <2>2, <2>3 DEF Dead
    <2>5. /\ seen'[Act(p)] = [executive |-> p, attached |-> {p}]
          /\ step'[Exe(p)] = "acquire"
      BY <1>a
    <2> QED
      BY <1>a, <2>1, <2>4, <2>5 DEF StartPending
  <1>7. ExecutivePending'
    BY <1>0 DEF ExecutivePending, CleanupPending, Running, InsideCurrent, SpawnOnce, SeenCurrent, ExecutiveSpawned, ExecutiveAlive
  <1>8. ExecutiveSpawned'
    <2>1. dir' # 0 /\ json'[dir'] # NoState => step'[Exe(json'[dir'].executive)] # "none"
      BY <1>a DEF ExecutiveSpawned, States
    <2>2. ASSUME NEW q \in Activators, step'[Act(q)] = "idle"
          PROVE  seen'[Act(q)] \in States /\ step'[Exe(seen'[Act(q)].executive)] # "none"
      BY <1>a, <2>2 DEF ExecutiveSpawned, States
    <2> QED
      BY <2>1, <2>2 DEF ExecutiveSpawned
  <1>9. NoLostAttachment'
    <2> SUFFICES ASSUME NEW q \in Activators, step'[Act(q)] = "idle",
                        ExecutiveAlive(seen[Act(q)].executive)'
                 PROVE  /\ json[dir] # NoState
                        /\ json[dir].executive = seen[Act(q)].executive
                        /\ q \in json[dir].attached
      BY <1>a DEF NoLostAttachment, ExecutiveAlive
    <2>1. q # p /\ step[Act(q)] = "idle" /\ seen'[Act(q)] = seen[Act(q)]
      BY <1>a
    <2>2. seen[Act(q)].executive \in Activators /\ step[Exe(seen[Act(q)].executive)] # "none"
      BY <2>1 DEF ExecutiveSpawned, States
    <2>3. ExecutiveAlive(seen[Act(q)].executive)
      BY <1>a, <2>1, <2>2 DEF ExecutiveAlive
    <2> QED
      BY <2>1, <2>3 DEF NoLostAttachment
  <1> QED
    BY <1>1, <1>2, <1>3, <1>4, <1>5, <1>6, <1>7, <1>8, <1>9

LEMMA AttachActivationOrdered ==
    ASSUME TypeOK, TypeOK', Ordered, ~overlap, ~overlap', NEW p \in Activators, AttachActivation(p)
    PROVE  Ordered'
  <1> USE ProcessForms, StateLockAssumption DEF TypeOK, Ordered, Inside, InCriticalSection, AttachActivation, Reset
  <1>1. DirsFresh'
    BY DEF DirsFresh, Dirs
  <1>2. InsideCurrent'
    BY DEF InsideCurrent, Inside
  <1>3. HolderInside'
    BY DEF HolderInside, InCriticalSection
  <1>4. SpawnOnce'
    BY DEF SpawnOnce
  <1>5. SeenCurrent'
    BY DEF SeenCurrent
  <1>6. ActivatorPending'
    <2> SUFFICES ASSUME NEW q \in Activators, step'[Act(q)] = "write"
                 PROVE  (StartPending(q) \/ AttachPending(q))'
      BY DEF ActivatorPending
    <2>1. CASE q = p
      BY <2>1 DEF SeenCurrent, AttachPending, States
    <2>2. CASE q # p
      BY <2>2, Alone
    <2> QED
      BY <2>1, <2>2
  <1>7. ExecutivePending'
    BY DEF ExecutivePending, CleanupPending, Running
  <1>8. ExecutiveSpawned'
    BY DEF ExecutiveSpawned
  <1>9. NoLostAttachment'
    BY DEF NoLostAttachment, ExecutiveAlive
  <1> QED
    BY <1>1, <1>2, <1>3, <1>4, <1>5, <1>6, <1>7, <1>8, <1>9

LEMMA ExitOrdered ==
    ASSUME TypeOK, TypeOK', Ordered, ~overlap, ~overlap', NEW p \in Activators, Exit(p)
    PROVE  Ordered'
  <1> USE ProcessForms, StateLockAssumption DEF TypeOK, Ordered, Inside, InCriticalSection, Exit, Release
  <1>1. DirsFresh'
    BY DEF DirsFresh, Dirs
  <1>2. InsideCurrent'
    BY DEF InsideCurrent, Inside
  <1>3. HolderInside'
    BY DEF HolderInside, InCriticalSection
  <1>4. SpawnOnce'
    BY DEF SpawnOnce
  <1>5. SeenCurrent'
    BY DEF SeenCurrent
  <1>6. ActivatorPending'
    BY DEF ActivatorPending, StartPending, AttachPending, Dead
  <1>7. ExecutivePending'
    BY DEF ExecutivePending, CleanupPending, Running
  <1>8. ExecutiveSpawned'
    BY DEF ExecutiveSpawned
  <1>9. NoLostAttachment'
    BY DEF NoLostAttachment, ExecutiveAlive
  <1> QED
    BY <1>1, <1>2, <1>3, <1>4, <1>5, <1>6, <1>7, <1>8, <1>9

LEMMA WakeOrdered ==
    ASSUME TypeOK, TypeOK', Ordered, ~overlap, ~overlap', NEW e \in Activators, Wake(e)
    PROVE  Ordered'
  <1> USE ProcessForms, StateLockAssumption DEF TypeOK, Ordered, Inside, InCriticalSection, Wake
  <1>1. DirsFresh'
    BY DEF DirsFresh, Dirs
  <1>2. InsideCurrent'
    BY DEF InsideCurrent, Inside
  <1>3. HolderInside'
    BY DEF HolderInside, InCriticalSection
  <1>4. SpawnOnce'
    BY DEF SpawnOnce
  <1>5. SeenCurrent'
    BY DEF SeenCurrent
  <1>6. ActivatorPending'
    BY DEF ActivatorPending, StartPending, AttachPending, Dead
  <1>7. ExecutivePending'
    BY DEF ExecutivePending, CleanupPending, Running
  <1>8. ExecutiveSpawned'
    BY DEF ExecutiveSpawned
  <1>9. NoLostAttachment'
    BY DEF NoLostAttachment, ExecutiveAlive
  <1> QED
    BY <1>1, <1>2, <1>3, <1>4, <1>5, <1>6, <1>7, <1>8, <1>9

LEMMA BailOrdered ==
    ASSUME TypeOK, TypeOK', Ordered, ~overlap, ~overlap', NEW e \in Activators, Bail(e)
    PROVE  Ordered'
  <1> USE ProcessForms, StateLockAssumption DEF TypeOK, Ordered, Inside, InCriticalSection, Bail, Release
  <1>1. DirsFresh'
    BY DEF DirsFresh, Dirs
  <1>2. InsideCurrent'
    BY DEF InsideCurrent, Inside
  <1>3. HolderInside'
    BY DEF HolderInside, InCriticalSection
  <1>4. SpawnOnce'
    BY DEF SpawnOnce
  <1>5. SeenCurrent'
    BY DEF SeenCurrent
  <1>6. ActivatorPending'
    BY DEF ActivatorPending, StartPending, AttachPending, Dead
  <1>7. ExecutivePending'
    BY DEF ExecutivePending, CleanupPending, Running
  <1>8. ExecutiveSpawned'
    BY DEF ExecutiveSpawned
  <1>9. NoLostAttachment'
    BY DEF NoLostAttachment, ExecutiveAlive
  <1> QED
    BY <1>1, <1>2, <1>3, <1>4, <1>5, <1>6, <1>7, <1>8, <1>9

LEMMA CleanupPidOrdered ==
    ASSUME TypeOK, TypeOK', Ordered, ~overlap, ~overlap', NEW e \in Activators, CleanupPid(e)
    PROVE  Ordered'
  <1> USE ProcessForms, StateLockAssumption DEF TypeOK, Ordered, Inside, InCriticalSection, CleanupPid
  <1>1. DirsFresh'
    BY DEF DirsFresh, Dirs
  <1>2. InsideCurrent'
    BY DEF InsideCurrent, Inside
  <1>3. HolderInside'
    BY DEF HolderInside, InCriticalSection
  <1>4. SpawnOnce'
    BY DEF SpawnOnce
  <1>5. SeenCurrent'
    BY DEF SeenCurrent
  <1>6. ActivatorPending'
    BY DEF ActivatorPending, StartPending, AttachPending, Dead
  <1>7. ExecutivePending'
    <2> SUFFICES ASSUME NEW f \in Activators, step'[Exe(f)] \in {"write", "rename"}
                 PROVE  \E q \in Activators : CleanupPending(f, q)'
      BY DEF ExecutivePending
    <2>1. f = e
      BY Alone
    <2>2. PICK q \in seen[Exe(e)].attached :
            /\ ~Running(q)
            /\ seen' = [seen EXCEPT ![Exe(e)].attached = @ \ {q}]
            /\ step' = [step EXCEPT ![Exe(e)] =
                          IF seen[Exe(e)].attached = {q} THEN "rename" ELSE "write"]
      OBVIOUS
    <2>3. seen[Exe(e)] = json[dir] /\ seen[Exe(e)] \in States /\ q \in Activators
      BY <2>2 DEF SeenCurrent, States
    <2>4. ~Running(q)'
      BY <2>2, <2>3 DEF Running
    <2> QED
      BY <2>1, <2>2, <2>3, <2>4 DEF CleanupPending, States
  <1>8. ExecutiveSpawned'
    BY DEF ExecutiveSpawned
  <1>9. NoLostAttachment'
    BY DEF NoLostAttachment, ExecutiveAlive
  <1> QED
    BY <1>1, <1>2, <1>3, <1>4, <1>5, <1>6, <1>7, <1>8, <1>9

LEMMA MonitorOnlyOrdered ==
    ASSUME TypeOK, TypeOK', Ordered, ~overlap, ~overlap', NEW e \in Activators, MonitorOnly(e)
    PROVE  Ordered'
  <1> USE ProcessForms, StateLockAssumption DEF TypeOK, Ordered, Inside, InCriticalSection, MonitorOnly, Release
  <1>1. DirsFresh'
    BY DEF DirsFresh, Dirs
  <1>2. InsideCurrent'
    BY DEF InsideCurrent, Inside
  <1>3. HolderInside'
    BY DEF HolderInside, InCriticalSection
  <1>4. SpawnOnce'
    BY DEF SpawnOnce
  <1>5. SeenCurrent'
    BY DEF SeenCurrent
  <1>6. ActivatorPending'
    BY DEF ActivatorPending, StartPending, AttachPending, Dead
  <1>7. ExecutivePending'
    BY DEF ExecutivePending, CleanupPending, Running
  <1>8. ExecutiveSpawned'
    BY DEF ExecutiveSpawned
  <1>9. NoLostAttachment'
    BY DEF NoLostAttachment, ExecutiveAlive
  <1> QED
    BY <1>1, <1>2, <1>3, <1>4, <1>5, <1>6, <1>7, <1>8, <1>9

LEMMA RenameDirOrdered ==
    ASSUME TypeOK, TypeOK', Ordered, ~overlap, ~overlap', NEW e \in Activators, RenameDir(e)
    PROVE  Ordered'
  <1> USE ProcessForms, StateLockAssumption DEF TypeOK, Ordered, Inside, InCriticalSection, RenameDir, Release
  <1>0. \A y \in Processes : InCriticalSection(y) => y = Exe(e)
    BY Alone
  <1>1. DirsFresh'
    BY DEF DirsFresh, Dirs
  <1>2. InsideCurrent'
    <2> SUFFICES ASSUME NEW y \in Processes, Inside(y)' PROVE FALSE
      BY DEF InsideCurrent
    <2>1. y # Exe(e) /\ Inside(y)
      OBVIOUS
    <2>2. step[y] = "wait"
      BY <1>0, <2>1
    <2>3. fd[y] = dir /\ fd[Exe(e)] = dir
      BY <2>1 DEF InsideCurrent
    <2> QED
      BY <2>2, <2>3
  <1>3. HolderInside'
    BY DEF HolderInside, InCriticalSection
  <1>4. SpawnOnce'
    BY DEF SpawnOnce
  <1>5. SeenCurrent'
    BY <1>0 DEF SeenCurrent, InsideCurrent, ExecutivePending, CleanupPending, Running
  <1>6. ActivatorPending'
    BY <1>0 DEF ActivatorPending, StartPending, AttachPending, Dead, InsideCurrent, ExecutivePending, CleanupPending, Running
  <1>7. ExecutivePending'
    BY <1>0 DEF ExecutivePending, CleanupPending, Running, InsideCurrent
  <1>8. ExecutiveSpawned'
    BY DEF ExecutiveSpawned
  <1>9. NoLostAttachment'
    <2> SUFFICES ASSUME NEW p \in Activators, step'[Act(p)] = "idle",
                        ExecutiveAlive(seen[Act(p)].executive)'
                 PROVE  FALSE
      BY DEF NoLostAttachment, ExecutiveAlive
    <2>1. step[Act(p)] = "idle" /\ seen[Act(p)].executive \in Activators
      BY DEF ExecutiveSpawned, States
    <2>2. ExecutiveAlive(seen[Act(p)].executive)
      BY <2>1 DEF ExecutiveAlive
    <2>3. p \in json[dir].attached
      BY <2>1, <2>2 DEF NoLostAttachment
    <2>4. PICK q \in Activators : CleanupPending(e, q)
      BY DEF ExecutivePending
    <2> QED
      BY <2>1, <2>3, <2>4 DEF CleanupPending, Running
  <1> QED
    BY <1>1, <1>2, <1>3, <1>4, <1>5, <1>6, <1>7, <1>8, <1>9

LEMMA SoundStep == Sound /\ [Next]_vars => Sound'
  <1> SUFFICES ASSUME Sound, [Next]_vars PROVE Sound'
    OBVIOUS
  <1>1. TypeOK /\ TypeOK'
    BY TypeKept DEF Sound
  <1> SUFFICES ASSUME ~overlap' PROVE Ordered'
    BY <1>1 DEF Sound
  <1>2. ~overlap
    BY DEF Next, CreateParent, OpenLock, TakeLock, ReadState, WriteState, StartActivation,
           AttachActivation, Exit, Wake, Bail, CleanupPid, MonitorOnly, RenameDir, Quiet, vars
  <1>3. Ordered
    BY <1>2 DEF Sound
  <1>4. ASSUME NEW x \in Processes, CreateParent(x) PROVE Ordered'
    BY <1>1, <1>2, <1>3, <1>4, CreateParentOrdered
  <1>5. ASSUME NEW x \in Processes, OpenLock(x) PROVE Ordered'
    BY <1>1, <1>2, <1>3, <1>5, OpenLockOrdered
  <1>6. ASSUME NEW x \in Processes, TakeLock(x) PROVE Ordered'
    BY <1>1, <1>2, <1>3, <1>6, TakeLockOrdered
  <1>7. ASSUME NEW x \in Processes, ReadState(x) PROVE Ordered'
    BY <1>1, <1>2, <1>3, <1>7, ReadStateOrdered
  <1>8. ASSUME NEW x \in Processes, WriteState(x) PROVE Ordered'
    BY <1>1, <1>2, <1>3, <1>8, WriteStateOrdered
  <1>9. ASSUME NEW p \in Activators, StartActivation(p) PROVE Ordered'
    BY <1>1, <1>2, <1>3, <1>9, StartActivationOrdered
  <1>10. ASSUME NEW p \in Activators, AttachActivation(p) PROVE Ordered'
    BY <1>1, <1>2, <1>3, <1>10, AttachActivationOrdered
  <1>11. ASSUME NEW p \in Activators, Exit(p) PROVE Ordered'
    BY <1>1, <1>2, <1>3, <1>11, ExitOrdered
  <1>12. ASSUME NEW p \in Activators, Wake(p) PROVE Ordered'
    BY <1>1, <1>2, <1>3, <1>12, WakeOrdered
  <1>13. ASSUME NEW p \in Activators, Bail(p) PROVE Ordered'
    BY <1>1, <1>2, <1>3, <1>13, BailOrdered
  <1>14. ASSUME NEW p \in Activators, CleanupPid(p) PROVE Ordered'
    BY <1>1, <1>2, <1>3, <1>14, CleanupPidOrdered
  <1>15. ASSUME NEW p \in Activators, MonitorOnly(p) PROVE Ordered'
    BY <1>1, <1>2, <1>3, <1>15, MonitorOnlyOrdered
  <1>16. ASSUME NEW p \in Activators, RenameDir(p) PROVE Ordered'
    BY <1>1, <1>2, <1>3, <1>16, RenameDirOrdered
  <1>17. CASE UNCHANGED vars
    BY <1>3, <1>17
    DEF vars, Ordered, DirsFresh, InsideCurrent, Inside, HolderInside, InCriticalSection, SpawnOnce,
        SeenCurrent, ActivatorPending, StartPending, AttachPending, Dead, ExecutivePending,
        CleanupPending, Running, ExecutiveSpawned, NoLostAttachment, ExecutiveAlive
  <1> QED
    BY <1>4, <1>5, <1>6, <1>7, <1>8, <1>9, <1>10, <1>11, <1>12, <1>13, <1>14, <1>15, <1>16, <1>17 DEF Next, Quiet

LEMMA SoundAlways == Spec => []Sound
  BY InitSound, SoundStep, PTL DEF Spec

\* read_activations_json returns a lock that excludes every other reader and
\* writer of state.json, until a cleanup leaves a waiter behind.
THEOREM Excludes == Spec => []LockExcludes
  <1>1. Sound => LockExcludes
    BY Alone DEF Sound, LockExcludes
  <1> QED
    BY <1>1, SoundAlways, PTL

\* No concurrent start, attachment, cleanup or crash overwrites the attachment of
\* a running process while the executive of its state lives.
THEOREM AttachmentStays == Spec => []NoLostAttachment
  <1>1. Sound => NoLostAttachment
    BY DEF Sound, Ordered, NoLostAttachment
  <1> QED
    BY <1>1, SoundAlways, PTL

-----------------------------------------------------------------------------
\* The state at the path, as AtomicState sees it, and who has ended.
State == IF dir = 0 THEN NoState ELSE json[dir]
Gone == {p \in Activators : ~Running(p)}
DeadOnes == {e \in Activators : step[Exe(e)] \in {"exited", "failed"}}

Stutter == UNCHANGED <<State, Gone, DeadOnes, overlap>>

\* A step of AtomicState, in the terms above.
LEMMA AtomicStep ==
    ASSUME ~overlap,
           \/ Stutter
           \/ UNCHANGED overlap /\ \E p \in Activators \ Gone :
                \/ /\ State # NoState => State.executive \in DeadOnes
                   /\ State' = [executive |-> p, attached |-> {p}]
                   /\ UNCHANGED <<Gone, DeadOnes>>
                \/ /\ State # NoState
                   /\ State' = [State EXCEPT !.attached = @ \cup {p}]
                   /\ UNCHANGED <<Gone, DeadOnes>>
                \/ Gone' = Gone \cup {p} /\ UNCHANGED <<State, DeadOnes>>
           \/ UNCHANGED overlap /\ \E e \in Activators \ DeadOnes :
                DeadOnes' = DeadOnes \cup {e} /\ UNCHANGED <<State, Gone>>
           \/ UNCHANGED overlap /\ \E q \in Activators :
                /\ State # NoState
                /\ q \in Gone \cap State.attached
                /\ State.attached # {q}
                /\ State' = [State EXCEPT !.attached = @ \ {q}]
                /\ UNCHANGED <<Gone, DeadOnes>>
           \/ (overlap' \/ UNCHANGED overlap) /\ \E e \in Activators \ DeadOnes :
                /\ State # NoState
                /\ \E q \in Gone : State.attached = {q}
                /\ State' = NoState
                /\ DeadOnes' = DeadOnes \cup {e}
                /\ UNCHANGED Gone
    PROVE  [Atomic!Next]_(Atomic!vars)
  BY Zenon DEF State, Gone, DeadOnes, Stutter, Atomic!Next, Atomic!Section, Atomic!Start, Atomic!Attach,
         Atomic!Exit, Atomic!Die, Atomic!CleanupPid, Atomic!CleanupAll, Atomic!vars

LEMMA StepRefines == Sound /\ [Next]_vars => [Atomic!Next]_(Atomic!vars)
  <1> SUFFICES ASSUME Sound, [Next]_vars PROVE [Atomic!Next]_(Atomic!vars)
    OBVIOUS
  <1>0. CASE overlap
    <2>1. overlap'
      BY <1>0 DEF Next, CreateParent, OpenLock, TakeLock, ReadState, WriteState, StartActivation,
           AttachActivation, Exit, Wake, Bail, CleanupPid, MonitorOnly, RenameDir, Quiet, vars
    <2> QED
      BY <1>0, <2>1 DEF Atomic!Next
  <1> SUFFICES ASSUME ~overlap PROVE [Atomic!Next]_(Atomic!vars)
    BY <1>0
  <1>t. TypeOK /\ TypeOK' /\ Ordered
    BY TypeKept DEF Sound
  <1> USE ProcessForms, StateLockAssumption DEF Running
  <1>1. ASSUME NEW x \in Processes, CreateParent(x) PROVE Stutter
    <2>1. State' = State
      BY <1>t, <1>1 DEF CreateParent, EnsureDir, State, TypeOK, Ordered, DirsFresh, Dirs
    <2>2. Gone' = Gone /\ DeadOnes' = DeadOnes
      BY <1>t, <1>1 DEF CreateParent, Gone, DeadOnes, TypeOK
    <2> QED
      BY <1>1, <2>1, <2>2 DEF CreateParent, Stutter
  <1>2. ASSUME NEW x \in Processes, OpenLock(x) PROVE [Atomic!Next]_(Atomic!vars)
    <2>1. State' = State /\ overlap' = overlap
      BY <1>2 DEF OpenLock, State
    <2>2. CASE dir # 0
      <3>1. Gone' = Gone /\ DeadOnes' = DeadOnes
        BY <1>t, <1>2, <2>2 DEF OpenLock, Gone, DeadOnes, TypeOK
      <3> QED
        BY <2>1, <3>1, AtomicStep DEF Stutter
    <2>3. ASSUME NEW p \in Activators, x = Act(p), dir = 0 PROVE [Atomic!Next]_(Atomic!vars)
      <3>1. p \notin Gone /\ Gone' = Gone \cup {p} /\ DeadOnes' = DeadOnes
        BY <1>t, <1>2, <2>3 DEF OpenLock, Gone, DeadOnes, TypeOK
      <3> QED
        BY <2>1, <3>1, AtomicStep
    <2>4. ASSUME NEW e \in Activators, x = Exe(e), dir = 0 PROVE [Atomic!Next]_(Atomic!vars)
      <3>1. e \notin DeadOnes /\ Gone' = Gone /\ DeadOnes' = DeadOnes \cup {e}
        BY <1>t, <1>2, <2>4 DEF OpenLock, Gone, DeadOnes, TypeOK
      <3> QED
        BY <2>1, <3>1, AtomicStep
    <2> QED
      BY <2>2, <2>3, <2>4
  <1>3. ASSUME NEW x \in Processes, TakeLock(x) \/ ReadState(x) PROVE Stutter
    BY <1>t, <1>3 DEF TakeLock, ReadState, Stutter, State, Gone, DeadOnes, TypeOK
  <1>4. ASSUME NEW x \in Processes, WriteState(x) PROVE [Atomic!Next]_(Atomic!vars)
    <2>1. /\ dir # 0 /\ dir \in Dirs /\ UNCHANGED <<dir, overlap>>
          /\ json' = [json EXCEPT ![dir] = seen[x]]
          /\ step' = [step EXCEPT ![x] = "idle"] /\ step[x] = "write"
      BY <1>t, <1>4 DEF WriteState, Ordered, InsideCurrent, Inside, TypeOK, Dirs
    <2>2. State = json[dir] /\ State' = seen[x]
      BY <1>t, <2>1 DEF State, TypeOK
    <2>3. Gone' = Gone /\ DeadOnes' = DeadOnes
      BY <1>t, <2>1 DEF Gone, DeadOnes, TypeOK
    <2>4. ASSUME NEW p \in Activators, x = Act(p) PROVE [Atomic!Next]_(Atomic!vars)
      <3>1. p \notin Gone
        BY <2>1, <2>4 DEF Gone
      <3>2. StartPending(p) \/ AttachPending(p)
        BY <1>t, <2>1, <2>4 DEF Ordered, ActivatorPending
      <3>3. CASE StartPending(p)
        <4>1. State # NoState => State.executive \in DeadOnes
          BY <1>t, <2>1, <2>2, <3>3 DEF StartPending, Dead, DeadOnes, TypeOK, States
        <4> QED
          BY <2>1, <2>2, <2>3, <2>4, <3>1, <3>3, <4>1, AtomicStep DEF StartPending
      <3>4. CASE AttachPending(p)
        BY <2>1, <2>2, <2>3, <2>4, <3>1, <3>4, AtomicStep DEF AttachPending
      <3> QED
        BY <3>2, <3>3, <3>4
    <2>5. ASSUME NEW e \in Activators, x = Exe(e) PROVE [Atomic!Next]_(Atomic!vars)
      <3>1. PICK q \in Activators : CleanupPending(e, q)
        BY <1>t, <2>1, <2>5 DEF Ordered, ExecutivePending
      <3>2. /\ State # NoState /\ q \in Gone \cap State.attached /\ State.attached # {q}
            /\ State' = [State EXCEPT !.attached = @ \ {q}]
        BY <2>1, <2>2, <2>5, <3>1 DEF CleanupPending, Gone
      <3> QED
        BY <2>1, <2>3, <3>2, AtomicStep
    <2> QED
      BY <2>4, <2>5
  <1>5. ASSUME NEW p \in Activators, StartActivation(p) PROVE Stutter
    <2>1. /\ dir # 0 /\ step[Exe(p)] = "none" /\ step[Act(p)] = "decide"
          /\ step' = [step EXCEPT ![Act(p)] = "write", ![Exe(p)] = "acquire"]
          /\ UNCHANGED <<dir, json, overlap>>
      BY <1>t, <1>5 DEF StartActivation, EnsureDir, Ordered, InsideCurrent, Inside, SpawnOnce
    <2> QED
      BY <1>t, <2>1 DEF Stutter, State, Gone, DeadOnes, TypeOK
  <1>6. ASSUME NEW p \in Activators, AttachActivation(p) \/ Wake(p) \/ CleanupPid(p) PROVE Stutter
    BY <1>t, <1>6 DEF AttachActivation, Wake, CleanupPid, Stutter, State, Gone, DeadOnes, TypeOK
  <1>7. ASSUME NEW p \in Activators, Exit(p) PROVE [Atomic!Next]_(Atomic!vars)
    <2>1. p \notin Gone /\ Gone' = Gone \cup {p} /\ UNCHANGED <<State, DeadOnes, overlap>>
      BY <1>t, <1>7 DEF Exit, Gone, State, DeadOnes, TypeOK
    <2> QED
      BY <2>1, AtomicStep
  <1>8. ASSUME NEW e \in Activators, Bail(e) \/ MonitorOnly(e) PROVE [Atomic!Next]_(Atomic!vars)
    <2>1. UNCHANGED <<State, Gone, overlap>>
      BY <1>t, <1>8 DEF Bail, MonitorOnly, Gone, State, TypeOK
    <2>2. e \notin DeadOnes /\ DeadOnes' \in {DeadOnes, DeadOnes \cup {e}}
      BY <1>t, <1>8 DEF Bail, MonitorOnly, DeadOnes, TypeOK
    <2> QED
      BY <2>1, <2>2, AtomicStep DEF Stutter
  <1>9. ASSUME NEW e \in Activators, RenameDir(e) PROVE [Atomic!Next]_(Atomic!vars)
    <2>1. /\ dir # 0 /\ dir' = 0 /\ step[Exe(e)] = "rename"
          /\ step' = [step EXCEPT ![Exe(e)] = "exited"]
      BY <1>t, <1>9 DEF RenameDir, Ordered, InsideCurrent, Inside
    <2>2. PICK q \in Activators : CleanupPending(e, q)
      BY <1>t, <2>1 DEF Ordered, ExecutivePending
    <2>3. State # NoState /\ State.attached = {q} /\ q \in Gone /\ State' = NoState
      BY <2>1, <2>2 DEF CleanupPending, State, Gone
    <2>4. e \notin DeadOnes /\ DeadOnes' = DeadOnes \cup {e} /\ Gone' = Gone
      BY <1>t, <2>1 DEF DeadOnes, Gone, TypeOK
    <2>5. overlap' \/ UNCHANGED overlap
      BY <1>t DEF TypeOK
    <2> QED
      BY <2>3, <2>4, <2>5, AtomicStep
  <1>10. CASE UNCHANGED vars
    <2>1. Stutter
      BY <1>10 DEF vars, Stutter, State, Gone, DeadOnes
    <2> QED
      BY <2>1, AtomicStep
  <1> QED
    BY <1>1, <1>2, <1>3, <1>4, <1>5, <1>6, <1>7, <1>8, <1>9, <1>10, AtomicStep DEF Next, Quiet

\* The critical sections under state.lock implement atomic changes of the state:
\* what Activation takes for granted.
THEOREM Refines == Spec => SectionsAtomic
  <1>1. Init => Atomic!Init
    BY ProcessForms DEF Init, Atomic!Init, Running, Act, Exe, Processes
  <1> QED
    BY <1>1, SoundAlways, StepRefines, PTL DEF Spec, SectionsAtomic, Atomic!Spec

=============================================================================
