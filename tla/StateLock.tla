------------------------------ MODULE StateLock ------------------------------
(***************************************************************************)
(* The critical sections that Activation takes as atomic: how a process    *)
(* acquires state.lock, and what it reads and writes through the path of   *)
(* the activation state directory while it holds the lock.                 *)
(*                                                                         *)
(* state.lock lives inside the directory that cleanup_all renames away, so *)
(* a lock is a lock on the file of ONE incarnation of the directory, while *)
(* state.json is always reached through the path.  Incarnations are        *)
(* numbered; at most MaxDirs of them are made.                             *)
(***************************************************************************)
EXTENDS Naturals

CONSTANTS Activators,   \* PIDs of activators; each may spawn one executive
          Exiting,      \* the activators that may exit
          MaxDirs,      \* incarnations of the directory, at most
          NoState,      \* there is no state.json
          NoProcess     \* nobody holds a lock


Dirs == 1..MaxDirs
Act(p) == <<"activate", p>>
Exe(p) == <<"executive", p>>
Processes == {"activate", "executive"} \X Activators

VARIABLES
    dir,      \* the incarnation at the path, 0 if there is none
    made,     \* how many incarnations were made
    json,     \* state.json in each incarnation
    holder,   \* who holds the lock of each incarnation
    step,     \* where each process is
    fd,       \* the incarnation whose lock file a process has opened
    seen,     \* the state a process read last, then the one it writes
    up,       \* executives that have spawned their watchers
    overlap   \* history: a cleanup left a process waiting for the old lock file

vars == <<dir, made, json, holder, step, fd, seen, up, overlap>>

States == [executive : Activators, attached : SUBSET Activators]

ASSUME StateLockAssumption ==
    /\ Exiting \subseteq Activators
    /\ MaxDirs \in Nat
    /\ NoState \notin States
    /\ NoProcess \notin Processes

Steps == {"none", "acquire", "open", "wait", "locked", "decide", "write",
          "rename", "idle", "exited", "failed"}

TypeOK ==
    /\ dir \in 0..MaxDirs /\ made \in 0..MaxDirs
    /\ json \in [Dirs -> States \cup {NoState}]
    /\ holder \in [Dirs -> Processes \cup {NoProcess}]
    /\ step \in [Processes -> Steps]
    /\ fd \in [Processes -> 0..MaxDirs]
    /\ seen \in [Processes -> States \cup {NoState}]
    /\ up \subseteq Activators
    /\ overlap \in BOOLEAN

Init ==
    /\ dir = 0 /\ made = 0
    /\ json = [d \in Dirs |-> NoState]
    /\ holder = [d \in Dirs |-> NoProcess]
    /\ step = [x \in Processes |-> IF x[1] = "activate" THEN "acquire" ELSE "none"]
    /\ fd = [x \in Processes |-> 0]
    /\ seen = [x \in Processes |-> NoState]
    /\ up = {} /\ overlap = FALSE

Running(p) == step[Act(p)] \notin {"exited", "failed"}
ExecutiveAlive(p) == step[Exe(p)] \notin {"none", "failed", "exited"}

\* DirBuilder::recursive(true).create: no effect if the directory exists.
EnsureDir ==
    IF dir # 0 THEN UNCHANGED <<dir, made>>
    ELSE made < MaxDirs /\ made' = made + 1 /\ dir' = made + 1

\* Between read_activations_json and the release of the lock it returned.
InCriticalSection(x) == step[x] \in {"locked", "decide", "write", "rename"}

Release(x) == holder' = [holder EXCEPT ![fd[x]] = NoProcess]

-----------------------------------------------------------------------------
(* acquire_activations_json_lock and read_activations_json.                *)

CreateParent(x) ==
    /\ step[x] = "acquire"
    /\ EnsureDir
    /\ step' = [step EXCEPT ![x] = "open"]
    /\ UNCHANGED <<json, holder, fd, seen, up, overlap>>

\* LockFile::open creates the file, but not its directory.
OpenLock(x) ==
    /\ step[x] = "open"
    /\ step' = [step EXCEPT ![x] = IF dir = 0 THEN "failed" ELSE "wait"]
    /\ fd' = [fd EXCEPT ![x] = dir]
    /\ UNCHANGED <<dir, made, json, holder, seen, up, overlap>>

\* Mutant: an open file is taken for a held lock (try_lock's answer ignored).
TakeLockBlindly(x) ==
    /\ step[x] = "wait"
    /\ holder' = [holder EXCEPT ![fd[x]] = x]
    /\ step' = [step EXCEPT ![x] = "locked"]
    /\ UNCHANGED <<dir, made, json, fd, seen, up, overlap>>

\* lock.lock() blocks on the file that was opened, wherever that file is now.
TakeLock(x) ==
    /\ step[x] = "wait"
    /\ holder[fd[x]] = NoProcess
    /\ holder' = [holder EXCEPT ![fd[x]] = x]
    /\ step' = [step EXCEPT ![x] = "locked"]
    /\ UNCHANGED <<dir, made, json, fd, seen, up, overlap>>

\* state.json is read through the path.
ReadState(x) ==
    /\ step[x] = "locked"
    /\ seen' = [seen EXCEPT ![x] = IF dir = 0 THEN NoState ELSE json[dir]]
    /\ step' = [step EXCEPT ![x] = "decide"]
    /\ UNCHANGED <<dir, made, json, holder, fd, up, overlap>>

\* write_activations_json: a temporary file next to state.json is renamed,
\* and the lock is dropped whether that worked or not.
WriteState(x) ==
    /\ step[x] = "write"
    /\ IF dir = 0
       THEN step' = [step EXCEPT ![x] = "failed"] /\ UNCHANGED json
       ELSE /\ json' = [json EXCEPT ![dir] = seen[x]]
            /\ step' = [step EXCEPT ![x] = "idle"]
    /\ Release(x)
    /\ UNCHANGED <<dir, made, fd, seen, up, overlap>>

-----------------------------------------------------------------------------
(* Activators.                                                             *)

\* try_start_or_attach: there is no state, or its executive is not running.
Reset(p) ==
    ~(seen[Act(p)] # NoState /\ ExecutiveAlive(seen[Act(p)].executive))

\* start: make the start state directory, and with it the directory it is
\* in, and spawn the executive, which asks for the lock at once.
StartActivation(p) ==
    /\ step[Act(p)] = "decide"
    /\ Reset(p)
    /\ EnsureDir
    /\ seen' = [seen EXCEPT ![Act(p)] = [executive |-> p, attached |-> {p}]]
    /\ step' = [step EXCEPT ![Act(p)] = "write", ![Exe(p)] = "acquire"]
    /\ UNCHANGED <<json, holder, fd, up, overlap>>

AttachActivation(p) ==
    /\ step[Act(p)] = "decide"
    /\ ~Reset(p)
    /\ seen' = [seen EXCEPT ![Act(p)].attached = @ \cup {p}]
    /\ step' = [step EXCEPT ![Act(p)] = "write"]
    /\ UNCHANGED <<dir, made, json, holder, fd, up, overlap>>

\* The user's shell exits, or the process is killed before, wherever it is; the
\* system releases its lock.
Exit(p) ==
    /\ p \in Exiting /\ Running(p)
    /\ step' = [step EXCEPT ![Act(p)] = "exited"]
    /\ IF InCriticalSection(Act(p)) THEN Release(Act(p)) ELSE UNCHANGED holder
    /\ UNCHANGED <<dir, made, json, fd, seen, up, overlap>>

-----------------------------------------------------------------------------
(* Executives.                                                             *)

\* An attached process has exited, or state.json has changed.
Wake(e) ==
    LET x == Exe(e) IN
    /\ step[x] = "idle"
    /\ \/ \E q \in seen[x].attached : ~Running(q)
       \/ dir # 0 /\ json[dir] # seen[x]
    /\ step' = [step EXCEPT ![x] = "acquire"]
    /\ UNCHANGED <<dir, made, json, holder, fd, seen, up, overlap>>

\* "executive shouldn't be running when state.json doesn't exist".
Bail(e) ==
    LET x == Exe(e) IN
    /\ step[x] = "decide"
    /\ seen[x] = NoState
    /\ step' = [step EXCEPT ![x] = "failed"]
    /\ Release(x)
    /\ UNCHANGED <<dir, made, json, fd, seen, up, overlap>>

\* Mutant: an event is trusted, and nobody looks whether the process still runs.
CleanupUnchecked(e) ==
    LET x == Exe(e) IN
    /\ step[x] = "decide"
    /\ e \in up
    /\ seen[x] # NoState
    /\ \E q \in seen[x].attached :
        /\ seen' = [seen EXCEPT ![x].attached = @ \ {q}]
        /\ step' = [step EXCEPT ![x] =
                      IF seen[x].attached = {q} THEN "rename" ELSE "write"]
    /\ UNCHANGED <<dir, made, json, holder, fd, up, overlap>>

\* Mutant: the exit of the last process leaves a state without attachments.
CleanupLeavesEmpty(e) ==
    LET x == Exe(e) IN
    /\ step[x] = "decide"
    /\ e \in up
    /\ seen[x] # NoState
    /\ \E q \in seen[x].attached :
        /\ ~Running(q)
        /\ seen' = [seen EXCEPT ![x].attached = @ \ {q}]
    /\ step' = [step EXCEPT ![x] = "write"]
    /\ UNCHANGED <<dir, made, json, holder, fd, up, overlap>>

\* cleanup_pid for an attached process that has exited.
CleanupPid(e) ==
    LET x == Exe(e) IN
    /\ step[x] = "decide"
    /\ e \in up
    /\ seen[x] # NoState
    /\ \E q \in seen[x].attached :
        /\ ~Running(q)
        /\ seen' = [seen EXCEPT ![x].attached = @ \ {q}]
        /\ step' = [step EXCEPT ![x] =
                      IF seen[x].attached = {q} THEN "rename" ELSE "write"]
    /\ UNCHANGED <<dir, made, json, holder, fd, up, overlap>>

\* spawn_all_watchers, and the handlers when everybody attached is running:
\* PIDs are monitored and nothing is written.  An executive signals its parent
\* after spawn_all_watchers, and exits if that fails.
MonitorOnly(e) ==
    LET x == Exe(e) IN
    /\ step[x] = "decide"
    /\ seen[x] # NoState
    /\ e \in up => \A q \in seen[x].attached : Running(q)
    /\ up' = up \cup {e}
    /\ step' = [step EXCEPT ![x] = IF e \in up \/ Running(e) THEN "idle" ELSE "failed"]
    /\ Release(x)
    /\ UNCHANGED <<dir, made, json, fd, seen, overlap>>

\* cleanup_all: rename the directory away and remove it; the executive exits
\* and its lock, on a file that has no name any more, is released.
RenameDir(e) ==
    LET x == Exe(e) IN
    /\ step[x] = "rename"
    /\ dir' = 0
    /\ step' = [step EXCEPT ![x] = IF dir = 0 THEN "failed" ELSE "exited"]
    /\ overlap' = (overlap \/ \E y \in Processes : step[y] = "wait" /\ fd[y] = fd[x])
    /\ Release(x)
    /\ UNCHANGED <<made, json, fd, seen, up>>

-----------------------------------------------------------------------------
\* Nothing is left to do, or no further directory may be made.
Quiet ==
    /\ \/ \A x \in Processes : step[x] \in {"none", "idle", "exited", "failed"}
       \/ made = MaxDirs /\ dir = 0
    /\ UNCHANGED vars

Next ==
    \/ \E x \in Processes :
        CreateParent(x) \/ OpenLock(x) \/ TakeLock(x) \/ ReadState(x) \/ WriteState(x)
    \/ \E p \in Activators :
        \/ StartActivation(p) \/ AttachActivation(p) \/ Exit(p)
        \/ Wake(p) \/ Bail(p) \/ CleanupPid(p) \/ MonitorOnly(p) \/ RenameDir(p)
    \/ Quiet

Spec == Init /\ [][Next]_vars

-----------------------------------------------------------------------------
\* "A deserialized state.json together with a lock preventing it from being
\* modified": at most one process is between read_activations_json and the
\* release of the lock it returned, unless a cleanup renamed the directory while
\* another process was waiting for the lock file in it.
LockExcludes ==
    ~overlap => \A x, y \in Processes : InCriticalSection(x) /\ InCriticalSection(y) => x = y

\* An activator that has written its attachment, and whose shell is running, is
\* in the state.json that everybody reads as long as the executive of that state
\* lives: no concurrent start, attachment or cleanup overwrites it.
NoLostAttachment ==
    \A p \in Activators :
        ~overlap /\ step[Act(p)] = "idle" /\ ExecutiveAlive(seen[Act(p)].executive) =>
            /\ dir # 0
            /\ json[dir] # NoState
            /\ json[dir].executive = seen[Act(p)].executive
            /\ p \in json[dir].attached

Atomic == INSTANCE AtomicState WITH
    state <- IF dir = 0 THEN NoState ELSE json[dir],
    gone <- {p \in Activators : ~Running(p)},
    dead <- {e \in Activators : step[Exe(e)] \in {"exited", "failed"}}

\* The critical sections are atomic: the state at the path changes as if each
\* section were one step on what it finds, whatever processes are killed in one.
SectionsAtomic == Atomic!Spec
=============================================================================
