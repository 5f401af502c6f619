----------------------------- MODULE Activation -----------------------------
(***************************************************************************)
(* Activations of ONE environment: the `flox-activations` processes that   *)
(* share {activation_state_dir}/state.json and the start state directories *)
(* next to it.                                                             *)
(*                                                                         *)
(*  - An activator (`flox-activations activate`) starts an activation or   *)
(*    attaches to a ready one.  It then execs the user's shell or command  *)
(*    (its PID becomes that shell), or prints a script that a user shell   *)
(*    evaluates in place.                                                  *)
(*  - The executive is a background process spawned by the first start.    *)
(*    It watches every attached PID and removes all state when the last    *)
(*    one is gone.                                                         *)
(*                                                                         *)
(* A step of a process between acquiring and releasing state.lock is one   *)
(* action; StateLock.tla models the lock file itself.  Process exits,      *)
(* kills and PID reuse interleave with everything.                         *)
(***************************************************************************)
EXTENDS ActivationState, Naturals

CONSTANTS Killable,        \* executives (by parent) that a signal may kill
          Reusable,        \* PIDs the kernel may give to another process
          Detachable,      \* PIDs that may run `flox-activations detach`
          RemonitorLimit   \* LoopGuard's limit

ASSUME ActivationAssumption ==
    /\ Killable \subseteq Activators
    /\ Reusable \subseteq Pids
    /\ Detachable \subseteq Pids
    /\ RemonitorLimit \in Nat

VARIABLES
    state,      \* state.json: a record of ActivationStates, or NoState
    startDirs,  \* the start state directories that exist
    pc,         \* where each process is
    ctx,        \* the ActivateCtx of each activator
    sid,        \* the start a live process believes it is attached to
    child,      \* the activator whose output a user shell waits for
    expired,    \* activators whose in-place expiration has passed
    exec,       \* where each executive is
    watch,      \* watch[e][p]: executive e's watcher thread for PID p
    notify,     \* executives with a StateFileChanged event in their channel
    cur,        \* the PID whose exit an executive is handling
    guard       \* LoopGuard: the last re-monitored PID and its count

vars == <<state, startDirs, pc, ctx, sid, child, expired,
          exec, watch, notify, cur, guard>>
procVars == <<pc, ctx, sid, child>>
execVars == <<exec, watch, cur, guard>>

Contexts == [store : Stores, mode : Modes, shell : UserShells \cup {NoPid}]

\* "foreign": an unrelated process that was given the PID; "gone": it exited.
ActivatorStates == {"free", "try", "waitExec", "hook", "mark", "attach",
                    "inplace", "printed", "shell", "user", "dead", "foreign",
                    "gone"}
ShellStates == {"user", "blocked", "eval", "shell", "dead", "foreign", "gone"}
ExecStates == {"none", "spawned", "watching", "idle", "recheck", "failed",
               "done", "dead"}
WatchStates == {"none", "wait", "sleep", "waitReused", "sleepReused", "sent",
                "skipped"}

TypeOK ==
    /\ state \in ActivationStates \cup {NoState}
    /\ startDirs \subseteq StartIds
    /\ pc \in [Pids -> ActivatorStates \cup ShellStates]
    /\ \A p \in Activators : pc[p] \in ActivatorStates
    /\ \A s \in UserShells : pc[s] \in ShellStates
    /\ ctx \in [Activators -> Contexts]
    /\ sid \in [Pids -> StartIds \cup {NoStart}]
    /\ child \in [UserShells -> Activators \cup {NoPid}]
    /\ expired \subseteq Activators
    /\ exec \in [Activators -> ExecStates]
    /\ watch \in [Activators -> [Pids -> WatchStates]]
    /\ notify \subseteq Activators
    /\ cur \in [Activators -> Pids \cup {NoPid}]
    /\ guard \in [Activators -> [pid : Pids \cup {NoPid}, count : Nat]]

-----------------------------------------------------------------------------
\* pid_is_running: some process has the PID, this one or another.
Running(p) == pc[p] \notin {"free", "dead", "gone"}

\* The process the model started under this PID is still there.
Alive(p) == Running(p) /\ pc[p] # "foreign"

ExecAlive(e) == exec[e] \in {"spawned", "watching", "idle", "recheck", "failed"}

\* Mutant: writes during the handling of an event are not noticed.
ListeningIdle == {e \in Activators : exec[e] = "idle"}

\* Executives whose file watcher reports a write of state.json.
Listening == {e \in Activators : ExecAlive(e) /\ exec[e] # "spawned"}

\* write_activations_json: replaces state.json, which the file watchers see.
Write(a) == state' = a /\ notify' = notify \cup Listening

\* Mutant: an executive that still initialises does not count as running.
ExecutiveInitialised(a) ==
    a.executive # NoPid /\ ExecAlive(a.executive) /\ exec[a.executive] # "spawned"

\* Mutant: the PID of the activator is recorded instead of the executive's.
ParentRunning(a) == a.executive # NoPid /\ Running(a.executive)

\* executive_running: the executive was started and its PID is running.  The
\* PIDs of executives are not reused here.
ExecutiveRunning(a) == a.executive # NoPid /\ ExecAlive(a.executive)

\* Mutant: the caller's mode overrides the stored one.
LoadedInMode(p) == IF state # NoState /\ ExecutiveRunning(state)
                   THEN [state EXCEPT !.mode = ctx[p].mode] ELSE New(ctx[p].mode)

\* What an activator works on once it holds the lock: the stored state, or a
\* new one if there is none or if its executive is not running.
Loaded(p) == IF state # NoState /\ ExecutiveRunning(state)
             THEN state ELSE New(ctx[p].mode)

\* Mutant: a start in progress is waited for even if its starter is gone.
StartingForEver(a) == a.ready.is = "starting"

\* start_or_attach answers AlreadyStarting: the caller sleeps and retries.
AlreadyStarting(a) == a.ready.is = "starting" /\ Running(a.ready.pid)

CanAttach(a, p) == a.ready.is = "true" /\ a.ready.start.store = ctx[p].store

Init ==
    /\ state = NoState
    /\ startDirs = {}
    /\ pc = [p \in Pids |-> IF p \in Activators THEN "free" ELSE "user"]
    /\ ctx \in [Activators -> Contexts]
    /\ sid = [p \in Pids |-> NoStart]
    /\ child = [s \in UserShells |-> NoPid]
    /\ expired = {}
    /\ exec = [e \in Activators |-> "none"]
    /\ watch = [e \in Activators |-> [p \in Pids |-> "none"]]
    /\ notify = {}
    /\ cur = [e \in Activators |-> NoPid]
    /\ guard = [e \in Activators |-> [pid |-> NoPid, count |-> 0]]

-----------------------------------------------------------------------------
(* Activators.                                                             *)

\* `flox activate` in a terminal, with a command, or within eval "$(...)":
\* then the user shell waits for the output.
Activate(p) ==
    /\ pc[p] = "free"
    /\ LET s == ctx[p].shell
       IN  IF s = NoPid
           THEN /\ pc' = [pc EXCEPT ![p] = "try"]
                /\ UNCHANGED child
           ELSE /\ pc[s] \in {"user", "shell"}
                /\ pc' = [pc EXCEPT ![p] = "try", ![s] = "blocked"]
                /\ child' = [child EXCEPT ![s] = p]
    /\ UNCHANGED <<state, startDirs, ctx, sid, expired, execVars, notify>>

\* try_start_or_attach refuses an activation in another mode.
RefuseMode(p) ==
    /\ pc[p] = "try"
    /\ Loaded(p).mode # ctx[p].mode
    /\ pc' = [pc EXCEPT ![p] = "dead"]
    /\ UNCHANGED <<state, startDirs, ctx, sid, child, expired, execVars, notify>>

\* try_start_or_attach attaches to the ready start of the same store path.
Attach(p) ==
    LET a == Loaded(p) IN
    /\ pc[p] = "try"
    /\ a.mode = ctx[p].mode
    /\ CanAttach(a, p)
    /\ Write(AttachTo(a, p, a.ready.start))
    /\ sid' = [sid EXCEPT ![p] = a.ready.start]
    /\ pc' = [pc EXCEPT ![p] = "attach"]
    /\ UNCHANGED <<startDirs, ctx, child, expired, execVars>>

\* try_start_or_attach starts: a start directory, an executive if the state
\* has none, and the new state, all before the lock is released.  The case
\* without a project (containerize), where the activator names itself as its
\* executive, is left out.
Start(p) ==
    LET a == Loaded(p)
        id == [store |-> ctx[p].store, by |-> p]
        spawn == a.executive = NoPid
    IN
    /\ pc[p] = "try"
    /\ a.mode = ctx[p].mode
    /\ ~AlreadyStarting(a)
    /\ ~CanAttach(a, p)
    /\ startDirs' = startDirs \cup {id}
    /\ Write([StartBy(a, p, id) EXCEPT !.executive = IF spawn THEN p ELSE @])
    /\ exec' = IF spawn THEN [exec EXCEPT ![p] = "spawned"] ELSE exec
    /\ sid' = [sid EXCEPT ![p] = id]
    /\ pc' = [pc EXCEPT ![p] = IF spawn THEN "waitExec" ELSE "hook"]
    /\ UNCHANGED <<ctx, child, expired, watch, cur, guard>>

\* wait_for_executive: SIGCHLD says that the executive died.
ExecutiveLost(p) ==
    /\ pc[p] = "waitExec"
    /\ ~ExecAlive(p)
    /\ pc' = [pc EXCEPT ![p] = "dead"]
    /\ UNCHANGED <<state, startDirs, ctx, sid, child, expired, execVars, notify>>

\* The activate script ran hook.on-activate and left end.env.json behind,
\* which fails when the start directory is not there any more.
HookCompletes(p) ==
    /\ pc[p] = "hook"
    /\ pc' = [pc EXCEPT ![p] = IF sid[p] \in startDirs THEN "mark" ELSE "dead"]
    /\ UNCHANGED <<state, startDirs, ctx, sid, child, expired, execVars, notify>>

\* Re-acquire the lock and mark the start ready; "state.json should exist".
MarkReady(p) ==
    /\ pc[p] = "mark"
    /\ IF state = NoState
       THEN /\ pc' = [pc EXCEPT ![p] = "dead"]
            /\ UNCHANGED <<state, notify>>
       ELSE /\ Write(SetReady(state, sid[p]))
            /\ pc' = [pc EXCEPT ![p] = "attach"]
    /\ UNCHANGED <<startDirs, ctx, sid, child, expired, execVars>>

\* attach reads StartDiff from the start directory, then execs the shell or
\* goes on to the in-place script.
LoadStartDiff(p) ==
    /\ pc[p] = "attach"
    /\ pc' = [pc EXCEPT ![p] =
                IF sid[p] \notin startDirs THEN "dead"
                ELSE IF ctx[p].shell = NoPid THEN "shell" ELSE "inplace"]
    /\ UNCHANGED <<state, startDirs, ctx, sid, child, expired, execVars, notify>>

\* activate_in_place: give the own attachment an expiration, then print the
\* script; nothing is printed if the attachment is not there.
ActivateInPlace(p) ==
    /\ pc[p] = "inplace"
    /\ IF state # NoState /\ CanReplace(state, p, sid[p])
       THEN /\ Write(ReplaceAttachment(state, sid[p], p, p, TRUE))
            /\ pc' = [pc EXCEPT ![p] = "printed"]
       ELSE /\ pc' = [pc EXCEPT ![p] = "dead"]
            /\ UNCHANGED <<state, notify>>
    /\ UNCHANGED <<startDirs, ctx, sid, child, expired, execVars>>

\* The in-place activator exits: its output is the user shell's to evaluate.
ExitPrinted(p) ==
    LET s == ctx[p].shell IN
    /\ pc[p] = "printed"
    /\ pc' = [pc EXCEPT ![p] = "dead",
                        ![s] = IF @ = "blocked" THEN "eval" ELSE @]
    /\ UNCHANGED <<state, startDirs, ctx, sid, child, expired, execVars, notify>>

-----------------------------------------------------------------------------
(* User shells and detach.                                                 *)

\* The user shell evaluates `flox-activations attach --pid $$ --remove-pid p`.
EvalAttach(s) ==
    LET p == child[s]
        ok == state # NoState /\ CanReplace(state, p, sid[p])
    IN
    /\ pc[s] = "eval"
    /\ child' = [child EXCEPT ![s] = NoPid]
    /\ IF ok
       THEN /\ Write(ReplaceAttachment(state, sid[p], p, s, FALSE))
            /\ sid' = [sid EXCEPT ![s] = sid[p]]
            /\ pc' = [pc EXCEPT ![s] = "shell"]
       ELSE /\ pc' = [pc EXCEPT ![s] = IF sid[s] = NoStart THEN "user" ELSE "shell"]
            /\ UNCHANGED <<state, notify, sid>>
    /\ UNCHANGED <<startDirs, ctx, expired, execVars>>

\* The activator exited without a script: the user shell carries on.
Resume(s) ==
    /\ pc[s] = "blocked"
    /\ ~Alive(child[s])
    /\ child' = [child EXCEPT ![s] = NoPid]
    /\ pc' = [pc EXCEPT ![s] = IF sid[s] = NoStart THEN "user" ELSE "shell"]
    /\ UNCHANGED <<state, startDirs, ctx, sid, expired, execVars, notify>>

\* `flox-activations detach`, evaluated by a shell that stays alive.  The
\* start directory is removed before state.json is written; a failure to
\* remove it leaves state.json as it was.
Detach(p) ==
    LET attached == state # NoState /\ p \in DOMAIN state.attached IN
    /\ pc[p] = "shell"
    /\ p \in Detachable
    /\ IF attached /\ EmptiedBy(state, p) \subseteq startDirs
       THEN /\ Write(DetachPid(state, p))
            /\ startDirs' = startDirs \ EmptiedBy(state, p)
       ELSE UNCHANGED <<state, startDirs, notify>>
    /\ sid' = [sid EXCEPT ![p] = NoStart]
    /\ pc' = [pc EXCEPT ![p] = "user"]
    /\ UNCHANGED <<ctx, child, expired, execVars>>

\* A process ends, at any point: a shell exits, a hook fails, a signal kills.
Exit(p) ==
    /\ Alive(p)
    /\ pc[p] # "printed"
    /\ pc' = [pc EXCEPT ![p] = "dead"]
    /\ UNCHANGED <<state, startDirs, ctx, sid, child, expired, execVars, notify>>

\* The kernel gives the PID of an exited process to an unrelated one.
ReusePid(p) ==
    /\ p \in Reusable
    /\ pc[p] = "dead"
    /\ pc' = [pc EXCEPT ![p] = "foreign"]
    /\ UNCHANGED <<state, startDirs, ctx, sid, child, expired, execVars, notify>>

ForeignExit(p) ==
    /\ pc[p] = "foreign"
    /\ pc' = [pc EXCEPT ![p] = "gone"]
    /\ UNCHANGED <<state, startDirs, ctx, sid, child, expired, execVars, notify>>

\* Five seconds pass after activate_in_place.
Expire(p) ==
    /\ p \notin expired
    /\ \/ state # NoState /\ p \in DOMAIN state.attached /\ state.attached[p].exp
       \/ \E e \in Activators : watch[e][p] \in {"sleep", "sleepReused"}
    /\ expired' = expired \cup {p}
    /\ UNCHANGED <<state, startDirs, procVars, execVars, notify>>

-----------------------------------------------------------------------------
(* The executive.                                                          *)

\* Mutant: the watcher thread does not sleep until the expiration.
WatcherSleepless(p, exp) == IF pc[p] = "foreign" THEN "waitReused" ELSE "wait"

\* spawn_pid_watcher: the thread holds a handle on the process that has the
\* PID now, and sleeps first if the attachment has an expiration.
Watcher(p, exp) ==
    IF pc[p] = "foreign"
    THEN IF exp THEN "sleepReused" ELSE "waitReused"
    ELSE IF exp THEN "sleep" ELSE "wait"

\* ensure_monitoring_pids: start_monitoring is a no-op for a known PID.
Monitoring(e, pids) ==
    [p \in Pids |-> IF p \in pids /\ watch[e][p] \in {"none", "skipped"}
                    THEN Watcher(p, state.attached[p].exp)
                    ELSE watch[e][p]]

\* spawn_all_watchers.
SpawnAllWatchers(e) ==
    /\ exec[e] = "spawned"
    /\ IF state = NoState
       THEN exec' = [exec EXCEPT ![e] = "dead"] /\ UNCHANGED watch
       ELSE /\ exec' = [exec EXCEPT ![e] = "watching"]
            /\ watch' = [watch EXCEPT ![e] = Monitoring(e, DOMAIN state.attached)]
    /\ UNCHANGED <<state, startDirs, procVars, expired, notify, cur, guard>>

\* kill(parent, SIGUSR1): fails when the parent is gone, and the executive
\* exits; a process that got the parent's PID does not expect the signal.
SignalParent(e) ==
    /\ exec[e] = "watching"
    /\ exec' = [exec EXCEPT ![e] = IF Running(e) THEN "idle" ELSE "dead"]
    /\ pc' = [pc EXCEPT ![e] = CASE @ = "waitExec" -> "hook"
                                 [] @ = "foreign"  -> "gone"
                                 [] OTHER          -> @]
    /\ UNCHANGED <<state, startDirs, ctx, sid, child, expired, notify,
                   watch, cur, guard>>

\* A watcher thread sees its process exit and sends ProcessExited.  While
\* another process has the PID, the thread may already hold a handle on that
\* one (it opens the handle some time after it is spawned): it may, but need
\* not, fire.  A handle that cannot be opened or waited for, where the thread
\* fires at once, is left out unless the process is gone.
WatcherFires(e, p) ==
    /\ ExecAlive(e)
    /\ \/ watch[e][p] \in {"wait", "sleep"} /\ pc[p] \in {"dead", "foreign", "gone"}
       \/ watch[e][p] \in {"waitReused", "sleepReused"} /\ pc[p] = "gone"
    /\ watch[e][p] \in {"sleep", "sleepReused"} => p \in expired
    /\ watch' = [watch EXCEPT ![e][p] = "sent"]
    /\ UNCHANGED <<state, startDirs, procVars, expired, notify, exec, cur, guard>>

\* cleanup_pid keeps an attachment that is unexpired or whose PID is running.
Keeps(p) == Running(p) \/ (state.attached[p].exp /\ p \notin expired)

\* cleanup_pid on the loaded state, before anything is written.
CleanedUp(p) == IF p \in DOMAIN state.attached /\ ~Keeps(p)
                THEN DetachPid(state, p) ELSE state

\* The start directory that watcher::cleanup_pid has to remove.
ToRemove(p) == IF p \in DOMAIN state.attached /\ ~Keeps(p)
               THEN EmptiedBy(state, p) ELSE {}

\* cleanup_all: the activation state directory is renamed away and removed.
RemoveAll == state' = NoState /\ startDirs' = {}

\* handle_process_exited up to the end of its first critical section.
ProcessExited(e, p) ==
    /\ exec[e] = "idle"
    /\ watch[e][p] = "sent"
    /\ watch' = [watch EXCEPT ![e][p] = "none"]
    /\ IF state = NoState
       THEN /\ exec' = [exec EXCEPT ![e] = "dead"]
            /\ UNCHANGED <<state, startDirs, notify, cur>>
       ELSE LET a == CleanedUp(p) IN
            IF DOMAIN a.attached = {}
            THEN /\ RemoveAll
                 /\ exec' = [exec EXCEPT ![e] = "done"]
                 /\ UNCHANGED <<notify, cur>>
            ELSE IF ToRemove(p) \subseteq startDirs
            THEN /\ startDirs' = startDirs \ ToRemove(p)
                 /\ IF a = state THEN UNCHANGED <<state, notify>> ELSE Write(a)
                 /\ exec' = [exec EXCEPT ![e] = "recheck"]
                 /\ cur' = [cur EXCEPT ![e] = p]
            ELSE /\ exec' = [exec EXCEPT ![e] = "failed"]
                 /\ UNCHANGED <<state, startDirs, notify, cur>>
    /\ UNCHANGED <<procVars, expired, guard>>

\* LoopGuard::allow_remonitor.
NextGuard(g, p) == IF g.pid = p THEN [g EXCEPT !.count = @ + 1]
                   ELSE [pid |-> p, count |-> 1]

\* handle_process_exited's second critical section: a PID that is still in
\* the state is monitored again, unless the guard says it was too often.
RecheckPid(e) ==
    LET p == cur[e] IN
    /\ exec[e] = "recheck"
    /\ exec' = [exec EXCEPT ![e] = IF state = NoState THEN "dead" ELSE "idle"]
    /\ cur' = [cur EXCEPT ![e] = NoPid]
    /\ IF state # NoState /\ p \in DOMAIN state.attached
       THEN LET g == NextGuard(guard[e], p) IN
            /\ guard' = [guard EXCEPT ![e] = g]
            /\ watch' = [watch EXCEPT ![e] =
                           IF g.count <= RemonitorLimit
                           THEN Monitoring(e, {p})
                           ELSE [@ EXCEPT ![p] = "skipped"]]
       ELSE UNCHANGED <<guard, watch>>
    /\ UNCHANGED <<state, startDirs, procVars, expired, notify>>

\* handle_process_exited after cleanup_pid failed: clean up if nothing is
\* attached any more, and exit with the error in any case.
CleanupAfterError(e) ==
    /\ exec[e] = "failed"
    /\ exec' = [exec EXCEPT ![e] = "dead"]
    /\ IF state # NoState /\ DOMAIN state.attached = {}
       THEN RemoveAll ELSE UNCHANGED <<state, startDirs>>
    /\ UNCHANGED <<procVars, expired, notify, watch, cur, guard>>

\* Mutant: a state without attachments is left to the next exit event.
StateFileChangedNoCleanup(e) ==
    /\ exec[e] = "idle"
    /\ e \in notify
    /\ notify' = notify \ {e}
    /\ state # NoState
    /\ watch' = [watch EXCEPT ![e] = Monitoring(e, DOMAIN state.attached)]
    /\ UNCHANGED <<state, startDirs, exec, procVars, expired, cur, guard>>

\* The StateFileChanged handler: monitor new PIDs, or clean up if a detach
\* took the last one.
StateFileChanged(e) ==
    /\ exec[e] = "idle"
    /\ e \in notify
    /\ notify' = notify \ {e}
    /\ IF state = NoState
       THEN exec' = [exec EXCEPT ![e] = "dead"] /\ UNCHANGED <<state, startDirs, watch>>
       ELSE /\ watch' = [watch EXCEPT ![e] = Monitoring(e, DOMAIN state.attached)]
            /\ IF DOMAIN state.attached = {}
               THEN RemoveAll /\ exec' = [exec EXCEPT ![e] = "done"]
               ELSE UNCHANGED <<state, startDirs, exec>>
    /\ UNCHANGED <<procVars, expired, cur, guard>>

\* TerminationSignal, or an uncaught signal: the executive exits and leaves
\* the activation as it is.
Terminate(e) ==
    /\ e \in Killable
    /\ ExecAlive(e)
    /\ exec' = [exec EXCEPT ![e] = "dead"]
    /\ UNCHANGED <<state, startDirs, procVars, expired, notify, watch, cur, guard>>

-----------------------------------------------------------------------------
\* Every process has ended; an executive is gone or waits for events (that it
\* does not wait in vain is CleanedUpAtLast).
Finished ==
    /\ \A p \in Pids : ~Running(p)
    /\ \A e \in Activators : ExecAlive(e) => exec[e] = "idle"
    /\ UNCHANGED vars

ActivatorStep(p) ==
    \/ RefuseMode(p) \/ Attach(p) \/ Start(p) \/ ExecutiveLost(p)
    \/ HookCompletes(p) \/ MarkReady(p) \/ LoadStartDiff(p) \/ ActivateInPlace(p)
    \/ ExitPrinted(p)

\* The executive's main thread.
MainThread(e) ==
    \/ SpawnAllWatchers(e) \/ SignalParent(e) \/ RecheckPid(e)
    \/ CleanupAfterError(e) \/ StateFileChanged(e)
    \/ \E p \in Pids : ProcessExited(e, p)

ExecutiveStep(e) == MainThread(e) \/ \E p \in Pids : WatcherFires(e, p)

Next ==
    \/ \E p \in Activators :
        Activate(p) \/ ActivatorStep(p) \/ ExecutiveStep(p) \/ Terminate(p)
    \/ \E s \in UserShells : EvalAttach(s) \/ Resume(s)
    \/ \E p \in Pids : Detach(p) \/ Exit(p) \/ ReusePid(p) \/ ForeignExit(p)
    \/ \E p \in Activators : Expire(p)
    \/ Finished

Spec == Init /\ [][Next]_vars

-----------------------------------------------------------------------------
NoExecutiveDied == \A e \in Activators : exec[e] # "dead"

\* A live process that start_or_attach or the in-place script has registered.
Joined(p) == Alive(p) /\ sid[p] # NoStart

\* The executive that is alive is the one state.json names: state.json never
\* disappears beneath an executive ("executive shouldn't be running when
\* state.json doesn't exist") and two executives never coexist, whatever is
\* killed and whichever PIDs are reused.
ExecutiveOwnsState ==
    \A e \in Activators : ExecAlive(e) => state # NoState /\ state.executive = e

\* Unless an executive died, a registered live process stays attached to its
\* own start: no cleanup, reset or replacement of another process loses it.
AttachmentsKept ==
    NoExecutiveDied =>
        \A p \in Pids : Joined(p) =>
            /\ state # NoState
            /\ p \in DOMAIN state.attached
            /\ state.attached[p].start = sid[p]

\* Unless an executive died, live activators agree with state.json, and so
\* with each other, on the mode.
ModesAgree ==
    NoExecutiveDied =>
        \A p \in Activators : Joined(p) => state.mode = ctx[p].mode

\* Without detach, and unless an executive died, a start that is attached to
\* or that can be attached to has its directory: attach reads it without the
\* lock.
StartDirsPresent ==
    Detachable = {} /\ NoExecutiveDied /\ state # NoState =>
        /\ \A p \in DOMAIN state.attached : state.attached[p].start \in startDirs
        /\ state.ready.is = "true" => state.ready.start \in startDirs

\* No wake-up is missed: the executive knows every attached PID (it has a
\* watcher thread, or the loop guard gave it up), or an event that will make
\* it known is pending.
AttachedPidsWatched ==
    \A e \in Activators : exec[e] \in {"watching", "idle", "recheck"} =>
        \A p \in DOMAIN state.attached :
            \/ watch[e][p] # "none"
            \/ e \in notify
            \/ exec[e] = "recheck" /\ cur[e] = p

\* The loop guard never gives a PID up: an exit event for a PID that stays
\* attached is followed by at most RemonitorLimit others for the same PID.
GuardNeverTrips ==
    \A e \in Activators, p \in Pids : watch[e][p] # "skipped"

-----------------------------------------------------------------------------
(* The parts of the inductive invariant behind these properties.           *)

\* Processes that have registered a start, and those that did not yet.
StartRecorded ==
    \A p \in Activators :
        /\ pc[p] \in {"free", "try"} => sid[p] = NoStart /\ exec[p] = "none"
        /\ pc[p] \in {"waitExec", "hook", "mark", "attach", "inplace", "printed"}
              => sid[p] # NoStart

\* state.json names an executive that was spawned and did not clean up.
ExecutiveRecorded ==
    state # NoState =>
        /\ state.executive \in Activators
        /\ ExecAlive(state.executive) \/ exec[state.executive] = "dead"

\* A user shell waits for one activator at a time, and evaluates the output
\* of one that has exited.
OneChild ==
    \A s \in UserShells :
        /\ \A p \in Activators :
             (Alive(p) /\ ctx[p].shell = s) =>
                \/ pc[s] = "blocked" /\ child[s] = p
                \/ pc[s] \in {"dead", "foreign", "gone"}
        /\ pc[s] = "eval" => /\ child[s] \in Activators
                             /\ pc[child[s]] \in {"dead", "foreign", "gone"}

Inv == /\ TypeOK /\ StartRecorded /\ ExecutiveRecorded /\ OneChild
       /\ ExecutiveOwnsState /\ AttachmentsKept /\ ModesAgree
       /\ StartDirsPresent /\ AttachedPidsWatched

-----------------------------------------------------------------------------
(* Liveness.  The executive's threads and the activators keep running, and *)
(* a hook is assumed to terminate; nothing makes a shell exit.             *)

Fairness ==
    /\ \A e \in Activators :
        /\ WF_vars(MainThread(e))
        /\ \A p \in Pids : WF_vars(pc[p] # "foreign" /\ WatcherFires(e, p))
    /\ \A p \in Activators :
        /\ WF_vars(ActivatorStep(p))
        /\ WF_vars(Expire(p))

LiveSpec == Spec /\ Fairness

\* Every process that could be attached has exited for good.
AllExited == \A p \in Pids : pc[p] \in {"dead", "gone"}

\* Once every process has exited, the executive removes the activation state
\* directory, or it has died itself.
CleanedUpAtLast == AllExited ~> (state = NoState \/ ~NoExecutiveDied)

\* Nobody waits for ever behind another start: start_or_attach's retry loop
\* ends, as long as hooks do and a dead starter's PID is not reused.
RetryEnds == \A p \in Activators : pc[p] = "try" ~> pc[p] # "try"
=============================================================================
