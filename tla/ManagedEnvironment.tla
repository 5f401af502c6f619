-------------------------- MODULE ManagedEnvironment --------------------------
(***************************************************************************)
(* Checkouts of ONE environment on FloxHub: the commands that change it,   *)
(* step by step, in several directories of several machines.               *)
(*                                                                         *)
(* Each machine has one floxmeta repository, with a sync branch (what was  *)
(* last fetched from FloxHub) that all of its checkouts share, and one     *)
(* branch per checkout.  A checkout has `.flox/env`, the generation lock   *)
(* `.flox/env.lock` and the pointer `.flox/env.json`.                      *)
(*                                                                         *)
(* git keeps the commits that no branch points at, so a revision is named  *)
(* by the history that ends with it, and a local_rev is always found on    *)
(* the machine that wrote it; generation locks are not copied to others.   *)
(***************************************************************************)
EXTENDS Generations

CONSTANTS Dirs,        \* directories a checkout may be in
          MachineOf,   \* the machine of each directory
          Procs,       \* how many commands may run at once
          Kinds,       \* the commands that are given
          Forces,      \* the values of --force that are given
          Targets,     \* the generations that `generations switch` is given
          HubDeletes,  \* the environment may be deleted on FloxHub
          Serial,      \* at most one command at a time runs in a directory
          MaxChanges,  \* no change is asked for after so many
          MaxCrashes,  \* bound on the commands that are killed
          NoBranch, NoLock, Partial

Machines == {MachineOf[d] : d \in Dirs}
AllKinds == {"open", "pullNew", "install", "sync", "reset", "switch", "rollback",
             "push", "pull", "delete", "convert", "import"}

\* An environment is named by the change that made it, and a branch is the
\* sequence of its changes.
Changes == Nat \ {0}
EnvStates == Changes \cup {NoEnv, Partial}
Entries(kind, envs) == [kind : {kind}, gen : Nat, prev : Nat, total : Nat,
                        env : envs, at : Changes]
Entry == Entries("add", Changes) \cup Entries("switch", {NoEnv})
Branches == Seq(Entry) \cup {NoBranch}
Locks == [rev : Branches, local : Branches] \cup {NoLock}

ASSUME ManagedAssumption ==
    /\ DOMAIN MachineOf = Dirs /\ "none" \notin Dirs
    /\ Kinds \subseteq AllKinds /\ Forces \subseteq BOOLEAN /\ Serial \in BOOLEAN
    /\ HubDeletes \in BOOLEAN
    /\ Targets \subseteq Nat /\ MaxChanges \in Nat /\ MaxCrashes \in Nat
    /\ NoEnv \notin Changes /\ Partial \notin Changes /\ NoEnv # Partial
    /\ NoBranch \notin Seq(Entry)
    /\ NoLock \notin [rev : Branches, local : Branches]

VARIABLES
    hub,        \* the branch on FloxHub, or NoBranch
    sync,       \* the sync branch of each machine, or NoBranch
    local,      \* the branch of each checkout, or NoBranch
    lock,       \* the generation lock of each directory, or NoLock
    env,        \* .flox/env: an environment, Partial, or NoEnv
    backup,     \* .flox/env.tmp, likewise
    pointer,    \* env.json: "managed" or "path", "none" without a .flox
    registered, \* the directories registered as managed environments
    cmd,        \* the commands
    clock,      \* changes made so far: names environments and timestamps
    crashes,    \* commands killed so far
    saved,      \* history: environments whose command reported success
    touched,    \* history: checkouts that a user edited, a crash left, or an
                \* import has not opened as what it pushed
    rewritten   \* history: --force has dropped commits from FloxHub

repoVars == <<hub, sync, local>>
dirVars == <<lock, env, backup, pointer>>
histVars == <<crashes, saved, touched, rewritten>>
vars == <<repoVars, dirVars, registered, cmd, clock, histVars>>

Steps == {"idle", "read", "branch", "opened", "swap", "swapping", "commit", "lock",
          "reset", "copy", "fetch", "compare", "push", "apply", "prune", "unlock",
          "deregister", "pointer"}

Idle == [at |-> "idle", kind |-> "none", dir |-> "none", force |-> FALSE,
         lock |-> NoLock, seen |-> NoBranch, env |-> NoEnv, target |-> 0,
         valid |-> TRUE]

TypeOK ==
    /\ hub \in Branches /\ sync \in [Machines -> Branches]
    /\ local \in [Dirs -> Branches] /\ lock \in [Dirs -> Locks]
    /\ env \in [Dirs -> EnvStates] /\ backup \in [Dirs -> EnvStates]
    /\ pointer \in [Dirs -> {"managed", "path", "none"}]
    /\ registered \subseteq Dirs /\ touched \subseteq Dirs
    /\ cmd \in [Procs -> [at : Steps, kind : AllKinds \cup {"none"},
                          dir : Dirs \cup {"none"}, force : BOOLEAN, lock : Locks,
                          seen : Branches, env : EnvStates, target : Nat,
                          valid : BOOLEAN]]
    /\ clock \in Nat /\ crashes \in 0..MaxCrashes
    /\ saved \in [Dirs -> SUBSET Changes] /\ rewritten \in BOOLEAN

\* Two generations, and the first one is live again.
SwitchedBack == SwitchGeneration(AddGeneration(AddGeneration(<<>>, 1, 1), 2, 2), 1, 3)

\* FloxHub has an environment or none, nothing is checked out, and some
\* directories have an environment of their own.
Init ==
    /\ clock = Len(SwitchedBack)
    /\ hub \in {NoBranch, SwitchedBack}
    /\ sync = [m \in Machines |-> NoBranch] /\ local = [d \in Dirs |-> NoBranch]
    /\ lock = [d \in Dirs |-> NoLock]
    /\ pointer \in [Dirs -> {"none", "path"}]
    /\ env = [d \in Dirs |-> IF pointer[d] = "path" THEN 1 ELSE NoEnv]
    /\ backup = [d \in Dirs |-> NoEnv]
    /\ registered = {} /\ touched = {} /\ crashes = 0 /\ rewritten = FALSE
    /\ saved = [d \in Dirs |-> {}]
    /\ cmd = [p \in Procs |-> Idle]

-----------------------------------------------------------------------------
Dir(p) == cmd[p].dir
Machine(p) == MachineOf[cmd[p].dir]
At(p, step) == cmd[p].at = step
Running(d) == {p \in Procs : cmd[p].at # "idle" /\ Dir(p) = d}
Go(p, step) == cmd' = [cmd EXCEPT ![p].at = step]
End(p) == cmd' = [cmd EXCEPT ![p] = Idle]

\* One clock stamps the changes of every machine, where the code takes each
\* machine's own time (Utc::now()).
Now == clock + 1
Tick == clock' = Now

Holds(d) == pointer[d] # "none"
CommandsIn(d) == CASE pointer[d] = "managed" -> AllKinds \ {"pullNew", "import"}
                   [] pointer[d] = "path" -> {"install", "import"}
                   [] OTHER -> {"pullNew"}

\* A command starts and reads the pointer, which `pull` into a new directory
\* writes.  That of a managed environment goes on to read the generation lock.
Begin(p, d, k, f) ==
    /\ At(p, "idle")
    /\ Serial => Running(d) = {}
    /\ k \in Kinds \cap CommandsIn(d)
    /\ f => k \in {"push", "pull", "import"}
    /\ k \in {"install", "sync", "switch", "rollback", "import"} => clock < MaxChanges
    /\ pointer' = [pointer EXCEPT ![d] = IF k = "pullNew" THEN "managed" ELSE @]
    /\ \E t \in IF k = "switch" THEN Targets ELSE {0} :
         cmd' = [cmd EXCEPT ![p] = [Idle EXCEPT
            !.at = IF pointer[d] # "path" THEN "read"
                   ELSE IF k = "install" THEN "swap" ELSE "push",
            !.kind = k, !.dir = d, !.force = f, !.lock = lock[d], !.target = t]]
    /\ UNCHANGED <<repoVars, lock, env, backup, registered, clock, histVars>>

-----------------------------------------------------------------------------
\* Mutant: the revision on FloxHub is always taken.
LockedRemote(l) == l.rev

\* The revision that a lock stands for.
LockedRev(l) == IF l.local # NoBranch THEN l.local ELSE l.rev

\* branch_contains_commit
ContainsCommit(h, rev) == h # NoBranch /\ IsPrefix(rev, h)

\* FloxMeta::open fetches the sync branch if there is none.
Opened(m) == IF sync[m] = NoBranch THEN hub ELSE sync[m]

\* Whether ensure_generation_locked has to fetch: nothing is locked, or a
\* revision of FloxHub that the checkout's branch does not have.
MustFetch(d, l) == l = NoLock \/ (l.local = NoBranch /\ ~ContainsCommit(local[d], l.rev))

\* FloxmetaBranch::new, which holds the floxmeta lock: open the repository,
\* make sure that the locked revision is there, and point the branch at it.
OpenBranch(p) ==
    LET d == Dir(p)
        l == cmd[p].lock
        fetched == IF MustFetch(d, l) THEN hub ELSE Opened(Machine(p))
        found == /\ Opened(Machine(p)) # NoBranch /\ fetched # NoBranch
                 /\ l = NoLock \/ ~MustFetch(d, l) \/ ContainsCommit(fetched, l.rev)
        validated == IF l = NoLock THEN [rev |-> fetched, local |-> NoBranch] ELSE l
    IN  /\ At(p, "read")
        /\ sync' = [sync EXCEPT ![Machine(p)] = IF fetched = NoBranch THEN Opened(Machine(p)) ELSE fetched]
        /\ IF found
           THEN /\ local' = [local EXCEPT ![d] = LockedRev(validated)]
                /\ cmd' = [cmd EXCEPT ![p].at = "branch", ![p].lock = validated]
                /\ UNCHANGED pointer
           ELSE /\ End(p)
                /\ pointer' = [pointer EXCEPT ![d] = IF cmd[p].kind = "pullNew" THEN "none" ELSE @]
                /\ UNCHANGED local
        /\ UNCHANGED <<hub, lock, env, backup, registered, clock, histVars>>

\* The rest of ManagedEnvironment::open: write the lock, register.
WriteLock(p) ==
    /\ At(p, "branch")
    /\ lock' = [lock EXCEPT ![Dir(p)] = cmd[p].lock]
    /\ registered' = registered \cup {Dir(p)}
    /\ touched' = IF cmd[p].kind = "import" /\ env[Dir(p)] = CurrentEnv(local[Dir(p)])
                  THEN touched \ {Dir(p)} ELSE touched
    /\ Go(p, "opened")
    /\ UNCHANGED <<repoVars, env, backup, pointer, clock, crashes, saved, rewritten>>

-----------------------------------------------------------------------------
\* .flox/env has a manifest that can be locked.
EnvComplete(d) == env[d] \in Changes

\* local_env_or_copy_current_generation
LocalEnv(d) == IF env[d] = NoEnv THEN CurrentEnv(local[d]) ELSE env[d]

\* validate_checkout: .flox/env is what the live generation is.
Valid(d) == LocalEnv(d) = CurrentEnv(local[d])

\* The generation that a command switches to.
TargetOf(p) == IF cmd[p].kind = "rollback" THEN PreviousGeneration(local[Dir(p)])
               ELSE cmd[p].target

MaySwitch(p) ==
    /\ cmd[p].kind = "rollback" => Cardinality(Created(local[Dir(p)])) > 1
    /\ ~SwitchRefused(local[Dir(p)], TargetOf(p))

\* What a command does once its environment is open and the checkout is there.
AfterOpen(p) ==
    LET k == cmd[p].kind
        valid == Valid(Dir(p))
    IN  CASE k = "install" /\ valid -> "swap"
          [] k \in {"switch", "rollback"} /\ valid /\ MaySwitch(p) -> "commit"
          [] k = "sync" /\ ~valid /\ EnvComplete(Dir(p)) -> "commit"
          [] k = "push" /\ valid -> "fetch"
          [] k = "pull" /\ (valid \/ cmd[p].force) -> "fetch"
          [] k = "convert" -> "prune"
          [] OTHER -> "idle"

\* The checks at the start of a command.  None gets past a history whose live
\* generation was never created: there is no directory to compare with.
Check(p) ==
    LET d == Dir(p) IN
    /\ At(p, "opened") /\ cmd[p].kind \notin {"reset", "delete"}
    /\ IF local[d] = NoBranch \/ ~Readable(local[d])
       THEN End(p) /\ UNCHANGED env
       ELSE /\ env' = [env EXCEPT ![d] = LocalEnv(d)]
            /\ IF AfterOpen(p) = "idle" THEN End(p)
               ELSE cmd' = [cmd EXCEPT ![p].at = AfterOpen(p), ![p].lock = NoLock,
                                       ![p].valid = Valid(d),
                                       ![p].seen = IF AfterOpen(p) \in {"swap", "commit"}
                                                   THEN local[d] ELSE NoBranch,
                                       ![p].target = IF cmd[p].kind \in {"switch", "rollback"}
                                                     THEN TargetOf(p) ELSE 0]
    /\ UNCHANGED <<repoVars, lock, backup, pointer, registered, clock, histVars>>

-----------------------------------------------------------------------------
\* Mutant: .flox/env is removed rather than renamed.
SwapOutNoBackup(p) ==
    LET d == Dir(p) IN
    /\ At(p, "swap")
    /\ IF backup[d] = NoEnv /\ env[d] # NoEnv
       THEN env' = [env EXCEPT ![d] = NoEnv] /\ Go(p, "swapping")
       ELSE End(p) /\ UNCHANGED env
    /\ UNCHANGED <<repoVars, lock, backup, pointer, registered, clock, histVars>>

\* replace_with, up to the rename of .flox/env to its backup.  The new
\* environment was locked and built before.
SwapOut(p) ==
    LET d == Dir(p) IN
    /\ At(p, "swap")
    /\ IF backup[d] = NoEnv /\ env[d] # NoEnv
       THEN /\ backup' = [backup EXCEPT ![d] = env[d]]
            /\ env' = [env EXCEPT ![d] = NoEnv]
            /\ Go(p, "swapping")
       ELSE End(p) /\ UNCHANGED <<env, backup>>
    /\ UNCHANGED <<repoVars, lock, pointer, registered, clock, histVars>>

\* The replacement is copied and the backup removed.  Only the command of a
\* managed environment has seen a branch, and commits to it.
SwapIn(p) ==
    LET d == Dir(p) IN
    /\ At(p, "swapping")
    /\ Tick
    /\ env' = [env EXCEPT ![d] = Now]
    /\ backup' = [backup EXCEPT ![d] = NoEnv]
    /\ IF cmd[p].seen = NoBranch THEN End(p) ELSE Go(p, "commit")
    /\ UNCHANGED <<repoVars, lock, pointer, registered, histVars>>

\* The copy fails: the backup is restored.
SwapFails(p) ==
    LET d == Dir(p) IN
    /\ At(p, "swapping")
    /\ env' = [env EXCEPT ![d] = backup[d]]
    /\ backup' = [backup EXCEPT ![d] = NoEnv]
    /\ End(p)
    /\ UNCHANGED <<repoVars, lock, pointer, registered, clock, histVars>>

\* add_generation or set_current_generation: a commit in a clone of the
\* branch, pushed to the branch.  What is committed is what .flox/env is now.
Commit(p) ==
    LET d == Dir(p)
        k == cmd[p].kind
        base == IF k = "sync" THEN local[d] ELSE cmd[p].seen
        now == IF k = "install" THEN clock ELSE Now
        next == IF k \in {"switch", "rollback"}
                THEN SwitchGeneration(base, cmd[p].target, now)
                ELSE AddGeneration(base, env[d], now)
    IN  /\ At(p, "commit")
        /\ clock' = now
        /\ IF \/ base = NoBranch
              \/ k \in {"install", "sync"} /\ ~EnvComplete(d)
              \/ local[d] # NoBranch /\ ~Pushable(next, local[d], FALSE)
           THEN End(p) /\ UNCHANGED local
           ELSE local' = [local EXCEPT ![d] = next] /\ Go(p, "lock")
        /\ UNCHANGED <<hub, sync, dirVars, registered, histVars>>

\* Mutant: the lock of a branch that was never pushed looks like that of one that was.
LockAsPushed(d) == [rev |-> local[d], local |-> NoBranch]

\* generation_lock: the sync branch, and the checkout's if it differs.
GenerationLock(d) ==
    LET m == MachineOf[d] IN
    [rev |-> sync[m], local |-> IF local[d] = sync[m] THEN NoBranch ELSE local[d]]

\* Mutant: nothing resets .flox/env after a pull or a switch.
LockPointerNoReset(p) ==
    LET d == Dir(p) IN
    /\ At(p, "lock") /\ sync[Machine(p)] # NoBranch /\ local[d] # NoBranch
    /\ lock' = [lock EXCEPT ![d] = GenerationLock(d)]
    /\ End(p)
    /\ UNCHANGED <<repoVars, env, backup, pointer, registered, clock, histVars>>

\* lock_pointer.  An installation or a sync has now succeeded.
LockPointer(p) ==
    LET d == Dir(p) IN
    /\ At(p, "lock")
    /\ IF sync[Machine(p)] = NoBranch \/ local[d] = NoBranch
       THEN End(p) /\ UNCHANGED <<lock, saved, touched>>
       ELSE /\ lock' = [lock EXCEPT ![d] = GenerationLock(d)]
            /\ IF cmd[p].kind \in {"install", "sync"}
               THEN /\ End(p)
                    /\ saved' = [saved EXCEPT ![d] = @ \cup {CurrentEnv(local[d])}]
                    /\ touched' = IF cmd[p].kind = "sync" THEN touched \ {d} ELSE touched
               ELSE Go(p, "reset") /\ UNCHANGED <<saved, touched>>
    /\ UNCHANGED <<repoVars, env, backup, pointer, registered, clock, crashes, rewritten>>

\* reset_local_env_to_current_generation, first half: the live generation is
\* checked out to a temporary directory, and .flox/env is removed.
RemoveEnv(p) ==
    LET d == Dir(p) IN
    /\ At(p, "reset") \/ (At(p, "opened") /\ cmd[p].kind = "reset")
    /\ IF local[d] = NoBranch \/ env[d] = NoEnv
       THEN End(p) /\ UNCHANGED env
       ELSE /\ env' = [env EXCEPT ![d] = NoEnv]
            /\ cmd' = [cmd EXCEPT ![p].at = "copy", ![p].lock = NoLock,
                                  ![p].env = CurrentEnv(local[d])]
    /\ UNCHANGED <<repoVars, lock, backup, pointer, registered, clock, histVars>>

\* ... second half: it is copied to a new .flox/env.
CopyEnv(p) ==
    /\ At(p, "copy")
    /\ env' = [env EXCEPT ![Dir(p)] = IF cmd[p].env = NoEnv THEN Partial ELSE cmd[p].env]
    /\ touched' = touched \ {Dir(p)}
    /\ End(p)
    /\ UNCHANGED <<repoVars, lock, backup, pointer, registered, clock, crashes, saved, rewritten>>

-----------------------------------------------------------------------------
\* fetch_remote_state.  A push goes on if there is nothing upstream.
Fetch(p) ==
    /\ At(p, "fetch")
    /\ sync' = [sync EXCEPT ![Machine(p)] = IF hub = NoBranch THEN @ ELSE hub]
    /\ IF hub # NoBranch \/ cmd[p].kind = "push" THEN Go(p, "compare") ELSE End(p)
    /\ UNCHANGED <<hub, local, dirVars, registered, clock, histVars>>

\* What push and pull do, given how the branch compares to the sync branch.
AfterCompare(p) ==
    LET ord == CompareBranches(local[Dir(p)], sync[Machine(p)])
        force == cmd[p].force
        pushes == cmd[p].kind = "push"
        ahead == ord \in {"Equal", "Ahead"}
    IN  CASE pushes /\ (ord = "Ahead" \/ force) -> "push"
          [] ~pushes /\ ahead /\ ~cmd[p].valid /\ force -> "reset"
          [] ~pushes /\ ~ahead /\ (ord = "Behind" \/ force) -> "apply"
          [] OTHER -> "idle"

Compare(p) ==
    /\ At(p, "compare")
    /\ IF \/ local[Dir(p)] = NoBranch \/ sync[Machine(p)] = NoBranch
          \/ AfterCompare(p) = "idle"
       THEN End(p) ELSE Go(p, AfterCompare(p))
    /\ UNCHANGED <<repoVars, dirVars, registered, clock, histVars>>

\* push: the branch replaces that on FloxHub if git accepts it.  A pull follows.
PushRef(p) ==
    LET h == local[Dir(p)] IN
    /\ At(p, "push") /\ cmd[p].kind = "push"
    /\ IF h # NoBranch /\ (hub = NoBranch \/ Pushable(h, hub, cmd[p].force))
       THEN /\ hub' = h
            /\ rewritten' = (rewritten \/ (hub # NoBranch /\ ~IsPrefix(hub, h)))
            /\ cmd' = [cmd EXCEPT ![p].at = "opened", ![p].kind = "pull"]
       ELSE End(p) /\ UNCHANGED <<hub, rewritten>>
    /\ UNCHANGED <<sync, local, dirVars, registered, clock, crashes, saved, touched>>

\* pull: the sync branch replaces the checkout's if git accepts it.
ApplyUpdates(p) ==
    LET d == Dir(p)
        h == sync[Machine(p)]
    IN  /\ At(p, "apply")
        /\ IF h # NoBranch /\ (local[d] = NoBranch \/ Pushable(h, local[d], cmd[p].force))
           THEN /\ local' = [local EXCEPT ![d] = h]
                /\ saved' = [saved EXCEPT ![d] = IF cmd[p].force THEN @ \cap Envs(h) ELSE @]
                /\ Go(p, "lock")
           ELSE End(p) /\ UNCHANGED <<local, saved>>
        /\ UNCHANGED <<hub, sync, dirVars, registered, clock, crashes, touched, rewritten>>

-----------------------------------------------------------------------------
\* Mutant: the sync branch goes with any of its checkouts.
NeedSyncNone(d) == {}

\* prune_branches_from_floxmeta.  The branches are listed before the first one
\* is deleted, so the checkout's own branch counts as one that needs the sync
\* branch.
NeedSync(d) ==
    {e \in Dirs : MachineOf[e] = MachineOf[d] /\ local[e] # NoBranch}

PruneBranches(d, s) ==
    /\ local' = [local EXCEPT ![d] = NoBranch]
    /\ sync' = [sync EXCEPT ![MachineOf[d]] = IF NeedSync(d) = {} THEN NoBranch ELSE s]
    /\ saved' = [saved EXCEPT ![d] = {}]

ClearDir(d) ==
    /\ pointer' = [pointer EXCEPT ![d] = "none"]
    /\ lock' = [lock EXCEPT ![d] = NoLock]
    /\ env' = [env EXCEPT ![d] = NoEnv] /\ backup' = [backup EXCEPT ![d] = NoEnv]
    /\ touched' = touched \ {d}

\* delete begins with the .flox directory.
RemoveDotFlox(p) ==
    /\ At(p, "opened") /\ cmd[p].kind = "delete"
    /\ ClearDir(Dir(p))
    /\ saved' = [saved EXCEPT ![Dir(p)] = {}]
    /\ Go(p, "prune")
    /\ UNCHANGED <<repoVars, registered, clock, crashes, rewritten>>

\* FloxmetaBranch::delete, for delete and into_path_environment.
Prune(p) ==
    /\ At(p, "prune")
    /\ PruneBranches(Dir(p), sync[Machine(p)])
    /\ Go(p, IF cmd[p].kind = "delete" THEN "deregister" ELSE "unlock")
    /\ UNCHANGED <<hub, dirVars, registered, clock, crashes, touched, rewritten>>

RemoveLock(p) ==
    /\ At(p, "unlock")
    /\ lock' = [lock EXCEPT ![Dir(p)] = NoLock]
    /\ Go(p, "deregister")
    /\ UNCHANGED <<repoVars, env, backup, pointer, registered, clock, histVars>>

Deregister(p) ==
    /\ At(p, "deregister")
    /\ registered' = registered \ {Dir(p)}
    /\ IF cmd[p].kind = "delete" \/ Dir(p) \notin registered
       THEN End(p) ELSE Go(p, "pointer")
    /\ UNCHANGED <<repoVars, dirVars, clock, histVars>>

\* push_new: a new history with one generation is pushed to FloxHub.
PushNew(p) ==
    LET d == Dir(p) IN
    /\ At(p, "push") /\ cmd[p].kind = "import"
    /\ IF EnvComplete(d) /\ (hub = NoBranch \/ cmd[p].force)
       THEN /\ Tick
            /\ hub' = AddGeneration(<<>>, env[d], Now)
            /\ rewritten' = (rewritten \/ hub # NoBranch)
            /\ Go(p, "pointer")
       ELSE End(p) /\ UNCHANGED <<hub, rewritten, clock>>
    /\ UNCHANGED <<sync, local, dirVars, registered, crashes, saved, touched>>

\* The pointer is rewritten: an imported environment is then opened.
WritePointer(p) ==
    LET d == Dir(p) IN
    /\ At(p, "pointer")
    /\ IF cmd[p].kind = "import"
       THEN /\ pointer' = [pointer EXCEPT ![d] = "managed"]
            /\ cmd' = [cmd EXCEPT ![p].at = "read", ![p].lock = lock[d]]
            /\ touched' = touched \cup {d}
       ELSE /\ pointer' = [pointer EXCEPT ![d] = "path"]
            /\ End(p)
            /\ UNCHANGED touched
    /\ UNCHANGED <<repoVars, lock, env, backup, registered, clock, crashes, saved, rewritten>>

-----------------------------------------------------------------------------
\* garbage_collect, for one directory that is gone.
GarbageCollect(d) ==
    /\ d \in registered /\ ~Holds(d)
    /\ Opened(MachineOf[d]) # NoBranch
    /\ PruneBranches(d, Opened(MachineOf[d]))
    /\ registered' = registered \ {d}
    /\ UNCHANGED <<hub, dirVars, cmd, clock, crashes, touched, rewritten>>

\* The user edits .flox/env/manifest.toml.
HandEdit(d) ==
    /\ Holds(d) /\ Running(d) = {} /\ env[d] \in Changes
    /\ clock < MaxChanges /\ Tick
    /\ env' = [env EXCEPT ![d] = Now]
    /\ touched' = touched \cup {d}
    /\ UNCHANGED <<repoVars, lock, backup, pointer, registered, cmd, crashes, saved, rewritten>>

\* The user removes the directory.
RemoveDir(d) ==
    /\ Holds(d) /\ Running(d) = {}
    /\ ClearDir(d)
    /\ saved' = [saved EXCEPT ![d] = {}]
    /\ UNCHANGED <<repoVars, registered, cmd, clock, crashes, rewritten>>

\* The user moves the backup back or deletes it, as PriorTransaction asks for.
RestoreBackup(d) ==
    /\ backup[d] # NoEnv /\ Running(d) = {}
    /\ \E e \in {backup[d], env[d]} \ {NoEnv} : env' = [env EXCEPT ![d] = e]
    /\ backup' = [backup EXCEPT ![d] = NoEnv]
    /\ touched' = touched \cup {d}
    /\ UNCHANGED <<repoVars, lock, pointer, registered, cmd, clock, crashes, saved, rewritten>>

\* Somebody deletes the environment on FloxHub.
DeleteUpstream ==
    /\ HubDeletes /\ hub # NoBranch
    /\ hub' = NoBranch
    /\ rewritten' = TRUE
    /\ UNCHANGED <<sync, local, dirVars, registered, cmd, clock, crashes, saved, touched>>

\* A command fails: the environment does not lock or build, or FloxHub does not
\* answer.
Fails(p) ==
    /\ cmd[p].at \in {"swap", "fetch", "push"} \/ (At(p, "commit") /\ cmd[p].kind = "sync")
    /\ End(p)
    /\ UNCHANGED <<repoVars, dirVars, registered, clock, histVars>>

\* A command is in the middle of removing or copying .flox/env.  The first one
\* after `pull` copies the generation as part of its checks.
Copying(p) ==
    LET d == Dir(p) IN
    \/ cmd[p].at \in {"swapping", "copy"}
    \/ /\ At(p, "opened") /\ cmd[p].kind \notin {"reset", "delete"}
       /\ env[d] = NoEnv /\ local[d] # NoBranch /\ Readable(local[d])

\* A command is killed.  What it was copying may be there in part.  An error
\* that ends a command in between two steps leaves the same state behind: of
\* such a copy, of add_generation, of lock_pointer, of restoring the backup.
Crash(p) ==
    LET d == Dir(p) IN
    /\ ~At(p, "idle") /\ crashes < MaxCrashes
    /\ crashes' = crashes + 1
    /\ \E e \in IF Copying(p) THEN {NoEnv, Partial} ELSE {env[d]} :
         env' = [env EXCEPT ![d] = e]
    /\ touched' = touched \cup {d}
    /\ End(p)
    /\ UNCHANGED <<repoVars, lock, backup, pointer, registered, clock, saved, rewritten>>

Step(p) ==
    \/ OpenBranch(p) \/ WriteLock(p) \/ Check(p)
    \/ SwapOut(p) \/ SwapIn(p) \/ SwapFails(p) \/ Commit(p) \/ LockPointer(p)
    \/ RemoveEnv(p) \/ CopyEnv(p)
    \/ Fetch(p) \/ Compare(p) \/ PushRef(p) \/ ApplyUpdates(p)
    \/ RemoveDotFlox(p) \/ Prune(p) \/ RemoveLock(p) \/ Deregister(p)
    \/ PushNew(p) \/ WritePointer(p) \/ Fails(p) \/ Crash(p)

Next ==
    \/ \E p \in Procs : Step(p)
    \/ \E p \in Procs, d \in Dirs, k \in Kinds, f \in Forces : Begin(p, d, k, f)
    \/ \E d \in Dirs : GarbageCollect(d) \/ HandEdit(d) \/ RemoveDir(d) \/ RestoreBackup(d)
    \/ DeleteUpstream

Spec == Init /\ [][Next]_vars

-----------------------------------------------------------------------------
\* A sync branch is what a branch on FloxHub was before.
AllBranches == ({hub} \cup {local[d] : d \in Dirs}) \ {NoBranch}

\* What generations() requires of a history, and says that add_generation and
\* switch_generation maintain: one creating event for every generation from 1
\* on, and a previous generation that is the one that was live before.
HistoryConsistent ==
    \A h \in AllBranches :
        LET created == Created(h) IN
        /\ created = 1..TotalGenerations(h) /\ Cardinality(Adds(h)) = TotalGenerations(h)
        /\ \A i \in DOMAIN h :
               /\ h[i].gen \in created
               /\ h[i].prev = IF i = 1 THEN NoGeneration ELSE h[i - 1].gen

\* Rollback returns to the generation that was live before the current one.
RollbackReturns ==
    \A h \in AllBranches : Cardinality(Created(h)) > 1 => PreviousGeneration(h) = Last(h).prev

\* A generation whose command reported success stays on the branch of its
\* checkout, whatever crashes later, until the user drops it (pull --force,
\* delete, conversion to a path environment).
SavedKept == \A d \in Dirs : local[d] # NoBranch => saved[d] \subseteq Envs(local[d])

\* In between commands, a checkout that no crash or editor has touched is what
\* its live generation is, and its lock names the tip of its branch.
InSync ==
    \A d \in Dirs : pointer[d] = "managed" /\ Running(d) = {} /\ d \notin touched =>
        /\ lock[d] # NoLock /\ local[d] # NoBranch
        /\ local[d] = IF lock[d].local = NoBranch THEN lock[d].rev ELSE lock[d].local
        /\ env[d] \in {NoEnv, CurrentEnv(local[d])}

\* The revision in a generation lock can be found again, as long as nobody has
\* dropped commits from FloxHub.
LockRecoverable ==
    \A d \in Dirs : lock[d] # NoLock /\ ~rewritten =>
        \/ lock[d].local # NoBranch
        \/ ContainsCommit(local[d], lock[d].rev) \/ ContainsCommit(hub, lock[d].rev)

\* No checkout loses the sync branch that its lock is computed from.
SyncKept == \A d \in Dirs : local[d] # NoBranch => sync[MachineOf[d]] # NoBranch

\* A transaction keeps .flox/env of a path environment, or a backup of it.
EnvOrBackup == \A d \in Dirs : pointer[d] = "path" => env[d] # NoEnv \/ backup[d] # NoEnv
=============================================================================
