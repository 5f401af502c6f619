# A TLA+ model of flox

This directory holds TLA+ modules for the parts of flox where several
processes, machines or points in time share state, TLC configurations that
check them on small instances, and TLAPS proofs. Source paths below are relative
to `cli/` in the repository.

## The system

`flox` is a command line program around environments (a manifest, a lockfile
and a build in the Nix store).

| Part | State it keeps | Operations | Hard because |
|---|---|---|---|
| activation state, `flox-core/src/activations.rs` | `state.json`: mode, `ready`, executive PID, attached PIDs with their start and expiration, start of the current process-compose | start or attach, set ready, detach, clean up a PID, replace an attachment | every activation of the environment reads and writes it |
| `state.lock`, same file | a lock file in the activation state directory | open, lock, release; the directory is renamed away at cleanup | the file is found by path, the lock is on an inode |
| `flox-activations activate`, `attach`, `detach` | its own PID, which becomes the user's shell; start state directories | start (hook, then mark ready), attach to a ready start, retry while another process starts, hand over to a shell in place, detach | any process may exit at any point, and PIDs are reused |
| executive, `flox-activations/src/cli/executive/` | watcher threads, an event channel, a loop guard | handle exits, state changes, SIGUSR1, termination; clean up after the last PID | events are late, early, coalesced or missed |
| services, `flox/src/commands/services/`, `flox-activations/src/process_compose.rs` | a process-compose instance, its socket file | start, restart, stop, activate with services | a request crosses four processes, and the socket file stands for the instance |
| managed environments, `flox-rust-sdk/src/models/environment/` | `.flox/`, a generation lock, branches of a floxmeta clone, a branch on FloxHub | install, sync, switch, rollback, pull, push, delete, convert, import | several checkouts share a clone and a remote; a command may die between two steps |
| environment registry, `flox-rust-sdk/src/models/env_registry.rs` | a JSON file with a lock | register, deregister, prune | shared by all commands |
| locking, `flox-rust-sdk/src/providers/lock_manifest.rs`, composition in `flox-manifest/` | manifest and lockfile | lock, install, edit, upgrade, include upgrade | a lock keeps part of the last one, while the catalog and the includes move on |
| events, `flox-events/`, `flox/src/utils/metrics.rs` | a buffer file with a lock | record, flush | several processes, a network that fails, a process that is replaced by exec |
| shell hook, `flox/src/commands/hook_env.rs`, `deactivate.rs` | variables of the user's shell | activate and deactivate as the directory changes | a stack of diffs that a user and the hook both change |
| building, publishing, catalog clients, authentication | files and network | sequential | |

How they interact: `flox activate` locks and builds the environment, then execs
`flox-activations activate`, which takes `state.lock`, starts or attaches, and
writes `state.json`. The first start spawns the executive and waits for a
signal from it; the executive watches `state.json` and every attached PID.
`flox services` reads `state.json` and the socket, talks to process-compose,
or runs `flox activate` again with a list of services; that process signals the
executive, which spawns process-compose. The prompt hook activates in place and
detaches. Commands that change a managed environment lock the new manifest,
swap `.flox/env` and commit a generation. Every command records events.

What makes each part correct: a live activation is never cleaned up beneath a
process that is attached to it, and a dead one always is, at last; one executive
and one process-compose per activation; a lock that excludes; commands that end;
a generation that was made is not lost; a lockfile that says what the manifest says and moves only when it is told to; no event lost
without a reason; a shell that a deactivation puts back as it was.

`PROJECT.json` lists every component with what is left out and why, and the
hazards that the properties are aimed at.

## Modules

| Module | Models |
|---|---|
| `ActivationState` | the record in `state.json` and the methods of `ActivationState`, as operators |
| `Activation` | activators, in-place shells, detach and the executive of one environment |
| `ActivationProofs` | the theorems about `Activation` |
| `AtomicState` | what `state.lock` is for: critical sections as single steps |
| `StateLock` | the steps by which `state.lock` is taken and the directory is renamed away; implements `AtomicState` |
| `StateLockProofs` | the theorems about `StateLock`, the refinement among them |
| `Services` | services commands, the executive and process-compose, on top of `ActivationState` |
| `ServicesProofs` | the theorems about `Services` |
| `Generations` | the history of a managed environment, as operators |
| `ManagedEnvironment` | the checkouts of an environment on FloxHub, on top of `Generations` |
| `ManagedProofs` | the theorems about histories, FloxHub and generation locks |
| `CheckoutProofs` | the theorems about checkouts in which one command runs at a time, on top of `ManagedProofs` |
| `Locking` | manifest, includes and lockfile, and the commands that change them |
| `LockingProofs` | the theorems about `Locking` |
| `Events` | the events buffer, in the two pipelines |
| `EventsProofs` | the theorems about `Events` |
| `AutoActivation` | the prompt hook and deactivations in one terminal |
| `HookProofs` | the theorems about `AutoActivation` |
| `MCActivation`, `MCServices`, `MCManaged`, `MCLocking`, `MCHook` | constants, symmetry and initial states for TLC |

### ActivationState and Activation

A start identifier is a store path with a timestamp in milliseconds. An
activator starts at most once, so the model names the start after the activator
(`by`), and likewise the executive after the activator that spawned it. Two
starts never share a timestamp in the model.

A critical section under `state.lock` is one action: `Attach`, `Start`,
`MarkReady`, `ActivateInPlace`, `EvalAttach`, `Detach`, `ProcessExited`,
`RecheckPid`, `StateFileChanged`. What happens between critical sections is an
action of its own: the hook, the wait for the executive, reading the start
directory (`LoadStartDiff`, after the lock was dropped), the evaluation of the
in-place script by the user shell. `Write` also records that the file watchers
of running executives saw the change; events in a channel are sets (a
`StateFileChanged` event is pending or not, a watcher thread has sent its event
or not).

`pc` holds where a process is; after `LoadStartDiff` it is the user's shell.
`Exit` may happen at any point (an exit, a failing hook, a kill), except
between printing the script and exiting. With `Reusable`, the PID of an exited
process may be given to an unrelated one ("foreign"); `Running` is what
`pid_is_running` answers, `Alive` is the truth. A watcher thread holds a handle
on the process that has the PID when it is spawned. `expired` says that the
five seconds of an in-place attachment have passed. Left out: the activation
without a project, which is its own executive (`start.rs:81`), reuse of an
executive's PID, and a watcher whose handle fails although the process lives
(`event_coordinator.rs:328`, `353`), which only makes it fire early.

`Terminate` kills an executive of `Killable`. `SignalParent` fails, and the
executive exits, if its parent is gone. Properties that cannot hold after the
death of an executive (the next activation resets the state, as the code says it
does) are conditional on `NoExecutiveDied`. `StartDirsPresent` is conditional on
`Detachable = {}`, because of what detach does (below).

### StateLock and AtomicState

Incarnations of the activation state directory are numbered. A process creates
the directory, opens the lock file in the incarnation that is there, waits for
the lock of the file it opened, and reads and writes `state.json` through the
path. An activator may be killed at any step, and the system releases its lock.
An executive bails out if there is no state, and after `spawn_all_watchers` if
its parent is gone. `RenameDir` is the rename in `cleanup_all`; its lock is
released when the executive exits. The history variable `overlap` says that some
cleanup renamed the directory while a process waited for the lock file in it.

`AtomicState` has no lock and no steps in between: `Start`, `Attach`, `Exit`,
`Die`, `CleanupPid`, `CleanupAll`. The refinement mapping takes the state of the
incarnation at the path for its state. Its `Next` promises nothing after
`overlap`, since the code does not keep it.

### Services

`Begin` gives a command in the user's shell, or in the hook of a start that is
in progress (`Nested`; with `HookEdits` after an edit of the environment). Every
command may be given in a hook, `flox activate` too: only interactive activations
of an active environment are refused (`activate.rs:490`). A client reads what
`process_compose_state`, the socket and the process list say in steps of their
own (`GuardAvailable`, `ReadState`, `ReadSocket`, `Decide...`), then uses the
instance that answers, or attaches or starts an activation, shuts the old
instance down, signals the executive and polls the socket. process-compose is
external: it binds its socket some time after it was spawned (and gives up if
another instance answers there), its services may end, and with `Crashes` it may
crash and leave the socket file.

What may fail: the shutdown of an instance that is alive (`DownFails`; the client
only logs it and goes on, `kept` remembers it), the spawn in
`HandleStartServices` (only logged), and the start or stop of any of several
services. `restart` and `start` of existing services go on to the next and fail
in the end, `stop` prints a message, and a start after a new process-compose
gives up at the first. There is no detach in this module: it takes an attachment
away, as an exit does.

Two constants name assumptions rather than code. `Serial`: commands are given
one after the other. `Prompt`: nobody gives a command while the executive sets
itself up or an instance is being started, and no client times out then;
processes may exit at any time. What holds only under them is checked under
them; what breaks without is described below.

### Generations and ManagedEnvironment

Each change of an environment branch is one commit on top of the last, and flox
never merges, so a branch is the sequence of its changes and a commit is the
branch that ends with it: ancestry is "is a prefix of", and a push is accepted
if it is forced or extends what is there. The environment of a generation (its
manifest and lockfile) is a number, that of the change that made it.

`ManagedEnvironment` has directories on machines. A machine has one floxmeta
repository: a sync branch that its checkouts share (`sync`) and a branch for each
checkout (`local`); FloxHub has one branch (`hub`). A directory has `.flox/env`,
its backup during a swap, the generation lock (`lock`) and the pointer
(`env.json`). A command is a record that walks through the steps that touch
shared state: `OpenBranch` (fetch what the lock needs, reset the branch to it),
`WriteLock` (and register), `Check`, then for an installation `SwapOut`,
`SwapIn`, `Commit`, `LockPointer`; for a push `Fetch`, `Compare`, `PushRef` and
the pull that follows; and so on. `Crash` ends a command between any two steps
and leaves what it was copying in part, which a swap, a reset and the first
command after a pull do; it also stands for errors of `add_generation`,
`lock_pointer` and the restoring of a backup, which end the command there.
`Fails` is a build or a network that fails. One clock stamps the changes of all
machines. Users edit `.flox/env`, remove directories and restore backups; the
environment may be deleted on FloxHub. uninstall, edit and upgrade are `install`
here: they differ in the manifest they write.

`saved`, `touched` and `rewritten` are history: which environments a command
reported as made, which checkouts somebody or a crash changed behind flox's back,
and whether commits were dropped from FloxHub. `Serial` says that at most one
command at a time runs in a directory.

### Locking

A package is asked for on each of its systems; a lockfile maps pairs of an
install id and a system to what was found. The catalog is a number of pages, of
which a request for a group gets one that has all its packages, with the
derivations that the request pins; which page is not promised, so `Locks` is a
set of lockfiles. `LocksUpgrading` is `lock_manifest_with_include_upgrades`:
includes that the seed has are kept, manifests are merged (`MergeAll`), groups
that are locked as a whole are kept as a whole (`GroupsToLock`), flakes likewise,
and the rest is resolved. Each command of `CoreEnvironment` is an action: most of
them bring the lockfile up to date and then make a transaction, which may fail
and leaves what was locked before it. Users edit and delete files, the catalog
publishes pages, flakes move, included environments change or get out of date.
Simplified: a package is allowed or not (`Unfree` stands for licenses and for
broken packages), a descriptor of a flake always has a priority, and an include
has the name that its descriptor gives it.

### Events

Invocations record "run", "detail" and "completed" in a buffer file under a lock,
and flush it before exec or when they end. A write is a step of its own, so that
a kill may come before it, and `overwrite_file`, which truncates first, may leave
a part. A request may be acknowledged, rejected, lost, or arrive after the client
gave up. A buffer that cannot be opened or read is left out. The second pipeline, the metrics in `flox/src/utils/metrics.rs`, has the
same shape; `pipeline` picks one per behaviour.

### AutoActivation

A terminal is a stack of shells. A shell has its directory, the stack of active
environments, the chain of diffs in `_FLOX_HOOK_DIFF`, and the two lists the hook
keeps. `Plan` is `plan_auto_activation`; a run of the hook carries out a request
of `flox deactivate` (`HookRequest`), or pops, prompts and activates
(`HookAuto`), or fails on an environment that cannot be opened (`HookError`).
Users change directories, activate in place and in shells of their own,
deactivate in both ways, and change preferences; an activation may fail, a diff
may be lost, a directory may be removed. `hooked`, `refused`, `warned` and
`claimed` are history.

## Runs

| Run | Instance | Shows |
|---|---|---|
| `lifecycle` | 3 activators, 1 in-place shell, 2 builds; symmetry | attachments, start directories and watchers survive every interleaving of starts, attaches, hand-overs and exits |
| `faults` | 2 activators, 1 shell, 2 modes; kills, PID reuse, detach | one executive owns `state.json`; modes agree; the loop guard never trips |
| `liveness` | 3 activators, 2 builds, detach | a retrying activator gets its turn, whoever dies and although a cleanup may fail; the state is removed at last |
| `lock` | 3 activators and their executives, 3 incarnations, kills | exclusion, no lost attachment, and the refinement of `AtomicState` |
| `services` | user shell and 2 commands of all kinds, 2 builds, 2 services; `Serial`, `Prompt`; crashes, failing shutdowns, spawns and services | one instance, of the recorded build, serving its client unless the old one did not shut down, and stopped only when told to |
| `services_live` | 2 commands (restart, activate), one possibly in a hook that edits; crashes, timeouts, neither `Serial` nor `Prompt` | every command ends unless one hangs in its own hook; instances are spawned for starts in use |
| `services_concurrent` | 2 restarts; `Prompt` only | violation: two process-compose instances |
| `managed` | 2 users on 2 machines, 2 commands at once (install, push, pull, rollback, switch) | consistent histories, rollback |
| `managed_faults` | 2 checkouts on one machine, 1 command at a time, 1 kill, `--force`, deletion on FloxHub | what was saved is kept, checkouts and locks agree or can be recovered |
| `events` | 2 invocations, buffer of 4, batches of 2, 2 faults, both pipelines | no silent loss, order, one completion, invocations end |
| `hook` | 2 nested environments and a remote one, 2 shells, 1 fault, 1 change of preferences | diffs match the stack, refusals hold, the shell settles in two prompts |
| `locking` | 5 manifests, 2 install ids, 2 systems, 2 includes, 3 pages | complete lockfiles from one page per group that move only when asked to |

Bounds. Two activators are what most races need: one that leaves and one that
comes. The third in `lifecycle` matters where a process attaches to a start of a
second one while a third cleans up, and in `lock` where two of them meet after
a cleanup. One in-place shell hands over twice, and may activate again within the
activation. Two builds are enough for a start that is not the ready one. The loop
guard's limit is 2 instead of 5: `GuardNeverTrips` with a smaller limit is the
stronger statement. Three incarnations of the directory allow two cleanups and a
newcomer. Two commands after an activation allow every pair of commands; as many
instances may be spawned as there are commands, which is all that `Instances`
bounds. In `managed`, FloxHub starts with two generations of which the first is
live again, so that numbers, order and times differ, and two more changes
(`MaxChanges` 5) make two users diverge; one command at a time but a kill in
`managed_faults` keeps every pair of a torn command and one that follows. There,
behaviours end once both a command was killed and FloxHub lost commits
(`MCOneFault`); the theorems in `CheckoutProofs` are about any number of kills. The
buffer's limit of 4 lets the limit and a batch boundary be reached by two
invocations with three events each. Three pages are one that lacks a package, one
that can serve an old pin and a new package together, and one that renews all.
In `hook`, either nothing is decided, the hook asks and something goes wrong, or
both environments are allowed and the user changes one preference. `faults` uses symmetry in the modes
only, since its processes differ; runs with liveness use none.

Fairness. Threads of the executive and activators are scheduled (weak fairness of
`MainThread`, `WatcherFires` and `ActivatorStep`), time passes (`Expire`) and a
hook terminates, which the code does not enforce but `RetryEnds` needs: a hook
that hangs blocks every later activation, as it does in the program. Shells are
never required to exit. In `Services`, commands, the executive and
process-compose make progress; a timeout is a step of the command, so that
`CommandsEnd` does not depend on process-compose answering. It has one
exception, a command that polls for the end of the start whose hook it is in
(`StuckInHook`), and then says nothing of the others, which may wait for it. In `Events`, a
process that runs takes its next step; the timeout of a request is one, so
`InvocationsEnd` does not depend on the server, and weak fairness is enough for
the lock since each invocation takes it finitely often.

Deadlock is checked in every run; a state where all processes are done, or where
only an idle executive is left, stutters explicitly (`Finished`, `Quiet`,
`Ended`, `Done`). In `ManagedEnvironment`, `Locking` and `AutoActivation` a user
can always do something.

## What the checks found

`services_concurrent` ends in a violation of what a comment in the code says: two
restarts at once make the executive spawn a second process-compose, since the
first one has not bound its socket.

The other properties hold as they are stated. Where one is conditional, or a
constant excludes a case, this is what the models show without:

* After a cleanup (`overlap` in `StateLock`): `cleanup_all` renames the directory
  with the lock file in it. A process that waits on the old file and one that
  creates the new file are in their critical sections together, and with three
  activators one of them can lose its attachment; with two, neither can.
* Detach (`Detachable` non-empty): `detach` removes the directory of the last
  start and writes a `state.json` without attachments where that start is still
  ready. Until the executive handles the change, a new activation attaches to it
  and fails to read the start directory.
* Commands in their own hook (`StuckInHook`): `flox activate -- cmd` of the
  environment in its own `hook.on-activate` is not refused. It finds the start in
  progress, whose starter is alive and waits for the hook, and polls for ever.
  So does a services command after the hook has edited the environment
  (`HookEdits`), since `process_compose_state` recognises its own start by the
  store path. `CommandsEnd` exempts these two and nothing else.
* `Prompt = FALSE`: a client may signal an executive whose signal thread has not
  registered its handlers, which kills it (`exec = "killed"`).
* `Serial = FALSE`: `OneInstance` fails as above. `RunningServicesKept` fails, too:
  a client that saw no services shuts down the instance in which another client
  has started some in the meantime.
* An orphan: if the last processes exit while an instance starts up, `cleanup_all`
  finds no socket file, stops nothing and exits, and process-compose is left
  running. No property excludes this, since the code does it.
* A process-compose that is alive and does not shut down (`DownFails`): the client
  goes on, the executive skips the start because there is a socket, and
  `wait_for_socket_ready` takes the old instance for the new one, so that the
  services are started with the old configuration. The comment at `start.rs:154`
  says that the old one is stopped first "to ensure that we wait on the socket
  from the new instance". `ServicesOfOwnBuild` exempts that client (`kept`);
  `OneInstance` and `CurrentIsListening` hold all the same.
* A crashed process-compose (`Crashes`) leaves its socket file,
  `process-compose down` fails and is only logged, and the executive skips the
  start as "already running", on every attempt.
* The comment in `handle_process_exited` that an early exit event is "not
  currently reachable" does not describe in-place activations: their watcher is
  started before the attachment has an expiration and never sleeps. The re-check
  that the comment justifies is needed, and `GuardNeverTrips` shows that it is
  enough.
* Generation 0 among `Targets`: `switch_generation` checks the upper bound only,
  so `generations switch 0` commits a history that `generations()` cannot read,
  and no later command gets past its checks (`HistoryConsistent` fails).
* `Serial = FALSE` in `ManagedEnvironment`: two commands in one checkout commit
  what the other one wrote, or reset it; `.flox/env` has no lock.
* The revision of FloxHub in a generation lock is not always in the history of
  the local one, as the comment at `floxmeta_branch.rs:552` describes; the lock
  can be recovered all the same (`LockRecoverable`).
* `prune_branches_from_floxmeta` lists the branches before it deletes the
  checkout's, finds it among those that need the sync branch and so never prunes
  it, although its comment says so. `SyncKept` is what this errs on the side of.
* A reset that is killed half-way leaves `.flox/env` in part, and a conversion
  that follows takes it for the environment.
* Timestamps of generations have a resolution of a second; of two that stopped
  being live in the same one, rollback takes the higher number. The model's
  changes have times of their own, so `RollbackReturns` is about the others.
* The times are those of the machine that makes the change (`generations.rs:342`,
  `391`), the model's are from one clock. With clocks that disagree rollback can
  pick the wrong generation: if one user adds generation 2 at 20 by his clock and
  another one then adds 3 at 5 by his, generation 1 was last live at 20 and
  generation 2 at 5, and the one before 3 is taken to be 1.
* Two users who push at once: git refuses the push that is not a fast-forward,
  whatever the client has compared before; a stale comparison changes the
  message only. FloxHub's branch is external, so no property is about it.
* Torn writes (`Events`): an entry that was written in part hides what is
  appended behind it, since reading stops at the first error, until the file is
  rewritten; `NoSilentLoss` is conditional on there being none. The legacy
  metrics take an error status for a success and drop the batch, and are not
  flushed by an activation that execs.
* An environment that was left and whose directory is gone (`Stuck` in
  `AutoActivation`): the hook fails at every prompt and deactivates nothing until
  the user does.
* `Again = TRUE`: an environment that is activated again in place has a diff but
  no new entry on the stack, and `DiffsMatchStack` fails: the next deactivation
  undoes one of the two. `Chained = TRUE`: an activation between a request and
  the prompt that carries it out is what is undone.
* Flakes are compared as whole descriptors (`Invalidates`): a change of priority
  or systems locks them anew, although the comment on
  `invalidates_existing_resolution` says that these are ignored. `Pinned` is
  therefore about catalog packages.
* A manifest that was edited by hand is locked before a command's own
  transaction, so that a package that the edit removes and the command adds again
  is no longer pinned (`PinnedStep` is conditional on `UpToDate`).
* `upgrade` with an install id looks for it, and for others in its group, in the
  composing manifest only: a package of an include cannot be upgraded by its id.
* `include_upgrade` compares the new lockfile with the file's contents, which end
  in a newline: its branch for an unchanged lockfile is never taken.

## Proofs

Every safety invariant and every action property that a run checks is proved
here for all values of the constants. Where a theorem has a hypothesis on a
constant, "What the checks found" says what happens without it; the runs that
check the property have the same hypothesis.

### ActivationProofs

For all finite or infinite sets of processes, builds and modes and every loop
guard limit, from `ConstantsDistinct` and `ActivationAssumption` (the sentinels
are not members of the sets):

| Theorem | Property |
|---|---|
| `TypeCorrect` | `TypeOK` |
| `OneExecutive` | `ExecutiveOwnsState` |
| `NoAttachmentLost` | `AttachmentsKept` |
| `OneMode` | `ModesAgree` |
| `DirectoriesKept` | `StartDirsPresent` |
| `NoMissedPid` | `AttachedPidsWatched` |
| `GuardHolds` | `GuardNeverTrips`, if `RemonitorLimit >= 2` |

All but the last follow from one inductive invariant `Inv`: the properties themselves and
three facts they lean on. `StartRecorded`: a process that has not tried yet has
no start and no executive, and one that is past the critical section has a
start; without it a new start could collide with an old one. `ExecutiveRecorded`:
`state.json` names an executive that was spawned and has not cleaned up; this is
why a reset never overlaps a live executive. `OneChild`: a user shell waits for
one activator and evaluates the output of one that has exited, so that the
hand-over takes an attachment from a dead process. The lemmas `...Step` show that
each action keeps each part; `StateKinds` sorts the actions by what they do to
`state.json` (nothing, a modification, a start, a removal), so that the parts
about `state.json` need four cases instead of one per action.

`GuardHolds` needs an account of why a PID is monitored again (`GuardsInv`, an
invariant relative to `Inv`). There are two reasons for a PID to stay attached
after its exit event: its expiration has not passed, or another process has been
given the PID. The thread that is started again sleeps until the expiration or
waits for that other process, so each reason occurs at most once: `Once` and
`Twice` say what a thread may be doing after the first and after the second
time, and neither allows a third. With a limit of 1 the theorem is false; the
code uses 5 (`executive/mod.rs:177`).

### StateLockProofs

For any number of activators and incarnations, from `StateLockAssumption`:

| Theorem | Property |
|---|---|
| `Excludes` | `LockExcludes` |
| `AttachmentStays` | `NoLostAttachment` |
| `Refines` | `SectionsAtomic`, that is `Spec => Atomic!Spec` |

The inductive invariant `Sound` is `TypeOK` and, as long as there was no overlap,
`Ordered`: the lock file that a process has open is the one at the path
(`InsideCurrent`), whoever is in its critical section holds it (`HolderInside`),
what was read is still there when it is decided on (`SeenCurrent`), and what is
about to be written is a change of what is there (`ActivatorPending`,
`ExecutivePending`). `SpawnOnce` and `ExecutiveSpawned` tell an executive that
has not been spawned from one that has died. The refinement then maps the write
of a section, or the rename, to one step of `AtomicState` and everything else to
a stutter or to an exit.

The theorems of `ActivationProofs` are about critical sections as atomic steps.
`Refines` is what entitles them to that: they hold of the program until a cleanup
renames the directory while a process waits for its lock file.

### LockingProofs

For any manifests, descriptors, catalog, flakes and included environments,
without assumptions on the constants but one in the last line:

| Theorem | Property |
|---|---|
| `Complete` | `LockfileComplete` |
| `OnePageEach` | `GroupOnePage` |
| `Relocked` | `RelockStable` |
| `PinnedAlways` | `Pinned`, if `NoLockfile` is none of the lockfiles (`NoLockfileIsNone`) |

`Good` is the inductive invariant: the lockfile has its shape, its merged
manifest is composed of what it says it includes (`Composed`), each package
agrees with the manifest (`Agrees`) and groups are from one page (`OnePage`). The
core is `LockIsGood`: whatever is locked from a seed is good, where a seed is a
good lockfile from which packages may have been taken (`UnlockIsSeed`). That a
group is kept in whole or not at all is needed exactly once, in `LockOnePage`.
`RelockSame` shows that a good lockfile locks to itself. `LockPins` and
`UpgradePins` compare a lock with its seed; the commands chain them, and where
the lockfile is up to date, the lock that comes first is the identity by
`RelockSame`.

### EventsProofs

For any invocations, buffer limit, batch size and number of faults, in both
pipelines, from `EventsAssumption`:

| Theorem | Property |
|---|---|
| `NothingLost` | `NoSilentLoss` |
| `InOrderAlways` | `WaitingInOrder` |
| `RecordedOnce` | `CompletedOnce` |
| `EventsTypeCorrect` | `TypeOK` |

Inductive is `Inv`: an event that is being recorded is nowhere yet (`Fresh`), so
that it is recorded once (`Distinct`); the holder of the lock has read what is in
the file (`BufferRead`), so that what it writes leaves out only what was sent or
given up (`OverwriteKeeps`), and in the same order (`Waits`). The steps are
sorted by what they do to the file: they begin an event, release or take the
lock, cut the buffer, or rewrite the file (`Begins`, `Releases`, `Cuts`,
`Rewrites`). `ReadEvents` stops at the first torn entry; what it returns is
shown from the smallest such index.

### ManagedProofs and CheckoutProofs

For any directories, machines, commands at once and kills, from
`ManagedAssumption`:

| Theorem | Property | If |
|---|---|---|
| `HistoriesConsistent` | `HistoryConsistent` | `0 \notin Targets` |
| `RollbackReturnsAlways` | `RollbackReturns` | `0 \notin Targets` |
| `LocksRecoverable` | `LockRecoverable` | `0 \notin Targets` |
| `ManagedTypeCorrect` | `TypeOK` | `0 \notin Targets` |
| `SavedAlwaysKept` | `SavedKept` | also `Serial` |
| `AlwaysInSync` | `InSync` | also `Serial` |
| `SyncAlwaysKept` | `SyncKept` | also `Serial` |
| `EnvOrBackupAlways` | `EnvOrBackup` | also `Serial` |

The first four do not need `Serial`: commands may run at once in one directory.
`Chains` describes the histories that can come about (generations numbered
without a gap, each change links to the one before it, times increase); `Inv`
says that every branch, lock and command is about such a history that is not
from the future (`Typed`), what a command has made sure of when it commits
(`Prepared`), and that nothing that was fetched has left FloxHub (`Upstream`).
`PreviousIs` shows that in such a history the generation that rollback selects by
its times is the one before the last change.

`Checkouts` is what one command at a time in a directory adds: nobody else is
there (`Alone`), what the command has established by each of its steps
(`Control`, a conjunct per group of steps), and what a directory is at all times
and between commands (`Rest`). `Sound` is where a kill matters: it has to hold
in the middle of every command, since that is where the next one begins. Steps
of other directories of the machine are dealt with once (`Elsewhere`).

### ServicesProofs

For any commands, builds, services and instances, from `ServicesAssumption`:

| Theorem | Property | If |
|---|---|---|
| `SpawnsForAttached` | `SpawnedForAttached` | |
| `OneProcessCompose` | `OneInstance` | `Serial`, `Prompt` |
| `RecordedBuildAnswers` | `CurrentIsListening` | `Serial`, `Prompt` |
| `OwnBuildServes` | `ServicesOfOwnBuild` | `Serial`, `Prompt` |
| `OthersServicesKept` | `RunningServicesKept` | `Serial`, `Prompt` |
| `ServicesTypeCorrect` | `TypeOK` | `Serial`, `Prompt` |

Under `Serial` and `Prompt` the inductive invariant says that at most one client
is busy (`OneBusy`), that one instance runs at most and a request for another is
only on its way while none starts up (`Requests`), what the instances are
(`Composes`), and what a client relies on step by step (`Relies`): that its
activation is ready, that no services run that it was not told to stop, and that
what runs when it waits is of its own build or did not shut down. No hypothesis
is about crashes or failures: they may happen or not.

`SpawnsForAttached` has an invariant of its own, `Serving`, which holds with any
number of commands at once: a ready start has somebody attached to it, and a
client that is starting is attached to its own start.

### HookProofs

For any nesting of directories and shells, preferences and faults, from
`AutoAssumption`, if not `Again` and not `Chained`:

| Theorem | Property |
|---|---|
| `DiffsAlwaysMatch` | `DiffsMatchStack` |
| `RefusalsHold` | `RefusalHolds` |
| `SettledAlways` | `SettledInTwo` |
| `ManualAlwaysKept` | `ManualKept` |
| `HookTypeCorrect` | `TypeOK` |

Every shell of the terminal is `Good`: the n-th diff gives back the stack without
its first n layers, and only the oldest may be that of a shell of its own
(`Matching`); what the hook may pop is what it tracks (`Tracking`); what was
refused is suppressed and not the hook's (`Refusing`). A shell keeps what it
inherited (`Rests`). `Settling` is what one and what two prompts achieve: after
one, no layer that was left is at the front of the stack, which makes the second
one warn about the rest and settle. That several activations are undone or made
in one run of the hook are the lemmas about `PopFront` and `ActivateAll`.

### What stays with TLC

Liveness is out of the prover's reach: `RetryEnds`, `CleanedUpAtLast`,
`CommandsEnd` and `InvocationsEnd` are checked on the instances above.
Induction over data is, too; the few facts about recursive functions that the
proofs need (`ReadEvents`, `PopFront`, `ActivateAll`, `PreviousGeneration`) are
shown by way of a smallest counterexample (`Smallest`, from `WFMin`).

## Plan

Done: activations and services; the lock with its refinement; managed
environments with crashes; events; the prompt hook; locking;
proofs of all their safety properties. Next, in order:

1. An abstract specification of an activation (a set of attached processes, up or
   down) that `Activation` implements, and `Activation` as an implementation of
   `AtomicState`.
2. Publishing: what may change between the checks, the lockfile that was read
   and the build.

## Not modelled

* The contents of environments beyond what locking decides on: hooks, profiles,
  variables, services definitions, and the environment variables and shell code
  of an activation. These are formatting, not control.
* Manifest parsing, raw edits that keep comments, schema migration: text
  transformations whose states TLC would have to spell out.
* `catalog-api-v1`, `factory-api-v1` and other API clients: generated code
  around HTTP requests; authentication.
* Builds and publishing (`providers/build.rs`, `buildenv.rs`, `publish.rs`):
  sequential drivers of nix, make and git. One thing in them a model would show:
  in an `OriginalCheckout` build, `build_source` pins the expression to the
  revision that was checked but builds the environment from the live checkout,
  which may have changed since (`publish.rs:961`).
* Upgrade checks, which cache a message; log files; versions of `state.json`;
  systemd and launchd units; rendered out-links.

The repository has about 112,000 lines, of which a third are tests beside the
code and another large part is generated or text handling; the modules cover the
lines where state is shared and decisions are made, which is about a tenth.
`PROJECT.json` says component by component what is left out.
