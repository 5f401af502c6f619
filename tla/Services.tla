------------------------------- MODULE Services -------------------------------
(***************************************************************************)
(* Services of ONE environment: clients (`flox services start`, `restart`, *)
(* `stop`, and `flox activate --start-services`), the executive, and the   *)
(* process-compose instances that the executive spawns.                    *)
(*                                                                         *)
(* A client that needs a new process-compose activates the environment,    *)
(* shuts the old instance down, sends SIGUSR1 to the executive and polls   *)
(* the socket until it answers or a timeout passes.  process-compose binds *)
(* its socket some time after it was spawned, and the executive's signal   *)
(* thread registers its handlers some time after it was spawned.           *)
(*                                                                         *)
(* state.json is Activation's, and so are the operators on it.  Here the   *)
(* activation has one executive; a client that finds it gone leaves: the   *)
(* activation that it starts anew is another one.                          *)
(***************************************************************************)
EXTENDS ActivationState, Naturals, FiniteSets

CONSTANTS User,          \* PID of the user's shell, where commands are given
          Names,         \* names of services
          Config,        \* Config[v]: the services that build v defines
          Kinds,         \* the commands that clients may be
          Serial,        \* commands are given one after the other
          Prompt,        \* nothing is in flight when somebody relies on it
          Crashes,       \* process-compose may crash
          DownFails,     \* process-compose may fail to shut down
          Nested,        \* clients that may run within hook.on-activate
          HookEdits,     \* a hook may edit the environment before them
          NoStore        \* no store path

Clients == Activators \ {User}

ASSUME ServicesAssumption ==
    /\ User \in Activators /\ UserShells = {} /\ IsFiniteSet(Activators)
    /\ Config \in [Stores -> SUBSET Names]
    /\ Kinds \subseteq {"start", "restart", "stop", "activate"}
    /\ Serial \in BOOLEAN /\ Prompt \in BOOLEAN /\ Crashes \in BOOLEAN
    /\ DownFails \in BOOLEAN /\ HookEdits \in BOOLEAN
    /\ Nested \subseteq Clients
    /\ NoStore \notin Stores

VARIABLES
    exec,      \* the executive
    state,     \* state.json
    current,   \* the store path of current_process_compose_store_path
    inst,      \* the process-compose instances
    socket,    \* the instance that bound the socket file, 0 if there is no file
    signal,    \* SIGUSR1 is pending at the executive
    events,    \* StartServices events in the executive's channel
    shell,     \* the user's shell runs
    client     \* the clients

vars == <<exec, state, current, inst, socket, signal, events, shell, client>>
execVars == <<exec, current, signal, events>>

Instances == 1..Cardinality(Clients)
InstanceStates == [is : {"none", "spawned", "listening", "exited"},
                   store : Stores \cup {NoStore}, running : SUBSET Names]
Steps == {"none", "decide", "readState", "readSocket", "readProcesses", "existing",
          "attach", "starting", "stopOld", "signal", "wait", "viaSocket", "attached",
          "done", "failed", "left"}

\* hookOf: the activation whose hook gave the command, or the user's shell;
\* current: what process_compose_state has found so far; kept: a history
\* variable, the old instance did not shut down.
ClientStates == [at : Steps, kind : Kinds \cup {"none"}, names : SUBSET Names,
                 store : Stores \cup {NoStore}, ask : SUBSET Names,
                 hookOf : Activators \cup {NoPid}, current : BOOLEAN, kept : BOOLEAN]

TypeOK ==
    /\ exec \in {"setup", "up", "killed", "done"}
    /\ state \in ActivationStates \cup {NoState}
    /\ current \in Stores \cup {NoStore}
    /\ inst \in [Instances -> InstanceStates]
    /\ socket \in Instances \cup {0}
    /\ signal \in BOOLEAN /\ shell \in BOOLEAN
    /\ events \in 0..Cardinality(Clients)
    /\ client \in [Clients -> ClientStates]

\* The user's shell has started the activation of some build.
Init ==
    /\ exec = "setup" /\ current = NoStore
    /\ \E v \in Stores, m \in Modes :
         LET id == [store |-> v, by |-> User]
         IN  state = SetReady([StartBy(New(m), User, id) EXCEPT !.executive = User], id)
    /\ inst = [i \in Instances |-> [is |-> "none", store |-> NoStore, running |-> {}]]
    /\ socket = 0 /\ signal = FALSE /\ events = 0 /\ shell = TRUE
    /\ client = [c \in Clients |-> [at |-> "none", kind |-> "none", names |-> {},
                                    store |-> NoStore, ask |-> {}, hookOf |-> NoPid,
                                    current |-> FALSE, kept |-> FALSE]]

ExecutiveRuns == exec \in {"setup", "up"}

\* The process-compose instances that are running, listening or not.
Running == {i \in Instances : inst[i].is \in {"spawned", "listening"}}
Spawned == {i \in Instances : inst[i].is = "spawned"}

\* No request for an instance is on its way.
Quiet == ~signal /\ events = 0 /\ Spawned = {}

Over == {"none", "done", "failed", "left"}
GoTo(c, at) == client' = [client EXCEPT ![c].at = at]
GoAsking(c, at, ask) == client' = [client EXCEPT ![c].at = at, ![c].ask = ask]
GoSeeing(c, at, is) == client' = [client EXCEPT ![c].at = at, ![c].current = is]

\* A client or the user's shell runs.
PidRuns(p) == IF p = User THEN shell ELSE client[p].at \notin Over

-----------------------------------------------------------------------------
(* Commands.                                                               *)

\* A command is given in the user's shell, or by the hook of a start: `flox
\* activate` too, as only interactive activations of an environment that is
\* active are refused.
Begin(c, kind, names, v) ==
    /\ client[c].at = "none" /\ ExecutiveRuns
    /\ Serial => \A d \in Clients : client[d].at \in Over \cup {"attached"}
    /\ Prompt => exec = "up" /\ Quiet
    /\ kind = "activate" => names = {}
    /\ \E d \in Activators :
         /\ \/ d = User /\ shell
            \/ /\ c \in Nested /\ d # User /\ client[d].at = "starting"
               /\ v = client[d].store \/ HookEdits
         /\ client' = [client EXCEPT ![c] = [at |-> "decide", kind |-> kind,
                          names |-> names, store |-> v, ask |-> {}, hookOf |-> d,
                          current |-> FALSE, kept |-> FALSE]]
    /\ UNCHANGED <<execVars, state, inst, socket, shell>>

\* process-compose answers on the socket.
Answers == socket # 0 /\ inst[socket].is = "listening"

\* ProcessStates::read: the services that run, none without an answer.
RunningServices == IF Answers THEN inst[socket].running ELSE {}

\* The services of the instance that answers.
Known == Config[inst[socket].store]

\* processes_by_name_or_default_to_all.
Named(c, known) == IF client[c].names = {} THEN known ELSE client[c].names

\* Mutant: a command does not notice that it runs in the hook of its own start.
StartingNever(c) == FALSE

\* process_compose_state: ActivationStartingSelf.
StartingSelf(c) ==
    /\ state # NoState /\ state.ready.is = "starting"
    /\ state.ready.start.store = client[c].store
    /\ state.ready.pid = client[c].hookOf

\* guard_service_commands_available.
Available(c) == socket # 0 \/ Config[client[c].store] # {}

\* start and restart activate with the services to start, if the build has
\* all of those that were named.
AskForNew(c) ==
    LET known == Config[client[c].store]
    IN  IF client[c].names \subseteq known
        THEN GoAsking(c, "attach", Named(c, known)) ELSE GoTo(c, "failed")

\* services start and restart: the guard.
GuardAvailable(c) ==
    /\ client[c].at = "decide" /\ client[c].kind \in {"start", "restart"}
    /\ GoTo(c, IF Available(c) THEN "readState" ELSE "failed")
    /\ UNCHANGED <<execVars, state, inst, socket, shell>>

\* process_compose_state: state.json is read under its lock.
ReadState(c) ==
    /\ client[c].at = "readState"
    /\ IF StartingSelf(c) THEN GoTo(c, "failed")
       ELSE GoSeeing(c, "readSocket", state # NoState /\ current = client[c].store)
    /\ UNCHANGED <<execVars, state, inst, socket, shell>>

\* process_compose_state: Current only if there is a socket.
ReadSocket(c) ==
    /\ client[c].at = "readSocket"
    /\ GoSeeing(c, "readProcesses", client[c].current /\ socket # 0)
    /\ UNCHANGED <<execVars, state, inst, socket, shell>>

\* Mutant: services that run do not keep `start` from a new process-compose.
DecideStartAnew(c) ==
    /\ client[c].at = "readProcesses" /\ client[c].kind = "start"
    /\ IF ~client[c].current THEN AskForNew(c) ELSE GoTo(c, "existing")
    /\ UNCHANGED <<execVars, state, inst, socket, shell>>

\* services start reads the processes: a new process-compose if the running one
\* is of another build and none of its services runs.
DecideStart(c) ==
    /\ client[c].at = "readProcesses" /\ client[c].kind = "start"
    /\ IF ~client[c].current /\ RunningServices = {} THEN AskForNew(c)
       ELSE GoTo(c, "existing")
    /\ UNCHANGED <<execVars, state, inst, socket, shell>>

\* services restart: likewise, or if all services are to restart.  A socket
\* where nobody answers is an error; the names are checked right away against
\* the processes that were read, none if there is no socket.
DecideRestart(c) ==
    LET known == IF Answers THEN Known ELSE {}
    IN
    /\ client[c].at = "readProcesses" /\ client[c].kind = "restart"
    /\ IF socket # 0 /\ ~Answers THEN GoTo(c, "failed")
       ELSE IF ~client[c].current /\ (RunningServices = {} \/ client[c].names = {})
       THEN AskForNew(c)
       ELSE IF client[c].names \subseteq known
       THEN GoAsking(c, "existing", Named(c, known)) ELSE GoTo(c, "failed")
    /\ UNCHANGED <<execVars, state, inst, socket, shell>>

\* services stop: the guard.
DecideStop(c) ==
    /\ client[c].at = "decide" /\ client[c].kind = "stop"
    /\ GoTo(c, IF Available(c) THEN "existing" ELSE "failed")
    /\ UNCHANGED <<execVars, state, inst, socket, shell>>

\* services_to_start: all services of the build, unless some service runs.
DecideActivate(c) ==
    /\ client[c].at = "decide" /\ client[c].kind = "activate"
    /\ GoAsking(c, "attach", IF RunningServices = {} THEN Config[client[c].store] ELSE {})
    /\ UNCHANGED <<execVars, state, inst, socket, shell>>

\* start_with_existing_process_compose: every name has to be known; services
\* that run are left alone, and one that fails to start does not stop the others.
StartExisting(c) ==
    /\ client[c].at = "existing" /\ client[c].kind = "start"
    /\ IF Answers /\ client[c].names \subseteq Known
       THEN \E started \in SUBSET Named(c, Known) :
              LET running == inst[socket].running \cup started
              IN  /\ inst' = [inst EXCEPT ![socket].running = running]
                  /\ GoTo(c, IF Named(c, Known) \subseteq running THEN "done" ELSE "failed")
       ELSE GoTo(c, "failed") /\ UNCHANGED inst
    /\ UNCHANGED <<execVars, state, socket, shell>>

\* restart_with_existing_process_compose: the processes were read before, and
\* the instance may be another one by now; a failure does not stop the others,
\* and leaves its service running or not.
RestartExisting(c) ==
    /\ client[c].at = "existing" /\ client[c].kind = "restart"
    /\ IF Answers
       THEN \E up \in SUBSET (client[c].ask \cap Known) :
              /\ inst' = [inst EXCEPT ![socket].running =
                                (@ \ (client[c].ask \cap Known)) \cup up]
              /\ \/ GoTo(c, "failed")
                 \/ up = client[c].ask /\ GoTo(c, "done")
       ELSE GoTo(c, "failed") /\ UNCHANGED inst
    /\ UNCHANGED <<execVars, state, socket, shell>>

\* stop: the processes are read, and the named ones that run are stopped; a
\* failure to stop one is only a message.
StopExisting(c) ==
    /\ client[c].at = "existing" /\ client[c].kind = "stop"
    /\ IF Answers /\ client[c].names \subseteq Known
       THEN /\ \E stopped \in SUBSET Named(c, Known) :
                 inst' = [inst EXCEPT ![socket].running = @ \ stopped]
            /\ GoTo(c, "done")
       ELSE GoTo(c, "failed") /\ UNCHANGED inst
    /\ UNCHANGED <<execVars, state, socket, shell>>

-----------------------------------------------------------------------------
(* `flox-activations activate`.                                            *)

\* Without services to start, go on to the user's command.
AfterAttach(c) == IF client[c].ask # {} THEN "stopOld"
                  ELSE IF client[c].kind = "activate" THEN "attached" ELSE "done"

\* Mutant: the build of the ready start does not matter.
AttachAnyBuild(c) ==
    /\ client[c].at = "attach" /\ ExecutiveRuns
    /\ ~(state.ready.is = "starting" /\ PidRuns(state.ready.pid))
    /\ IF state.ready.is = "true"
       THEN state' = AttachTo(state, c, state.ready.start) /\ GoTo(c, AfterAttach(c))
       ELSE /\ state' = StartBy(state, c, [store |-> client[c].store, by |-> c])
            /\ GoTo(c, "starting")
    /\ UNCHANGED <<execVars, inst, socket, shell>>

\* start_or_attach: attach to the ready start of the same build, or start if
\* no live process does.
AttachOrStart(c) ==
    LET id == [store |-> client[c].store, by |-> c]
        r == state.ready
    IN
    /\ client[c].at = "attach" /\ ExecutiveRuns
    /\ ~(r.is = "starting" /\ PidRuns(r.pid))
    /\ IF r.is = "true" /\ r.start.store = client[c].store
       THEN state' = AttachTo(state, c, r.start) /\ GoTo(c, AfterAttach(c))
       ELSE state' = StartBy(state, c, id) /\ GoTo(c, "starting")
    /\ UNCHANGED <<execVars, inst, socket, shell>>

\* The executive is gone: what the client starts is another activation.
Leave(c) ==
    /\ client[c].at = "attach" /\ ~ExecutiveRuns
    /\ GoTo(c, "left")
    /\ UNCHANGED <<execVars, state, inst, socket, shell>>

\* The hook has run, and every command in it.
MarkReady(c) ==
    /\ client[c].at = "starting"
    /\ \A d \in Clients : client[d].hookOf = c => client[d].at \in Over
    /\ state' = SetReady(state, [store |-> client[c].store, by |-> c])
    /\ GoTo(c, AfterAttach(c))
    /\ UNCHANGED <<execVars, inst, socket, shell>>

\* process_compose_down: an instance that answers exits, and its services and
\* the socket go with it, or it fails and the instance is as it was.
Down ==
    \/ /\ Answers
       /\ socket' = 0
       /\ inst' = [inst EXCEPT ![socket].is = "exited", ![socket].running = {}]
    \/ /\ Answers => DownFails
       /\ UNCHANGED <<inst, socket>>

\* signal_new_process_compose: stop the old instance first; a failure to do so
\* is only logged.
StopOld(c) ==
    /\ client[c].at = "stopOld"
    /\ Down
    /\ client' = [client EXCEPT ![c].at = "signal", ![c].kept = Answers']
    /\ UNCHANGED <<execVars, state, shell>>

\* kill(executive, SIGUSR1): a process that has not registered a handler is
\* terminated by it.
SignalExecutive(c) ==
    /\ client[c].at = "signal"
    /\ CASE exec = "up" ->
              signal' = TRUE /\ GoTo(c, "wait") /\ UNCHANGED exec
         [] exec = "setup" ->
              exec' = "killed" /\ GoTo(c, "wait") /\ UNCHANGED signal
         [] OTHER -> GoTo(c, "failed") /\ UNCHANGED <<signal, exec>>
    /\ UNCHANGED <<state, current, events, inst, socket, shell>>

\* wait_for_socket_ready: process-compose answers.
SocketReady(c) ==
    /\ client[c].at = "wait" /\ Answers
    /\ GoTo(c, "viaSocket")
    /\ UNCHANGED <<execVars, state, inst, socket, shell>>

\* wait_for_socket_ready: two seconds pass.
Timeout(c) ==
    /\ client[c].at = "wait"
    /\ Prompt => Quiet /\ ~Answers
    /\ GoTo(c, "failed")
    /\ UNCHANGED <<execVars, state, inst, socket, shell>>

\* start_services_via_socket, whichever instance answers there: one service
\* after the other, up to the first that does not start.
StartViaSocket(c) ==
    /\ client[c].at = "viaSocket"
    /\ IF Answers
       THEN \E started \in SUBSET (client[c].ask \cap Known) :
              /\ inst' = [inst EXCEPT ![socket].running = @ \cup started]
              /\ GoTo(c, IF started # client[c].ask THEN "failed"
                         ELSE IF client[c].kind = "activate" THEN "attached" ELSE "done")
       ELSE GoTo(c, "failed") /\ UNCHANGED inst
    /\ UNCHANGED <<execVars, state, socket, shell>>

\* A client is interrupted, or the shell that it has become exits.
Interrupt(c) ==
    /\ client[c].at \in {"attach", "starting", "stopOld", "wait", "attached"}
    /\ \A d \in Clients : client[d].hookOf = c => client[d].at \in Over
    /\ GoTo(c, IF client[c].at = "attached" THEN "done" ELSE "failed")
    /\ UNCHANGED <<execVars, state, inst, socket, shell>>

\* The user's shell exits, once the commands in it are activations themselves.
ExitShell ==
    /\ shell
    /\ \A c \in Clients : client[c].hookOf = User =>
         client[c].at \notin {"decide", "readState", "readSocket", "readProcesses",
                              "existing", "attach"}
    /\ shell' = FALSE
    /\ UNCHANGED <<execVars, state, inst, socket, client>>

-----------------------------------------------------------------------------
(* The executive and process-compose.                                      *)

\* The signal thread registers its handlers.
RegisterSignals ==
    /\ exec = "setup"
    /\ exec' = "up"
    /\ UNCHANGED <<current, signal, events, state, inst, socket, shell, client>>

\* The signal thread sends StartServices: signals that arrived in between are
\* one event.
ForwardSignal ==
    /\ exec = "up" /\ signal
    /\ signal' = FALSE
    /\ events' = events + 1
    /\ UNCHANGED <<exec, current, state, inst, socket, shell, client>>

\* start_process_compose_no_services for the ready start.
Spawn ==
    \E i \in Instances :
        /\ inst[i].is = "none" /\ \A j \in Instances : j < i => inst[j].is # "none"
        /\ inst' = [inst EXCEPT ![i] = [is |-> "spawned", running |-> {},
                                        store |-> state.ready.start.store]]

\* Mutant: the store path of the instance is not recorded.
HandleStartUnrecorded ==
    /\ exec = "up" /\ events > 0
    /\ events' = events - 1
    /\ IF state.ready.is # "true" \/ socket # 0 THEN UNCHANGED inst ELSE Spawn
    /\ UNCHANGED <<exec, current, signal, state, socket, shell, client>>

\* Mutant: the executive does not look for a socket.
HandleStartAnyway ==
    /\ exec = "up" /\ events > 0
    /\ events' = events - 1
    /\ \/ UNCHANGED <<inst, current>>
       \/ state.ready.is = "true" /\ Spawn /\ current' = state.ready.start.store
    /\ UNCHANGED <<exec, signal, state, socket, shell, client>>

\* handle_start_services_signal: nothing to do without a ready start or if
\* there is a socket; an error of the spawn is only logged.
HandleStartServices ==
    /\ exec = "up" /\ events > 0
    /\ events' = events - 1
    /\ \/ UNCHANGED <<inst, current>>
       \/ /\ state.ready.is = "true" /\ socket = 0
          /\ Spawn
          /\ current' = state.ready.start.store
    /\ UNCHANGED <<exec, signal, state, socket, shell, client>>

\* cleanup_all, as far as process-compose goes.
CleanupAll == Down

\* A PID that exited is detached; cleanup_all after the last one.
ProcessExited(p) ==
    /\ exec = "up"
    /\ p \in DOMAIN state.attached /\ ~PidRuns(p)
    /\ IF DOMAIN state.attached = {p}
       THEN CleanupAll /\ exec' = "done" /\ state' = NoState
       ELSE state' = DetachPid(state, p) /\ UNCHANGED <<exec, inst, socket>>
    /\ UNCHANGED <<current, signal, events, shell, client>>

\* process-compose binds its socket, or gives up if another one answers there.
BindSocket(i) ==
    /\ inst[i].is = "spawned"
    /\ IF Answers
       THEN inst' = [inst EXCEPT ![i].is = "exited"] /\ UNCHANGED socket
       ELSE socket' = i /\ inst' = [inst EXCEPT ![i].is = "listening"]
    /\ UNCHANGED <<execVars, state, shell, client>>

\* process-compose crashes, and leaves its socket file behind.
Crash(i) ==
    /\ Crashes /\ inst[i].is = "listening"
    /\ inst' = [inst EXCEPT ![i].is = "exited", ![i].running = {}]
    /\ UNCHANGED <<execVars, state, socket, shell, client>>

\* A service ends by itself.
ServiceEnds(i, n) ==
    /\ n \in inst[i].running
    /\ inst' = [inst EXCEPT ![i].running = @ \ {n}]
    /\ UNCHANGED <<execVars, state, socket, shell, client>>

-----------------------------------------------------------------------------
\* The activation is over, or has lost its executive.
Ended ==
    /\ \A p \in Activators : ~PidRuns(p)
    /\ ~ExecutiveRuns
    /\ UNCHANGED vars

ClientStep(c) ==
    \/ GuardAvailable(c) \/ ReadState(c) \/ ReadSocket(c)
    \/ DecideStart(c) \/ DecideRestart(c) \/ DecideStop(c) \/ DecideActivate(c)
    \/ StartExisting(c) \/ RestartExisting(c) \/ StopExisting(c)
    \/ AttachOrStart(c) \/ Leave(c) \/ MarkReady(c) \/ StopOld(c)
    \/ SignalExecutive(c) \/ SocketReady(c) \/ Timeout(c) \/ StartViaSocket(c)

Next ==
    \/ \E c \in Clients :
        \/ \E k \in Kinds, names \in SUBSET Names, v \in Stores : Begin(c, k, names, v)
        \/ ClientStep(c) \/ Interrupt(c)
    \/ ExitShell \/ RegisterSignals \/ ForwardSignal \/ HandleStartServices
    \/ \E p \in Activators : ProcessExited(p)
    \/ \E i \in Instances :
        BindSocket(i) \/ Crash(i) \/ \E n \in Names : ServiceEnds(i, n)
    \/ Ended

Spec == Init /\ [][Next]_vars

-----------------------------------------------------------------------------
\* The executive never has two process-compose instances, also if the old one
\* fails to shut down.  "`flox-activations activate` ensures that
\* `process-compose` is stopped (and the socket removed) before signaling a
\* restart", which handle_start_services_signal relies on.
OneInstance == Cardinality(Running) <= 1

\* What `flox services` compares with its own build is the build that the
\* answering process-compose was started from.
CurrentIsListening == Answers => inst[socket].store = current

\* A client that asked for a new process-compose starts its services in one
\* that runs the client's own build, or in the old one if that did not shut
\* down: then wait_for_socket_ready takes it for the new one.
ServicesOfOwnBuild ==
    [][\A c \in Clients :
        (client[c].at = "viaSocket" /\ client'[c].at \in {"done", "attached"})
            => inst[socket].store = client[c].store \/ client[c].kept]_vars

\* "We restart `process-compose` with updated config after all services are
\* stopped": a client shuts an instance with running services down only if it
\* was told to restart all services.
RunningServicesKept ==
    [][\A c \in Clients :
        (client[c].at = "stopOld" /\ client'[c].at = "signal")
            => RunningServices = {} \/ (client[c].kind = "restart" /\ client[c].names = {})]_vars

\* process-compose is spawned for a start that somebody is attached to: only
\* then is the start's directory, which it reads, still there.
SpawnedForAttached ==
    [][(Cardinality(Running') > Cardinality(Running))
        => RefersTo(state.attached, state.ready.start)]_vars

\* Liveness: commands, the executive and process-compose keep running.
Fairness ==
    /\ \A c \in Clients : WF_vars(ClientStep(c))
    /\ WF_vars(RegisterSignals) /\ WF_vars(ForwardSignal) /\ WF_vars(HandleStartServices)
    /\ \A i \in Instances : WF_vars(BindSocket(i))

LiveSpec == Spec /\ Fairness

\* A command in a hook that polls for the end of the start whose hook it is in,
\* where the code does not see this: `flox activate`, and a services command of
\* a build that the hook has changed.
StuckInHook(c) ==
    LET d == client[c].hookOf
    IN  /\ client[c].at = "attach" /\ d \in Clients
        /\ client[d].at = "starting" /\ state.ready.pid = d
        /\ client[c].kind = "activate" \/ client[c].store # client[d].store

\* A command comes to an end, in a hook or not, whether or not process-compose
\* ever answers - unless some command hangs in its own hook for ever.
CommandsEnd ==
    \/ <>[](\E c \in Clients : StuckInHook(c))
    \/ \A c \in Clients :
         client[c].at = "decide" ~> client[c].at \in {"attached", "done", "failed", "left"}
=============================================================================
