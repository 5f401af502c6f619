---------------------------- MODULE ServicesProofs ----------------------------
(***************************************************************************)
(* As long as the commands on services are given one after the other, and  *)
(* none before the one before it has been dealt with, there is at most one *)
(* process-compose, and it is the one that its client asked for unless the *)
(* old one did not shut down - whatever is interrupted, fails or crashes.  *)
(***************************************************************************)
EXTENDS Services, FiniteSetTheorems, TLAPS

Busy(c) == client[c].at \notin Over \cup {"attached"}

OneBusy == \A c, d \in Clients : Busy(c) /\ Busy(d) => c = d

Typed ==
    /\ exec \in {"setup", "up", "killed", "done"}
    /\ state \in ActivationStates \cup {NoState}
    /\ current \in Stores \cup {NoStore}
    /\ inst \in [Instances -> InstanceStates]
    /\ socket \in Instances \cup {0}
    /\ signal \in BOOLEAN /\ shell \in BOOLEAN
    /\ events \in Nat
    /\ client \in [Clients -> ClientStates]

\* A request for an instance is a signal or an event, and is only on its way
\* while no instance starts up: one that runs is the one at the socket, which
\* did not shut down.
Requests ==
    /\ signal => events = 0 /\ Spawned = {}
    /\ events # 0 => events = 1 /\ Spawned = {}
    /\ \A i, j \in Running : i = j
    /\ signal \/ events # 0 => Clients # {}

\* The instances.
Composes ==
    /\ \A i \in Instances : inst[i].is = "listening" => socket = i
    /\ \A i \in Instances : inst[i].is # "listening" => inst[i].running = {}
    /\ \A i \in Running : inst[i].store = current /\ current \in Stores

\* The activation of the client c is ready.
IsReady(c) ==
    /\ state # NoState /\ c \in DOMAIN state.attached
    /\ state.ready.is = "true" /\ state.ready.start = state.attached[c].start
    /\ state.attached[c].start.store = client[c].store

\* What a client relies on, step by step.
Relies(c) ==
    /\ Busy(c) => client[c].store \in Stores
    /\ client[c].at \in Steps \ (Over \cup {"attached", "wait", "viaSocket"}) => Quiet
    /\ client[c].at = "starting" =>
        /\ state # NoState /\ c \in DOMAIN state.attached
        /\ state.attached[c].start = [store |-> client[c].store, by |-> c]
    /\ client[c].at \in {"stopOld", "signal", "wait", "viaSocket"} => IsReady(c)
    /\ client[c].at = "stopOld" \/ (client[c].at \in {"attach", "starting"} /\ client[c].ask # {}) =>
        RunningServices = {} \/ (client[c].kind = "restart" /\ client[c].names = {})
    /\ client[c].at = "signal" => client[c].kept \/ Running = {}
    /\ client[c].at \in {"wait", "viaSocket"} =>
        client[c].kept \/ \A i \in Running : inst[i].store = client[c].store

Executive == ExecutiveRuns => state # NoState

Inv ==
    /\ Typed /\ OneBusy /\ Requests /\ Composes /\ Executive
    /\ \A c \in Clients : Relies(c)

-----------------------------------------------------------------------------
\* The operations on state.json.
LEMMA MapIs ==
    ASSUME NEW m
    PROVE  m \in AttachedMaps <=>
             /\ DOMAIN m \subseteq Pids
             /\ m = [q \in DOMAIN m |-> m[q]]
             /\ \A q \in DOMAIN m : m[q] \in Attachments
  BY DEF AttachedMaps

LEMMA StateIs ==
    ASSUME NEW a \in ActivationStates
    PROVE  /\ a.ready \in ReadyValues /\ a.attached \in AttachedMaps
           /\ DOMAIN a.attached \subseteq Pids
           /\ \A q \in DOMAIN a.attached : a.attached[q].start \in StartIds
           /\ a.ready.is = "true" => a.ready.start \in StartIds
  <1>1. a.ready \in ReadyValues /\ a.attached \in AttachedMaps
    BY DEF ActivationStates
  <1>2. a.ready.is = "true" => a.ready.start \in StartIds
    BY <1>1 DEF ReadyValues
  <1> QED  BY <1>1, <1>2, MapIs DEF Attachments

LEMMA AttachToIs ==
    ASSUME NEW a \in ActivationStates, NEW p \in Pids, NEW id \in StartIds
    PROVE  /\ AttachTo(a, p, id) \in ActivationStates
           /\ DOMAIN AttachTo(a, p, id).attached = DOMAIN a.attached \cup {p}
           /\ AttachTo(a, p, id).attached[p].start = id
           /\ AttachTo(a, p, id).ready = a.ready
  <1> DEFINE x == [start |-> id, exp |-> FALSE]
             m == Insert(a.attached, p, x)
  <1>1. x \in Attachments /\ x.start = id
    BY DEF Attachments
  <1> HIDE DEF x
  <1>2. m \in AttachedMaps /\ DOMAIN m = DOMAIN a.attached \cup {p} /\ m[p] = x
    BY <1>1, StateIs, MapIs DEF Insert
  <1>3. AttachTo(a, p, id) = [a EXCEPT !.attached = m]
    BY DEF AttachTo, x
  <1> HIDE DEF m
  <1> QED  BY <1>1, <1>2, <1>3 DEF ActivationStates

LEMMA StartByIs ==
    ASSUME NEW a \in ActivationStates, NEW p \in Activators, NEW id \in StartIds
    PROVE  /\ StartBy(a, p, id) \in ActivationStates
           /\ p \in DOMAIN StartBy(a, p, id).attached
           /\ StartBy(a, p, id).attached[p].start = id
  <1> DEFINE b == AttachTo(a, p, id)
  <1>1. b \in ActivationStates /\ p \in DOMAIN b.attached /\ b.attached[p].start = id
    BY AttachToIs DEF Pids
  <1>2. ReadyStarting(p, id) \in ReadyValues
    BY DEF ReadyStarting, ReadyValues
  <1>3. StartBy(a, p, id) = [b EXCEPT !.ready = ReadyStarting(p, id)]
    BY DEF StartBy
  <1> HIDE DEF b
  <1> QED  BY <1>1, <1>2, <1>3 DEF ActivationStates

LEMMA SetReadyIs ==
    ASSUME NEW a \in ActivationStates, NEW id \in StartIds
    PROVE  /\ SetReady(a, id) \in ActivationStates
           /\ SetReady(a, id).attached = a.attached
           /\ SetReady(a, id).ready.is = "true" /\ SetReady(a, id).ready.start = id
  <1>1. ReadyTrue(id) \in ReadyValues /\ ReadyTrue(id).is = "true" /\ ReadyTrue(id).start = id
    BY DEF ReadyTrue, ReadyValues
  <1> QED  BY <1>1 DEF SetReady, ActivationStates

\* A start stays ready as long as somebody stays attached to it.
LEMMA DetachPidIs ==
    ASSUME NEW a \in ActivationStates, NEW p, NEW q \in DOMAIN a.attached, q # p
    PROVE  /\ DetachPid(a, p) \in ActivationStates
           /\ q \in DOMAIN DetachPid(a, p).attached
           /\ DetachPid(a, p).attached[q] = a.attached[q]
           /\ a.ready.start = a.attached[q].start => DetachPid(a, p).ready = a.ready
  <1> DEFINE m == Remove(a.attached, p)
  <1>1. m \in AttachedMaps /\ q \in DOMAIN m /\ m[q] = a.attached[q]
    BY StateIs, MapIs DEF Remove
  <1>2. /\ ReadyAfterDetach(a.ready, m) \in ReadyValues
        /\ a.ready.start = m[q].start => ReadyAfterDetach(a.ready, m) = a.ready
    BY <1>1, StateIs DEF ReadyAfterDetach, ReadyFalse, ReadyValues, RefersTo
  <1>3. DetachPid(a, p) = [a EXCEPT !.attached = m, !.ready = ReadyAfterDetach(a.ready, m)]
    BY <1>1 DEF DetachPid
  <1> HIDE DEF m
  <1> QED  BY <1>1, <1>2, <1>3 DEF ActivationStates

-----------------------------------------------------------------------------
\* Steps of a client.
LEMMA GoToIs ==
    ASSUME client \in [Clients -> ClientStates], NEW c \in Clients, NEW at \in Steps,
           GoTo(c, at)
    PROVE  /\ client' \in [Clients -> ClientStates]
           /\ client'[c].at = at /\ client'[c].kind = client[c].kind
           /\ client'[c].names = client[c].names /\ client'[c].store = client[c].store
           /\ client'[c].ask = client[c].ask /\ client'[c].kept = client[c].kept
           /\ \A d \in Clients : d # c => client'[d] = client[d]
  <1> DEFINE r == [client[c] EXCEPT !.at = at]
  <1>1. r \in ClientStates /\ r.at = at /\ r.kind = client[c].kind
        /\ r.names = client[c].names /\ r.store = client[c].store /\ r.ask = client[c].ask
        /\ r.kept = client[c].kept
    BY DEF ClientStates
  <1>2. client' = [client EXCEPT ![c] = r]
    BY DEF GoTo
  <1> HIDE DEF r
  <1> QED  BY <1>1, <1>2

LEMMA GoAskingIs ==
    ASSUME client \in [Clients -> ClientStates], NEW c \in Clients, NEW at \in Steps,
           NEW ask \in SUBSET Names, GoAsking(c, at, ask)
    PROVE  /\ client' \in [Clients -> ClientStates]
           /\ client'[c].at = at /\ client'[c].kind = client[c].kind
           /\ client'[c].names = client[c].names /\ client'[c].store = client[c].store
           /\ client'[c].ask = ask
           /\ \A d \in Clients : d # c => client'[d] = client[d]
  <1> DEFINE r == [client[c] EXCEPT !.at = at, !.ask = ask]
  <1>1. r \in ClientStates /\ r.at = at /\ r.kind = client[c].kind
        /\ r.names = client[c].names /\ r.store = client[c].store /\ r.ask = ask
    BY DEF ClientStates
  <1>2. client' = [client EXCEPT ![c] = r]
    BY DEF GoAsking
  <1> HIDE DEF r
  <1> QED  BY <1>1, <1>2

LEMMA GoSeeingIs ==
    ASSUME client \in [Clients -> ClientStates], NEW c \in Clients, NEW at \in Steps,
           NEW is \in BOOLEAN, GoSeeing(c, at, is)
    PROVE  /\ client' \in [Clients -> ClientStates]
           /\ client'[c].at = at /\ client'[c].kind = client[c].kind
           /\ client'[c].names = client[c].names /\ client'[c].store = client[c].store
           /\ client'[c].ask = client[c].ask
           /\ \A d \in Clients : d # c => client'[d] = client[d]
  <1> DEFINE r == [client[c] EXCEPT !.at = at, !.current = is]
  <1>1. r \in ClientStates /\ r.at = at /\ r.kind = client[c].kind
        /\ r.names = client[c].names /\ r.store = client[c].store /\ r.ask = client[c].ask
    BY DEF ClientStates
  <1>2. client' = [client EXCEPT ![c] = r]
    BY DEF GoSeeing
  <1> HIDE DEF r
  <1> QED  BY <1>1, <1>2

\* The others do nothing while one is at work.
LEMMA OneMoves ==
    ASSUME OneBusy, NEW c \in Clients, Busy(c) \/ \A d \in Clients : ~Busy(d),
           \A d \in Clients : d # c => client'[d] = client[d], Relies(c)'
    PROVE  OneBusy' /\ \A d \in Clients : Relies(d)'
<1>1. \A d \in Clients : d # c => ~Busy(d)'
  BY DEF OneBusy, Busy
<1>2. \A d \in Clients : d # c => Relies(d)'
  <2> SUFFICES ASSUME NEW d \in Clients, d # c PROVE Relies(d)'
    OBVIOUS
  <2>1. ~Busy(d)'
    BY <1>1
  <2> QED  BY <2>1 DEF Busy, Relies, Over
<1> QED  BY <1>1, <1>2 DEF OneBusy

-----------------------------------------------------------------------------
\* What answers on the socket is an instance of the build that was recorded.
LEMMA AnswersIs ==
    ASSUME Typed, Composes, Answers
    PROVE  /\ socket \in Instances /\ socket \in Running /\ inst[socket].is = "listening"
           /\ inst[socket].store = current /\ current \in Stores
           /\ Known \in SUBSET Names /\ inst[socket].running \in SUBSET Names
<1>1. socket \in Instances /\ socket \in Running
  BY DEF Answers, Typed, Running
<1>2. inst[socket].store = current /\ current \in Stores
  BY <1>1 DEF Composes
<1> QED
  BY <1>1, <1>2, ServicesAssumption DEF Answers, Known, Typed, InstanceStates

LEMMA ServicesIn ==
    ASSUME Typed, Composes
    PROVE  RunningServices \in SUBSET Names
BY AnswersIs DEF RunningServices

\* The services that a client asks for.
LEMMA NamedIn ==
    ASSUME Typed, NEW c \in Clients, NEW known \in SUBSET Names
    PROVE  Named(c, known) \in SUBSET Names
BY DEF Named, Typed, ClientStates

\* A step that only moves a client on.
LEMMA OnlyClient ==
    ASSUME Inv, NEW c \in Clients, Busy(c) \/ \A d \in Clients : ~Busy(d),
           UNCHANGED <<execVars, state, inst, socket, shell>>,
           client' \in [Clients -> ClientStates],
           \A d \in Clients : d # c => client'[d] = client[d], Relies(c)'
    PROVE  Inv'
<1> USE DEF execVars
<1>1. OneBusy' /\ \A d \in Clients : Relies(d)'
  BY OneMoves DEF Inv
<1>2. Typed'
  BY DEF Inv, Typed
<1>3. Requests'
  BY DEF Inv, Requests, Running, Spawned
<1>4. Composes'
  BY DEF Inv, Composes, Running, Answers
<1>5. Executive'
  BY DEF Inv, Executive, ExecutiveRuns, Running
<1> QED  BY <1>1, <1>2, <1>3, <1>4, <1>5 DEF Inv

\* The steps of a client until it knows what to do.
Reads == {"decide", "readState", "readSocket", "readProcesses"}

\* A client reads on, or is to go on to `attach` or to an instance that exists.
LEMMA GoesOn ==
    ASSUME Inv, NEW c \in Clients, client[c].at \in Reads,
           UNCHANGED <<execVars, state, inst, socket, shell>>,
           client' \in [Clients -> ClientStates],
           \A d \in Clients : d # c => client'[d] = client[d],
           client'[c].store = client[c].store, client'[c].kind = client[c].kind,
           client'[c].names = client[c].names,
           client'[c].at \in Reads \cup {"attach", "existing", "failed"},
           client'[c].at = "attach" /\ client'[c].ask # {} =>
               RunningServices = {} \/ (client[c].kind = "restart" /\ client[c].names = {})
    PROVE  Inv'
<1>1. Busy(c) /\ Relies(c)
  BY DEF Busy, Over, Inv, Reads
<1>2. Quiet /\ client[c].store \in Stores
  BY <1>1 DEF Relies, Steps, Over, Reads
<1>3. Quiet' /\ RunningServices' = RunningServices
  BY <1>2 DEF Quiet, Spawned, RunningServices, Answers, execVars
<1>4. Relies(c)'
  BY <1>2, <1>3 DEF Relies, Reads
<1> QED  BY <1>1, <1>4, OnlyClient

LEMMA BeginStep ==
    ASSUME Serial, Prompt, Inv, NEW c \in Clients, NEW kind \in Kinds,
           NEW names \in SUBSET Names, NEW v \in Stores, Begin(c, kind, names, v)
    PROVE  Inv'
<1>1. \A d \in Clients : ~Busy(d)
  BY DEF Begin, Busy
<1>2. UNCHANGED <<execVars, state, inst, socket, shell>> /\ Quiet
  BY DEF Begin
<1>3. PICK d \in Activators :
          client' = [client EXCEPT ![c] = [at |-> "decide", kind |-> kind,
                        names |-> names, store |-> v, ask |-> {}, hookOf |-> d,
                        current |-> FALSE, kept |-> FALSE]]
  BY DEF Begin
<1>4. /\ client' \in [Clients -> ClientStates]
      /\ client'[c].at = "decide" /\ client'[c].store = v
      /\ \A e \in Clients : e # c => client'[e] = client[e]
  <2>1. [at |-> "decide", kind |-> kind, names |-> names, store |-> v, ask |-> {},
         hookOf |-> d, current |-> FALSE, kept |-> FALSE] \in ClientStates
    BY DEF ClientStates, Steps
  <2> QED  BY <1>3, <2>1 DEF Inv, Typed
<1>5. Quiet'
  BY <1>2 DEF Quiet, Spawned, execVars
<1>6. Relies(c)'
  BY <1>4, <1>5 DEF Relies
<1> QED  BY <1>1, <1>2, <1>4, <1>6, OnlyClient

LEMMA AskForNewIs ==
    ASSUME Inv, NEW c \in Clients, client[c].store \in Stores, AskForNew(c)
    PROVE  /\ client' \in [Clients -> ClientStates]
           /\ client'[c].at \in {"attach", "failed"} /\ client'[c].kind = client[c].kind
           /\ client'[c].names = client[c].names /\ client'[c].store = client[c].store
           /\ \A d \in Clients : d # c => client'[d] = client[d]
<1>1. client \in [Clients -> ClientStates] /\ Typed
  BY DEF Inv, Typed
<1> DEFINE known == Config[client[c].store]
<1>2. Named(c, known) \in SUBSET Names
  BY <1>1, NamedIn, ServicesAssumption
<1>3. GoAsking(c, "attach", Named(c, known)) \/ GoTo(c, "failed")
  BY DEF AskForNew
<1> QED  BY <1>1, <1>2, <1>3, GoAskingIs, GoToIs DEF Steps

LEMMA GuardAvailableStep ==
    ASSUME Inv, NEW c \in Clients, GuardAvailable(c)
    PROVE  Inv'
<1>1. client \in [Clients -> ClientStates]
  BY DEF Inv, Typed
<1>2. client[c].at = "decide" /\ UNCHANGED <<execVars, state, inst, socket, shell>>
  BY DEF GuardAvailable
<1>3. GoTo(c, "readState") \/ GoTo(c, "failed")
  BY DEF GuardAvailable
<1> QED  BY <1>1, <1>2, <1>3, GoToIs, GoesOn DEF Steps, Reads

LEMMA ReadStateStep ==
    ASSUME Inv, NEW c \in Clients, ReadState(c)
    PROVE  Inv'
<1>1. client \in [Clients -> ClientStates]
  BY DEF Inv, Typed
<1>2. client[c].at = "readState" /\ UNCHANGED <<execVars, state, inst, socket, shell>>
  BY DEF ReadState
<1>3. (\E is \in BOOLEAN : GoSeeing(c, "readSocket", is)) \/ GoTo(c, "failed")
  BY DEF ReadState
<1>4. CASE GoTo(c, "failed")
  BY <1>1, <1>2, <1>4, GoToIs, GoesOn DEF Steps, Reads
<1>5. ASSUME NEW is \in BOOLEAN, GoSeeing(c, "readSocket", is)
      PROVE  Inv'
  BY <1>1, <1>2, <1>5, GoSeeingIs, GoesOn DEF Steps, Reads
<1> QED  BY <1>3, <1>4, <1>5

LEMMA ReadSocketStep ==
    ASSUME Inv, NEW c \in Clients, ReadSocket(c)
    PROVE  Inv'
<1>1. client \in [Clients -> ClientStates]
  BY DEF Inv, Typed
<1>2. client[c].at = "readSocket" /\ UNCHANGED <<execVars, state, inst, socket, shell>>
  BY DEF ReadSocket
<1>3. PICK is \in BOOLEAN : GoSeeing(c, "readProcesses", is)
  BY DEF ReadSocket
<1> QED  BY <1>1, <1>2, <1>3, GoSeeingIs, GoesOn DEF Steps, Reads

LEMMA DecideStartStep ==
    ASSUME Inv, NEW c \in Clients, DecideStart(c)
    PROVE  Inv'
<1>1. client[c].store \in Stores /\ client \in [Clients -> ClientStates]
  BY DEF DecideStart, Inv, Relies, Busy, Over, Typed
<1>2. client[c].at = "readProcesses" /\ UNCHANGED <<execVars, state, inst, socket, shell>>
  BY DEF DecideStart
<1>3. CASE RunningServices = {} /\ AskForNew(c)
  BY <1>1, <1>2, <1>3, AskForNewIs, GoesOn DEF Reads
<1>4. CASE GoTo(c, "existing")
  BY <1>1, <1>2, <1>4, GoToIs, GoesOn DEF Steps, Reads
<1> QED  BY <1>3, <1>4 DEF DecideStart

LEMMA DecideRestartStep ==
    ASSUME Inv, NEW c \in Clients, DecideRestart(c)
    PROVE  Inv'
<1>1. client[c].store \in Stores /\ client \in [Clients -> ClientStates] /\ Typed /\ Composes
  BY DEF DecideRestart, Inv, Relies, Busy, Over, Typed
<1>2. client[c].at = "readProcesses" /\ UNCHANGED <<execVars, state, inst, socket, shell>>
      /\ client[c].kind = "restart"
  BY DEF DecideRestart
<1>3. CASE (RunningServices = {} \/ client[c].names = {}) /\ AskForNew(c)
  BY <1>1, <1>2, <1>3, AskForNewIs, GoesOn DEF Reads
<1>4. CASE GoTo(c, "failed")
  BY <1>1, <1>2, <1>4, GoToIs, GoesOn DEF Steps, Reads
<1> DEFINE known == IF Answers THEN Known ELSE {}
<1>5. CASE GoAsking(c, "existing", Named(c, known))
  <2>1. Named(c, known) \in SUBSET Names
    BY <1>1, AnswersIs, NamedIn
  <2> HIDE DEF known
  <2> QED  BY <1>1, <1>2, <1>5, <2>1, GoAskingIs, GoesOn DEF Steps, Reads
<1> QED  BY <1>3, <1>4, <1>5 DEF DecideRestart

LEMMA DecideStopStep ==
    ASSUME Inv, NEW c \in Clients, DecideStop(c)
    PROVE  Inv'
<1>1. client \in [Clients -> ClientStates]
  BY DEF Inv, Typed
<1>2. client[c].at = "decide" /\ UNCHANGED <<execVars, state, inst, socket, shell>>
  BY DEF DecideStop
<1>3. GoTo(c, "existing") \/ GoTo(c, "failed")
  BY DEF DecideStop
<1> QED  BY <1>1, <1>2, <1>3, GoToIs, GoesOn DEF Steps, Reads

LEMMA DecideActivateStep ==
    ASSUME Inv, NEW c \in Clients, DecideActivate(c)
    PROVE  Inv'
<1>1. client[c].store \in Stores /\ client \in [Clients -> ClientStates]
  BY DEF DecideActivate, Inv, Relies, Busy, Over, Typed
<1>2. client[c].at = "decide" /\ UNCHANGED <<execVars, state, inst, socket, shell>>
  BY DEF DecideActivate
<1>3. PICK ask \in SUBSET Names :
          GoAsking(c, "attach", ask) /\ (ask # {} => RunningServices = {})
  BY <1>1, ServicesAssumption DEF DecideActivate
<1> QED  BY <1>1, <1>2, <1>3, GoAskingIs, GoesOn DEF Steps, Reads

-----------------------------------------------------------------------------
\* An instance whose services change is otherwise as it was.
LEMMA ServicesChange ==
    ASSUME Inv, Answers, NEW R \in SUBSET Names,
           inst' = [inst EXCEPT ![socket].running = R]
    PROVE  /\ inst' \in [Instances -> InstanceStates]
           /\ \A i \in Instances :
                inst'[i].is = inst[i].is /\ inst'[i].store = inst[i].store
           /\ \A i \in Instances \ {socket} : inst'[i] = inst[i]
<1>1. socket \in Instances /\ inst \in [Instances -> InstanceStates]
  BY AnswersIs DEF Inv, Typed
<1> DEFINE r == [inst[socket] EXCEPT !.running = R]
<1>2. r \in InstanceStates /\ r.is = inst[socket].is /\ r.store = inst[socket].store
  BY <1>1 DEF InstanceStates
<1>3. inst' = [inst EXCEPT ![socket] = r]
  OBVIOUS
<1> HIDE DEF r
<1> QED  BY <1>1, <1>2, <1>3

LEMMA Finishes ==
    ASSUME Inv, NEW c \in Clients, Busy(c),
           UNCHANGED <<execVars, state, socket, shell>>,
           client' \in [Clients -> ClientStates],
           \A d \in Clients : d # c => client'[d] = client[d],
           client'[c].at \in {"done", "failed", "attached"},
           inst' = inst \/ (Answers /\ \E R \in SUBSET Names :
                                          inst' = [inst EXCEPT ![socket].running = R])
    PROVE  Inv'
<1> USE DEF execVars
<1>1. Relies(c)'
  BY DEF Relies, Busy, Over, Steps
<1>2. OneBusy' /\ \A d \in Clients : Relies(d)'
  BY <1>1, OneMoves DEF Inv
<1>3. /\ inst' \in [Instances -> InstanceStates]
      /\ \A i \in Instances : inst'[i].is = inst[i].is /\ inst'[i].store = inst[i].store
      /\ \A i \in Instances : inst'[i] # inst[i] => inst[i].is = "listening"
  <2>1. CASE inst' = inst
    BY <2>1 DEF Inv, Typed
  <2>2. CASE inst' # inst
    BY <2>2, ServicesChange DEF Answers
  <2> QED  BY <2>1, <2>2
<1>4. Typed'
  BY <1>3 DEF Inv, Typed
<1>5. Running' = Running /\ Spawned' = Spawned
  BY <1>3 DEF Running, Spawned
<1>6. Requests'
  BY <1>5 DEF Inv, Requests
<1>7. Composes'
  BY <1>3, <1>5 DEF Inv, Composes, Running
<1>8. Executive'
  BY <1>5 DEF Inv, Executive, ExecutiveRuns
<1> QED  BY <1>2, <1>4, <1>6, <1>7, <1>8 DEF Inv

LEMMA StartExistingStep ==
    ASSUME Inv, NEW c \in Clients, StartExisting(c)
    PROVE  Inv'
<1>1. client \in [Clients -> ClientStates] /\ Typed /\ Composes /\ Busy(c)
  BY DEF StartExisting, Inv, Busy, Over, Typed
<1>2. UNCHANGED <<execVars, state, socket, shell>>
  BY DEF StartExisting
<1>3. ASSUME Answers, NEW started \in SUBSET Named(c, Known),
             GoTo(c, "done") \/ GoTo(c, "failed"),
             inst' = [inst EXCEPT ![socket].running = inst[socket].running \cup started]
      PROVE  Inv'
  <2>1. inst[socket].running \cup started \in SUBSET Names
    BY <1>1, <1>3, AnswersIs, NamedIn
  <2> QED  BY <1>1, <1>2, <1>3, <2>1, GoToIs, Finishes DEF Steps
<1>4. CASE GoTo(c, "failed") /\ UNCHANGED inst
  BY <1>1, <1>2, <1>4, GoToIs, Finishes DEF Steps
<1> QED  BY <1>3, <1>4 DEF StartExisting

LEMMA RestartExistingStep ==
    ASSUME Inv, NEW c \in Clients, RestartExisting(c)
    PROVE  Inv'
<1>1. client \in [Clients -> ClientStates] /\ Typed /\ Composes /\ Busy(c)
  BY DEF RestartExisting, Inv, Busy, Over, Typed
<1>2. UNCHANGED <<execVars, state, socket, shell>>
  BY DEF RestartExisting
<1> DEFINE now == inst[socket].running \ (client[c].ask \cap Known)
<1>3. ASSUME Answers, NEW up \in SUBSET (client[c].ask \cap Known),
             GoTo(c, "done") \/ GoTo(c, "failed"),
             inst' = [inst EXCEPT ![socket].running = now \cup up]
      PROVE  Inv'
  <2>1. now \cup up \in SUBSET Names
    BY <1>1, <1>3, AnswersIs
  <2> HIDE DEF now
  <2> QED  BY <1>1, <1>2, <1>3, <2>1, GoToIs, Finishes DEF Steps
<1>4. CASE GoTo(c, "failed") /\ UNCHANGED inst
  BY <1>1, <1>2, <1>4, GoToIs, Finishes DEF Steps
<1> QED  BY <1>3, <1>4 DEF RestartExisting

LEMMA StopExistingStep ==
    ASSUME Inv, NEW c \in Clients, StopExisting(c)
    PROVE  Inv'
<1>1. client \in [Clients -> ClientStates] /\ Typed /\ Composes /\ Busy(c)
  BY DEF StopExisting, Inv, Busy, Over, Typed
<1>2. UNCHANGED <<execVars, state, socket, shell>>
  BY DEF StopExisting
<1>3. ASSUME Answers, NEW stopped \in SUBSET Named(c, Known), GoTo(c, "done"),
             inst' = [inst EXCEPT ![socket].running = inst[socket].running \ stopped]
      PROVE  Inv'
  <2>1. inst[socket].running \ stopped \in SUBSET Names
    BY <1>1, <1>3, AnswersIs
  <2> QED  BY <1>1, <1>2, <1>3, <2>1, GoToIs, Finishes DEF Steps
<1>4. CASE GoTo(c, "failed") /\ UNCHANGED inst
  BY <1>1, <1>2, <1>4, GoToIs, Finishes DEF Steps
<1> QED  BY <1>3, <1>4 DEF StopExisting

LEMMA StartViaSocketStep ==
    ASSUME Inv, NEW c \in Clients, StartViaSocket(c)
    PROVE  Inv'
<1>1. client \in [Clients -> ClientStates] /\ Typed /\ Composes /\ Busy(c)
  BY DEF StartViaSocket, Inv, Busy, Over, Typed
<1>2. UNCHANGED <<execVars, state, socket, shell>>
  BY DEF StartViaSocket
<1>3. ASSUME Answers, NEW started \in SUBSET (client[c].ask \cap Known),
             GoTo(c, "attached") \/ GoTo(c, "done") \/ GoTo(c, "failed"),
             inst' = [inst EXCEPT ![socket].running = inst[socket].running \cup started]
      PROVE  Inv'
  <2>1. inst[socket].running \cup started \in SUBSET Names
    BY <1>1, <1>3, AnswersIs
  <2> QED  BY <1>1, <1>2, <1>3, <2>1, GoToIs, Finishes DEF Steps
<1>4. CASE GoTo(c, "failed") /\ UNCHANGED inst
  BY <1>1, <1>2, <1>4, GoToIs, Finishes DEF Steps
<1> QED  BY <1>3, <1>4 DEF StartViaSocket

LEMMA LeaveStep ==
    ASSUME Inv, NEW c \in Clients, Leave(c)
    PROVE  Inv'
<1>1. client \in [Clients -> ClientStates] /\ Busy(c)
  BY DEF Leave, Inv, Busy, Over, Typed
<1>2. UNCHANGED <<execVars, state, inst, socket, shell>> /\ GoTo(c, "left")
  BY DEF Leave
<1>3. client' \in [Clients -> ClientStates] /\ client'[c].at = "left"
      /\ \A d \in Clients : d # c => client'[d] = client[d]
  BY <1>1, <1>2, GoToIs DEF Steps
<1>4. Relies(c)'
  BY <1>3 DEF Relies, Busy, Over
<1> QED  BY <1>1, <1>2, <1>3, <1>4, OnlyClient

LEMMA TimeoutStep ==
    ASSUME Inv, NEW c \in Clients, Timeout(c)
    PROVE  Inv'
<1>1. client \in [Clients -> ClientStates] /\ Busy(c)
  BY DEF Timeout, Inv, Busy, Over, Typed
<1>2. UNCHANGED <<execVars, state, inst, socket, shell>> /\ GoTo(c, "failed")
  BY DEF Timeout
<1> QED  BY <1>1, <1>2, GoToIs, Finishes DEF Steps

LEMMA InterruptStep ==
    ASSUME Inv, NEW c \in Clients, Interrupt(c)
    PROVE  Inv'
<1>1. client \in [Clients -> ClientStates]
  BY DEF Inv, Typed
<1>2. UNCHANGED <<execVars, state, inst, socket, shell>>
      /\ (GoTo(c, "failed") \/ (client[c].at = "attached" /\ GoTo(c, "done")))
      /\ client[c].at \in {"attach", "starting", "stopOld", "wait", "attached"}
  BY DEF Interrupt
<1>3. CASE client[c].at # "attached"
  <2>1. Busy(c)
    BY <1>2, <1>3 DEF Busy, Over
  <2> QED  BY <1>1, <1>2, <1>3, <2>1, GoToIs, Finishes DEF Steps
<1>4. CASE client[c].at = "attached"
  <2>1. client' \in [Clients -> ClientStates] /\ client'[c].at \in {"done", "failed"}
        /\ \A d \in Clients : d # c => client'[d] = client[d]
    BY <1>1, <1>2, <1>4, GoToIs DEF Steps
  <2>2. \A d \in Clients : Busy(d)' => Busy(d) /\ client'[d] = client[d]
    BY <2>1 DEF Busy, Over
  <2>3. OneBusy'
    BY <2>2 DEF OneBusy, Inv
  <2>4. \A d \in Clients : Relies(d)'
    <3> SUFFICES ASSUME NEW d \in Clients PROVE Relies(d)'
      OBVIOUS
    <3>1. CASE Busy(d)'
      <4>1. client'[d] = client[d] /\ Relies(d)
        BY <2>2, <3>1 DEF Inv
      <4> QED
        BY <1>2, <4>1 DEF Relies, Busy, Quiet, Spawned, IsReady, RunningServices, Answers,
                          Running, execVars
    <3>2. CASE ~Busy(d)'
      BY <3>2 DEF Busy, Relies, Over
    <3> QED  BY <3>1, <3>2
  <2>5. Typed' /\ Requests' /\ Composes' /\ Executive'
    BY <1>2, <2>1 DEF Inv, Typed, Requests, Composes, Executive, ExecutiveRuns, Running,
                      Spawned, Answers, execVars
  <2> QED  BY <2>3, <2>4, <2>5 DEF Inv
<1> QED  BY <1>3, <1>4

-----------------------------------------------------------------------------
\* process_compose_down: nothing runs that did not run before, and if nobody
\* answers any more, only what has not bound the socket runs.
LEMMA DownIs ==
    ASSUME Inv, Down
    PROVE  /\ inst' \in [Instances -> InstanceStates] /\ socket' \in Instances \cup {0}
           /\ Spawned' = Spawned /\ Running' \subseteq Running
           /\ \A i \in Instances :
                /\ inst'[i].is = "listening" => socket' = i
                /\ inst'[i].is # "listening" => inst'[i].running = {}
                /\ inst'[i].store = inst[i].store
           /\ ~Answers' => Running' = Spawned
           /\ RunningServices' = {} \/ RunningServices' = RunningServices
<1>1. Typed /\ Composes /\ inst \in [Instances -> InstanceStates]
  BY DEF Inv, Typed
<1>2. CASE /\ Answers /\ socket' = 0
           /\ inst' = [inst EXCEPT ![socket].is = "exited", ![socket].running = {}]
  <2> DEFINE r == [inst[socket] EXCEPT !.is = "exited", !.running = {}]
  <2>1. socket \in Instances /\ inst[socket].is = "listening"
    BY <1>1, <1>2, AnswersIs
  <2>2. r \in InstanceStates /\ r.is = "exited" /\ r.running = {} /\ r.store = inst[socket].store
    BY <1>1, <2>1 DEF InstanceStates
  <2>3. inst' = [inst EXCEPT ![socket] = r] /\ socket' = 0
    BY <1>2
  <2> HIDE DEF r
  <2>4. /\ inst'[socket] = r /\ inst' \in [Instances -> InstanceStates]
        /\ \A i \in Instances : i # socket => inst'[i] = inst[i] /\ inst[i].is # "listening"
    BY <1>1, <2>1, <2>2, <2>3 DEF Composes
  <2>5. \A i \in Instances : inst'[i].is # "listening" /\ inst'[i].running = {}
                              /\ inst'[i].store = inst[i].store
    BY <1>1, <2>1, <2>2, <2>4 DEF Composes
  <2>6. Spawned' = Spawned /\ Running' = Spawned /\ Running' \subseteq Running
    BY <2>1, <2>2, <2>4 DEF Spawned, Running
  <2>7. RunningServices' = {}
    BY <2>3 DEF RunningServices, Answers
  <2> QED  BY <2>3, <2>4, <2>5, <2>6, <2>7
<1>3. CASE UNCHANGED <<inst, socket>>
  <2>1. ~Answers => \A i \in Instances : inst[i].is # "listening"
    BY <1>1 DEF Composes, Answers, Instances
  <2>2. ~Answers' => Running' = Spawned
    BY <1>3, <2>1 DEF Answers, Running, Spawned
  <2>3. RunningServices' = RunningServices /\ Running' = Running /\ Spawned' = Spawned
    BY <1>3 DEF RunningServices, Answers, Running, Spawned
  <2> QED  BY <1>1, <1>3, <2>2, <2>3 DEF Composes, Typed
<1> QED  BY <1>2, <1>3 DEF Down

LEMMA StopOldStep ==
    ASSUME Inv, NEW c \in Clients, StopOld(c)
    PROVE  Inv'
<1>1. client \in [Clients -> ClientStates] /\ Busy(c) /\ client[c].at = "stopOld"
  BY DEF StopOld, Inv, Busy, Over, Typed
<1>2. UNCHANGED <<execVars, state, shell>> /\ Down
      /\ client' = [client EXCEPT ![c].at = "signal", ![c].kept = Answers']
  BY DEF StopOld
<1>3. client' \in [Clients -> ClientStates] /\ client'[c].at = "signal"
      /\ client'[c].store = client[c].store /\ client'[c].kept = Answers'
      /\ \A d \in Clients : d # c => client'[d] = client[d]
  <2>1. PICK k \in BOOLEAN : k = Answers'
    BY DEF Answers
  <2> DEFINE r == [client[c] EXCEPT !.at = "signal", !.kept = k]
  <2>2. r \in ClientStates /\ r.at = "signal" /\ r.store = client[c].store /\ r.kept = k
    BY <1>1 DEF ClientStates, Steps
  <2>3. client' = [client EXCEPT ![c] = r]
    BY <1>2, <2>1
  <2> HIDE DEF r
  <2> QED  BY <1>1, <2>1, <2>2, <2>3
<1>4. Quiet /\ IsReady(c) /\ client[c].store \in Stores
  BY <1>1 DEF Inv, Relies, Steps, Over
<1>5. Quiet' /\ (Answers' \/ Running' = {})
  BY <1>2, <1>4, DownIs DEF Quiet, execVars
<1>6. Relies(c)'
  BY <1>2, <1>3, <1>4, <1>5 DEF Relies, IsReady
<1>7. OneBusy' /\ \A d \in Clients : Relies(d)'
  BY <1>1, <1>3, <1>6, OneMoves DEF Inv
<1>8. Typed'
  BY <1>2, <1>3, DownIs DEF Inv, Typed, execVars
<1>9. Requests' /\ Executive'
  BY <1>2, DownIs DEF Inv, Requests, Executive, ExecutiveRuns, execVars
<1>10. Composes'
  BY <1>2, DownIs DEF Inv, Composes, Running, execVars
<1> QED  BY <1>7, <1>8, <1>9, <1>10 DEF Inv

LEMMA SignalExecutiveStep ==
    ASSUME Inv, NEW c \in Clients, SignalExecutive(c)
    PROVE  Inv'
<1>1. client \in [Clients -> ClientStates] /\ Busy(c) /\ client[c].at = "signal"
  BY DEF SignalExecutive, Inv, Busy, Over, Typed
<1>2. UNCHANGED <<state, current, events, inst, socket, shell>>
  BY DEF SignalExecutive
<1>3. /\ Quiet /\ IsReady(c) /\ client[c].store \in Stores
      /\ client[c].kept \/ Running = {}
  BY <1>1 DEF Inv, Relies, Steps, Over
<1>4. /\ exec' \in {exec, "killed"} /\ exec' \in {"setup", "up", "killed", "done"}
      /\ signal' \in BOOLEAN
      /\ exec' = "done" => exec = "done"
      /\ GoTo(c, "wait") \/ (GoTo(c, "failed") /\ UNCHANGED <<exec, signal>>)
  <2>1. CASE exec = "up"
    BY <2>1 DEF SignalExecutive, Inv, Typed
  <2>2. CASE exec = "setup"
    BY <2>2 DEF SignalExecutive, Inv, Typed
  <2>3. CASE exec \notin {"up", "setup"}
    BY <2>3 DEF SignalExecutive, Inv, Typed
  <2> QED  BY <2>1, <2>2, <2>3
<1>5. CASE GoTo(c, "failed") /\ UNCHANGED <<exec, signal>>
  BY <1>1, <1>2, <1>5, GoToIs, Finishes DEF Steps, execVars
<1>6. CASE GoTo(c, "wait")
  <2>1. client' \in [Clients -> ClientStates] /\ client'[c].at = "wait"
        /\ client'[c].store = client[c].store /\ client'[c].kept = client[c].kept
        /\ \A d \in Clients : d # c => client'[d] = client[d]
    BY <1>1, <1>6, GoToIs DEF Steps
  <2>2. Running' = Running /\ Spawned' = Spawned
    BY <1>2 DEF Running, Spawned
  <2>3. Relies(c)'
    BY <1>2, <1>3, <2>1, <2>2 DEF Relies, IsReady, Steps, Over
  <2>4. OneBusy' /\ \A d \in Clients : Relies(d)'
    BY <1>1, <2>1, <2>3, OneMoves DEF Inv
  <2>5. Typed'
    BY <1>2, <1>4, <2>1 DEF Inv, Typed
  <2>6. Requests'
    BY <1>2, <1>3, <2>2 DEF Inv, Requests, Quiet
  <2>7. Composes'
    BY <1>2 DEF Inv, Composes, Running
  <2>8. Executive'
    BY <1>2, <1>4 DEF Inv, Executive, ExecutiveRuns
  <2> QED  BY <2>4, <2>5, <2>6, <2>7, <2>8 DEF Inv
<1> QED  BY <1>4, <1>5, <1>6

LEMMA SocketReadyStep ==
    ASSUME Inv, NEW c \in Clients, SocketReady(c)
    PROVE  Inv'
<1>1. client \in [Clients -> ClientStates] /\ Busy(c) /\ client[c].at = "wait" /\ Answers
  BY DEF SocketReady, Inv, Busy, Over, Typed
<1>2. UNCHANGED <<execVars, state, inst, socket, shell>> /\ GoTo(c, "viaSocket")
  BY DEF SocketReady
<1>3. client' \in [Clients -> ClientStates] /\ client'[c].at = "viaSocket"
      /\ client'[c].store = client[c].store /\ client'[c].kept = client[c].kept
      /\ \A d \in Clients : d # c => client'[d] = client[d]
  BY <1>1, <1>2, GoToIs DEF Steps
<1>4. IsReady(c) /\ client[c].store \in Stores
      /\ (client[c].kept \/ \A i \in Running : inst[i].store = client[c].store)
  BY <1>1 DEF Inv, Relies
<1>5. Relies(c)'
  BY <1>2, <1>3, <1>4 DEF Relies, IsReady, Running
<1> QED  BY <1>1, <1>2, <1>3, <1>5, OnlyClient

LEMMA AfterAttachIs ==
    ASSUME NEW c \in Clients
    PROVE  /\ AfterAttach(c) \in {"stopOld", "attached", "done"}
           /\ AfterAttach(c) = "stopOld" => client[c].ask # {}
BY DEF AfterAttach

LEMMA AttachOrStartStep ==
    ASSUME Inv, NEW c \in Clients, AttachOrStart(c)
    PROVE  Inv'
<1>1. client \in [Clients -> ClientStates] /\ Busy(c) /\ client[c].at = "attach"
      /\ client[c].store \in Stores /\ Quiet
  BY DEF AttachOrStart, Inv, Relies, Busy, Over, Typed, Steps
<1>2. UNCHANGED <<execVars, inst, socket, shell>> /\ state \in ActivationStates
  BY DEF AttachOrStart, Inv, Typed, Executive
<1> DEFINE id == [store |-> client[c].store, by |-> c]
           r == state.ready
<1>3. c \in Activators /\ c \in Pids /\ id \in StartIds
  BY <1>1 DEF Clients, Pids, StartIds
<1>4. Quiet' /\ RunningServices' = RunningServices
  BY <1>1, <1>2 DEF Quiet, Spawned, RunningServices, Answers, execVars
<1>5. state' \in ActivationStates /\ client' \in [Clients -> ClientStates]
      /\ (\A d \in Clients : d # c => client'[d] = client[d]) /\ Relies(c)'
  <2>1. CASE r.is = "true" /\ r.start.store = client[c].store
              /\ state' = AttachTo(state, c, r.start) /\ GoTo(c, AfterAttach(c))
    <3>1. r.start \in StartIds
      BY <1>2, <2>1, StateIs
    <3>2. /\ state' \in ActivationStates /\ c \in DOMAIN state'.attached
          /\ state'.attached[c].start = r.start /\ state'.ready = r
      BY <1>2, <1>3, <2>1, <3>1, AttachToIs
    <3>3. /\ client' \in [Clients -> ClientStates] /\ client'[c].at = AfterAttach(c)
          /\ client'[c].kind = client[c].kind /\ client'[c].names = client[c].names
          /\ client'[c].store = client[c].store
          /\ \A d \in Clients : d # c => client'[d] = client[d]
      BY <1>1, <2>1, GoToIs, AfterAttachIs DEF Steps
    <3>4. state' # NoState
      BY <3>2, ConstantsDistinct
    <3>5. IsReady(c)'
      BY <2>1, <3>2, <3>3, <3>4 DEF IsReady
    <3>6. client'[c].at = "stopOld" => client[c].ask # {}
      BY <3>3, AfterAttachIs
    <3>7. client'[c].at \in {"stopOld", "attached", "done"}
      BY <3>3, AfterAttachIs
    <3>8. client[c].ask # {} =>
             RunningServices = {} \/ (client[c].kind = "restart" /\ client[c].names = {})
      BY <1>1 DEF Inv, Relies
    <3>9. Relies(c)'
      BY <1>1, <1>4, <3>3, <3>5, <3>6, <3>7, <3>8 DEF Relies, Steps, Over
    <3> QED  BY <3>2, <3>3, <3>9
  <2>2. CASE state' = StartBy(state, c, id) /\ GoTo(c, "starting")
    <3>1. /\ state' \in ActivationStates /\ c \in DOMAIN state'.attached
          /\ state'.attached[c].start = id
      BY <1>2, <1>3, <2>2, StartByIs
    <3>2. /\ client' \in [Clients -> ClientStates] /\ client'[c].at = "starting"
          /\ client'[c].kind = client[c].kind /\ client'[c].names = client[c].names
          /\ client'[c].store = client[c].store /\ client'[c].ask = client[c].ask
          /\ \A d \in Clients : d # c => client'[d] = client[d]
      BY <1>1, <2>2, GoToIs DEF Steps
    <3>3. state' # NoState
      BY <3>1, ConstantsDistinct
    <3>4. client[c].ask # {} =>
             RunningServices = {} \/ (client[c].kind = "restart" /\ client[c].names = {})
      BY <1>1 DEF Inv, Relies
    <3>5. Relies(c)'
      BY <1>1, <1>4, <3>1, <3>2, <3>3, <3>4 DEF Relies, Steps, Over
    <3> QED  BY <3>1, <3>2, <3>5
  <2> QED  BY <2>1, <2>2 DEF AttachOrStart
<1> HIDE DEF id, r
<1>6. OneBusy' /\ \A d \in Clients : Relies(d)'
  BY <1>1, <1>5, OneMoves DEF Inv
<1>7. Typed'
  BY <1>2, <1>5 DEF Inv, Typed, execVars
<1>8. Requests' /\ Composes'
  BY <1>2 DEF Inv, Requests, Composes, Running, Spawned, execVars
<1>9. Executive'
  BY <1>2, <1>5, ConstantsDistinct DEF Inv, Executive, Running, ExecutiveRuns, execVars
<1> QED  BY <1>6, <1>7, <1>8, <1>9 DEF Inv

LEMMA MarkReadyStep ==
    ASSUME Inv, NEW c \in Clients, MarkReady(c)
    PROVE  Inv'
<1>1. client \in [Clients -> ClientStates] /\ Busy(c) /\ client[c].at = "starting"
      /\ client[c].store \in Stores /\ Quiet /\ state \in ActivationStates
  BY DEF MarkReady, Inv, Relies, Busy, Over, Typed, Steps
<1> DEFINE id == [store |-> client[c].store, by |-> c]
<1>2. UNCHANGED <<execVars, inst, socket, shell>> /\ state' = SetReady(state, id)
      /\ GoTo(c, AfterAttach(c))
  BY DEF MarkReady
<1>3. id \in StartIds /\ id.store = client[c].store
  BY <1>1 DEF Clients, StartIds
<1>4. Quiet' /\ RunningServices' = RunningServices
  BY <1>1, <1>2 DEF Quiet, Spawned, RunningServices, Answers, execVars
<1>5. c \in DOMAIN state.attached /\ state.attached[c].start = id
  BY <1>1 DEF Inv, Relies
<1> HIDE DEF id
<1>6. /\ state' \in ActivationStates /\ state'.attached = state.attached
      /\ state'.ready.is = "true" /\ state'.ready.start = id /\ state' # NoState
  BY <1>1, <1>2, <1>3, SetReadyIs, ConstantsDistinct
<1>7. /\ client' \in [Clients -> ClientStates] /\ client'[c].at = AfterAttach(c)
      /\ client'[c].kind = client[c].kind /\ client'[c].names = client[c].names
      /\ client'[c].store = client[c].store
      /\ \A d \in Clients : d # c => client'[d] = client[d]
  BY <1>1, <1>2, GoToIs, AfterAttachIs DEF Steps
<1>8. IsReady(c)'
  BY <1>3, <1>5, <1>6, <1>7 DEF IsReady
<1>9. Relies(c)'
  <2>1. client[c].ask # {} =>
             RunningServices = {} \/ (client[c].kind = "restart" /\ client[c].names = {})
    BY <1>1 DEF Inv, Relies
  <2>2. client'[c].at \in {"stopOld", "attached", "done"}
        /\ (client'[c].at = "stopOld" => client[c].ask # {})
    BY <1>7, AfterAttachIs
  <2> QED  BY <1>1, <1>4, <1>7, <1>8, <2>1, <2>2 DEF Relies, Steps, Over
<1>10. OneBusy' /\ \A d \in Clients : Relies(d)'
  BY <1>1, <1>7, <1>9, OneMoves DEF Inv
<1>11. Typed'
  BY <1>2, <1>6, <1>7 DEF Inv, Typed, execVars
<1>12. Requests' /\ Composes'
  BY <1>2 DEF Inv, Requests, Composes, Running, Spawned, execVars
<1>13. Executive'
  BY <1>2, <1>6 DEF Inv, Executive, Running, ExecutiveRuns, execVars
<1> QED  BY <1>10, <1>11, <1>12, <1>13 DEF Inv

-----------------------------------------------------------------------------
\* Steps of the others.
LEMMA ExitShellStep ==
    ASSUME Inv, ExitShell
    PROVE  Inv'
<1>1. UNCHANGED <<execVars, state, inst, socket, client>> /\ shell' = FALSE
  BY DEF ExitShell
<1>2. Typed' /\ OneBusy'
  BY <1>1 DEF Inv, Typed, OneBusy, Busy, execVars
<1>3. Requests' /\ Composes' /\ Executive'
  BY <1>1 DEF Inv, Requests, Composes, Executive, ExecutiveRuns, Running, Spawned, execVars
<1>4. \A c \in Clients : Relies(c)'
  BY <1>1 DEF Inv, Relies, Busy, IsReady, Quiet, Spawned, RunningServices, Answers, Running,
              execVars
<1> QED  BY <1>2, <1>3, <1>4 DEF Inv

LEMMA RegisterSignalsStep ==
    ASSUME Inv, RegisterSignals
    PROVE  Inv'
<1>1. /\ UNCHANGED <<current, signal, events, state, inst, socket, shell, client>>
      /\ exec = "setup" /\ exec' = "up"
  BY DEF RegisterSignals
<1>2. Typed' /\ OneBusy'
  BY <1>1 DEF Inv, Typed, OneBusy, Busy
<1>3. Requests' /\ Composes' /\ Executive'
  BY <1>1 DEF Inv, Requests, Composes, Executive, ExecutiveRuns, Running, Spawned
<1>4. \A c \in Clients : Relies(c)'
  BY <1>1 DEF Inv, Relies, Busy, IsReady, Quiet, Spawned, RunningServices, Answers, Running
<1> QED  BY <1>2, <1>3, <1>4 DEF Inv

LEMMA ForwardSignalStep ==
    ASSUME Inv, ForwardSignal
    PROVE  Inv'
<1>1. /\ UNCHANGED <<exec, current, state, inst, socket, shell, client>>
      /\ signal /\ ~signal' /\ signal' \in BOOLEAN /\ events' = events + 1
  BY DEF ForwardSignal
<1>2. events = 0 /\ Spawned = {}
  BY <1>1 DEF Inv, Requests
<1>3. Typed' /\ OneBusy'
  BY <1>1, <1>2 DEF Inv, Typed, OneBusy, Busy
<1>4. Requests' /\ Composes' /\ Executive'
  BY <1>1, <1>2 DEF Inv, Requests, Composes, Executive, ExecutiveRuns, Running, Spawned
<1>5. \A c \in Clients : Relies(c)'
  BY <1>1 DEF Inv, Relies, Busy, IsReady, Quiet, Spawned, RunningServices, Answers, Running
<1> QED  BY <1>3, <1>4, <1>5 DEF Inv

LEMMA SpawnIs ==
    ASSUME Typed, state \in ActivationStates, state.ready.is = "true", Running = {}, Spawn
    PROVE  \E i \in Instances :
             /\ inst' = [inst EXCEPT ![i] = [is |-> "spawned", running |-> {},
                                             store |-> state.ready.start.store]]
             /\ inst' \in [Instances -> InstanceStates]
             /\ Running' = {i} /\ inst'[i].store = state.ready.start.store
             /\ inst'[i].is = "spawned" /\ inst'[i].running = {}
             /\ \A j \in Instances : j # i => inst'[j] = inst[j]
             /\ state.ready.start.store \in Stores
<1>1. state.ready.start.store \in Stores
  BY StateIs DEF StartIds
<1> DEFINE r == [is |-> "spawned", running |-> {}, store |-> state.ready.start.store]
<1>2. r \in InstanceStates /\ r.is = "spawned" /\ r.running = {}
      /\ r.store = state.ready.start.store
  BY <1>1 DEF InstanceStates
<1>3. PICK i \in Instances : inst' = [inst EXCEPT ![i] = r]
  BY DEF Spawn
<1> HIDE DEF r
<1>4. inst' \in [Instances -> InstanceStates] /\ inst'[i] = r
      /\ \A j \in Instances : j # i => inst'[j] = inst[j]
  BY <1>2, <1>3 DEF Typed
<1>5. Running' = {i}
  BY <1>2, <1>4 DEF Running
<1> QED  BY <1>1, <1>2, <1>3, <1>4, <1>5 DEF r

LEMMA HandleStartServicesStep ==
    ASSUME Inv, HandleStartServices
    PROVE  Inv'
<1>1. /\ UNCHANGED <<exec, signal, state, socket, shell, client>>
      /\ exec = "up" /\ events > 0 /\ events' = events - 1
  BY DEF HandleStartServices
<1>2. events = 1 /\ events' = 0 /\ Spawned = {} /\ ~signal
  BY <1>1 DEF Inv, Requests, Typed
<1>3. state \in ActivationStates
  BY <1>1 DEF Inv, Typed, Executive, ExecutiveRuns
<1>4. OneBusy'
  BY <1>1 DEF Inv, OneBusy, Busy
<1>5. CASE UNCHANGED <<inst, current>>
  <2>1. Typed' /\ Requests' /\ Composes' /\ Executive'
    BY <1>1, <1>2, <1>5 DEF Inv, Typed, Requests, Composes, Executive, ExecutiveRuns,
                            Running, Spawned
  <2>2. \A c \in Clients : Relies(c)'
    BY <1>1, <1>2, <1>5 DEF Inv, Relies, Busy, IsReady, Quiet, Spawned, RunningServices,
                            Answers, Running
  <2> QED  BY <1>4, <2>1, <2>2 DEF Inv
<1>6. CASE /\ state.ready.is = "true" /\ socket = 0
           /\ Spawn /\ current' = state.ready.start.store
  <2>0. Running = {}
    BY <1>2, <1>6 DEF Inv, Composes, Running, Spawned, Instances
  <2>1. PICK i \in Instances :
             /\ inst' \in [Instances -> InstanceStates]
             /\ Running' = {i} /\ inst'[i].store = state.ready.start.store
             /\ inst'[i].is = "spawned" /\ inst'[i].running = {}
             /\ \A j \in Instances : j # i => inst'[j] = inst[j]
             /\ state.ready.start.store \in Stores
    BY <1>3, <1>6, <2>0, SpawnIs DEF Inv
  <2>2. Typed'
    BY <1>1, <1>2, <1>6, <2>1 DEF Inv, Typed
  <2>3. Requests'
    BY <1>1, <1>2, <2>1 DEF Requests
  <2>4. \A j \in Instances : inst'[j].is # "listening" /\ inst'[j].running = {}
    BY <2>0, <2>1 DEF Inv, Composes, Running
  <2>5. Composes'
    BY <1>1, <1>6, <2>1, <2>4 DEF Inv, Composes
  <2>6. Executive'
    BY <1>1 DEF Inv, Executive, ExecutiveRuns
  <2>7. \A c \in Clients : Relies(c)'
    <3> SUFFICES ASSUME NEW c \in Clients, Busy(c) PROVE Relies(c)'
      BY <1>1 DEF Relies, Busy, Over
    <3>1. ~Quiet
      BY <1>2 DEF Quiet
    <3>2. client[c].at \in {"wait", "viaSocket"} /\ IsReady(c) /\ client[c].store \in Stores
      BY <3>1 DEF Inv, Relies, Busy, Over, Typed, ClientStates
    <3>3. IsReady(c)' /\ state.ready.start.store = client[c].store
      BY <1>1, <3>2 DEF IsReady
    <3> QED  BY <1>1, <2>1, <3>2, <3>3 DEF Relies, Over
  <2> QED  BY <1>4, <2>2, <2>3, <2>5, <2>6, <2>7 DEF Inv
<1> QED  BY <1>5, <1>6 DEF HandleStartServices

LEMMA ProcessExitedStep ==
    ASSUME Inv, NEW p \in Activators, ProcessExited(p)
    PROVE  Inv'
<1>1. /\ UNCHANGED <<current, signal, events, shell, client>>
      /\ exec = "up" /\ p \in DOMAIN state.attached /\ ~PidRuns(p)
      /\ state \in ActivationStates
  BY DEF ProcessExited, Inv, Typed, Executive, ExecutiveRuns
<1>2. OneBusy'
  BY <1>1 DEF Inv, OneBusy, Busy
<1>3. \A c \in Clients : Busy(c) => c # p
  BY <1>1 DEF Busy, PidRuns, Clients
<1>4. CASE /\ DOMAIN state.attached = {p} /\ CleanupAll
           /\ exec' = "done" /\ state' = NoState
  <2>1. Down
    BY <1>4 DEF CleanupAll
  <2>2. Typed'
    BY <1>1, <1>4, <2>1, DownIs DEF Inv, Typed
  <2>3. Requests' /\ Executive'
    BY <1>1, <1>4, <2>1, DownIs DEF Inv, Requests, Executive, ExecutiveRuns
  <2>4. Composes'
    BY <1>1, <2>1, DownIs DEF Inv, Composes, Running
  <2>5. \A c \in Clients : Relies(c)'
    <3> SUFFICES ASSUME NEW c \in Clients, Busy(c) PROVE Relies(c)'
      BY <1>1 DEF Relies, Busy, Over
    <3>1. c \notin DOMAIN state.attached
      BY <1>3, <1>4
    <3>2. Relies(c) /\ client[c].at \notin {"starting", "stopOld", "signal", "wait", "viaSocket"}
      BY <3>1 DEF Inv, Relies, IsReady
    <3>3. Quiet' = Quiet
      BY <1>1, <2>1, DownIs DEF Quiet
    <3>4. RunningServices = {} => RunningServices' = {}
      BY <2>1, DownIs
    <3> QED  BY <1>1, <3>2, <3>3, <3>4 DEF Relies, Busy
  <2> QED  BY <1>2, <2>2, <2>3, <2>4, <2>5 DEF Inv
<1>5. CASE /\ DOMAIN state.attached # {p} /\ state' = DetachPid(state, p)
           /\ UNCHANGED <<exec, inst, socket>>
  <2>1. PICK q \in DOMAIN state.attached : q # p
    BY <1>1, <1>5
  <2>2. state' \in ActivationStates /\ state' # NoState
    BY <1>1, <1>5, <2>1, DetachPidIs, ConstantsDistinct
  <2>3. Typed'
    BY <1>1, <1>5, <2>2 DEF Inv, Typed
  <2>4. Requests' /\ Composes' /\ Executive'
    BY <1>1, <1>5, <2>2 DEF Inv, Requests, Composes, Executive, ExecutiveRuns, Running,
                            Spawned
  <2>5. \A c \in Clients : Relies(c)'
    <3> SUFFICES ASSUME NEW c \in Clients, Busy(c) PROVE Relies(c)'
      BY <1>1 DEF Relies, Busy, Over
    <3>1. c # p /\ Relies(c)
      BY <1>3 DEF Inv
    <3>2. c \in DOMAIN state.attached =>
             /\ c \in DOMAIN state'.attached /\ state'.attached[c] = state.attached[c]
             /\ state.ready.start = state.attached[c].start => state'.ready = state.ready
      BY <1>1, <1>5, <3>1, DetachPidIs
    <3>3. IsReady(c) => IsReady(c)'
      BY <1>1, <2>2, <3>2 DEF IsReady
    <3>4. Quiet' = Quiet /\ RunningServices' = RunningServices /\ Running' = Running
      BY <1>1, <1>5 DEF Quiet, Spawned, RunningServices, Answers, Running
    <3> QED  BY <1>1, <1>5, <2>2, <3>1, <3>2, <3>3, <3>4 DEF Relies, Busy
  <2> QED  BY <1>2, <2>3, <2>4, <2>5 DEF Inv
<1> QED  BY <1>4, <1>5 DEF ProcessExited

LEMMA BindSocketStep ==
    ASSUME Inv, NEW i \in Instances, BindSocket(i)
    PROVE  Inv'
<1>1. UNCHANGED <<execVars, state, shell, client>> /\ inst[i].is = "spawned"
      /\ inst \in [Instances -> InstanceStates]
  BY DEF BindSocket, Inv, Typed
<1>2. Running = {i} /\ i \in Spawned /\ ~Quiet /\ ~Answers
  <2>1. i \in Running /\ i \in Spawned
    BY <1>1 DEF Running, Spawned
  <2>2. Running = {i}
    BY <2>1 DEF Inv, Requests
  <2> QED  BY <1>1, <2>1, <2>2, AnswersIs DEF Quiet, Inv
<1>3. socket' = i /\ inst' = [inst EXCEPT ![i].is = "listening"]
  BY <1>2 DEF BindSocket
<1> DEFINE r == [inst[i] EXCEPT !.is = "listening"]
<1>4. r \in InstanceStates /\ r.is = "listening" /\ r.store = inst[i].store
      /\ inst' = [inst EXCEPT ![i] = r]
  BY <1>1, <1>3 DEF InstanceStates
<1> HIDE DEF r
<1>5. inst' \in [Instances -> InstanceStates] /\ inst'[i] = r
      /\ \A j \in Instances : j # i => inst'[j] = inst[j]
  BY <1>1, <1>4
<1>6. Running' = {i} /\ Spawned' = {}
  BY <1>2, <1>3, <1>4, <1>5 DEF Running, Spawned
<1>7. Typed' /\ OneBusy'
  BY <1>1, <1>3, <1>5 DEF Inv, Typed, OneBusy, Busy, execVars
<1>8. Requests' /\ Executive'
  BY <1>1, <1>2, <1>6 DEF Inv, Requests, Executive, ExecutiveRuns, execVars
<1>9. Composes'
  BY <1>1, <1>2, <1>3, <1>4, <1>5, <1>6 DEF Inv, Composes, Running, execVars
<1>10. \A c \in Clients : Relies(c)'
  <2> SUFFICES ASSUME NEW c \in Clients, Busy(c) PROVE Relies(c)'
    BY <1>1 DEF Relies, Busy, Over
  <2>1. client[c].at \in {"wait", "viaSocket"} /\ IsReady(c) /\ client[c].store \in Stores
        /\ (client[c].kept \/ inst[i].store = client[c].store)
    BY <1>2 DEF Inv, Relies, Busy, Over, Typed, ClientStates
  <2>2. IsReady(c)'
    BY <1>1, <2>1 DEF IsReady
  <2> QED  BY <1>1, <1>4, <1>5, <1>6, <2>1, <2>2 DEF Relies, Over
<1> QED  BY <1>7, <1>8, <1>9, <1>10 DEF Inv

LEMMA CrashStep ==
    ASSUME Inv, NEW i \in Instances, Crash(i)
    PROVE  Inv'
<1>1. UNCHANGED <<execVars, state, socket, shell, client>> /\ Crashes
      /\ inst \in [Instances -> InstanceStates] /\ inst[i].is = "listening" /\ socket = i
      /\ inst' = [inst EXCEPT ![i].is = "exited", ![i].running = {}]
  BY DEF Crash, Inv, Typed, Composes
<1> DEFINE r == [inst[i] EXCEPT !.is = "exited", !.running = {}]
<1>2. r \in InstanceStates /\ r.is = "exited" /\ r.running = {}
      /\ inst' = [inst EXCEPT ![i] = r]
  BY <1>1 DEF InstanceStates
<1> HIDE DEF r
<1>3. inst' \in [Instances -> InstanceStates] /\ inst'[i] = r
      /\ \A j \in Instances : j # i => inst'[j] = inst[j]
  BY <1>1, <1>2
<1>4. /\ Spawned' = Spawned /\ Running' = Running \ {i} /\ ~Answers'
      /\ RunningServices' = {}
  BY <1>1, <1>2, <1>3 DEF Spawned, Running, Answers, RunningServices
<1>5. Typed' /\ OneBusy'
  BY <1>1, <1>3 DEF Inv, Typed, OneBusy, Busy, execVars
<1>6. Requests' /\ Executive'
  BY <1>1, <1>4 DEF Inv, Requests, Executive, ExecutiveRuns, execVars
<1>7. Composes'
  <2>1. \A j \in Instances : inst'[j].is = "listening" => socket = j
    BY <1>2, <1>3 DEF Inv, Composes
  <2>2. \A j \in Instances : inst'[j].is # "listening" => inst'[j].running = {}
    BY <1>2, <1>3 DEF Inv, Composes
  <2>3. \A j \in Running' : inst'[j].store = current /\ current \in Stores
    BY <1>3, <1>4 DEF Inv, Composes, Running
  <2> QED  BY <1>1, <2>1, <2>2, <2>3 DEF Composes, execVars
<1>8. \A c \in Clients : Relies(c)'
  <2> SUFFICES ASSUME NEW c \in Clients PROVE Relies(c)'
    OBVIOUS
  <2>1. Relies(c) /\ (Quiet' <=> Quiet) /\ (IsReady(c)' <=> IsReady(c))
    BY <1>1, <1>4 DEF Inv, Quiet, IsReady, execVars
  <2>2. \A j \in Running' : j \in Running /\ inst'[j] = inst[j]
    BY <1>3, <1>4 DEF Running
  <2> QED  BY <1>1, <1>4, <2>1, <2>2 DEF Relies, Busy
<1> QED  BY <1>5, <1>6, <1>7, <1>8 DEF Inv

LEMMA ServiceEndsStep ==
    ASSUME Inv, NEW i \in Instances, NEW n \in Names, ServiceEnds(i, n)
    PROVE  Inv'
<1>1. UNCHANGED <<execVars, state, socket, shell, client>> /\ inst[i].is = "listening"
      /\ inst \in [Instances -> InstanceStates]
      /\ inst' = [inst EXCEPT ![i].running = @ \ {n}]
  BY DEF ServiceEnds, Inv, Typed, Composes
<1>2. socket = i /\ Answers
  BY <1>1 DEF Inv, Composes, Answers, Instances
<1> DEFINE R == inst[i].running \ {n}
<1>3. R \in SUBSET Names /\ inst' = [inst EXCEPT ![socket].running = R]
  BY <1>1, <1>2 DEF InstanceStates
<1>4. /\ inst' \in [Instances -> InstanceStates]
      /\ \A j \in Instances : inst'[j].is = inst[j].is /\ inst'[j].store = inst[j].store
      /\ \A j \in Instances \ {i} : inst'[j] = inst[j]
      /\ inst'[i].running = R
  <2>1. /\ inst' \in [Instances -> InstanceStates]
        /\ \A j \in Instances : inst'[j].is = inst[j].is /\ inst'[j].store = inst[j].store
        /\ \A j \in Instances \ {i} : inst'[j] = inst[j]
    BY <1>2, <1>3, ServicesChange
  <2>2. inst'[i].running = R
    BY <1>1 DEF InstanceStates
  <2> QED  BY <2>1, <2>2
<1>5. Running' = Running /\ Spawned' = Spawned /\ Answers'
      /\ RunningServices' = R /\ RunningServices = inst[i].running
  BY <1>1, <1>2, <1>4 DEF Running, Spawned, Answers, RunningServices
<1>6. Typed' /\ OneBusy'
  BY <1>1, <1>4 DEF Inv, Typed, OneBusy, Busy, execVars
<1>7. Requests' /\ Executive'
  BY <1>1, <1>5 DEF Inv, Requests, Executive, ExecutiveRuns, execVars
<1>8. Composes'
  BY <1>1, <1>4, <1>5 DEF Inv, Composes, Running, execVars
<1>9. \A c \in Clients : Relies(c)'
  <2> SUFFICES ASSUME NEW c \in Clients PROVE Relies(c)'
    OBVIOUS
  <2>1. Relies(c) /\ (Quiet' <=> Quiet) /\ (IsReady(c)' <=> IsReady(c))
        /\ (RunningServices = {} => RunningServices' = {})
    BY <1>1, <1>5 DEF Inv, Quiet, IsReady, execVars
  <2>2. \A j \in Running : inst'[j].store = inst[j].store
    BY <1>4 DEF Running
  <2> QED  BY <1>1, <1>5, <2>1, <2>2 DEF Relies, Busy
<1> QED  BY <1>6, <1>7, <1>8, <1>9 DEF Inv

-----------------------------------------------------------------------------
LEMMA InitInv == Init => Inv
<1> SUFFICES ASSUME Init PROVE Inv
  OBVIOUS
<1>1. state \in ActivationStates /\ state # NoState
  <2>1. PICK v \in Stores, m \in Modes :
           LET id == [store |-> v, by |-> User]
           IN  state = SetReady([StartBy(New(m), User, id) EXCEPT !.executive = User], id)
    BY DEF Init
  <2> DEFINE id == [store |-> v, by |-> User]
             a == StartBy(New(m), User, id)
             b == [a EXCEPT !.executive = User]
  <2>2. id \in StartIds /\ User \in Activators
    BY ServicesAssumption DEF StartIds
  <2>3. New(m) \in ActivationStates
    BY MapIs DEF New, ActivationStates, ReadyFalse, ReadyValues
  <2>4. a \in ActivationStates
    BY <2>2, <2>3, StartByIs
  <2> HIDE DEF a
  <2>5. b \in ActivationStates
    BY <2>2, <2>4 DEF ActivationStates
  <2> HIDE DEF b
  <2>6. state = SetReady(b, id)
    BY <2>1 DEF a, b
  <2> QED  BY <2>2, <2>5, <2>6, SetReadyIs, ConstantsDistinct
<1>2. /\ Running = {} /\ Spawned = {} /\ ~Answers
      /\ \A c \in Clients : client[c].at = "none"
      /\ inst \in [Instances -> InstanceStates] /\ client \in [Clients -> ClientStates]
  <2>1. [is |-> "none", store |-> NoStore, running |-> {}] \in InstanceStates
    BY DEF InstanceStates
  <2>2. [at |-> "none", kind |-> "none", names |-> {}, store |-> NoStore, ask |-> {},
         hookOf |-> NoPid, current |-> FALSE, kept |-> FALSE] \in ClientStates
    BY DEF ClientStates, Steps
  <2> QED  BY <2>1, <2>2 DEF Init, Running, Spawned, Answers
<1>3. Typed
  BY <1>1, <1>2 DEF Init, Typed
<1>4. OneBusy /\ Requests /\ Executive
  BY <1>1, <1>2 DEF Init, OneBusy, Busy, Over, Requests, Executive, ExecutiveRuns
<1>5. Composes
  BY <1>2 DEF Init, Composes
<1>6. \A c \in Clients : Relies(c)
  BY <1>2 DEF Relies, Busy, Over
<1> QED  BY <1>3, <1>4, <1>5, <1>6 DEF Inv

LEMMA InvStep ==
    ASSUME Serial, Prompt, Inv, [Next]_vars
    PROVE  Inv'
<1>1. CASE UNCHANGED vars
  BY <1>1 DEF vars, Inv, Typed, OneBusy, Busy, Requests, Composes, Executive, ExecutiveRuns,
              Relies, IsReady, Quiet, Spawned, Running, Answers, RunningServices
<1>2. ASSUME NEW c \in Clients, NEW k \in Kinds, NEW names \in SUBSET Names,
             NEW v \in Stores, Begin(c, k, names, v)
      PROVE  Inv'
  BY <1>2, BeginStep
<1>3. ASSUME NEW c \in Clients, ClientStep(c)
      PROVE  Inv'
  BY <1>3, GuardAvailableStep, ReadStateStep, ReadSocketStep,
     DecideStartStep, DecideRestartStep, DecideStopStep, DecideActivateStep,
     StartExistingStep, RestartExistingStep, StopExistingStep, AttachOrStartStep, LeaveStep,
     MarkReadyStep, StopOldStep, SignalExecutiveStep, SocketReadyStep, TimeoutStep,
     StartViaSocketStep DEF ClientStep
<1>4. ASSUME NEW c \in Clients, Interrupt(c)
      PROVE  Inv'
  BY <1>4, InterruptStep
<1>5. CASE ExitShell \/ RegisterSignals \/ ForwardSignal \/ HandleStartServices
  BY <1>5, ExitShellStep, RegisterSignalsStep, ForwardSignalStep, HandleStartServicesStep
<1>6. ASSUME NEW p \in Activators, ProcessExited(p)
      PROVE  Inv'
  BY <1>6, ProcessExitedStep
<1>7. ASSUME NEW i \in Instances,
             BindSocket(i) \/ Crash(i) \/ \E n \in Names : ServiceEnds(i, n)
      PROVE  Inv'
  BY <1>7, BindSocketStep, CrashStep, ServiceEndsStep
<1>8. CASE Ended
  BY <1>1, <1>8 DEF Ended
<1> QED
  BY <1>1, <1>2, <1>3, <1>4, <1>5, <1>6, <1>7, <1>8 DEF Next

\* With one command at a time, each of which finds the one before it dealt
\* with, Inv always holds.
LEMMA Invariance ==
    ASSUME Serial, Prompt
    PROVE  Spec => []Inv
<1>1. Inv /\ [Next]_vars => Inv'
  BY InvStep
<1> QED  BY InitInv, <1>1, PTL DEF Spec

\* The executive never has two process-compose instances: there is one signal on
\* its way, sent after the client stopped the old one, and if that did not shut
\* down, its socket keeps the executive from spawning another.
THEOREM OneProcessCompose ==
    ASSUME Serial, Prompt
    PROVE  Spec => []OneInstance
<1>1. Inv => OneInstance
  <2> SUFFICES ASSUME Inv PROVE Cardinality(Running) <= 1
    BY DEF OneInstance
  <2>1. CASE Running = {}
    BY <2>1, FS_EmptySet
  <2>2. CASE Running # {}
    <3>1. PICK i \in Running : TRUE
      BY <2>2
    <3>2. Running = {i}
      BY <3>1 DEF Inv, Requests
    <3>3. Cardinality({i}) = 1
      BY FS_Singleton
    <3> QED  BY <3>2, <3>3
  <2> QED  BY <2>1, <2>2
<1> QED  BY <1>1, Invariance, PTL

\* The recorded store path is that of the instance that answers.
THEOREM RecordedBuildAnswers ==
    ASSUME Serial, Prompt
    PROVE  Spec => []CurrentIsListening
<1>1. Inv => CurrentIsListening
  BY AnswersIs DEF Inv, CurrentIsListening
<1> QED  BY <1>1, Invariance, PTL

\* All state stays in the sets that the model declares for it; at most one
\* StartServices event is on its way.
THEOREM ServicesTypeCorrect ==
    ASSUME Serial, Prompt
    PROVE  Spec => []TypeOK
<1>1. Cardinality(Clients) \in Nat /\ (Clients # {} => Cardinality(Clients) > 0)
  <2>1. IsFiniteSet(Clients)
    BY ServicesAssumption, FS_Difference DEF Clients
  <2> QED  BY <2>1, FS_CardinalityType, FS_EmptySet
<1>2. Inv => TypeOK
  <2> SUFFICES ASSUME Inv PROVE TypeOK
    OBVIOUS
  <2>1. events \in 0..Cardinality(Clients)
    BY <1>1 DEF Inv, Requests, Typed
  <2> QED  BY <2>1 DEF Inv, Typed, TypeOK
<1> QED  BY <1>2, Invariance, PTL

-----------------------------------------------------------------------------
\* A step of a client leaves the other clients alone.
LEMMA OthersStay ==
    ASSUME client \in [Clients -> ClientStates], NEW c \in Clients, NEW d \in Clients, c # d,
           ClientStep(d) \/ Interrupt(d)
    PROVE  client'[c] = client[c]
<1>1. \A at : GoTo(d, at) => client'[c] = client[c]
  BY DEF GoTo
<1>2. \A at, ask : GoAsking(d, at, ask) => client'[c] = client[c]
  BY DEF GoAsking
<1>3. AskForNew(d) => client'[c] = client[c]
  BY <1>1, <1>2 DEF AskForNew
<1>4. CASE DecideStart(d) \/ DecideRestart(d) \/ DecideStop(d) \/ DecideActivate(d)
  BY <1>1, <1>2, <1>3, <1>4 DEF DecideStart, DecideRestart, DecideStop, DecideActivate
<1>5. CASE StartExisting(d) \/ RestartExisting(d) \/ StopExisting(d) \/ StartViaSocket(d)
  BY <1>1, <1>5 DEF StartExisting, RestartExisting, StopExisting, StartViaSocket
<1>6. CASE AttachOrStart(d) \/ Leave(d) \/ MarkReady(d) \/ StopOld(d)
  BY <1>1, <1>6 DEF AttachOrStart, Leave, MarkReady, StopOld
<1>7. CASE SignalExecutive(d) \/ SocketReady(d) \/ Timeout(d) \/ Interrupt(d)
  BY <1>1, <1>7 DEF SignalExecutive, SocketReady, Timeout, Interrupt
<1>8. CASE GuardAvailable(d) \/ ReadState(d) \/ ReadSocket(d)
  BY <1>1, <1>8 DEF GuardAvailable, ReadState, ReadSocket, GoSeeing
<1> QED  BY <1>4, <1>5, <1>6, <1>7, <1>8 DEF ClientStep

\* A client that asked for a new process-compose starts its services in one
\* that runs its own build, unless the old one did not shut down.
THEOREM OwnBuildServes ==
    ASSUME Serial, Prompt
    PROVE  Spec => ServicesOfOwnBuild
<1>1. ASSUME Inv, Next, NEW c \in Clients, client[c].at = "viaSocket",
             client'[c].at \in {"done", "attached"}
      PROVE  inst[socket].store = client[c].store \/ client[c].kept
  <2>1. client \in [Clients -> ClientStates] /\ client'[c] # client[c]
    BY <1>1 DEF Inv, Typed
  <2>2. PICK d \in Clients :
           \/ \E k \in Kinds, names \in SUBSET Names, v \in Stores : Begin(d, k, names, v)
           \/ ClientStep(d) \/ Interrupt(d)
    BY <1>1, <2>1 DEF Next, ExitShell, RegisterSignals, ForwardSignal, HandleStartServices,
                ProcessExited, BindSocket, Crash, ServiceEnds, Ended, vars
  <2>3. ~ \E k \in Kinds, names \in SUBSET Names, v \in Stores : Begin(d, k, names, v)
    <3> SUFFICES ASSUME NEW k \in Kinds, NEW names \in SUBSET Names, NEW v \in Stores,
                        Begin(d, k, names, v)
                 PROVE  FALSE
      OBVIOUS
    <3> QED  BY <1>1 DEF Begin, Over
  <2>4. c = d
    BY <2>1, <2>2, <2>3, OthersStay
  <2>5. Answers
    <3>1. StartViaSocket(c)
      BY <1>1, <2>2, <2>3, <2>4
         DEF ClientStep, GuardAvailable, ReadState, ReadSocket, DecideStart, DecideRestart, DecideStop, DecideActivate, StartExisting,
             RestartExisting, StopExisting, AttachOrStart, Leave, MarkReady, StopOld,
             SignalExecutive, SocketReady, Timeout, Interrupt
    <3>2. ~GoTo(c, "failed")
      BY <1>1, <2>1 DEF GoTo, ClientStates
    <3> QED  BY <3>1, <3>2 DEF StartViaSocket
  <2> QED  BY <1>1, <2>5, AnswersIs DEF Inv, Relies
<1>2. Inv /\ [Next]_vars =>
        [\A c \in Clients :
            (client[c].at = "viaSocket" /\ client'[c].at \in {"done", "attached"})
                => inst[socket].store = client[c].store \/ client[c].kept]_vars
  BY <1>1
<1> QED  BY <1>2, Invariance, PTL DEF ServicesOfOwnBuild, Spec

\* A client shuts down an instance with running services only if it was told to
\* restart all services.
THEOREM OthersServicesKept ==
    ASSUME Serial, Prompt
    PROVE  Spec => RunningServicesKept
<1>1. Inv /\ [Next]_vars =>
        [\A c \in Clients :
            (client[c].at = "stopOld" /\ client'[c].at = "signal")
                => RunningServices = {} \/ (client[c].kind = "restart" /\ client[c].names = {})]_vars
  BY DEF Inv, Relies
<1> QED  BY <1>1, Invariance, PTL DEF RunningServicesKept, Spec

-----------------------------------------------------------------------------
(* What holds however many commands are given at once, and whatever they   *)
(* find in flight.                                                         *)

Instanced ==
    /\ inst \in [Instances -> InstanceStates] /\ socket \in Instances \cup {0}
    /\ \A i \in Instances : inst[i].is # "none" => inst[i].store \in Stores

Asking ==
    /\ client \in [Clients -> ClientStates]
    /\ \A c \in Clients : client[c].at # "none" => client[c].store \in Stores

\* A ready start has somebody attached to it, and a client that is starting is
\* attached to its own start.
Recorded ==
    /\ state \in ActivationStates \cup {NoState}
    /\ ExecutiveRuns => state # NoState
    /\ state # NoState /\ state.ready.is = "true" => RefersTo(state.attached, state.ready.start)
    /\ \A c \in Clients : client[c].at = "starting" =>
         /\ state # NoState /\ c \in DOMAIN state.attached
         /\ state.attached[c].start = [store |-> client[c].store, by |-> c]

Serving == Instanced /\ Asking /\ Recorded

\* A client goes on, but not to a start.
Moves(c) ==
    /\ client[c].at # "none"
    /\ \E at \in Steps \ {"starting"} :
         \/ GoTo(c, at) \/ \E ask \in SUBSET Names : GoAsking(c, at, ask)
         \/ \E is \in BOOLEAN : GoSeeing(c, at, is)

\* Nobody begins to start.
NoStarter ==
    \A d \in Clients : client'[d].at = "starting" =>
        client[d].at = "starting" /\ client'[d].store = client[d].store

LEMMA MovesOn ==
    ASSUME Asking, NEW c \in Clients, Moves(c)
    PROVE  Asking' /\ NoStarter
<1>1. PICK at \in Steps \ {"starting"} :
        \/ GoTo(c, at) \/ \E ask \in SUBSET Names : GoAsking(c, at, ask)
        \/ \E is \in BOOLEAN : GoSeeing(c, at, is)
  BY DEF Moves
<1>2. /\ client' \in [Clients -> ClientStates]
      /\ client'[c].at = at /\ client'[c].store = client[c].store
      /\ \A d \in Clients : d # c => client'[d] = client[d]
  BY <1>1, GoToIs, GoAskingIs, GoSeeingIs DEF Asking
<1>3. client[c].store \in Stores
  BY DEF Asking, Moves
<1> QED  BY <1>2, <1>3 DEF Asking, NoStarter

\* state.json is left as it is.
LEMMA RecordStays ==
    ASSUME Recorded, NoStarter, state' = state, ExecutiveRuns' => ExecutiveRuns
    PROVE  Recorded'
BY DEF Recorded, NoStarter

\* Services of the instance that answers are started or stopped.
LEMMA InstanceStays ==
    ASSUME Instanced, Answers, NEW R \in SUBSET Names, socket' = socket,
           inst' = [inst EXCEPT ![socket].running = R]
    PROVE  Instanced' /\ Running' = Running
<1>1. socket \in Instances
  BY DEF Answers, Instanced
<1> DEFINE r == [inst[socket] EXCEPT !.running = R]
<1>2. r \in InstanceStates /\ r.is = inst[socket].is /\ r.store = inst[socket].store
  BY <1>1 DEF Instanced, InstanceStates
<1>3. inst' = [inst EXCEPT ![socket] = r]
  OBVIOUS
<1> HIDE DEF r
<1> QED  BY <1>1, <1>2, <1>3 DEF Instanced, Running

LEMMA KnownNames ==
    ASSUME Instanced, Answers
    PROVE  Known \in SUBSET Names /\ inst[socket].running \in SUBSET Names
<1>1. socket \in Instances /\ inst[socket] \in InstanceStates /\ inst[socket].store \in Stores
  BY DEF Answers, Instanced
<1> QED  BY <1>1, ServicesAssumption DEF Known, InstanceStates

\* process_compose_down ends an instance, or does nothing.
LEMMA DownEnds ==
    ASSUME Instanced, Down
    PROVE  Instanced' /\ Running' \subseteq Running
<1>1. CASE UNCHANGED <<inst, socket>>
  BY <1>1 DEF Instanced, Running
<1>2. CASE /\ Answers /\ socket' = 0
           /\ inst' = [inst EXCEPT ![socket].is = "exited", ![socket].running = {}]
  <2>1. socket \in Instances
    BY <1>2 DEF Answers, Instanced
  <2> DEFINE r == [inst[socket] EXCEPT !.is = "exited", !.running = {}]
  <2>2. r \in InstanceStates /\ r.is = "exited" /\ r.store = inst[socket].store
    BY <2>1 DEF Instanced, InstanceStates
  <2>3. inst' = [inst EXCEPT ![socket] = r] /\ socket' = 0
    BY <1>2
  <2>4. inst[socket].store \in Stores
    BY <1>2, <2>1 DEF Answers, Instanced
  <2> HIDE DEF r
  <2> QED  BY <2>1, <2>2, <2>3, <2>4 DEF Instanced, Running
<1> QED  BY <1>1, <1>2 DEF Down

\* A new instance comes about only for a start that somebody is attached to.
Serves ==
    /\ Serving'
    /\ Running' \subseteq Running \/ RefersTo(state.attached, state.ready.start)

LEMMA BeginServes ==
    ASSUME Serving, NEW c \in Clients, NEW kind \in Kinds,
           NEW names \in SUBSET Names, NEW v \in Stores, Begin(c, kind, names, v)
    PROVE  Serves
<1>1. PICK d \in Activators :
        client' = [client EXCEPT ![c] = [at |-> "decide", kind |-> kind,
                          names |-> names, store |-> v, ask |-> {}, hookOf |-> d,
                          current |-> FALSE, kept |-> FALSE]]
  BY DEF Begin
<1> DEFINE r == [at |-> "decide", kind |-> kind,
                 names |-> names, store |-> v, ask |-> {}, hookOf |-> d,
                 current |-> FALSE, kept |-> FALSE]
<1>2. r \in ClientStates /\ r.at = "decide" /\ r.store = v
  BY DEF ClientStates, Steps
<1>3. client' = [client EXCEPT ![c] = r]
  BY <1>1
<1> HIDE DEF r
<1>4. Asking' /\ NoStarter
  BY <1>2, <1>3 DEF Serving, Asking, NoStarter
<1>5. UNCHANGED <<exec, state, inst, socket>>
  BY DEF Begin, execVars
<1> QED  BY <1>4, <1>5, RecordStays DEF Serving, Serves, Instanced, Running, ExecutiveRuns

\* A step of a client that touches nothing else, or the services of the
\* instance that answers.
LEMMA MovesServe ==
    ASSUME Serving, NEW c \in Clients, Moves(c), UNCHANGED <<exec, state, socket>>,
           \/ inst' = inst
           \/ Answers /\ \E R \in SUBSET Names : inst' = [inst EXCEPT ![socket].running = R]
    PROVE  Serves
<1>1. Asking' /\ NoStarter
  BY MovesOn DEF Serving
<1>2. Recorded'
  BY <1>1, RecordStays DEF Serving, ExecutiveRuns
<1>3. Instanced' /\ Running' = Running
  <2>1. CASE inst' = inst
    BY <2>1 DEF Serving, Instanced, Running
  <2>2. CASE inst' # inst
    BY <2>2, InstanceStays DEF Serving
  <2> QED  BY <2>1, <2>2
<1> QED  BY <1>1, <1>2, <1>3 DEF Serves, Serving

\* The services of a build, and those that a client names.
LEMMA NamesIn ==
    ASSUME Asking, NEW c \in Clients, client[c].at # "none"
    PROVE  /\ Config[client[c].store] \in SUBSET Names
           /\ client[c].ask \in SUBSET Names
           /\ \A known \in SUBSET Names : Named(c, known) \in SUBSET Names
BY ServicesAssumption DEF Asking, ClientStates, Named

LEMMA AskForNewMoves ==
    ASSUME Asking, NEW c \in Clients, client[c].at # "none", AskForNew(c)
    PROVE  Moves(c)
<1>1. Named(c, Config[client[c].store]) \in SUBSET Names
  BY NamesIn
<1> DEFINE ask == Named(c, Config[client[c].store])
<1>2. GoAsking(c, "attach", ask) \/ GoTo(c, "failed")
  BY DEF AskForNew
<1> HIDE DEF ask
<1> QED  BY <1>1, <1>2 DEF Moves, Steps, ask

\* The commands read what they need and decide.
LEMMA DecideServes ==
    ASSUME Serving, NEW c \in Clients,
           \/ GuardAvailable(c) \/ ReadState(c) \/ ReadSocket(c)
           \/ DecideStart(c) \/ DecideRestart(c) \/ DecideStop(c) \/ DecideActivate(c)
    PROVE  Serves
<1>1. client[c].at # "none" /\ UNCHANGED <<exec, state, inst, socket>>
  BY DEF GuardAvailable, ReadState, ReadSocket, DecideStart, DecideRestart, DecideStop,
         DecideActivate, execVars
<1>2. CASE DecideStart(c) \/ DecideStop(c) \/ GuardAvailable(c)
  <2>1. AskForNew(c) \/ GoTo(c, "existing") \/ GoTo(c, "failed") \/ GoTo(c, "readState")
    BY <1>2 DEF DecideStart, DecideStop, GuardAvailable
  <2>2. Moves(c)
    BY <1>1, <2>1, AskForNewMoves DEF Moves, Steps, Serving
  <2> QED  BY <1>1, <2>2, MovesServe
<1>3. CASE DecideRestart(c)
  <2> DEFINE known == IF Answers THEN Known ELSE {}
  <2>1. \/ AskForNew(c) \/ GoTo(c, "failed")
        \/ GoAsking(c, "existing", Named(c, known))
    BY <1>3 DEF DecideRestart
  <2>2. known \in SUBSET Names
    BY KnownNames DEF Serving
  <2> HIDE DEF known
  <2>3. Named(c, known) \in SUBSET Names
    BY <1>1, <2>2, NamesIn DEF Serving
  <2>4. Moves(c)
    BY <1>1, <2>1, <2>3, AskForNewMoves DEF Moves, Steps, Serving
  <2> QED  BY <1>1, <2>4, MovesServe
<1>4. CASE DecideActivate(c)
  <2>1. \/ GoAsking(c, "attach", Config[client[c].store]) \/ GoAsking(c, "attach", {})
    BY <1>4 DEF DecideActivate
  <2>2. Moves(c)
    BY <1>1, <2>1, NamesIn DEF Moves, Steps, Serving
  <2> QED  BY <1>1, <2>2, MovesServe
<1>5. CASE ReadState(c) \/ ReadSocket(c)
  <2>1. \/ GoTo(c, "failed")
        \/ \E is \in BOOLEAN : GoSeeing(c, "readSocket", is) \/ GoSeeing(c, "readProcesses", is)
    BY <1>5 DEF ReadState, ReadSocket
  <2>2. Moves(c)
    BY <1>1, <2>1 DEF Moves, Steps
  <2> QED  BY <1>1, <2>2, MovesServe
<1> QED  BY <1>2, <1>3, <1>4, <1>5

\* A client asks the instance that answers to start or stop services.
LEMMA UsesServe ==
    ASSUME Serving, NEW c \in Clients,
           StartExisting(c) \/ RestartExisting(c) \/ StopExisting(c) \/ StartViaSocket(c)
    PROVE  Serves
<1>1. client[c].at # "none" /\ UNCHANGED <<exec, state, socket>>
  BY DEF StartExisting, RestartExisting, StopExisting, StartViaSocket, execVars
<1>2. Moves(c)
  <2>1. GoTo(c, "done") \/ GoTo(c, "failed") \/ GoTo(c, "attached")
    BY DEF StartExisting, RestartExisting, StopExisting, StartViaSocket
  <2> QED  BY <1>1, <2>1 DEF Moves, Steps
<1> DEFINE now == inst[socket].running
           hit == client[c].ask \cap Known
<1>3. \/ inst' = inst
      \/ /\ Answers
         /\ \/ \E S \in SUBSET Named(c, Known) :
                 \/ inst' = [inst EXCEPT ![socket].running = now \cup S]
                 \/ inst' = [inst EXCEPT ![socket].running = now \ S]
            \/ \E S \in SUBSET hit :
                 \/ inst' = [inst EXCEPT ![socket].running = (now \ hit) \cup S]
                 \/ inst' = [inst EXCEPT ![socket].running = now \cup S]
  BY DEF StartExisting, RestartExisting, StopExisting, StartViaSocket
<1>4. Answers => now \in SUBSET Names /\ Named(c, Known) \in SUBSET Names
                 /\ hit \in SUBSET Names
  BY <1>1, KnownNames, NamesIn DEF Serving
<1> HIDE DEF now, hit
<1>5. inst' = inst \/ (Answers /\ \E R \in SUBSET Names : inst' = [inst EXCEPT ![socket].running = R])
  BY <1>3, <1>4
<1> QED  BY <1>1, <1>2, <1>5, MovesServe

\* Steps of a client that leave everything else alone.
LEMMA WaitsServe ==
    ASSUME Serving, NEW c \in Clients,
           Leave(c) \/ SocketReady(c) \/ Timeout(c) \/ Interrupt(c)
    PROVE  Serves
<1>1. client[c].at # "none" /\ UNCHANGED <<exec, state, inst, socket>>
  BY DEF Leave, SocketReady, Timeout, Interrupt, execVars
<1>2. GoTo(c, "left") \/ GoTo(c, "viaSocket") \/ GoTo(c, "failed") \/ GoTo(c, "done")
  BY DEF Leave, SocketReady, Timeout, Interrupt
<1>3. Moves(c)
  BY <1>1, <1>2 DEF Moves, Steps
<1> QED  BY <1>1, <1>3, MovesServe

LEMMA StopOldServes ==
    ASSUME Serving, NEW c \in Clients, StopOld(c)
    PROVE  Serves
<1>1. client[c].at # "none" /\ UNCHANGED <<exec, state>> /\ Down
      /\ client' = [client EXCEPT ![c].at = "signal", ![c].kept = Answers']
  BY DEF StopOld, execVars
<1>2. PICK k \in BOOLEAN : k = Answers'
  BY DEF Answers
<1>3. Asking' /\ NoStarter
  <2> DEFINE r == [client[c] EXCEPT !.at = "signal", !.kept = k]
  <2>1. r \in ClientStates /\ r.at = "signal" /\ r.store = client[c].store
    BY DEF Serving, Asking, ClientStates, Steps
  <2>2. client' = [client EXCEPT ![c] = r]
    BY <1>1, <1>2
  <2> HIDE DEF r
  <2> QED  BY <1>1, <2>1, <2>2 DEF Serving, Asking, NoStarter
<1>4. Recorded'
  BY <1>1, <1>3, RecordStays DEF Serving, ExecutiveRuns
<1>5. Instanced' /\ Running' \subseteq Running
  BY <1>1, DownEnds DEF Serving
<1> QED  BY <1>3, <1>4, <1>5 DEF Serves, Serving

LEMMA SignalServes ==
    ASSUME Serving, NEW c \in Clients, SignalExecutive(c)
    PROVE  Serves
<1>1. client[c].at # "none" /\ UNCHANGED <<state, inst, socket>>
      /\ (GoTo(c, "wait") \/ GoTo(c, "failed")) /\ exec' \in {exec, "killed"}
  BY DEF SignalExecutive
<1>2. Moves(c)
  BY <1>1 DEF Moves, Steps
<1>3. Asking' /\ NoStarter
  BY <1>2, MovesOn DEF Serving
<1>4. Recorded'
  BY <1>1, <1>3, RecordStays DEF Serving, ExecutiveRuns
<1> QED  BY <1>1, <1>3, <1>4 DEF Serves, Serving, Instanced, Running

\* Attaching keeps what is attached.
LEMMA AttachToKeeps ==
    ASSUME NEW a \in ActivationStates, NEW p \in Pids, NEW id \in StartIds
    PROVE  \A q \in DOMAIN a.attached : q # p =>
             AttachTo(a, p, id).attached[q] = a.attached[q]
<1> DEFINE x == [start |-> id, exp |-> FALSE]
<1>1. AttachTo(a, p, id).attached = Insert(a.attached, p, x)
  BY DEF AttachTo, ActivationStates
<1> HIDE DEF x
<1> QED  BY <1>1 DEF Insert

\* start_or_attach: who attaches joins a ready start, who starts is attached to
\* its own.
LEMMA AttachServes ==
    ASSUME Serving, NEW c \in Clients, AttachOrStart(c)
    PROVE  Serves
<1> DEFINE id == [store |-> client[c].store, by |-> c]
<1>1. client[c].at = "attach" /\ UNCHANGED <<exec, inst, socket>>
  BY DEF AttachOrStart, execVars
<1>2. state \in ActivationStates /\ state # NoState
  BY DEF AttachOrStart, Serving, Recorded
<1>3. id \in StartIds /\ c \in Pids /\ c \in Activators
  BY <1>1 DEF Serving, Asking, StartIds, Pids, Clients
<1>4. client \in [Clients -> ClientStates] /\ client[c].store \in Stores
  BY <1>1 DEF Serving, Asking
<1>5. CASE state.ready.is = "true" /\ state.ready.start.store = client[c].store
  <2>1. state' = AttachTo(state, c, state.ready.start) /\ GoTo(c, AfterAttach(c))
    BY <1>5 DEF AttachOrStart
  <2>2. Moves(c)
    BY <1>1, <2>1, AfterAttachIs DEF Moves, Steps
  <2>3. Asking' /\ NoStarter
    BY <2>2, MovesOn DEF Serving
  <2>4. state.ready.start \in StartIds
    BY <1>2, <1>5, StateIs
  <2>5. /\ state' \in ActivationStates /\ state'.ready = state.ready
        /\ DOMAIN state'.attached = DOMAIN state.attached \cup {c}
        /\ state'.attached[c].start = state.ready.start
        /\ \A q \in DOMAIN state.attached : q # c => state'.attached[q] = state.attached[q]
    BY <1>2, <1>3, <2>1, <2>4, AttachToIs, AttachToKeeps
  <2>6. RefersTo(state'.attached, state'.ready.start)
    BY <2>5 DEF RefersTo
  <2>7. \A d \in Clients : client'[d].at = "starting" => d # c
    <3>1. client'[c].at = AfterAttach(c)
      BY <1>4, <2>1, GoToIs, AfterAttachIs DEF Steps
    <3> QED  BY <3>1, AfterAttachIs
  <2>8. Recorded'
    BY <1>2, <2>3, <2>5, <2>6, <2>7, ConstantsDistinct DEF Serving, Recorded, NoStarter
  <2> QED  BY <1>1, <2>3, <2>8 DEF Serves, Serving, Instanced, Running
<1>6. CASE ~(state.ready.is = "true" /\ state.ready.start.store = client[c].store)
  <2>1. state' = StartBy(state, c, id) /\ GoTo(c, "starting")
    BY <1>6 DEF AttachOrStart
  <2>2. /\ client' \in [Clients -> ClientStates]
        /\ client'[c].at = "starting" /\ client'[c].store = client[c].store
        /\ \A d \in Clients : d # c => client'[d] = client[d]
    BY <1>4, <2>1, GoToIs DEF Steps
  <2>3. Asking'
    BY <1>4, <2>2 DEF Serving, Asking
  <2>4. StartBy(state, c, id) \in ActivationStates
        /\ c \in DOMAIN StartBy(state, c, id).attached
        /\ StartBy(state, c, id).attached[c].start = id
    BY <1>2, <1>3, StartByIs
  <2>5. /\ StartBy(state, c, id).attached = AttachTo(state, c, id).attached
        /\ StartBy(state, c, id).ready.is = "starting"
    <3>1. AttachTo(state, c, id) \in ActivationStates
      BY <1>2, <1>3, AttachToIs
    <3> QED  BY <3>1 DEF StartBy, ReadyStarting, ActivationStates
  <2>6. DOMAIN AttachTo(state, c, id).attached = DOMAIN state.attached \cup {c}
    BY <1>2, <1>3, AttachToIs
  <2>7. \A q \in DOMAIN state.attached : q # c =>
          AttachTo(state, c, id).attached[q] = state.attached[q]
    BY <1>2, <1>3, AttachToKeeps
  <2>8. Recorded'
    <3>1. state' \in ActivationStates /\ state' # NoState /\ state'.ready.is # "true"
      BY <2>1, <2>4, <2>5, ConstantsDistinct
    <3>2. ASSUME NEW d \in Clients, client'[d].at = "starting"
          PROVE  /\ d \in DOMAIN state'.attached
                 /\ state'.attached[d].start = [store |-> client'[d].store, by |-> d]
      <4>1. CASE d = c
        BY <2>1, <2>2, <2>4, <4>1
      <4>2. CASE d # c
        <5>1. client'[d] = client[d]
          BY <2>2, <4>2
        <5>2. /\ d \in DOMAIN state.attached
              /\ state.attached[d].start = [store |-> client[d].store, by |-> d]
          BY <3>2, <5>1 DEF Serving, Recorded
        <5>3. d \in DOMAIN state'.attached /\ state'.attached[d] = state.attached[d]
          BY <2>1, <2>5, <2>6, <2>7, <4>2, <5>2
        <5> QED  BY <5>1, <5>2, <5>3
      <4> QED  BY <4>1, <4>2
    <3> QED  BY <3>1, <3>2 DEF Recorded
  <2> QED  BY <1>1, <2>3, <2>8 DEF Serves, Serving, Instanced, Running
<1> QED  BY <1>5, <1>6

\* The hook has run: the start that becomes ready is that of its client, which
\* is attached to it.
LEMMA MarkReadyServes ==
    ASSUME Serving, NEW c \in Clients, MarkReady(c)
    PROVE  Serves
<1> DEFINE id == [store |-> client[c].store, by |-> c]
<1>1. client[c].at = "starting" /\ UNCHANGED <<exec, inst, socket>>
      /\ state' = SetReady(state, id) /\ GoTo(c, AfterAttach(c))
  BY DEF MarkReady, execVars
<1>2. Moves(c)
  BY <1>1, AfterAttachIs DEF Moves, Steps
<1>3. Asking' /\ NoStarter
  BY <1>2, MovesOn DEF Serving
<1>4. state \in ActivationStates /\ c \in DOMAIN state.attached /\ state.attached[c].start = id
  BY <1>1 DEF Serving, Recorded
<1>5. id \in StartIds
  BY <1>1 DEF Serving, Asking, StartIds, Clients
<1>6. /\ state' \in ActivationStates /\ state'.attached = state.attached
      /\ state'.ready.start = id
  BY <1>1, <1>4, <1>5, SetReadyIs
<1> HIDE DEF id
<1>7. RefersTo(state'.attached, state'.ready.start)
  BY <1>4, <1>6 DEF RefersTo
<1>8. Recorded'
  BY <1>3, <1>6, <1>7, ConstantsDistinct DEF Serving, Recorded, NoStarter
<1> QED  BY <1>1, <1>3, <1>8 DEF Serves, Serving, Instanced, Running

\* Nothing that matters here happens.
LEMMA IdleServes ==
    ASSUME Serving, ExitShell \/ RegisterSignals \/ ForwardSignal \/ UNCHANGED vars
    PROVE  Serves
<1>1. UNCHANGED <<state, inst, socket, client>> /\ (ExecutiveRuns' => ExecutiveRuns)
  BY DEF ExitShell, RegisterSignals, ForwardSignal, vars, execVars, ExecutiveRuns
<1>2. Asking' /\ NoStarter
  BY <1>1 DEF Serving, Asking, NoStarter
<1>3. Recorded'
  BY <1>1, <1>2, RecordStays DEF Serving
<1> QED  BY <1>1, <1>2, <1>3 DEF Serves, Serving, Instanced, Running

\* The executive spawns process-compose for the ready start.
LEMMA HandleServes ==
    ASSUME Serving, HandleStartServices
    PROVE  Serves
<1>1. exec = "up" /\ UNCHANGED <<exec, state, socket, client>>
  BY DEF HandleStartServices
<1>2. Asking' /\ NoStarter
  BY <1>1 DEF Serving, Asking, NoStarter
<1>3. Recorded'
  BY <1>1, <1>2, RecordStays DEF Serving, ExecutiveRuns
<1>4. CASE inst' = inst
  BY <1>1, <1>2, <1>3, <1>4 DEF Serves, Serving, Instanced, Running
<1>5. CASE inst' # inst
  <2>1. state.ready.is = "true" /\ Spawn
    BY <1>5 DEF HandleStartServices
  <2>2. state # NoState /\ state \in ActivationStates
    BY <1>1 DEF Serving, Recorded, ExecutiveRuns
  <2>3. RefersTo(state.attached, state.ready.start)
    BY <2>1, <2>2 DEF Serving, Recorded
  <2>4. state.ready.start \in StartIds
    BY <2>1, <2>2, StateIs
  <2>5. PICK i \in Instances :
          inst' = [inst EXCEPT ![i] = [is |-> "spawned", running |-> {},
                                       store |-> state.ready.start.store]]
    BY <2>1 DEF Spawn
  <2> DEFINE r == [is |-> "spawned", running |-> {}, store |-> state.ready.start.store]
  <2>6. r \in InstanceStates /\ r.store \in Stores
    BY <2>4 DEF InstanceStates, StartIds
  <2>7. inst' = [inst EXCEPT ![i] = r]
    BY <2>5
  <2> HIDE DEF r
  <2>8. Instanced'
    BY <1>1, <2>6, <2>7 DEF Serving, Instanced
  <2> QED  BY <1>2, <1>3, <2>3, <2>8 DEF Serves, Serving
<1> QED  BY <1>4, <1>5

\* detach keeps the other attachments, and leaves a start ready only if
\* somebody is attached to it.
LEMMA DetachServes ==
    ASSUME NEW a \in ActivationStates, NEW p, DOMAIN a.attached # {p}, p \in DOMAIN a.attached
    PROVE  /\ DetachPid(a, p) \in ActivationStates
           /\ \A q \in DOMAIN a.attached : q # p =>
                /\ q \in DOMAIN DetachPid(a, p).attached
                /\ DetachPid(a, p).attached[q] = a.attached[q]
           /\ DetachPid(a, p).ready.is = "true" =>
                RefersTo(DetachPid(a, p).attached, DetachPid(a, p).ready.start)
<1>1. PICK q \in DOMAIN a.attached : q # p
  OBVIOUS
<1>2. /\ DetachPid(a, p) \in ActivationStates
      /\ \A o \in DOMAIN a.attached : o # p =>
           /\ o \in DOMAIN DetachPid(a, p).attached
           /\ DetachPid(a, p).attached[o] = a.attached[o]
  BY <1>1, DetachPidIs
<1> DEFINE m == Remove(a.attached, p)
<1>3. DOMAIN m # {}
  BY <1>1 DEF Remove
<1>4. /\ DetachPid(a, p).attached = m
      /\ DetachPid(a, p).ready = ReadyAfterDetach(a.ready, m)
  BY <1>3 DEF DetachPid, ActivationStates
<1> HIDE DEF m
<1>5. ReadyAfterDetach(a.ready, m).is = "true" =>
        RefersTo(m, ReadyAfterDetach(a.ready, m).start)
  BY DEF ReadyAfterDetach, ReadyFalse
<1> QED  BY <1>2, <1>4, <1>5

\* A process that exited was not in the middle of a start.
LEMMA ExitServes ==
    ASSUME Serving, NEW p \in Activators, ProcessExited(p)
    PROVE  Serves
<1>1. exec = "up" /\ p \in DOMAIN state.attached /\ ~PidRuns(p) /\ client' = client
  BY DEF ProcessExited
<1>2. state # NoState /\ state \in ActivationStates
  BY <1>1 DEF Serving, Recorded, ExecutiveRuns
<1>3. \A c \in Clients : client[c].at = "starting" => c # p
  BY <1>1 DEF PidRuns, Over, Clients
<1>4. Asking'
  BY <1>1 DEF Serving, Asking
<1>5. CASE DOMAIN state.attached = {p}
  <2>1. Down /\ exec' = "done" /\ state' = NoState
    BY <1>5 DEF ProcessExited, CleanupAll
  <2>2. Instanced' /\ Running' \subseteq Running
    BY <2>1, DownEnds DEF Serving
  <2>3. Recorded'
    BY <1>1, <1>3, <1>5, <2>1 DEF Serving, Recorded, ExecutiveRuns
  <2> QED  BY <1>4, <2>2, <2>3 DEF Serves, Serving
<1>6. CASE DOMAIN state.attached # {p}
  <2>1. state' = DetachPid(state, p) /\ UNCHANGED <<exec, inst, socket>>
    BY <1>6 DEF ProcessExited
  <2>2. /\ state' \in ActivationStates
        /\ \A q \in DOMAIN state.attached : q # p =>
             q \in DOMAIN state'.attached /\ state'.attached[q] = state.attached[q]
        /\ state'.ready.is = "true" => RefersTo(state'.attached, state'.ready.start)
    BY <1>1, <1>2, <1>6, <2>1, DetachServes
  <2>3. Recorded'
    BY <1>1, <1>3, <2>2, ConstantsDistinct DEF Serving, Recorded
  <2> QED  BY <1>4, <2>1, <2>3 DEF Serves, Serving, Instanced, Running
<1> QED  BY <1>5, <1>6

\* process-compose binds its socket, gives up, crashes, or a service of it ends.
LEMMA ComposeServes ==
    ASSUME Serving, NEW i \in Instances,
           BindSocket(i) \/ Crash(i) \/ \E n \in Names : ServiceEnds(i, n)
    PROVE  Serves
<1>1. UNCHANGED <<exec, state, client>>
  BY DEF BindSocket, Crash, ServiceEnds, execVars
<1>2. Asking' /\ NoStarter
  BY <1>1 DEF Serving, Asking, NoStarter
<1>3. Recorded'
  BY <1>1, <1>2, RecordStays DEF Serving, ExecutiveRuns
<1>4. inst[i] \in InstanceStates
  BY DEF Serving, Instanced
<1>5. \E r \in InstanceStates :
        /\ inst' = [inst EXCEPT ![i] = r] /\ r.store = inst[i].store
        /\ r.is \in {"spawned", "listening"} => i \in Running
        /\ r.is # "none" => inst[i].is # "none"
  <2>1. CASE BindSocket(i)
    <3> DEFINE r == [inst[i] EXCEPT !.is = "exited"]
               s == [inst[i] EXCEPT !.is = "listening"]
    <3>1. /\ r \in InstanceStates /\ r.is = "exited" /\ r.store = inst[i].store
          /\ s \in InstanceStates /\ s.is = "listening" /\ s.store = inst[i].store
      BY <1>4 DEF InstanceStates
    <3>2. inst' = [inst EXCEPT ![i] = r] \/ inst' = [inst EXCEPT ![i] = s]
      BY <2>1 DEF BindSocket
    <3>3. inst[i].is = "spawned" /\ i \in Running
      BY <2>1 DEF BindSocket, Running
    <3> HIDE DEF r, s
    <3> QED  BY <3>1, <3>2, <3>3
  <2>2. CASE Crash(i)
    <3> DEFINE r == [inst[i] EXCEPT !.is = "exited", !.running = {}]
    <3>1. r \in InstanceStates /\ r.is = "exited" /\ r.store = inst[i].store
      BY <1>4 DEF InstanceStates
    <3>2. inst' = [inst EXCEPT ![i] = r] /\ inst[i].is = "listening"
      BY <2>2 DEF Crash
    <3> HIDE DEF r
    <3> QED  BY <3>1, <3>2
  <2>3. ASSUME NEW n \in Names, ServiceEnds(i, n)
        PROVE  \E r \in InstanceStates :
                 /\ inst' = [inst EXCEPT ![i] = r] /\ r.store = inst[i].store
                 /\ r.is \in {"spawned", "listening"} => i \in Running
                 /\ r.is # "none" => inst[i].is # "none"
    <3> DEFINE r == [inst[i] EXCEPT !.running = @ \ {n}]
    <3>1. r \in InstanceStates /\ r.is = inst[i].is /\ r.store = inst[i].store
      BY <1>4 DEF InstanceStates
    <3>2. inst' = [inst EXCEPT ![i] = r]
      BY <2>3 DEF ServiceEnds
    <3> HIDE DEF r
    <3> QED  BY <3>1, <3>2 DEF Running
  <2> QED  BY <2>1, <2>2, <2>3
<1>6. PICK r \in InstanceStates :
        /\ inst' = [inst EXCEPT ![i] = r] /\ r.store = inst[i].store
        /\ r.is \in {"spawned", "listening"} => i \in Running
        /\ r.is # "none" => inst[i].is # "none"
  BY <1>5
<1>7. socket' \in {socket, i}
  BY DEF BindSocket, Crash, ServiceEnds
<1>8. Instanced'
  BY <1>6, <1>7 DEF Serving, Instanced
<1>9. Running' \subseteq Running
  BY <1>6 DEF Serving, Instanced, Running
<1> QED  BY <1>2, <1>3, <1>8, <1>9 DEF Serves, Serving

LEMMA ServingInit == Init => Serving
<1> SUFFICES ASSUME Init PROVE Serving
  OBVIOUS
<1>1. Typed
  BY InitInv DEF Inv
<1>2. PICK v \in Stores, m \in Modes :
         LET id == [store |-> v, by |-> User]
         IN  state = SetReady([StartBy(New(m), User, id) EXCEPT !.executive = User], id)
  BY DEF Init
<1> DEFINE id == [store |-> v, by |-> User]
           a == StartBy(New(m), User, id)
           b == [a EXCEPT !.executive = User]
<1>3. id \in StartIds /\ User \in Activators
  BY ServicesAssumption DEF StartIds
<1>4. New(m) \in ActivationStates
  BY MapIs DEF New, ActivationStates, ReadyFalse, ReadyValues
<1>5. a \in ActivationStates /\ User \in DOMAIN a.attached /\ a.attached[User].start = id
  BY <1>3, <1>4, StartByIs
<1> HIDE DEF a
<1>6. b \in ActivationStates /\ b.attached = a.attached
  BY <1>3, <1>5 DEF ActivationStates
<1> HIDE DEF b
<1>7. state = SetReady(b, id)
  BY <1>2 DEF a, b
<1>8. /\ state \in ActivationStates /\ state.attached = a.attached /\ state.ready.start = id
  BY <1>3, <1>6, <1>7, SetReadyIs
<1> HIDE DEF id
<1>9. RefersTo(state.attached, state.ready.start)
  BY <1>5, <1>8 DEF RefersTo
<1>10. /\ \A c \in Clients : client[c].at = "none"
       /\ \A i \in Instances : inst[i].is = "none"
  BY DEF Init
<1> QED
  BY <1>1, <1>8, <1>9, <1>10, ConstantsDistinct DEF Serving, Instanced, Asking, Recorded, Typed

LEMMA ServingStep ==
    ASSUME Serving, [Next]_vars
    PROVE  Serves
<1>1. CASE UNCHANGED vars \/ ExitShell \/ RegisterSignals \/ ForwardSignal \/ Ended
  BY <1>1, IdleServes DEF Ended
<1>2. ASSUME NEW c \in Clients, NEW k \in Kinds, NEW names \in SUBSET Names,
             NEW v \in Stores, Begin(c, k, names, v)
      PROVE  Serves
  BY <1>2, BeginServes
<1>3. ASSUME NEW c \in Clients, ClientStep(c) \/ Interrupt(c)
      PROVE  Serves
  BY <1>3, DecideServes, UsesServe, WaitsServe, StopOldServes, SignalServes, AttachServes,
     MarkReadyServes DEF ClientStep
<1>4. CASE HandleStartServices
  BY <1>4, HandleServes
<1>5. ASSUME NEW p \in Activators, ProcessExited(p) PROVE Serves
  BY <1>5, ExitServes
<1>6. ASSUME NEW i \in Instances,
             BindSocket(i) \/ Crash(i) \/ \E n \in Names : ServiceEnds(i, n)
      PROVE  Serves
  BY <1>6, ComposeServes
<1> QED  BY <1>1, <1>2, <1>3, <1>4, <1>5, <1>6 DEF Next

\* process-compose is only ever spawned for a start that somebody is attached
\* to, whose directory is therefore still there: however many commands are given
\* at once, in a hook or not, and whatever times out, crashes or is interrupted.
THEOREM SpawnsForAttached == Spec => SpawnedForAttached
<1>1. Spec => []Serving
  <2>1. Serving /\ [Next]_vars => Serving'
    BY ServingStep DEF Serves
  <2> QED  BY <2>1, ServingInit, PTL DEF Spec
<1>2. ASSUME Running' \subseteq Running
      PROVE  ~(Cardinality(Running') > Cardinality(Running))
  <2>1. IsFiniteSet(Clients) /\ Cardinality(Clients) \in Nat
    BY ServicesAssumption, FS_Subset, FS_CardinalityType DEF Clients
  <2>2. IsFiniteSet(Instances)
    BY <2>1, FS_Interval DEF Instances
  <2>3. IsFiniteSet(Running) /\ Running \subseteq Instances
    BY <2>2, FS_Subset DEF Running
  <2>4. Cardinality(Running') <= Cardinality(Running)
        /\ Cardinality(Running') \in Nat /\ Cardinality(Running) \in Nat
    BY <1>2, <2>3, FS_Subset, FS_CardinalityType
  <2> QED  BY <2>4
<1>3. Serving /\ [Next]_vars =>
        [(Cardinality(Running') > Cardinality(Running))
            => RefersTo(state.attached, state.ready.start)]_vars
  BY <1>2, ServingStep DEF Serves
<1> QED  BY <1>1, <1>3, PTL DEF SpawnedForAttached, Spec

=============================================================================
