--------------------------- MODULE ActivationState ---------------------------
(***************************************************************************)
(* The contents of state.json and the methods of `ActivationState` in      *)
(* cli/flox-core/src/activations.rs, as pure operators on a record.        *)
(*                                                                         *)
(* A start identifier is a store path and the millisecond timestamp of the *)
(* start.  An activator starts at most once, so the timestamp is abstracted*)
(* to the PID of the activator that took it: `by`.  An executive is named  *)
(* after the activator that spawned it, for the same reason.               *)
(***************************************************************************)

CONSTANTS Activators,   \* PIDs of `flox-activations activate` processes
          UserShells,   \* PIDs of shells that run eval "$(flox activate)"
          Stores,       \* store paths of the environment's builds
          Modes,        \* activation modes (dev, run)
          NoPid,        \* EXECUTIVE_NOT_STARTED, or an absent PID
          NoStart,      \* the absent start identifier
          NoState       \* state.json does not exist

Pids == Activators \cup UserShells

StartIds == [store : Stores, by : Activators]

Attachments == [start : StartIds, exp : BOOLEAN]

\* Ready::False, Ready::True(start) and Ready::Starting(pid, start).
ReadyValues == [is : {"false"}, pid : {NoPid}, start : {NoStart}]
               \cup [is : {"true"}, pid : {NoPid}, start : StartIds]
               \cup [is : {"starting"}, pid : Activators, start : StartIds]

ReadyFalse == [is |-> "false", pid |-> NoPid, start |-> NoStart]
ReadyTrue(id) == [is |-> "true", pid |-> NoPid, start |-> id]
ReadyStarting(p, id) == [is |-> "starting", pid |-> p, start |-> id]

\* attached_pids, a map from some of the PIDs.
AttachedMaps == UNION {[S -> Attachments] : S \in SUBSET Pids}

ActivationStates == [mode : Modes,
                     ready : ReadyValues,
                     executive : Activators \cup {NoPid},
                     attached : AttachedMaps]

ASSUME ConstantsDistinct ==
    /\ Activators \cap UserShells = {}
    /\ NoPid \notin Pids
    /\ NoStart \notin StartIds
    /\ NoState \notin ActivationStates

-----------------------------------------------------------------------------
Insert(m, p, a) == [q \in DOMAIN m \cup {p} |-> IF q = p THEN a ELSE m[q]]
Remove(m, p) == [q \in DOMAIN m \ {p} |-> m[q]]

\* Does an attachment of the map refer to this start?
RefersTo(m, id) == \E q \in DOMAIN m : m[q].start = id

New(mode) == [mode |-> mode, ready |-> ReadyFalse, executive |-> NoPid,
              attached |-> [q \in {} |-> [start |-> NoStart, exp |-> FALSE]]]

\* attach: the PID joins a start that is ready, without an expiration.
AttachTo(a, p, id) ==
    [a EXCEPT !.attached = Insert(@, p, [start |-> id, exp |-> FALSE])]

\* Mutant: the start is recorded without the PID of its starter.
StartByNobody(a, p, id) ==
    [AttachTo(a, p, id) EXCEPT !.ready = ReadyStarting(NoPid, id)]

\* start: a new start identifier, owned by the starting PID.
StartBy(a, p, id) ==
    [AttachTo(a, p, id) EXCEPT !.ready = ReadyStarting(p, id)]

SetReady(a, id) == [a EXCEPT !.ready = ReadyTrue(id)]

\* Mutant: detach leaves ready alone.
ReadyUntouched(r, m) == r

\* update_ready_after_detach: a ready start that nobody is attached to any
\* more is not ready; a start in progress is left to its starter.
ReadyAfterDetach(r, m) ==
    IF r.is = "true" /\ ~RefersTo(m, r.start) THEN ReadyFalse ELSE r

\* detach: ready is only revisited while some PID stays attached.
DetachPid(a, p) ==
    LET m == Remove(a.attached, p)
    IN  [a EXCEPT !.attached = m,
                  !.ready = IF DOMAIN m = {} THEN @ ELSE ReadyAfterDetach(@, m)]

\* The starts whose last attachment goes away with p: the caller of detach
\* removes their state directories.
EmptiedBy(a, p) ==
    LET id == a.attached[p].start
    IN  IF RefersTo(Remove(a.attached, p), id) THEN {} ELSE {id}

\* replace_attachment succeeds when old is attached to the expected start.
CanReplace(a, old, id) ==
    old \in DOMAIN a.attached /\ a.attached[old].start = id

ReplaceAttachment(a, id, old, new, exp) ==
    [a EXCEPT !.attached =
        Insert(Remove(@, old), new, [start |-> id, exp |-> exp])]
=============================================================================
