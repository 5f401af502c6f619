-------------------------------- MODULE Events --------------------------------
(***************************************************************************)
(* The telemetry of the CLI: flox invocations that record events in a      *)
(* buffer file on disk and flush it to a server.                           *)
(*                                                                         *)
(* There are two pipelines of the same shape, flox-events ("v2") and the   *)
(* metrics of flox/src/utils/metrics.rs ("legacy"), each with a file and a *)
(* lock of its own; `pipeline` says which one a behaviour is about.        *)
(***************************************************************************)
EXTENDS Naturals, Sequences, FiniteSets, SequencesExt

CONSTANTS Invocations,   \* the flox processes
          Pipelines,     \* those that behaviours are about
          MaxBuffer,     \* MAX_BUFFER_SIZE
          BatchSize,     \* BATCH_SIZE
          MaxFaults,     \* bound on what goes wrong: requests that do not succeed,
                         \* processes that are killed, writes that end half-way
          Nobody, NoEvent, Torn

Kinds == {"run", "detail", "completed"}
Event == [by : Invocations, kind : Kinds]

ASSUME EventsAssumption ==
    /\ Pipelines \subseteq {"v2", "legacy"}
    /\ MaxBuffer \in Nat \ {0} /\ BatchSize \in Nat \ {0}
    /\ MaxFaults \in Nat
    /\ Nobody \notin Invocations
    /\ {NoEvent, Torn} \cap Event = {}

VARIABLES
    pipeline,   \* "v2" or "legacy"
    file,       \* the entries of the buffer file
    holder,     \* who has the buffer's lock file locked
    inv,        \* the invocations
    completed,  \* completed_recorded of each invocation's hub
    late,       \* requests that a client gave up and that may still arrive
    received,   \* the events the server got, some more than once
    faults,     \* what went wrong so far
    torn,       \* history: a write ended half-way
    recorded,   \* history: events whose record succeeded, in order
    dropped     \* history: events given up: the limit, a crash, a full disk

counters == <<faults, torn>>
vars == <<pipeline, file, holder, inv, completed, late, received, counters, recorded, dropped>>

Entries == Event \cup {Torn}

TypeOK ==
    /\ pipeline \in Pipelines
    /\ file \in Seq(Entries)
    /\ holder \in Invocations \cup {Nobody}
    /\ inv \in [Invocations ->
                [stage : {"start", "work", "exec", "execed", "exit", "gone"},
                 at : {"none", "lock", "push", "overwrite", "send"},
                 event : Event \cup {NoEvent}, buffer : Seq(Event), did : SUBSET Kinds]]
    /\ \A p \in Invocations : inv[p].at \in {"push", "overwrite", "send"} <=> holder = p
    /\ completed \in [Invocations -> BOOLEAN]
    /\ late \subseteq Seq(Event) /\ received \subseteq Event
    /\ faults \in 0..MaxFaults /\ torn \in BOOLEAN
    /\ recorded \in Seq(Event) /\ dropped \subseteq Event

Init ==
    /\ pipeline \in Pipelines
    /\ file = <<>> /\ holder = Nobody /\ late = {} /\ received = {}
    /\ inv = [p \in Invocations |-> [stage |-> "start", at |-> "none", event |-> NoEvent,
                                     buffer |-> <<>>, did |-> {}]]
    /\ completed = [p \in Invocations |-> FALSE]
    /\ faults = 0 /\ torn = FALSE
    /\ recorded = <<>> /\ dropped = {}

-----------------------------------------------------------------------------
Between(p) == inv[p].at = "none"
Fault == faults < MaxFaults /\ faults' = faults + 1

\* The entries before the first one that is torn: the deserializer of a stream
\* ends at its first error.
ReadEvents(f) ==
    IF \E i \in DOMAIN f : f[i] = Torn
    THEN SubSeq(f, 1, (CHOOSE i \in DOMAIN f : f[i] = Torn /\ \A j \in 1..(i-1) : f[j] # Torn) - 1)
    ELSE f

\* An invocation records its command, then what the command does.
Record(p, k) ==
    /\ Between(p)
    /\ \/ k = "run" /\ inv[p].stage = "start"
       \/ k = "detail" /\ inv[p].stage = "work"
    /\ k \notin inv[p].did
    /\ inv' = [inv EXCEPT ![p].stage = "work", ![p].at = "lock",
                          ![p].event = [by |-> p, kind |-> k], ![p].did = @ \cup {k}]
    /\ UNCHANGED <<pipeline, file, holder, completed, late, received, counters, recorded, dropped>>

\* Mutant: the flag is not looked at.
CompletedAgain(p, stage) ==
    /\ completed' = [completed EXCEPT ![p] = TRUE]
    /\ inv' = [inv EXCEPT ![p].stage = stage, ![p].at = "lock",
                          ![p].event = [by |-> p, kind |-> "completed"]]

\* record_command_completed, which does nothing the second time.  There is no
\* such event in the legacy pipeline.
RecordCompleted(p, stage) ==
    IF pipeline = "legacy" \/ completed[p]
    THEN inv' = [inv EXCEPT ![p].stage = stage] /\ UNCHANGED completed
    ELSE /\ completed' = [completed EXCEPT ![p] = TRUE]
         /\ inv' = [inv EXCEPT ![p].stage = stage, ![p].at = "lock",
                               ![p].event = [by |-> p, kind |-> "completed"]]

\* The dispatcher's record at the end of a command, or that of an interrupt.
Finish(p) ==
    /\ Between(p) /\ inv[p].stage = "work"
    /\ RecordCompleted(p, "exit")
    /\ UNCHANGED <<pipeline, file, holder, late, received, counters, recorded, dropped>>

\* activate records its completion and flushes before it replaces the process.
PrepareExec(p) ==
    /\ Between(p) /\ inv[p].stage = "work"
    /\ RecordCompleted(p, "exec")
    /\ UNCHANGED <<pipeline, file, holder, late, received, counters, recorded, dropped>>

\* exec succeeds and the process is another program's, or it fails and the
\* dispatcher goes on.
Exec(p) ==
    /\ Between(p)
    /\ inv[p].stage = IF pipeline = "v2" THEN "execed" ELSE "exec"
    /\ \/ inv' = [inv EXCEPT ![p].stage = "gone"] /\ UNCHANGED completed
       \/ RecordCompleted(p, "exit")
    /\ UNCHANGED <<pipeline, file, holder, late, received, counters, recorded, dropped>>

\* A flush begins: before exec, or in the guard's drop.
BeginFlush(p) ==
    /\ Between(p)
    /\ inv[p].stage = "exit" \/ (inv[p].stage = "exec" /\ pipeline = "v2")
    /\ inv' = [inv EXCEPT ![p].at = "lock", ![p].event = NoEvent]
    /\ UNCHANGED <<pipeline, file, holder, completed, late, received, counters, recorded, dropped>>

-----------------------------------------------------------------------------
\* What follows the operation of p on the buffer.  Errors are only logged.
Flushed(p) == [inv[p] EXCEPT !.at = "none", !.buffer = <<>>, !.event = NoEvent,
                             !.stage = IF inv[p].event # NoEvent THEN @
                                       ELSE IF @ = "exec" THEN "execed" ELSE "gone"]
Release(p) == holder' = Nobody /\ inv' = [inv EXCEPT ![p] = Flushed(p)]

\* EventsBuffer::read: lock the lock file, then read the buffer file.  That
\* the files cannot be opened or read, so that nothing is recorded, is left out.
ReadBuffer(p) ==
    /\ inv[p].at = "lock" /\ holder = Nobody
    /\ holder' = p
    /\ inv' = [inv EXCEPT ![p].at = IF inv[p].event = NoEvent THEN "send" ELSE "push",
                          ![p].buffer = ReadEvents(file)]
    /\ UNCHANGED <<pipeline, file, completed, late, received, counters, recorded, dropped>>

\* Mutant: the limit is checked before the event is added.
OverLimitLate(buffer) == Len(buffer) > MaxBuffer

OverLimit(buffer) == Len(buffer) >= MaxBuffer

\* push: an event is appended to the file; at the limit the oldest ones go and
\* the file is written anew.
Push(p) ==
    LET e == inv[p].event
        all == Append(inv[p].buffer, e)
        kept == SubSeq(all, Len(all) - (MaxBuffer - 2), Len(all))
    IN  /\ inv[p].at = "push"
        /\ IF OverLimit(all)
           THEN /\ inv' = [inv EXCEPT ![p].at = "overwrite", ![p].buffer = kept]
                /\ dropped' = dropped \cup {all[i] : i \in 1..(Len(all) - Len(kept))}
                /\ UNCHANGED <<file, holder, recorded>>
           ELSE /\ file' = Append(file, e)
                /\ recorded' = Append(recorded, e)
                /\ Release(p)
                /\ UNCHANGED dropped
        /\ UNCHANGED <<pipeline, completed, late, received, counters>>

\* overwrite_file, after a push at the limit or a batch that was sent.
Overwrite(p) ==
    /\ inv[p].at = "overwrite"
    /\ file' = inv[p].buffer
    /\ IF inv[p].event = NoEvent
       THEN /\ inv' = [inv EXCEPT ![p].at = "send"]
            /\ UNCHANGED <<holder, recorded>>
       ELSE Release(p) /\ recorded' = Append(recorded, inv[p].event)
    /\ UNCHANGED <<pipeline, completed, late, received, counters, dropped>>

\* A write that fails half-way leaves what it wrote; the process goes on.  An
\* event whose push fails was not recorded.
WriteFails(p) ==
    LET b == inv[p].buffer IN
    /\ Fault /\ torn' = TRUE
    /\ \/ inv[p].at = "push" /\ ~OverLimit(Append(b, inv[p].event))
          /\ file' = Append(file, Torn) /\ UNCHANGED dropped
       \/ /\ inv[p].at = "overwrite" /\ b # <<>>
          /\ \E i \in 0..(Len(b) - 1) :
               /\ file' = Append(SubSeq(b, 1, i), Torn)
               /\ dropped' = dropped \cup ToSet(SubSeq(b, i + 1, Len(b)))
    /\ Release(p)
    /\ UNCHANGED <<pipeline, completed, late, received, recorded>>

-----------------------------------------------------------------------------
Batch(p) == SubSeq(inv[p].buffer, 1, IF Len(inv[p].buffer) < BatchSize
                                     THEN Len(inv[p].buffer) ELSE BatchSize)

\* Mutant: a batch that was sent stays in the buffer.
NotDrained(p) == [inv EXCEPT ![p].at = "overwrite"]

\* drain_sent
Drained(p) == [inv EXCEPT ![p].at = "overwrite",
                          ![p].buffer = SubSeq(@, Len(Batch(p)) + 1, Len(@))]

\* The flush ends: nothing is left, or a legacy buffer is not old enough yet.
EndFlush(p) ==
    /\ inv[p].at = "send"
    /\ inv[p].buffer = <<>> \/ pipeline = "legacy"
    /\ Release(p)
    /\ UNCHANGED <<pipeline, file, completed, late, received, counters, recorded, dropped>>

\* A batch is sent and acknowledged.
Send(p) ==
    /\ inv[p].at = "send" /\ inv[p].buffer # <<>>
    /\ received' = received \cup ToSet(Batch(p))
    /\ inv' = Drained(p)
    /\ UNCHANGED <<pipeline, file, holder, completed, late, counters, recorded, dropped>>

\* The server answers with an error status.  The legacy client takes any answer
\* for a success.
Rejected(p) ==
    /\ inv[p].at = "send" /\ inv[p].buffer # <<>>
    /\ Fault
    /\ IF pipeline = "v2"
       THEN Release(p) /\ UNCHANGED dropped
       ELSE /\ inv' = Drained(p)
            /\ dropped' = dropped \cup ToSet(Batch(p))
            /\ UNCHANGED holder
    /\ UNCHANGED <<pipeline, file, completed, late, received, torn, recorded>>

\* Mutant: what was not sent in time is given up.
NoAnswerDrains(p) ==
    /\ inv[p].at = "send" /\ inv[p].buffer # <<>>
    /\ Fault
    /\ inv' = Drained(p)
    /\ late' \in {late, late \cup {Batch(p)}}
    /\ UNCHANGED <<pipeline, file, holder, completed, received, torn, recorded, dropped>>

\* No answer within the timeout: the flush ends, the request may go on.
NoAnswer(p) ==
    /\ inv[p].at = "send" /\ inv[p].buffer # <<>>
    /\ Fault
    /\ late' \in {late, late \cup {Batch(p)}}
    /\ Release(p)
    /\ UNCHANGED <<pipeline, file, completed, received, torn, recorded, dropped>>

\* A request that the client gave up arrives.
Arrive(b) ==
    /\ b \in late /\ late' = late \ {b}
    /\ received' = received \cup ToSet(b)
    /\ UNCHANGED <<pipeline, file, holder, inv, completed, counters, recorded, dropped>>

\* A process is killed; the system releases its lock.  A write that was under
\* way may have been done, in part or not at all.
Crash(p) ==
    LET b == inv[p].buffer IN
    /\ inv[p].stage # "gone" /\ Fault
    /\ inv' = [inv EXCEPT ![p] = [Flushed(p) EXCEPT !.stage = "gone"]]
    /\ holder' = IF holder = p THEN Nobody ELSE holder
    /\ \/ UNCHANGED <<file, dropped>>
       \/ /\ inv[p].at = "push" /\ ~OverLimit(Append(b, inv[p].event))
          /\ file' = Append(file, inv[p].event) /\ UNCHANGED dropped
       \/ /\ inv[p].at = "overwrite"
          /\ \E i \in 0..Len(b) :
               /\ file' = SubSeq(b, 1, i)
               /\ dropped' = dropped \cup ToSet(SubSeq(b, i + 1, Len(b)))
    /\ UNCHANGED <<pipeline, completed, late, received, torn, recorded>>

Step(p) ==
    \/ \E k \in {"run", "detail"} : Record(p, k)
    \/ Finish(p) \/ PrepareExec(p) \/ Exec(p) \/ BeginFlush(p)
    \/ ReadBuffer(p) \/ Push(p) \/ Overwrite(p) \/ WriteFails(p)
    \/ EndFlush(p) \/ Send(p) \/ Rejected(p) \/ NoAnswer(p)

Done == (\A p \in Invocations : inv[p].stage = "gone") /\ late = {} /\ UNCHANGED vars

Next ==
    \/ \E p \in Invocations : Step(p) \/ Crash(p)
    \/ \E b \in late : Arrive(b)
    \/ Done

\* A process that runs goes on, and the system's lock does not pass over the
\* one process that is left waiting.
Fairness == \A p \in Invocations : WF_vars(Step(p))

Spec == Init /\ [][Next]_vars /\ Fairness

-----------------------------------------------------------------------------
\* An event that was recorded is delivered or waits in the file where the next
\* flush finds it, unless it was given up: over the limit, or a crash while the
\* file was written anew.  It is never only in the memory of the process that
\* holds the lock.  After a write that failed half-way nothing is claimed:
\* what is appended behind the unreadable entry is not read until the file is
\* written anew.
NoSilentLoss ==
    ~torn =>
        ToSet(recorded) \subseteq received \cup ToSet(ReadEvents(file)) \cup dropped

\* Fewer events than the limit wait, in the order they were recorded.
WaitingInOrder ==
    LET waiting == ReadEvents(file)
        pos(e) == CHOOSE i \in DOMAIN recorded : recorded[i] = e
    IN  /\ Len(waiting) < MaxBuffer
        /\ \A i, j \in DOMAIN waiting :
               i < j /\ {waiting[i], waiting[j]} \subseteq ToSet(recorded) =>
                   pos(waiting[i]) <= pos(waiting[j])

\* An invocation's completion is recorded at most once, whichever of activate,
\* the dispatcher and an interrupt gets there.
CompletedOnce ==
    \A p \in Invocations : Cardinality({i \in DOMAIN recorded :
        recorded[i] = [by |-> p, kind |-> "completed"]}) <= 1

\* No invocation waits for ever, for the lock or for the server.
InvocationsEnd == \A p \in Invocations : <>(inv[p].stage = "gone")
=============================================================================
