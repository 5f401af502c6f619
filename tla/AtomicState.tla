----------------------------- MODULE AtomicState -----------------------------
(***************************************************************************)
(* What state.lock is there for: the state of an environment's activation  *)
(* changes as if each critical section were one step, on the state that it *)
(* finds.  Activation is written in this way.  StateLock, where a section  *)
(* takes many steps, a process may be killed within one, and the lock file *)
(* goes away with its directory, implements this specification.            *)
(***************************************************************************)

CONSTANTS Activators, NoState

VARIABLES
    state,     \* what whoever reads state.json finds
    gone,      \* activators that have exited or have failed
    dead,      \* executives that have exited or have failed
    overlap    \* a cleanup left a process waiting for the old lock file

vars == <<state, gone, dead, overlap>>

Init == state = NoState /\ gone = {} /\ dead = {} /\ overlap = FALSE

\* A first activator, also the first after the executive died.  Nobody's state
\* is replaced while its executive lives.
Start(p) ==
    /\ state # NoState => state.executive \in dead
    /\ state' = [executive |-> p, attached |-> {p}]
    /\ UNCHANGED <<gone, dead>>

Attach(p) ==
    /\ state # NoState
    /\ state' = [state EXCEPT !.attached = @ \cup {p}]
    /\ UNCHANGED <<gone, dead>>

Exit(p) == gone' = gone \cup {p} /\ UNCHANGED <<state, dead>>

Die(e) == dead' = dead \cup {e} /\ UNCHANGED <<state, gone>>

\* One process that has exited is taken out, and others are left.
CleanupPid(q) ==
    /\ state # NoState
    /\ q \in gone \cap state.attached
    /\ state.attached # {q}
    /\ state' = [state EXCEPT !.attached = @ \ {q}]
    /\ UNCHANGED <<gone, dead>>

\* The last process has exited: the state goes, and the executive with it.
CleanupAll(e) ==
    /\ state # NoState
    /\ \E q \in gone : state.attached = {q}
    /\ state' = NoState
    /\ dead' = dead \cup {e}
    /\ UNCHANGED gone

Section ==
    \/ \E p \in Activators \ gone : Start(p) \/ Attach(p) \/ Exit(p)
    \/ \E e \in Activators \ dead : Die(e) \/ CleanupAll(e)
    \/ \E q \in Activators : CleanupPid(q)

\* Nothing is promised once a process holds the lock of an earlier directory.
Next ==
    \/ ~overlap /\ Section /\ UNCHANGED overlap
    \/ ~overlap /\ (\E e \in Activators \ dead : CleanupAll(e)) /\ overlap'
    \/ overlap /\ overlap'

Spec == Init /\ [][Next]_vars
=============================================================================
