---------------------------- MODULE MCActivation ----------------------------
(***************************************************************************)
(* Activation for TLC.  Symmetry is used for invariants only, and only for *)
(* the sets whose elements a configuration treats alike: all of them, or   *)
(* the modes if single processes may be killed, reused or detached.        *)
(***************************************************************************)
EXTENDS Activation, TLC

ModeSymmetry == Permutations(Modes)
FullSymmetry == Permutations(Activators) \cup Permutations(Stores) \cup ModeSymmetry

\* For liveness, where symmetry cannot be used: one activator asks for a build
\* of its own, and no shell activates in place.  Which activator and which
\* build they are makes no difference.
Loner == CHOOSE p \in Activators \ Detachable : TRUE
Another == CHOOSE v \in Stores : TRUE
InitOneApart ==
    /\ Init
    /\ \A p \in Activators :
           ctx[p].shell = NoPid /\ (ctx[p].store = Another <=> p = Loner)

LiveSpecOneApart == InitOneApart /\ [][Next]_vars /\ Fairness
=============================================================================
