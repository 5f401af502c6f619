------------------------------ MODULE MCManaged ------------------------------
(***************************************************************************)
(* ManagedEnvironment for TLC.                                             *)
(***************************************************************************)
EXTENDS ManagedEnvironment, TLC

\* Checkouts that share a floxmeta repository, and checkouts of several users.
MCOneMachine == [d \in Dirs |-> 1]
MCOwnMachine == [d \in Dirs |-> d]

\* Path environments are of interest only where they may be imported.
MCInit ==
    /\ Init
    /\ "import" \notin Kinds => \A d \in Dirs : pointer[d] = "none"

MCSpec == MCInit /\ [][Next]_vars

\* One thing goes wrong at a time: a command is killed, or FloxHub loses commits.
MCOneFault == crashes = 0 \/ ~rewritten

MCSymmetry == Permutations(Procs) \cup Permutations(Dirs)
=============================================================================
