----------------------------- MODULE Generations -----------------------------
(***************************************************************************)
(* The history of a managed environment: metadata.json and the generation  *)
(* directories on an environment branch.                                   *)
(*                                                                         *)
(* Every change of a branch is one commit on top of the last one, and flox *)
(* never merges.  A branch is therefore the sequence of its changes, and a *)
(* commit is the branch that ends with it: "is an ancestor of" is "is a    *)
(* prefix of".  The timestamp of a change is also what makes two commits   *)
(* with equal content differ; here each change of a history is later than  *)
(* the one before it.                                                      *)
(***************************************************************************)
EXTENDS Naturals, Sequences, FiniteSets, SequencesExt

CONSTANT NoEnv      \* no environment: neither a manifest nor a lockfile

NoGeneration == 0   \* previous_generation of the first change

\* AllGenerationsMetadata::current_gen: 0 if no generation was added yet.
CurrentGen(h) == IF h = <<>> THEN NoGeneration ELSE Last(h).gen

TotalGenerations(h) == IF h = <<>> THEN 0 ELSE Last(h).total

\* Mutant: the number is that of the live generation plus one.
AddAfterCurrent(h, env, now) ==
    Append(h, [kind |-> "add", gen |-> CurrentGen(h) + 1, prev |-> CurrentGen(h),
               total |-> TotalGenerations(h) + 1, env |-> env, at |-> now])

\* add_generation: the new generation gets the next free number and is live.
AddGeneration(h, env, now) ==
    Append(h, [kind |-> "add", gen |-> TotalGenerations(h) + 1, prev |-> CurrentGen(h),
               total |-> TotalGenerations(h) + 1, env |-> env, at |-> now])

\* switch_generation refuses the live generation and numbers not yet given.
SwitchRefused(h, g) == g = CurrentGen(h) \/ g > TotalGenerations(h)

SwitchGeneration(h, g, now) ==
    Append(h, [kind |-> "switch", gen |-> g, prev |-> CurrentGen(h),
               total |-> TotalGenerations(h), env |-> NoEnv, at |-> now])

-----------------------------------------------------------------------------
Adds(h) == {i \in DOMAIN h : h[i].kind = "add"}

\* The keys of generations().
Created(h) == {h[i].gen : i \in Adds(h)}

\* generations() finds a previous and a current generation for every switch;
\* where it does not, it panics.
Readable(h) ==
    \A i \in DOMAIN h \ Adds(h) :
        {h[i].gen, h[i].prev} \subseteq {h[j].gen : j \in Adds(h) \cap 1..i}

\* The manifest and lockfile in the directory of generation g.
EnvOf(h, g) ==
    IF g \in Created(h) THEN h[CHOOSE i \in Adds(h) : h[i].gen = g].env ELSE NoEnv

CurrentEnv(h) == EnvOf(h, CurrentGen(h))

Envs(h) == {h[i].env : i \in Adds(h)}

\* last_live: when generation g last stopped being live, 0 if it is live or
\* never was.  A change makes its previous generation stop and its own live.
LastLive(h, g) ==
    LET touches == {i \in DOMAIN h : h[i].gen = g \/ h[i].prev = g}
        last == CHOOSE i \in touches : \A j \in touches : j <= i
    IN  IF h[last].gen = g THEN 0 ELSE h[last].at

\* Mutant: the highest number that is not live.
PreviousHighest(h) ==
    CHOOSE g \in Created(h) \ {CurrentGen(h)} : \A k \in Created(h) \ {CurrentGen(h)} : k <= g

\* determine_previous_generation: the last to have stopped being live, of two
\* that stopped at once the one with the higher number.
PreviousGeneration(h) ==
    LET live == [g \in Created(h) |-> LastLive(h, g)] IN
    CHOOSE g \in Created(h) : \A k \in Created(h) \ {g} :
        live[k] < live[g] \/ (live[k] = live[g] /\ k < g)

-----------------------------------------------------------------------------
\* compare_branches: a compared to b.
CompareBranches(a, b) ==
    CASE a = b          -> "Equal"
      [] IsStrictPrefix(b, a) -> "Ahead"
      [] IsStrictPrefix(a, b) -> "Behind"
      [] OTHER          -> "Diverged"

\* git accepts a push of a onto b.
Pushable(a, b, force) == force \/ IsPrefix(b, a)

=============================================================================
