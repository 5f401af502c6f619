---------------------------- MODULE AutoActivation ----------------------------
(***************************************************************************)
(* The prompt hook of ONE terminal: `flox hook-env`, which runs before     *)
(* each prompt and activates the environments of the directory that the    *)
(* shell entered, deactivates those that the hook activated in directories *)
(* that it left, and carries out what `flox deactivate` asked for.         *)
(*                                                                         *)
(* All that the hook knows is in variables of the shell: the active        *)
(* environments (_FLOX_ACTIVE_ENVIRONMENTS), the diff that undoes the most *)
(* recent activation (_FLOX_HOOK_DIFF), and the two lists it keeps itself. *)
(* The diff of an in-place activation holds the diff before it, so         *)
(* _FLOX_HOOK_DIFF is the chain `diffs`, the most recent one first.        *)
(*                                                                         *)
(* The auto_activate feature is on, and a directory is a sequence of       *)
(* names, the root being the empty one.                                    *)
(***************************************************************************)
EXTENDS Naturals, Sequences, FiniteSets, SequencesExt

CONSTANTS Dirs,       \* the directories that may hold an environment
          Places,     \* the directories the shell goes to
          Remote,     \* an environment without a directory
          InPlace,    \* the environments that the user activates in place,
          InShell,    \* and those in a shell of their own
          Again,      \* active environments may be activated again, in place
          Chained,    \* commands may follow a request on one command line
          MaxFaults,  \* bound on failed activations, lost diffs and deletions
          MaxPrefs,   \* bound on changes of the preferences by hand
          MaxShells,  \* how deep interactive activations may nest
          Nobody

Envs == Dirs \cup {Remote}
MaxQuiet == 2

ASSUME AutoAssumption ==
    /\ Dirs \subseteq Seq(STRING) /\ IsFiniteSet(Dirs) /\ Places \subseteq Seq(STRING)
    /\ Remote \notin Dirs /\ Nobody \notin Envs /\ InPlace \cup InShell \subseteq Envs
    /\ Again \in BOOLEAN /\ Chained \in BOOLEAN
    /\ MaxFaults \in Nat /\ MaxPrefs \in Nat /\ MaxShells \in Nat \ {0}

VARIABLES
    shells,   \* the nested shells of the terminal, the one at the prompt last
    config,   \* auto_activate_environments of the user's configuration
    ask,      \* auto_activate: TRUE for "prompt", FALSE for "allowed"
    dotFlox,  \* the directories that have a .flox
    quiet,    \* how often the hook ran since the last command or request, at most
              \* MaxQuiet times
    faults, prefs

vars == <<shells, config, ask, dotFlox, quiet, faults, prefs>>

Diff == [active : Seq(Envs), kind : {"none", "inplace", "interactive"}, inPlace : BOOLEAN]

Shell == [cwd : Places,
          active : Seq(Envs), diffs : Seq(Diff),
          kind : {"none", "inplace", "interactive"},   \* _FLOX_INVOCATION_TYPE
          auto : SUBSET Dirs,          \* _FLOX_AUTO_ACTIVATED_ENVIRONMENTS
          suppressed : SUBSET Dirs,    \* _FLOX_SUPPRESSED_ENVIRONMENTS
          request : Envs \cup {Nobody},  \* the prompt-hook action file of its PID
          attached : SUBSET Envs,      \* the activations its PID is attached to
          claimed : SUBSET Dirs,       \* history: tracked, and at the last run of
                                       \* the hook either active or just started
          hooked : SUBSET Dirs,        \* history: active because of the hook
          refused : SUBSET Dirs,       \* history: deactivated or declined in here
          warned : SUBSET Dirs]        \* history: the user was told to deactivate

TypeOK ==
    /\ shells \in Seq(Shell) /\ Len(shells) \in 1..MaxShells
    /\ config \in [Dirs -> {"allow", "deny", "unset"}] /\ ask \in BOOLEAN
    /\ dotFlox \subseteq Dirs
    /\ quiet \in 0..MaxQuiet /\ faults \in 0..MaxFaults /\ prefs \in 0..MaxPrefs

\* The shell at the prompt
Top == shells[Len(shells)]

\* A shell whose startup file installed the hook with an in-place activation
\* of a default environment, which is below everything that is modelled here.
LoginShell(p) ==
    [cwd |-> p, active |-> <<>>, diffs |-> <<>>, kind |-> "none", auto |-> {},
     suppressed |-> {}, request |-> Nobody, attached |-> {},
     claimed |-> {}, hooked |-> {}, refused |-> {}, warned |-> {}]

Init ==
    /\ \E p \in Places : shells = <<LoginShell(p)>>
    /\ config \in [Dirs -> {"allow", "deny", "unset"}]
    /\ ask \in BOOLEAN
    /\ dotFlox = Dirs
    /\ quiet = 0 /\ faults \in 0..MaxFaults /\ prefs \in 0..MaxPrefs

-------------------------------------------------------------------------------
(***************************************************************************)
(* Activations and their diffs                                             *)
(***************************************************************************)

IsActive(sh, e) == \E i \in DOMAIN sh.active : sh.active[i] = e

Pushed(sh, e) == IF IsActive(sh, e) THEN sh.active ELSE <<e>> \o sh.active

\* eval "$(flox activate)": an environment that is active already is not put on
\* the stack again, but its activation has a diff like any other
ActivateInPlace(sh, e) ==
    [sh EXCEPT !.active = Pushed(sh, e),
               !.diffs = <<[active |-> sh.active, kind |-> sh.kind, inPlace |-> TRUE]>> \o @,
               !.kind = "inplace",
               !.attached = @ \cup {e}]

\* The environments of es, all around the working directory, are activated one
\* after the other, the outermost first
ActivateAll(sh, es) ==
    LET up[n \in 0..Len(sh.cwd) + 1] ==
            IF n = 0 THEN sh
            ELSE LET d == SubSeq(sh.cwd, 1, n - 1)
                 IN  IF d \in es THEN ActivateInPlace(up[n - 1], d) ELSE up[n - 1]
    IN  up[Len(sh.cwd) + 1]

\* flox activate in a shell of its own, which inherits the variables.  The diff
\* of such an activation has neither _FLOX_HOOK_DIFF nor _FLOX_INVOCATION_TYPE.
Subshell(sh, e) ==
    [sh EXCEPT !.active = Pushed(sh, e),
               !.diffs = <<[active |-> sh.active, kind |-> "none", inPlace |-> FALSE]>>,
               !.kind = "interactive",
               !.request = Nobody, !.attached = {e},
               !.hooked = @ \cup ({e} \cap sh.claimed)]

\* Mutant: each script restores the diff of the front.
RestoreFront(sh, n, es) ==
    IF n = 0 THEN sh ELSE
    [sh EXCEPT !.active = sh.diffs[1].active, !.diffs = SubSeq(@, n + 1, Len(@)),
               !.kind = sh.diffs[1].kind, !.attached = @ \ es]

\* The scripts of the first n diffs of the chain, and the detach of each
RestoreDiffs(sh, n, es) ==
    IF n = 0 THEN sh ELSE
    LET diff == sh.diffs[n] IN
    [sh EXCEPT !.active = diff.active,
               !.diffs = IF diff.inPlace THEN SubSeq(@, n + 1, Len(@)) ELSE <<>>,
               !.kind = diff.kind,
               !.attached = @ \ es]

-------------------------------------------------------------------------------
(***************************************************************************)
(* plan_auto_activation                                                    *)
(***************************************************************************)

Inside(sh, d) == IsPrefix(d, sh.cwd)

\* find_all_dot_flox
Discovered(sh) == {d \in dotFlox : Inside(sh, d)}

\* Mutant: what is tracked is not compared with the stack.
TrackedForEver(sh) == sh.auto

\* A tracked environment that is not active any more was deactivated by other
\* means, or never came up
Tracked(sh) == {d \in sh.auto : IsActive(sh, d)}

Suppressed(sh) == {d \in sh.suppressed \cup (sh.auto \ Tracked(sh)) : Inside(sh, d)}

Leavers(sh) == {d \in Tracked(sh) : ~Inside(sh, d)}

\* The layers at the front of the stack that are leavers
PopFront(active, leavers) ==
    LET stay == {i \in DOMAIN active : active[i] \notin leavers}
    IN  SubSeq(active, 1, IF stay = {} THEN Len(active) ELSE Min(stay) - 1)

\* Mutant: buried leavers stay tracked.
NoneAbandoned(pop, leavers) == {}

\* Leavers that are buried under a layer that stays are given up with a warning
Abandoned(pop, leavers) == IF pop = <<>> THEN leavers ELSE {}

\* What stays tracked may still have to be unwound, by a later run: until then
\* nothing is activated on top of it
Plan(sh) ==
    LET suppressed == Suppressed(sh)
        leavers == Leavers(sh)
        pop == PopFront(sh.active, leavers)
        abandoned == Abandoned(pop, leavers)
        tracked == (Tracked(sh) \ Range(pop)) \ abandoned
        unwinding == \E d \in tracked : d \in leavers
        candidates == {d \in Discovered(sh) :
                          ~unwinding /\ ~IsActive(sh, d) /\ d \notin suppressed}
    IN  [activate |-> {d \in candidates : config[d] = "allow"},
         prompt |-> {d \in candidates : ask /\ config[d] = "unset"},
         deactivate |-> pop,
         abandoned |-> abandoned,
         auto |-> tracked,
         suppressed |-> suppressed]

\* After a request the front of the stack is suppressed, and nothing else is done
FrontDir(sh) == IF sh.active = <<>> THEN {} ELSE {Head(sh.active)} \ {Remote}

\* Mutant: the environment that was deactivated is not suppressed.
PlanUnsuppressed(sh, was) ==
    [sh EXCEPT !.auto = Tracked(was) \ FrontDir(was), !.suppressed = Suppressed(was),
               !.claimed = {d \in Tracked(was) \ FrontDir(was) : IsActive(was, d)},
               !.refused = @ \cup {d \in FrontDir(was) : Inside(was, d)}]

PlanAfterRequest(sh, was) ==
    LET off == {d \in FrontDir(was) : Inside(was, d)} IN
    [sh EXCEPT !.auto = Tracked(was) \ FrontDir(was),
               !.claimed = {d \in Tracked(was) \ FrontDir(was) : IsActive(was, d)},
               !.suppressed = Suppressed(was) \cup off,
               !.refused = @ \cup off]

-------------------------------------------------------------------------------
(***************************************************************************)
(* flox hook-env                                                           *)
(***************************************************************************)

\* History of what is active
Remember(sh) == [sh EXCEPT !.hooked = {d \in @ : IsActive(sh, d)},
                           !.warned = {d \in @ : IsActive(sh, d)}]

SetTop(sh) == shells' = [shells EXCEPT ![Len(shells)] = Remember(sh)]

Ran(sh) ==
    /\ SetTop(sh)
    /\ quiet' = IF quiet < MaxQuiet THEN quiet + 1 ELSE quiet

\* The executive notices that the PID is gone; the shell below shows its prompt
ExitShell ==
    /\ Len(shells) > 1
    /\ shells' = Front(shells)
    /\ quiet' = 0
    /\ UNCHANGED <<config, ask, dotFlox, faults, prefs>>

\* take_hook_actions removes the file before anything else, also if there is no
\* diff to restore and the hook ends with an error
HookRequest ==
    LET was == Top
        taken == [was EXCEPT !.request = Nobody]
    IN
    /\ was.request # Nobody
    /\ \/ was.kind = "interactive" /\ ExitShell
       \/ /\ was.kind # "interactive"
          /\ SetTop(IF was.diffs = <<>> THEN taken
                    ELSE PlanAfterRequest(RestoreDiffs(taken, 1, {was.request}), was))
          /\ quiet' = 0
          /\ UNCHANGED <<config, ask, dotFlox, faults, prefs>>

\* The layers to pop that have a diff, and those among them that cannot be opened
Walk(sh, pop) == SubSeq(pop, 1, Min({Len(pop), Len(sh.diffs)}))
Unopened(sh, pop) == {i \in DOMAIN Walk(sh, pop) : pop[i] \notin dotFlox}
PopCount(sh, pop) ==
    IF Unopened(sh, pop) = {} THEN Len(Walk(sh, pop)) ELSE Min(Unopened(sh, pop)) - 1

AfterPops(sh, pop) ==
    LET n == PopCount(sh, pop) IN RestoreDiffs(sh, n, Range(SubSeq(pop, 1, n)))

\* The scripts written so far reach the shell, the lists are left as they were
HookError ==
    LET pop == Plan(Top).deactivate IN
    /\ Top.request = Nobody
    /\ Unopened(Top, pop) # {}
    /\ Ran(AfterPops(Top, pop))
    /\ UNCHANGED <<config, ask, dotFlox, faults, prefs>>

\* `failing` are activations that fail: the script is empty, and the hook has
\* put the environment on its list all the same
HookAuto ==
    LET plan == Plan(Top)
        pop == plan.deactivate
        unpopped == Range(SubSeq(pop, PopCount(Top, pop) + 1, Len(pop)))
    IN
    /\ Top.request = Nobody
    /\ Unopened(Top, pop) = {}
    /\ \E consent \in IF plan.prompt = {} THEN {"noTerminal"}
                      ELSE {"noTerminal", "allow", "decline"} :
       LET yes == IF consent = "allow" THEN plan.prompt ELSE {}
           no == IF consent = "decline" THEN plan.prompt ELSE {}
           started == plan.activate \cup yes
       IN
       /\ \E failing \in SUBSET started :
          LET up == started \ failing IN
          /\ faults + Cardinality(failing) <= MaxFaults
          /\ faults' = faults + Cardinality(failing)
          /\ Ran([ActivateAll(AfterPops(Top, pop), up) EXCEPT
                      !.auto = plan.auto \cup started,
                      !.claimed = {d \in plan.auto : IsActive(Top, d)} \cup started,
                      !.suppressed = plan.suppressed \cup no,
                      !.hooked = @ \cup up,
                      !.refused = @ \cup no,
                      !.warned = @ \cup plan.abandoned \cup unpopped])
       /\ config' = [d \in Dirs |-> IF d \in yes THEN "allow" ELSE config[d]]
    /\ UNCHANGED <<ask, dotFlox, prefs>>

Hook ==
    \/ HookRequest
    \/ HookError
    \/ HookAuto

-------------------------------------------------------------------------------
(***************************************************************************)
(* Commands                                                                *)
(***************************************************************************)

Typed(sh) ==
    /\ SetTop(sh)
    /\ quiet' = 0
    /\ UNCHANGED <<config, ask, prefs>>

Openable(e) == e = Remote \/ e \in dotFlox

\* Unless Chained, a prompt comes between a request and the next activation
AtPrompt == Chained \/ Top.request = Nobody

Cd(p) ==
    /\ p # Top.cwd
    /\ LET there == [Top EXCEPT !.cwd = p] IN
       Typed([there EXCEPT !.refused = {d \in @ : Inside(there, d)}])
    /\ UNCHANGED <<dotFlox, faults>>

\* An activation by hand of what the hook tracks, and failed to bring up, is
\* from then on the hook's
EvalActivate(e) ==
    /\ AtPrompt /\ Openable(e)
    /\ Again \/ ~IsActive(Top, e)
    /\ LET sh == ActivateInPlace(Top, e) IN
       Typed([sh EXCEPT !.hooked = @ \cup ({e} \cap sh.claimed), !.refused = @ \ {e}])
    /\ UNCHANGED <<dotFlox, faults>>

Activate(e) ==
    /\ AtPrompt /\ Openable(e)
    /\ ~IsActive(Top, e)
    /\ Len(shells) < MaxShells
    /\ shells' = Append(shells, [Subshell(Top, e) EXCEPT !.refused = @ \ {e}])
    /\ quiet' = 0
    /\ UNCHANGED <<config, ask, dotFlox, faults, prefs>>

\* flox deactivate; it fails if the environment cannot be opened
Deactivate ==
    /\ Top.active # <<>>
    /\ Openable(Head(Top.active))
    /\ Typed([Top EXCEPT !.request = Head(Top.active)])
    /\ UNCHANGED <<dotFlox, faults>>

\* eval "$(flox deactivate --print-script $_FLOX_INVOCATION_TYPE)"
DeactivatePrintScript ==
    /\ AtPrompt
    /\ Top.active # <<>> /\ Openable(Head(Top.active))
    /\ \/ Top.kind = "interactive" /\ ExitShell
       \/ /\ Top.kind = "inplace" /\ Top.diffs # <<>>
          /\ Typed(RestoreDiffs(Top, 1, {Head(Top.active)}))
          /\ UNCHANGED <<dotFlox, faults>>

\* flox activate allow, flox activate deny
Prefer(d, preference) ==
    /\ d \in dotFlox /\ config[d] # preference
    /\ prefs < MaxPrefs /\ prefs' = prefs + 1
    /\ config' = [config EXCEPT ![d] = preference]
    /\ quiet' = 0
    /\ UNCHANGED <<shells, ask, dotFlox, faults>>

\* The directory of an environment is removed; a variable is unset
RemoveDotFlox(d) ==
    /\ faults < MaxFaults /\ faults' = faults + 1
    /\ dotFlox' = dotFlox \ {d} /\ d \in dotFlox
    /\ quiet' = 0
    /\ UNCHANGED <<shells, config, ask, prefs>>

LoseDiff ==
    /\ faults < MaxFaults /\ faults' = faults + 1
    /\ Top.diffs # <<>>
    /\ Typed([Top EXCEPT !.diffs = <<>>])
    /\ UNCHANGED dotFlox

Next ==
    \/ Hook
    \/ \E p \in Places : Cd(p)
    \/ \E e \in InPlace : EvalActivate(e)
    \/ \E e \in InShell : Activate(e)
    \/ Deactivate \/ DeactivatePrintScript
    \/ ExitShell
    \/ \E d \in Dirs : Prefer(d, "allow") \/ Prefer(d, "deny") \/ RemoveDotFlox(d)
    \/ LoseDiff

Spec == Init /\ [][Next]_vars

-------------------------------------------------------------------------------
(***************************************************************************)
(* Properties                                                              *)
(***************************************************************************)

\* The diff at the front of the chain gives back exactly the environments below
\* the front of the stack, and so does each diff within it, and a shell is
\* attached to the environments that it activated itself and no others: what a
\* deactivation undoes in the shell is what it undoes in state.json.
DiffsMatchStack ==
    \A i \in DOMAIN shells :
        LET sh == shells[i]
            below == IF i = 1 THEN {} ELSE Range(shells[i - 1].active)
        IN  /\ \A j \in DOMAIN sh.diffs :
                   sh.diffs[j].active = SubSeq(sh.active, j + 1, Len(sh.active))
            /\ sh.attached = Range(sh.active) \ below

\* An environment that the user deactivated or declined while in its directory
\* is not activated by the hook until the shell has left the directory or the
\* user activates it.
RefusalHolds == \A i \in DOMAIN shells : shells[i].refused \cap shells[i].hooked = {}

\* The hook deactivates on its own account only what is active on its account.
ManualKept ==
    [][ quiet' # 0
            => Range(Top.active) \ Range(Top'.active) \subseteq Top.hooked ]_vars

\* A tracked environment was left and cannot be opened: the hook fails at every
\* prompt, before it deactivates anything, and says so each time.
Stuck == Unopened(Top, Plan(Top).deactivate) # {}

\* Whatever happened before, two prompts are enough: the allowed environments of
\* the directory are active unless they are suppressed or failed to activate,
\* and those of other directories are not, unless the user was told why.
SettledInTwo ==
    quiet = MaxQuiet /\ ~Stuck =>
        /\ \A d \in Discovered(Top) : config[d] = "allow" =>
               IsActive(Top, d) \/ d \in Top.suppressed \cup Top.auto
        /\ \A d \in Top.hooked : Inside(Top, d) \/ d \in Top.warned
===============================================================================
