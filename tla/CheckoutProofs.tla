---------------------------- MODULE CheckoutProofs ----------------------------
(***************************************************************************)
(* As long as one command at a time runs in a directory, a checkout keeps  *)
(* its saved generations, its sync branch and its environment, and is in   *)
(* sync with its branch between commands, whatever commands run elsewhere  *)
(* and wherever one is killed.                                             *)
(***************************************************************************)
EXTENDS ManagedProofs

Active(p, d) == cmd[p].at # "idle" /\ cmd[p].dir = d

Alone == \A p, q \in Procs, d \in Dirs : Active(p, d) /\ Active(q, d) => p = q

\* The lock names the tip of the branch.
Locked(d) == lock[d] # NoLock /\ local[d] # NoBranch /\ local[d] = LockedRev(lock[d])

\* .flox/env is the live generation, or will be when it is needed.
Current(d) == env[d] \in {NoEnv, CurrentEnv(local[d])}

\* The directory is that of an open checkout.
Open(d) == pointer[d] = "managed" /\ d \in registered /\ Locked(d)

Opening(c) ==
    /\ c.at = "read" =>
        /\ pointer[c.dir] = "managed" /\ c.lock = lock[c.dir]
        /\ c.kind = "pullNew" =>
               lock[c.dir] = NoLock /\ env[c.dir] = NoEnv /\ backup[c.dir] = NoEnv
        /\ c.kind # "pullNew" /\ c.dir \notin touched => Locked(c.dir) /\ Current(c.dir)
    /\ c.at = "branch" =>
        /\ pointer[c.dir] = "managed" /\ c.lock # NoLock /\ local[c.dir] = LockedRev(c.lock)
        /\ c.dir \notin touched => Current(c.dir)

Working(c) ==
    /\ c.at \in {"opened", "commit", "fetch", "compare", "apply", "reset", "copy"} => Open(c.dir)
    /\ c.at = "push" =>
        \/ c.kind = "push" /\ Open(c.dir)
        \/ c.kind = "import" /\ pointer[c.dir] = "path"
    /\ c.at \in {"opened", "fetch", "compare", "apply"} \/ (c.at = "push" /\ c.kind = "push") =>
        (c.dir \notin touched => Current(c.dir))
    /\ c.at \in {"fetch", "compare", "apply"} => c.kind \in {"push", "pull"}
    /\ c.at = "copy" => c.env = CurrentEnv(local[c.dir])

Changing(c) ==
    /\ c.at \in {"swap", "swapping"} =>
        IF c.seen = NoBranch THEN pointer[c.dir] = "path"
                             ELSE Open(c.dir) /\ c.seen = local[c.dir]
    /\ c.at = "swap" /\ c.seen # NoBranch => env[c.dir] = CurrentEnv(local[c.dir])
    /\ c.at = "swapping" =>
        /\ backup[c.dir] # NoEnv
        /\ c.seen # NoBranch => backup[c.dir] = CurrentEnv(local[c.dir])
    /\ c.at = "commit" =>
        /\ c.seen = local[c.dir]
        /\ c.kind \in {"install", "sync"} => EnvComplete(c.dir)
        /\ c.kind = "sync" => c.dir \in touched
        /\ c.kind \in {"switch", "rollback"} => Current(c.dir)
    /\ c.at = "lock" =>
        /\ pointer[c.dir] = "managed" /\ c.dir \in registered
        /\ lock[c.dir] # NoLock /\ local[c.dir] # NoBranch
        /\ c.kind \in {"install", "sync"} => env[c.dir] = CurrentEnv(local[c.dir])

Leaving(c) ==
    /\ c.at \in {"prune", "deregister"} => c.kind \in {"delete", "convert"}
    /\ c.at \in {"prune", "deregister"} /\ c.kind = "delete" => pointer[c.dir] = "none"
    /\ (c.at \in {"prune", "deregister"} /\ c.kind = "convert") \/ c.at = "unlock" =>
        pointer[c.dir] = "managed" /\ c.dir \in registered /\ env[c.dir] # NoEnv
    /\ c.at = "prune" /\ c.kind = "convert" => Locked(c.dir)
    /\ c.at = "unlock" => c.kind = "convert" /\ saved[c.dir] = {}
    /\ c.at = "pointer" =>
        \/ c.kind = "import" /\ pointer[c.dir] = "path"
        \/ c.kind = "convert" /\ pointer[c.dir] = "managed" /\ env[c.dir] # NoEnv

Busy(p) ==
    cmd[p].at # "idle" =>
        Opening(cmd[p]) /\ Working(cmd[p]) /\ Changing(cmd[p]) /\ Leaving(cmd[p])

\* What a directory is, whether a command runs in it or not.
Sound(d) ==
    /\ pointer[d] = "none" => lock[d] = NoLock /\ env[d] = NoEnv /\ backup[d] = NoEnv
    /\ pointer[d] = "path" => env[d] # NoEnv \/ backup[d] # NoEnv
    /\ lock[d] = NoLock => saved[d] = {}
    /\ lock[d] # NoLock => saved[d] \subseteq Envs(LockedRev(lock[d]))
    /\ local[d] # NoBranch => saved[d] \subseteq Envs(local[d])
    /\ local[d] # NoBranch => sync[MachineOf[d]] # NoBranch

\* What a command leaves behind.
Settled(d) == pointer[d] = "managed" /\ d \notin touched => Locked(d) /\ Current(d)

Control == \A p \in Procs : Busy(p)
Rest == \A d \in Dirs : Sound(d) /\ ((\A p \in Procs : ~Active(p, d)) => Settled(d))

Checkouts == Alone /\ Control /\ Rest

-----------------------------------------------------------------------------
\* A step that is about one directory leaves the others alone, and does not
\* take the sync branch from a checkout that needs it.
Elsewhere(d) ==
    \A e \in Dirs \ {d} :
        /\ local'[e] = local[e] /\ lock'[e] = lock[e] /\ env'[e] = env[e]
        /\ backup'[e] = backup[e] /\ pointer'[e] = pointer[e] /\ saved'[e] = saved[e]
        /\ (e \in registered' <=> e \in registered) /\ (e \in touched' <=> e \in touched)
        /\ local[e] # NoBranch => sync'[MachineOf[e]] # NoBranch

LEMMA OtherBusy ==
    ASSUME NEW d \in Dirs, Elsewhere(d), NEW q \in Procs, Busy(q), cmd'[q] = cmd[q],
           cmd[q].at # "idle" => cmd[q].dir \in Dirs \ {d}
    PROVE  Busy(q)'
<1> SUFFICES ASSUME cmd[q].at # "idle"
             PROVE  (Opening(cmd[q]) /\ Working(cmd[q]) /\ Changing(cmd[q]) /\ Leaving(cmd[q]))'
  BY DEF Busy
<1>1. Opening(cmd[q]) /\ Working(cmd[q]) /\ Changing(cmd[q]) /\ Leaving(cmd[q])
  BY DEF Busy
<1> DEFINE e == cmd[q].dir
<1>2. /\ local'[e] = local[e] /\ lock'[e] = lock[e] /\ env'[e] = env[e]
      /\ backup'[e] = backup[e] /\ pointer'[e] = pointer[e] /\ saved'[e] = saved[e]
      /\ (e \in registered' <=> e \in registered) /\ (e \in touched' <=> e \in touched)
  BY DEF Elsewhere
<1>3. Opening(cmd[q])'
  BY <1>1, <1>2 DEF Opening, Locked, Current
<1>4. Working(cmd[q])'
  BY <1>1, <1>2 DEF Working, Open, Locked, Current
<1>5. Changing(cmd[q])'
  BY <1>1, <1>2 DEF Changing, Open, Locked, Current, EnvComplete
<1>6. Leaving(cmd[q])'
  BY <1>1, <1>2 DEF Leaving, Locked
<1> QED  BY <1>3, <1>4, <1>5, <1>6

LEMMA OtherRest ==
    ASSUME NEW d \in Dirs, Elsewhere(d), NEW e \in Dirs \ {d}
    PROVE  (Sound(e) => Sound(e)') /\ (Settled(e) => Settled(e)')
<1>1. /\ local'[e] = local[e] /\ lock'[e] = lock[e] /\ env'[e] = env[e]
      /\ backup'[e] = backup[e] /\ pointer'[e] = pointer[e] /\ saved'[e] = saved[e]
      /\ (e \in touched' <=> e \in touched)
      /\ local[e] # NoBranch => sync'[MachineOf[e]] # NoBranch
  BY DEF Elsewhere
<1>2. Sound(e) => Sound(e)'
  BY <1>1 DEF Sound
<1>3. Settled(e) => Settled(e)'
  BY <1>1 DEF Settled, Locked, Current
<1> QED  BY <1>2, <1>3

\* A step of the command that runs in a directory, or begins there.
LEMMA CommandIn ==
    ASSUME Inv, Checkouts, NEW p \in Procs, NEW d \in Dirs, Elsewhere(d),
           cmd[p].at = "idle" \/ Active(p, d),
           \A q \in Procs : q # p => cmd'[q] = cmd[q] /\ ~Active(q, d),
           cmd'[p].at = "idle" \/ cmd'[p].dir = d,
           cmd'[p].at # "idle" => Busy(p)',
           cmd'[p].at = "idle" => Settled(d)',
           Sound(d)'
    PROVE  Checkouts'
<1>1. \A q \in Procs : cmd[q].at # "idle" => cmd[q].dir \in Dirs
  BY DEF Inv, Prepared, Ready
<1>2. \A q \in Procs, e \in Dirs \ {d} : Active(q, e)' <=> Active(q, e)
  BY DEF Active
<1>3. \A q \in Procs : q # p => ~Active(q, d)'
  BY DEF Active
<1>4. Alone'
  BY <1>2, <1>3 DEF Alone, Checkouts
<1>5. Control'
  <2>1. Busy(p)'
    BY DEF Busy
  <2>2. ASSUME NEW q \in Procs, q # p PROVE Busy(q)'
    <3>1. cmd'[q] = cmd[q] /\ (cmd[q].at # "idle" => cmd[q].dir \in Dirs \ {d}) /\ Busy(q)
      BY <1>1, <2>2 DEF Active, Checkouts, Control
    <3> QED  BY <3>1, OtherBusy
  <2> QED  BY <2>1, <2>2 DEF Control
<1>6. Rest'
  <2>1. ASSUME NEW e \in Dirs \ {d}
        PROVE  (Sound(e) /\ ((\A q \in Procs : ~Active(q, e)) => Settled(e)))'
    BY <1>2, OtherRest DEF Checkouts, Rest
  <2>2. (Sound(d) /\ ((\A q \in Procs : ~Active(q, d)) => Settled(d)))'
    BY DEF Active
  <2> QED  BY <2>1, <2>2 DEF Rest
<1> QED  BY <1>4, <1>5, <1>6 DEF Checkouts

\* A step in a directory that is not of a command.
LEMMA NoCommandIn ==
    ASSUME Inv, Checkouts, NEW d \in Dirs, Elsewhere(d), cmd' = cmd, Sound(d)', Settled(d)',
           \A q \in Procs : Active(q, d) => Busy(q)'
    PROVE  Checkouts'
<1>1. \A q \in Procs : cmd[q].at # "idle" => cmd[q].dir \in Dirs
  BY DEF Inv, Prepared, Ready
<1>2. \A q \in Procs, e \in Dirs : Active(q, e)' <=> Active(q, e)
  BY DEF Active
<1>3. Alone'
  BY <1>2 DEF Alone, Checkouts
<1>4. Control'
  <2>1. ASSUME NEW q \in Procs, ~Active(q, d) PROVE Busy(q)'
    <3>1. cmd'[q] = cmd[q] /\ (cmd[q].at # "idle" => cmd[q].dir \in Dirs \ {d}) /\ Busy(q)
      BY <1>1, <2>1 DEF Active, Checkouts, Control
    <3> QED  BY <3>1, OtherBusy
  <2> QED  BY <2>1 DEF Control
<1>5. Rest'
  <2>1. ASSUME NEW e \in Dirs \ {d}
        PROVE  (Sound(e) /\ ((\A q \in Procs : ~Active(q, e)) => Settled(e)))'
    BY <1>2, OtherRest DEF Checkouts, Rest
  <2> QED  BY <2>1 DEF Rest
<1> QED  BY <1>3, <1>4, <1>5 DEF Checkouts

\* What is known of the directory of a command that runs.
LEMMA In ==
    ASSUME Inv, Checkouts, NEW p \in Procs, NEW d \in Dirs, cmd[p].at # "idle", cmd[p].dir = d
    PROVE  /\ Data /\ clock \in Nat /\ cmd \in [Procs -> Commands(clock)]
           /\ cmd[p] \in Commands(clock) /\ Ready(cmd[p], clock)
           /\ Dir(p) = d /\ Machine(p) = MachineOf[d] /\ MachineOf[d] \in Machines
           /\ Active(p, d) /\ \A q \in Procs : q # p => ~Active(q, d)
           /\ Opening(cmd[p]) /\ Working(cmd[p]) /\ Changing(cmd[p]) /\ Leaving(cmd[p])
           /\ Sound(d)
<1>1. /\ Data /\ clock \in Nat /\ cmd \in [Procs -> Commands(clock)]
      /\ cmd[p] \in Commands(clock) /\ Ready(cmd[p], clock)
  BY Here
<1>2. Dir(p) = d /\ Machine(p) = MachineOf[d] /\ MachineOf[d] \in Machines
  BY DEF Dir, Machine, Machines
<1>3. Active(p, d) /\ \A q \in Procs : q # p => ~Active(q, d)
  BY DEF Active, Checkouts, Alone
<1>4. Opening(cmd[p]) /\ Working(cmd[p]) /\ Changing(cmd[p]) /\ Leaving(cmd[p])
  BY DEF Checkouts, Control, Busy
<1>5. Sound(d)
  BY DEF Checkouts, Rest
<1> QED  BY <1>1, <1>2, <1>3, <1>4, <1>5

\* The command ends.
LEMMA EndIn ==
    ASSUME Inv, Checkouts, NEW p \in Procs, NEW d \in Dirs, cmd[p].at # "idle", cmd[p].dir = d,
           End(p), Elsewhere(d), Settled(d)', Sound(d)'
    PROVE  Checkouts'
<1>1. Active(p, d) /\ (\A q \in Procs : q # p => ~Active(q, d)) /\ cmd \in [Procs -> Commands(clock)]
  BY In
<1>2. cmd'[p].at = "idle" /\ \A q \in Procs : q # p => cmd'[q] = cmd[q]
  BY <1>1 DEF End, Idle
<1> QED  BY <1>1, <1>2, CommandIn

\* The command goes on.
LEMMA GoIn ==
    ASSUME Inv, Checkouts, NEW p \in Procs, NEW d \in Dirs, cmd[p].at # "idle", cmd[p].dir = d,
           \A q \in Procs : q # p => cmd'[q] = cmd[q], cmd'[p].dir = d, cmd'[p].at # "idle",
           Elsewhere(d), Busy(p)', Sound(d)'
    PROVE  Checkouts'
<1>1. Active(p, d) /\ (\A q \in Procs : q # p => ~Active(q, d))
  BY In
<1> QED  BY <1>1, CommandIn

LEMMA GoFields ==
    ASSUME Inv, NEW p \in Procs, NEW step, Go(p, step)
    PROVE  /\ cmd'[p].at = step /\ cmd'[p].kind = cmd[p].kind /\ cmd'[p].dir = cmd[p].dir
           /\ cmd'[p].force = cmd[p].force /\ cmd'[p].lock = cmd[p].lock
           /\ cmd'[p].seen = cmd[p].seen /\ cmd'[p].env = cmd[p].env
           /\ cmd'[p].target = cmd[p].target
           /\ \A q \in Procs : q # p => cmd'[q] = cmd[q]
BY DEF Inv, Typed, Commands, Go

\* A branch that is there has a live generation with an environment.
LEMMA LocalHistory ==
    ASSUME Inv, NEW d \in Dirs, local[d] # NoBranch
    PROVE  /\ local[d] \in Histories /\ local[d] \in Chains /\ local[d] \in Seq(Entry)
           /\ local[d] \in Until(clock)
           /\ CurrentEnv(local[d]) \in Changes /\ CurrentEnv(local[d]) # NoEnv
           /\ CurrentEnv(local[d]) \in Envs(local[d])
<1>1. clock \in Nat /\ local[d] \in Until(clock)
  BY BranchCases DEF Inv, Typed, Data
<1>2. local[d] \in Histories /\ local[d] \in Chains /\ local[d] \in Seq(Entry)
  BY <1>1, BranchCases
<1>3. CurrentEnv(local[d]) \in Changes /\ CurrentEnv(local[d]) \in Envs(local[d])
  BY <1>2, LiveEnv
<1> QED  BY <1>1, <1>2, <1>3, ManagedAssumption

\* A branch that a lock stands for is there.
LEMMA LockedRevThere ==
    ASSUME NEW c \in Nat, NEW l \in LocksUntil(c), l # NoLock
    PROVE  LockedRev(l) # NoBranch
BY LockedRevIs, BranchCases

-----------------------------------------------------------------------------
LEMMA OpenBranchIn ==
    ASSUME Inv, Checkouts, NEW p \in Procs, NEW d \in Dirs, cmd[p].dir = d, OpenBranch(p)
    PROVE  Checkouts'
<1> DEFINE m == MachineOf[d]
           l == cmd[p].lock
           fetched == IF MustFetch(d, l) THEN hub ELSE Opened(m)
           validated == IF l = NoLock THEN [rev |-> fetched, local |-> NoBranch] ELSE l
<1>1. cmd[p].at = "read"
  BY DEF OpenBranch, At
<1>2. /\ Data /\ clock \in Nat /\ cmd \in [Procs -> Commands(clock)] /\ cmd[p] \in Commands(clock)
      /\ Dir(p) = d /\ Machine(p) = m /\ m \in Machines /\ Opening(cmd[p]) /\ Sound(d)
  BY <1>1, In
<1>3. sync' = [sync EXCEPT ![m] = IF fetched = NoBranch THEN Opened(m) ELSE fetched]
  BY <1>2 DEF OpenBranch
<1>4. UNCHANGED <<hub, lock, env, backup, registered, clock, crashes, saved, touched, rewritten>>
  BY DEF OpenBranch, histVars
<1>5. \/ End(p) /\ UNCHANGED local
         /\ pointer' = [pointer EXCEPT ![d] = IF cmd[p].kind = "pullNew" THEN "none" ELSE @]
      \/ /\ fetched # NoBranch
         /\ local' = [local EXCEPT ![d] = LockedRev(validated)]
         /\ cmd' = [cmd EXCEPT ![p].at = "branch", ![p].lock = validated]
         /\ UNCHANGED pointer
  BY <1>2 DEF OpenBranch
<1>6. \A n \in Machines : sync[n] # NoBranch => sync'[n] # NoBranch
  BY <1>2, <1>3 DEF Data, Opened
<1>7. \A e \in Dirs : local[e] # NoBranch => sync'[MachineOf[e]] # NoBranch
  <2>1. \A e \in Dirs : MachineOf[e] \in Machines /\ Sound(e)
    BY DEF Machines, Checkouts, Rest
  <2> QED  BY <1>6, <2>1 DEF Sound
<1>8. l = lock[d] /\ l \in LocksUntil(clock)
  BY <1>1, <1>2 DEF Opening, Data
<1>9. fetched # NoBranch => validated \in LocksUntil(clock) /\ validated # NoLock
  <2>1. fetched \in BranchesUntil(clock)
    BY <1>2, OpenedIs DEF Data
  <2>2. fetched # NoBranch => fetched \in Until(clock) /\ NoBranch \in BranchesUntil(clock)
    BY <1>2, <2>1, BranchCases
  <2> HIDE DEF fetched
  <2> QED  BY <1>2, <1>8, <2>2, LockCases
<1>10. l # NoLock => validated = l
  OBVIOUS
<1> HIDE DEF fetched, validated
<1>11. Elsewhere(d)
  BY <1>2, <1>4, <1>5, <1>7 DEF Elsewhere, Data
<1>12. CASE /\ End(p) /\ UNCHANGED local
            /\ pointer' = [pointer EXCEPT ![d] = IF cmd[p].kind = "pullNew" THEN "none" ELSE @]
  <2>1. pointer'[d] = IF cmd[p].kind = "pullNew" THEN "none" ELSE pointer[d]
    BY <1>2, <1>12 DEF Data
  <2>2. Settled(d)'
    BY <1>1, <1>2, <1>4, <1>12, <2>1 DEF Settled, Opening, Locked, Current
  <2>3. Sound(d)'
    BY <1>1, <1>2, <1>4, <1>7, <1>12, <2>1 DEF Sound, Opening
  <2> QED  BY <1>1, <1>11, <1>12, <2>2, <2>3, EndIn
<1>13. CASE /\ fetched # NoBranch
            /\ local' = [local EXCEPT ![d] = LockedRev(validated)]
            /\ cmd' = [cmd EXCEPT ![p].at = "branch", ![p].lock = validated]
            /\ UNCHANGED pointer
  <2>1. cmd'[p].at = "branch" /\ cmd'[p].lock = validated /\ cmd'[p].dir = d
        /\ cmd'[p].kind = cmd[p].kind /\ \A q \in Procs : q # p => cmd'[q] = cmd[q]
    BY <1>2, <1>13 DEF Commands
  <2>2. local'[d] = LockedRev(validated) /\ local'[d] # NoBranch
    BY <1>2, <1>9, <1>13, LockedRevThere DEF Data
  <2>3. d \notin touched => Current(d)'
    <3>1. CASE cmd[p].kind = "pullNew"
      BY <1>1, <1>2, <1>4, <3>1 DEF Opening, Current
    <3>2. CASE cmd[p].kind # "pullNew"
      <4>1. d \notin touched => local'[d] = local[d] /\ Current(d)
        BY <1>1, <1>2, <1>8, <1>10, <2>2, <3>2 DEF Opening, Locked
      <4> QED  BY <1>4, <4>1 DEF Current
    <3> QED  BY <3>1, <3>2
  <2>4. Busy(p)'
    BY <1>1, <1>2, <1>4, <1>9, <1>13, <2>1, <2>2, <2>3
       DEF Busy, Opening, Working, Changing, Leaving
  <2>5. sync'[m] # NoBranch
    BY <1>2, <1>3, <1>13 DEF Data
  <2>6. saved[d] \subseteq Envs(local'[d])
    BY <1>2, <1>8, <1>10, <2>2 DEF Sound
  <2>7. Sound(d)'
    BY <1>2, <1>4, <1>13, <2>5, <2>6 DEF Sound
  <2> QED  BY <1>1, <1>11, <2>1, <2>4, <2>7, GoIn
<1> QED  BY <1>5, <1>12, <1>13

LEMMA WriteLockIn ==
    ASSUME Inv, Checkouts, NEW p \in Procs, NEW d \in Dirs, cmd[p].dir = d, WriteLock(p)
    PROVE  Checkouts'
<1>1. cmd[p].at = "branch"
  BY DEF WriteLock, At
<1>2. /\ Data /\ clock \in Nat /\ cmd[p] \in Commands(clock)
      /\ Dir(p) = d /\ Opening(cmd[p]) /\ Sound(d)
  BY <1>1, In
<1>3. /\ lock' = [lock EXCEPT ![d] = cmd[p].lock] /\ registered' = registered \cup {d}
      /\ touched' = IF cmd[p].kind = "import" /\ env[d] = CurrentEnv(local[d])
                    THEN touched \ {d} ELSE touched
      /\ UNCHANGED <<hub, sync, local, env, backup, pointer, clock, crashes, saved, rewritten>>
  BY <1>2 DEF WriteLock, repoVars
<1>4. cmd'[p].at = "opened" /\ cmd'[p].kind = cmd[p].kind /\ cmd'[p].dir = d
      /\ \A q \in Procs : q # p => cmd'[q] = cmd[q]
  BY GoFields DEF WriteLock
<1>5. Elsewhere(d)
  BY <1>2, <1>3 DEF Elsewhere, Data, Checkouts, Rest, Sound
<1>6. lock'[d] = cmd[p].lock /\ lock'[d] # NoLock /\ local'[d] = LockedRev(lock'[d])
      /\ local'[d] # NoBranch
  BY <1>1, <1>2, <1>3, LockedRevThere, CommandFields DEF Opening, Data
<1>7. d \notin touched' => Current(d)'
  BY <1>1, <1>2, <1>3 DEF Opening, Current
<1>8. Busy(p)'
  BY <1>1, <1>2, <1>3, <1>4, <1>6, <1>7
     DEF Busy, Opening, Working, Changing, Leaving, Open, Locked
<1>9. Sound(d)'
  BY <1>1, <1>2, <1>3, <1>6 DEF Sound, Opening
<1> QED  BY <1>1, <1>4, <1>5, <1>8, <1>9, GoIn

LEMMA CheckIn ==
    ASSUME Inv, Checkouts, NEW p \in Procs, NEW d \in Dirs, cmd[p].dir = d, Check(p)
    PROVE  Checkouts'
<1>1. cmd[p].at = "opened"
  BY DEF Check, At
<1>2. /\ Data /\ clock \in Nat /\ cmd \in [Procs -> Commands(clock)] /\ cmd[p] \in Commands(clock)
      /\ Dir(p) = d /\ Working(cmd[p]) /\ Sound(d)
  BY <1>1, In
<1>3. Open(d) /\ (d \notin touched => Current(d))
  BY <1>1, <1>2 DEF Working
<1>4. UNCHANGED <<hub, sync, local, lock, backup, pointer, registered, clock, saved, touched>>
  BY DEF Check, repoVars, histVars
<1>5. local[d] # NoBranch /\ CurrentEnv(local[d]) # NoEnv
  BY <1>3, LocalHistory DEF Open, Locked
<1>6. env' = env \/ env' = [env EXCEPT ![d] = LocalEnv(d)]
  BY <1>2 DEF Check
<1>7. Elsewhere(d)
  BY <1>2, <1>4, <1>6 DEF Elsewhere, Data, Checkouts, Rest, Sound
<1>8. Open(d)' /\ Locked(d)'
  BY <1>3, <1>4 DEF Open, Locked
<1>9. d \notin touched' => Current(d)'
  BY <1>2, <1>3, <1>4, <1>6 DEF Current, LocalEnv, Data
<1>10. Sound(d)'
  BY <1>2, <1>3, <1>4 DEF Sound, Open
<1>11. CASE End(p)
  <2>1. Settled(d)'
    BY <1>8, <1>9 DEF Settled
  <2> QED  BY <1>1, <1>7, <1>10, <1>11, <2>1, EndIn
<1>12. CASE ~End(p)
  <2> DEFINE next == AfterOpen(p)
             k == cmd[p].kind
  <2>1. /\ next # "idle" /\ env' = [env EXCEPT ![d] = LocalEnv(d)]
        /\ cmd' = [cmd EXCEPT ![p].at = next, ![p].lock = NoLock, ![p].valid = Valid(d),
                              ![p].seen = IF next \in {"swap", "commit"}
                                          THEN local[d] ELSE NoBranch,
                              ![p].target = IF cmd[p].kind \in {"switch", "rollback"}
                                            THEN TargetOf(p) ELSE 0]
    BY <1>2, <1>12 DEF Check
  <2>2. /\ next \in {"swap", "commit", "fetch", "prune", "idle"}
        /\ next = "swap" => k = "install" /\ Valid(d)
        /\ next = "commit" => \/ k \in {"switch", "rollback"} /\ Valid(d)
                              \/ k = "sync" /\ ~Valid(d) /\ EnvComplete(d)
        /\ next = "fetch" => k \in {"push", "pull"}
        /\ next = "prune" => k = "convert"
    BY <1>2 DEF AfterOpen
  <2> HIDE DEF next
  <2>3. cmd'[p].at = next /\ cmd'[p].kind = k /\ cmd'[p].dir = d
        /\ cmd'[p].seen = (IF next \in {"swap", "commit"} THEN local[d] ELSE NoBranch)
        /\ \A q \in Procs : q # p => cmd'[q] = cmd[q]
    BY <1>2, <2>1 DEF Commands
  <2>4. env'[d] = LocalEnv(d) /\ env'[d] # NoEnv
    BY <1>2, <1>5, <2>1 DEF Data, LocalEnv
  <2>5. Valid(d) => env'[d] = CurrentEnv(local'[d]) /\ Current(d)'
    BY <1>4, <2>4 DEF Valid, Current
  <2>6. ~Valid(d) => d \in touched'
    BY <1>3, <1>4 DEF Valid, LocalEnv, Current
  <2>7. EnvComplete(d) => EnvComplete(d)'
    BY <2>4, ManagedAssumption DEF EnvComplete, LocalEnv
  <2>8. pointer'[d] = "managed" /\ d \in registered'
    BY <1>8 DEF Open
  <2>9. Busy(p)'
    <3>1. CASE next = "swap"
      BY <1>4, <1>5, <1>8, <2>2, <2>3, <2>5, <3>1 DEF Busy, Opening, Working, Changing, Leaving
    <3>2. CASE next = "commit"
      BY <1>4, <1>8, <2>2, <2>3, <2>5, <2>6, <2>7, <3>2
         DEF Busy, Opening, Working, Changing, Leaving
    <3>3. CASE next = "fetch"
      BY <1>8, <1>9, <2>2, <2>3, <3>3 DEF Busy, Opening, Working, Changing, Leaving
    <3>4. CASE next = "prune"
      BY <1>8, <2>2, <2>3, <2>4, <2>8, <3>4 DEF Busy, Opening, Working, Changing, Leaving
    <3> QED  BY <2>1, <2>2, <3>1, <3>2, <3>3, <3>4
  <2> QED  BY <1>1, <1>7, <1>10, <2>1, <2>3, <2>9, GoIn
<1> QED  BY <1>11, <1>12

LEMMA SwapOutIn ==
    ASSUME Inv, Checkouts, NEW p \in Procs, NEW d \in Dirs, cmd[p].dir = d, SwapOut(p)
    PROVE  Checkouts'
<1>1. cmd[p].at = "swap"
  BY DEF SwapOut, At
<1>2. Data /\ Dir(p) = d /\ Changing(cmd[p]) /\ Sound(d)
  BY <1>1, In
<1>3. UNCHANGED <<hub, sync, local, lock, pointer, registered, clock, saved, touched>>
  BY DEF SwapOut, repoVars, histVars
<1>4. Elsewhere(d)
  BY <1>2, <1>3 DEF Elsewhere, Data, Checkouts, Rest, Sound, SwapOut
<1>5. IF cmd[p].seen = NoBranch THEN pointer[d] = "path"
      ELSE Open(d) /\ cmd[p].seen = local[d] /\ env[d] = CurrentEnv(local[d])
  BY <1>1, <1>2 DEF Changing
<1>6. CASE End(p) /\ UNCHANGED <<env, backup>>
  <2>1. Settled(d)'
    BY <1>3, <1>5, <1>6 DEF Settled, Open, Locked, Current
  <2>2. Sound(d)'
    BY <1>2, <1>3, <1>6 DEF Sound
  <2> QED  BY <1>1, <1>4, <1>6, <2>1, <2>2, EndIn
<1>7. CASE /\ env[d] # NoEnv /\ Go(p, "swapping")
           /\ backup' = [backup EXCEPT ![d] = env[d]] /\ env' = [env EXCEPT ![d] = NoEnv]
  <2>1. backup'[d] = env[d] /\ env'[d] = NoEnv
    BY <1>2, <1>7 DEF Data
  <2>2. cmd'[p].at = "swapping" /\ cmd'[p].kind = cmd[p].kind /\ cmd'[p].dir = d
        /\ cmd'[p].seen = cmd[p].seen /\ \A q \in Procs : q # p => cmd'[q] = cmd[q]
    BY <1>7, GoFields
  <2>3. Open(d) => Open(d)'
    BY <1>3 DEF Open, Locked
  <2>4. Busy(p)'
    BY <1>3, <1>5, <1>7, <2>1, <2>2, <2>3 DEF Busy, Opening, Working, Changing, Leaving
  <2>5. pointer[d] # "none"
    BY <1>5 DEF Open
  <2>6. Sound(d)'
    BY <1>2, <1>3, <1>7, <2>1, <2>5 DEF Sound
  <2> QED  BY <1>1, <1>4, <2>2, <2>4, <2>6, GoIn
<1> QED  BY <1>2, <1>6, <1>7 DEF SwapOut

LEMMA SwapInIn ==
    ASSUME Inv, Checkouts, NEW p \in Procs, NEW d \in Dirs, cmd[p].dir = d, SwapIn(p)
    PROVE  Checkouts'
<1>1. cmd[p].at = "swapping"
  BY DEF SwapIn, At
<1>2. Data /\ Dir(p) = d /\ Changing(cmd[p]) /\ Sound(d) /\ Ready(cmd[p], clock)
  BY <1>1, In
<1>3. /\ UNCHANGED <<hub, sync, local, lock, pointer, registered, saved, touched>>
      /\ env' = [env EXCEPT ![d] = Now] /\ backup' = [backup EXCEPT ![d] = NoEnv]
  BY <1>2 DEF SwapIn, repoVars, histVars
<1>4. Elsewhere(d)
  BY <1>2, <1>3 DEF Elsewhere, Data, Checkouts, Rest, Sound
<1>5. IF cmd[p].seen = NoBranch THEN pointer[d] = "path"
      ELSE Open(d) /\ cmd[p].seen = local[d]
  BY <1>1, <1>2 DEF Changing
<1>6. env'[d] = Now /\ Now \in Changes /\ Now # NoEnv
  BY <1>2, <1>3, NowIs, ManagedAssumption DEF Data
<1>7. Sound(d)'
  BY <1>2, <1>3, <1>5, <1>6 DEF Sound, Open
<1>8. CASE cmd[p].seen = NoBranch
  <2>1. Settled(d)'
    BY <1>3, <1>5, <1>8 DEF Settled
  <2>2. End(p)
    BY <1>8 DEF SwapIn
  <2> QED  BY <1>1, <1>4, <1>7, <2>1, <2>2, EndIn
<1>9. CASE cmd[p].seen # NoBranch
  <2>1. cmd'[p].at = "commit" /\ cmd'[p].kind = cmd[p].kind /\ cmd'[p].dir = d
        /\ cmd'[p].seen = cmd[p].seen /\ \A q \in Procs : q # p => cmd'[q] = cmd[q]
    BY <1>9, GoFields DEF SwapIn
  <2>2. cmd[p].kind = "install"
    BY <1>1, <1>2 DEF Ready
  <2>3. Open(d)' /\ cmd[p].seen = local'[d] /\ EnvComplete(d)'
    BY <1>3, <1>5, <1>6, <1>9 DEF Open, Locked, EnvComplete
  <2>4. Busy(p)'
    BY <2>1, <2>2, <2>3 DEF Busy, Opening, Working, Changing, Leaving
  <2> QED  BY <1>1, <1>4, <1>7, <2>1, <2>4, GoIn
<1> QED  BY <1>8, <1>9

LEMMA SwapFailsIn ==
    ASSUME Inv, Checkouts, NEW p \in Procs, NEW d \in Dirs, cmd[p].dir = d, SwapFails(p)
    PROVE  Checkouts'
<1>1. cmd[p].at = "swapping"
  BY DEF SwapFails, At
<1>2. Data /\ Dir(p) = d /\ Changing(cmd[p]) /\ Sound(d)
  BY <1>1, In
<1>3. /\ UNCHANGED <<hub, sync, local, lock, pointer, registered, saved, touched>>
      /\ env' = [env EXCEPT ![d] = backup[d]] /\ backup' = [backup EXCEPT ![d] = NoEnv]
      /\ End(p)
  BY <1>2 DEF SwapFails, repoVars, histVars
<1>4. Elsewhere(d)
  BY <1>2, <1>3 DEF Elsewhere, Data, Checkouts, Rest, Sound
<1>5. /\ env'[d] = backup[d] /\ backup[d] # NoEnv
      /\ IF cmd[p].seen = NoBranch THEN pointer[d] = "path"
         ELSE Open(d) /\ backup[d] = CurrentEnv(local[d])
  BY <1>1, <1>2, <1>3 DEF Changing, Data
<1>6. Sound(d)'
  BY <1>2, <1>3, <1>5 DEF Sound, Open
<1>7. Settled(d)'
  BY <1>3, <1>5 DEF Settled, Open, Locked, Current
<1> QED  BY <1>1, <1>3, <1>4, <1>6, <1>7, EndIn

\* One command at a time: the branch is still the one that was seen, and git
\* accepts the commit.
LEMMA CommitIn ==
    ASSUME Inv, Checkouts, NEW p \in Procs, NEW d \in Dirs, cmd[p].dir = d, Commit(p)
    PROVE  Checkouts'
<1> DEFINE k == cmd[p].kind
           h == local[d]
           now == IF k = "install" THEN clock ELSE Now
           next == IF k \in {"switch", "rollback"}
                   THEN SwitchGeneration(h, cmd[p].target, now)
                   ELSE AddGeneration(h, env[d], now)
<1>1. cmd[p].at = "commit"
  BY DEF Commit, At
<1>2. Data /\ clock \in Nat /\ Dir(p) = d /\ Changing(cmd[p]) /\ Working(cmd[p]) /\ Sound(d)
      /\ Ready(cmd[p], clock)
  BY <1>1, In
<1>3. Open(d) /\ cmd[p].seen = h /\ (k \in {"install", "sync"} => EnvComplete(d))
      /\ k \in {"install", "sync", "switch", "rollback"}
  BY <1>1, <1>2 DEF Changing, Working, Ready
<1>4. h # NoBranch /\ h \in Histories /\ h \in Chains /\ h \in Seq(Entry) /\ h \in Until(clock)
  BY <1>3, LocalHistory DEF Open, Locked
<1>5. h # <<>> /\ Last(h).at \in Nat /\ Last(h).at <= clock
  BY <1>2, <1>4, BranchCases
<1>6. Last(h).at < now /\ now \in Changes
  <2>1. k = "install" => Last(h).at < clock
    BY <1>1, <1>2, <1>3, <1>4 DEF Ready
  <2> QED  BY <1>2, <1>5, <2>1, NowIs DEF Changes
<1> HIDE DEF h, now
<1>7. /\ next \in Histories /\ IsPrefix(h, next)
      /\ k \in {"install", "sync"} => CurrentEnv(next) = env[d]
  <2>1. CASE k \in {"switch", "rollback"}
    <3>1. cmd[p].target \in Created(h) \ {CurrentGen(h)}
      BY <1>1, <1>2, <1>3, <1>4, <2>1 DEF Ready
    <3>2. next = SwitchGeneration(h, cmd[p].target, now)
      BY <2>1
    <3> HIDE DEF next
    <3> QED  BY <1>4, <1>6, <2>1, <3>1, <3>2, SwitchKeeps
  <2>2. CASE k \in {"install", "sync"}
    <3>1. env[d] \in Changes
      BY <1>3, <2>2 DEF EnvComplete
    <3>2. next = AddGeneration(h, env[d], now)
      BY <2>2
    <3> HIDE DEF next
    <3> QED  BY <1>4, <1>6, <2>2, <3>1, <3>2, AddKeeps
  <2> QED  BY <1>3, <2>1, <2>2
<1>8. /\ local' = [local EXCEPT ![d] = next] /\ Go(p, "lock")
      /\ UNCHANGED <<hub, sync, lock, env, backup, pointer, registered, saved, touched>>
  <2>1. Pushable(next, h, FALSE)
    BY <1>7 DEF Pushable
  <2>2. h = (IF k = "sync" THEN local[d] ELSE cmd[p].seen) /\ h = local[d]
    BY <1>3 DEF h
  <2> QED  BY <1>2, <1>3, <1>4, <2>1, <2>2 DEF Commit, dirVars, histVars, now, h
<1> HIDE DEF next
<1>9. local'[d] = next /\ next # NoBranch /\ next \in Seq(Entry)
  <2>1. next \in Seq(Entry)
    BY <1>7 DEF Histories, Chains
  <2> QED  BY <1>2, <1>8, <2>1, ManagedAssumption DEF Data
<1>10. cmd'[p].at = "lock" /\ cmd'[p].kind = k /\ cmd'[p].dir = d
       /\ \A q \in Procs : q # p => cmd'[q] = cmd[q]
  BY <1>8, GoFields
<1>11. Elsewhere(d)
  BY <1>2, <1>8 DEF Elsewhere, Data, Checkouts, Rest, Sound
<1>12. Busy(p)'
  BY <1>3, <1>7, <1>8, <1>9, <1>10 DEF Busy, Opening, Working, Changing, Leaving, Open, Locked
<1>13. Envs(h) \subseteq Envs(next)
  BY <1>4, <1>7, <1>9, PrefixEnvs
<1>14. Sound(d)'
  BY <1>2, <1>4, <1>8, <1>9, <1>13 DEF Sound, h
<1> QED  BY <1>1, <1>10, <1>11, <1>12, <1>14, GoIn

LEMMA LockPointerIn ==
    ASSUME Inv, Checkouts, NEW p \in Procs, NEW d \in Dirs, cmd[p].dir = d, LockPointer(p)
    PROVE  Checkouts'
<1> DEFINE m == MachineOf[d]
           l == GenerationLock(d)
<1>1. cmd[p].at = "lock"
  BY DEF LockPointer, At
<1>2. Data /\ clock \in Nat /\ Dir(p) = d /\ Machine(p) = m /\ m \in Machines
      /\ Changing(cmd[p]) /\ Sound(d)
  BY <1>1, In
<1>3. /\ pointer[d] = "managed" /\ d \in registered /\ local[d] # NoBranch
      /\ cmd[p].kind \in {"install", "sync"} => env[d] = CurrentEnv(local[d])
      /\ sync[m] # NoBranch
  BY <1>1, <1>2 DEF Changing, Sound
<1>4. /\ UNCHANGED <<hub, sync, local, env, backup, pointer, registered>>
      /\ lock' = [lock EXCEPT ![d] = l]
  BY <1>2, <1>3 DEF LockPointer, repoVars
<1>5. l # NoLock /\ LockedRev(l) = local[d]
  <2>1. sync[m] \in Until(clock) /\ local[d] \in BranchesUntil(clock) /\ NoBranch \in BranchesUntil(clock)
    BY <1>2, <1>3, BranchCases DEF Data
  <2>2. l # NoLock /\ l.rev = sync[m] /\ l.local = IF local[d] = sync[m] THEN NoBranch ELSE local[d]
    BY <1>2, <2>1, LockCases DEF GenerationLock
  <2> HIDE DEF l
  <2> QED  BY <1>3, <2>2 DEF LockedRev
<1> HIDE DEF l
<1>6. lock'[d] = l /\ Locked(d)' /\ Open(d)'
  BY <1>2, <1>3, <1>4, <1>5 DEF Locked, Open, Data
<1>7. CASE cmd[p].kind \in {"install", "sync"}
  <2>1. /\ End(p) /\ saved' = [saved EXCEPT ![d] = @ \cup {CurrentEnv(local[d])}]
        /\ touched' \in {touched, touched \ {d}}
    BY <1>2, <1>3, <1>7 DEF LockPointer
  <2>2. Elsewhere(d)
    BY <1>2, <1>4, <2>1 DEF Elsewhere, Data, Checkouts, Rest, Sound
  <2>3. Settled(d)'
    BY <1>3, <1>4, <1>6, <1>7 DEF Settled, Current
  <2>4. saved'[d] = saved[d] \cup {CurrentEnv(local[d])} /\ CurrentEnv(local[d]) \in Envs(local[d])
    BY <1>2, <1>3, <2>1, LocalHistory DEF Data
  <2>5. Sound(d)'
    BY <1>2, <1>3, <1>4, <1>5, <1>6, <2>4 DEF Sound
  <2> QED  BY <1>1, <2>1, <2>2, <2>3, <2>5, EndIn
<1>8. CASE cmd[p].kind \notin {"install", "sync"}
  <2>1. Go(p, "reset") /\ UNCHANGED <<saved, touched>>
    BY <1>2, <1>3, <1>8 DEF LockPointer
  <2>2. cmd'[p].at = "reset" /\ cmd'[p].kind = cmd[p].kind /\ cmd'[p].dir = d
        /\ \A q \in Procs : q # p => cmd'[q] = cmd[q]
    BY <2>1, GoFields
  <2>3. Elsewhere(d)
    BY <1>2, <1>4, <2>1 DEF Elsewhere, Data, Checkouts, Rest, Sound
  <2>4. Busy(p)'
    BY <1>6, <2>2 DEF Busy, Opening, Working, Changing, Leaving
  <2>5. Sound(d)'
    BY <1>2, <1>3, <1>4, <1>5, <1>6, <2>1 DEF Sound
  <2> QED  BY <1>1, <2>2, <2>3, <2>4, <2>5, GoIn
<1> QED  BY <1>7, <1>8

LEMMA RemoveEnvIn ==
    ASSUME Inv, Checkouts, NEW p \in Procs, NEW d \in Dirs, cmd[p].dir = d, RemoveEnv(p)
    PROVE  Checkouts'
<1>1. cmd[p].at \in {"reset", "opened"}
  BY DEF RemoveEnv, At
<1>2. Data /\ cmd \in [Procs -> Commands(clock)] /\ cmd[p] \in Commands(clock) /\ Dir(p) = d
      /\ Working(cmd[p]) /\ Sound(d)
  BY <1>1, In
<1>3. Open(d) /\ local[d] # NoBranch
  BY <1>1, <1>2 DEF Working, Open, Locked
<1>4. UNCHANGED <<hub, sync, local, lock, backup, pointer, registered, saved, touched>>
  BY DEF RemoveEnv, repoVars, histVars
<1>5. Elsewhere(d)
  BY <1>2, <1>4 DEF Elsewhere, Data, Checkouts, Rest, Sound, RemoveEnv
<1>6. Sound(d)' /\ Open(d)'
  BY <1>2, <1>3, <1>4 DEF Sound, Open, Locked
<1>7. CASE env[d] = NoEnv
  <2>1. End(p) /\ env' = env
    BY <1>2, <1>7 DEF RemoveEnv
  <2>2. Settled(d)'
    BY <1>6, <1>7, <2>1 DEF Settled, Current, Open
  <2> QED  BY <1>1, <1>5, <1>6, <2>1, <2>2, EndIn
<1>8. CASE env[d] # NoEnv
  <2>1. cmd' = [cmd EXCEPT ![p].at = "copy", ![p].lock = NoLock, ![p].env = CurrentEnv(local[d])]
    BY <1>2, <1>3, <1>8 DEF RemoveEnv
  <2>2. cmd'[p].at = "copy" /\ cmd'[p].env = CurrentEnv(local[d]) /\ cmd'[p].dir = d
        /\ \A q \in Procs : q # p => cmd'[q] = cmd[q]
    BY <1>2, <2>1 DEF Commands
  <2>3. Busy(p)'
    BY <1>4, <1>6, <2>2 DEF Busy, Opening, Working, Changing, Leaving
  <2> QED  BY <1>1, <1>5, <1>6, <2>2, <2>3, GoIn
<1> QED  BY <1>7, <1>8

LEMMA CopyEnvIn ==
    ASSUME Inv, Checkouts, NEW p \in Procs, NEW d \in Dirs, cmd[p].dir = d, CopyEnv(p)
    PROVE  Checkouts'
<1>1. cmd[p].at = "copy"
  BY DEF CopyEnv, At
<1>2. Data /\ Dir(p) = d /\ Working(cmd[p]) /\ Sound(d)
  BY <1>1, In
<1>3. Open(d) /\ local[d] # NoBranch /\ cmd[p].env = CurrentEnv(local[d])
  BY <1>1, <1>2 DEF Working, Open, Locked
<1>4. /\ UNCHANGED <<hub, sync, local, lock, backup, pointer, registered, saved>>
      /\ touched' = touched \ {d} /\ End(p)
      /\ env' = [env EXCEPT ![d] = IF cmd[p].env = NoEnv THEN Partial ELSE cmd[p].env]
  BY <1>2 DEF CopyEnv, repoVars
<1>5. Elsewhere(d)
  BY <1>2, <1>4 DEF Elsewhere, Data, Checkouts, Rest, Sound
<1>6. env'[d] = CurrentEnv(local[d])
  BY <1>2, <1>3, <1>4, LocalHistory DEF Data
<1>7. Sound(d)' /\ Settled(d)'
  BY <1>2, <1>3, <1>4, <1>6 DEF Sound, Settled, Open, Locked, Current
<1> QED  BY <1>1, <1>4, <1>5, <1>7, EndIn

-----------------------------------------------------------------------------
LEMMA FetchIn ==
    ASSUME Inv, Checkouts, NEW p \in Procs, NEW d \in Dirs, cmd[p].dir = d, Fetch(p)
    PROVE  Checkouts'
<1>1. cmd[p].at = "fetch"
  BY DEF Fetch, At
<1>2. Data /\ Dir(p) = d /\ Machine(p) = MachineOf[d] /\ MachineOf[d] \in Machines
      /\ Working(cmd[p]) /\ Sound(d)
  BY <1>1, In
<1>3. Open(d) /\ (d \notin touched => Current(d)) /\ cmd[p].kind \in {"push", "pull"}
  BY <1>1, <1>2 DEF Working
<1>4. UNCHANGED <<hub, local, lock, env, backup, pointer, registered, saved, touched>>
  BY DEF Fetch, dirVars, histVars
<1>5. \A n \in Machines : sync[n] # NoBranch => sync'[n] # NoBranch
  BY <1>2 DEF Fetch, Data
<1>6. \A e \in Dirs : local[e] # NoBranch => sync'[MachineOf[e]] # NoBranch
  BY <1>5 DEF Machines, Checkouts, Rest, Sound
<1>7. Elsewhere(d)
  BY <1>4, <1>6 DEF Elsewhere
<1>8. Sound(d)' /\ Open(d)' /\ (d \notin touched' => Current(d)')
  BY <1>2, <1>3, <1>4, <1>6 DEF Sound, Open, Locked, Current
<1>9. CASE End(p)
  <2>1. Settled(d)'
    BY <1>8 DEF Settled, Open
  <2> QED  BY <1>1, <1>7, <1>8, <1>9, <2>1, EndIn
<1>10. CASE Go(p, "compare")
  <2>1. cmd'[p].at = "compare" /\ cmd'[p].kind = cmd[p].kind /\ cmd'[p].dir = d
        /\ \A q \in Procs : q # p => cmd'[q] = cmd[q]
    BY <1>10, GoFields
  <2>2. Busy(p)'
    BY <1>3, <1>8, <2>1 DEF Busy, Opening, Working, Changing, Leaving
  <2> QED  BY <1>1, <1>7, <1>8, <2>1, <2>2, GoIn
<1> QED  BY <1>9, <1>10 DEF Fetch

LEMMA CompareIn ==
    ASSUME Inv, Checkouts, NEW p \in Procs, NEW d \in Dirs, cmd[p].dir = d, Compare(p)
    PROVE  Checkouts'
<1>1. cmd[p].at = "compare"
  BY DEF Compare, At
<1>2. Data /\ Dir(p) = d /\ Working(cmd[p]) /\ Sound(d)
  BY <1>1, In
<1>3. Open(d) /\ (d \notin touched => Current(d)) /\ cmd[p].kind \in {"push", "pull"}
  BY <1>1, <1>2 DEF Working
<1>4. UNCHANGED <<hub, sync, local, lock, env, backup, pointer, registered, saved, touched>>
  BY DEF Compare, dirVars, histVars, repoVars
<1>5. Elsewhere(d)
  BY <1>4 DEF Elsewhere, Checkouts, Rest, Sound
<1>6. Sound(d)' /\ Open(d)' /\ (d \notin touched' => Current(d)')
  BY <1>2, <1>3, <1>4 DEF Sound, Open, Locked, Current
<1>7. CASE End(p)
  <2>1. Settled(d)'
    BY <1>6 DEF Settled, Open
  <2> QED  BY <1>1, <1>5, <1>6, <1>7, <2>1, EndIn
<1>8. CASE AfterCompare(p) # "idle" /\ Go(p, AfterCompare(p))
  <2> DEFINE next == AfterCompare(p)
  <2>1. next \in {"push", "reset", "apply", "idle"} /\ (next = "push" => cmd[p].kind = "push")
    BY DEF AfterCompare
  <2> HIDE DEF next
  <2>2. cmd'[p].at = next /\ cmd'[p].kind = cmd[p].kind /\ cmd'[p].dir = d
        /\ \A q \in Procs : q # p => cmd'[q] = cmd[q]
    BY <1>8, GoFields DEF next
  <2>3. Busy(p)'
    BY <1>3, <1>6, <1>8, <2>1, <2>2 DEF Busy, Opening, Working, Changing, Leaving
  <2>4. next # "idle"
    BY <1>8 DEF next
  <2> QED  BY <1>1, <1>5, <1>6, <2>2, <2>3, <2>4, GoIn
<1> QED  BY <1>7, <1>8 DEF Compare

LEMMA PushRefIn ==
    ASSUME Inv, Checkouts, NEW p \in Procs, NEW d \in Dirs, cmd[p].dir = d, PushRef(p)
    PROVE  Checkouts'
<1>1. cmd[p].at = "push" /\ cmd[p].kind = "push"
  BY DEF PushRef, At
<1>2. Data /\ cmd \in [Procs -> Commands(clock)] /\ cmd[p] \in Commands(clock)
      /\ Dir(p) = d /\ Working(cmd[p]) /\ Sound(d)
  BY <1>1, In
<1>3. Open(d) /\ (d \notin touched => Current(d))
  BY <1>1, <1>2 DEF Working
<1>4. UNCHANGED <<sync, local, lock, env, backup, pointer, registered, saved, touched>>
  BY DEF PushRef, dirVars
<1>5. Elsewhere(d)
  BY <1>4 DEF Elsewhere, Checkouts, Rest, Sound
<1>6. Sound(d)' /\ Open(d)' /\ (d \notin touched' => Current(d)')
  BY <1>2, <1>3, <1>4 DEF Sound, Open, Locked, Current
<1>7. CASE End(p)
  <2>1. Settled(d)'
    BY <1>6 DEF Settled, Open
  <2> QED  BY <1>1, <1>5, <1>6, <1>7, <2>1, EndIn
<1>8. CASE cmd' = [cmd EXCEPT ![p].at = "opened", ![p].kind = "pull"]
  <2>1. cmd'[p].at = "opened" /\ cmd'[p].kind = "pull" /\ cmd'[p].dir = d
        /\ \A q \in Procs : q # p => cmd'[q] = cmd[q]
    BY <1>2, <1>8 DEF Commands
  <2>2. Busy(p)'
    BY <1>6, <2>1 DEF Busy, Opening, Working, Changing, Leaving
  <2> QED  BY <1>1, <1>5, <1>6, <2>1, <2>2, GoIn
<1> QED  BY <1>7, <1>8 DEF PushRef

LEMMA ApplyUpdatesIn ==
    ASSUME Inv, Checkouts, NEW p \in Procs, NEW d \in Dirs, cmd[p].dir = d, ApplyUpdates(p)
    PROVE  Checkouts'
<1> DEFINE h == sync[MachineOf[d]]
<1>1. cmd[p].at = "apply"
  BY DEF ApplyUpdates, At
<1>2. Data /\ clock \in Nat /\ Dir(p) = d /\ Machine(p) = MachineOf[d] /\ MachineOf[d] \in Machines
      /\ Working(cmd[p]) /\ Sound(d) /\ cmd[p] \in Commands(clock)
  BY <1>1, In
<1>3. Open(d) /\ (d \notin touched => Current(d)) /\ cmd[p].kind \in {"push", "pull"}
  BY <1>1, <1>2 DEF Working
<1>4. UNCHANGED <<hub, sync, lock, env, backup, pointer, registered, touched>>
  BY DEF ApplyUpdates, dirVars
<1>5. CASE End(p) /\ UNCHANGED <<local, saved>>
  <2>1. Elsewhere(d)
    BY <1>4, <1>5 DEF Elsewhere, Checkouts, Rest, Sound
  <2>2. Sound(d)' /\ Settled(d)'
    BY <1>2, <1>3, <1>4, <1>5 DEF Sound, Settled, Open, Locked, Current
  <2> QED  BY <1>1, <1>5, <2>1, <2>2, EndIn
<1>6. CASE /\ h # NoBranch /\ (local[d] = NoBranch \/ Pushable(h, local[d], cmd[p].force))
           /\ local' = [local EXCEPT ![d] = h]
           /\ saved' = [saved EXCEPT ![d] = IF cmd[p].force THEN @ \cap Envs(h) ELSE @]
           /\ Go(p, "lock")
  <2>1. cmd'[p].at = "lock" /\ cmd'[p].kind = cmd[p].kind /\ cmd'[p].dir = d
        /\ \A q \in Procs : q # p => cmd'[q] = cmd[q]
    BY <1>6, GoFields
  <2>2. Elsewhere(d)
    BY <1>2, <1>4, <1>6 DEF Elsewhere, Data, Checkouts, Rest, Sound
  <2>3. local'[d] = h
    BY <1>2, <1>6 DEF Data
  <2>4. Busy(p)'
    BY <1>3, <1>4, <1>6, <2>1, <2>3 DEF Busy, Opening, Working, Changing, Leaving, Open, Locked
  <2>5. saved'[d] \subseteq Envs(h) /\ saved'[d] \subseteq saved[d]
    <3>1. CASE cmd[p].force
      BY <1>2, <1>6, <3>1 DEF Data
    <3>2. CASE ~cmd[p].force
      <4>1. saved'[d] = saved[d]
        BY <1>2, <1>6, <3>2 DEF Data
      <4>2. local[d] # NoBranch /\ IsPrefix(local[d], h)
        BY <1>3, <1>6, <3>2 DEF Open, Locked, Pushable
      <4>3. local[d] \in Seq(Entry) /\ h \in Seq(Entry)
        BY <1>2, <1>6, <4>2, BranchCases DEF Data
      <4>4. Envs(local[d]) \subseteq Envs(h)
        BY <4>2, <4>3, PrefixEnvs
      <4> QED  BY <1>2, <4>1, <4>2, <4>4 DEF Sound
    <3> QED  BY <3>1, <3>2
  <2>6. Sound(d)'
    BY <1>2, <1>3, <1>4, <1>6, <2>3, <2>5 DEF Sound, Open
  <2> QED  BY <1>1, <2>1, <2>2, <2>4, <2>6, GoIn
<1> QED  BY <1>2, <1>5, <1>6 DEF ApplyUpdates

LEMMA ClearDirIn ==
    ASSUME Data, NEW d \in Dirs, ClearDir(d)
    PROVE  /\ pointer'[d] = "none" /\ lock'[d] = NoLock /\ env'[d] = NoEnv /\ backup'[d] = NoEnv
           /\ \A e \in Dirs \ {d} :
                /\ lock'[e] = lock[e] /\ env'[e] = env[e] /\ backup'[e] = backup[e]
                /\ pointer'[e] = pointer[e] /\ (e \in touched' <=> e \in touched)
BY DEF Data, ClearDir

LEMMA RemoveDotFloxIn ==
    ASSUME Inv, Checkouts, NEW p \in Procs, NEW d \in Dirs, cmd[p].dir = d, RemoveDotFlox(p)
    PROVE  Checkouts'
<1>1. cmd[p].at = "opened" /\ cmd[p].kind = "delete"
  BY DEF RemoveDotFlox, At
<1>2. Data /\ Dir(p) = d /\ Sound(d)
  BY <1>1, In
<1>3. /\ ClearDir(d) /\ saved' = [saved EXCEPT ![d] = {}]
      /\ UNCHANGED <<hub, sync, local, registered>>
  BY <1>2 DEF RemoveDotFlox, repoVars
<1>4. cmd'[p].at = "prune" /\ cmd'[p].kind = "delete" /\ cmd'[p].dir = d
      /\ \A q \in Procs : q # p => cmd'[q] = cmd[q]
  BY <1>1, GoFields DEF RemoveDotFlox
<1>5. pointer'[d] = "none" /\ lock'[d] = NoLock /\ env'[d] = NoEnv /\ backup'[d] = NoEnv
      /\ saved'[d] = {}
  BY <1>2, <1>3, ClearDirIn DEF Data
<1>6. Elsewhere(d)
  BY <1>2, <1>3, ClearDirIn DEF Elsewhere, Data, Checkouts, Rest, Sound
<1>7. Busy(p)'
  BY <1>4, <1>5 DEF Busy, Opening, Working, Changing, Leaving
<1>8. Sound(d)'
  BY <1>2, <1>3, <1>5 DEF Sound
<1> QED  BY <1>1, <1>4, <1>6, <1>7, <1>8, GoIn

\* A checkout that has a branch keeps the sync branch of its machine.
LEMMA PruneBranchesIn ==
    ASSUME Inv, Checkouts, NEW d \in Dirs, NEW s, PruneBranches(d, s),
           sync[MachineOf[d]] # NoBranch => s # NoBranch
    PROVE  /\ local'[d] = NoBranch /\ saved'[d] = {}
           /\ \A e \in Dirs \ {d} :
                /\ local'[e] = local[e] /\ saved'[e] = saved[e]
                /\ local[e] # NoBranch => sync'[MachineOf[e]] # NoBranch
<1>1. Data /\ \A e \in Dirs : MachineOf[e] \in Machines /\ Sound(e)
  BY DEF Inv, Typed, Machines, Checkouts, Rest
<1>2. local'[d] = NoBranch /\ saved'[d] = {}
  BY <1>1 DEF PruneBranches, Data
<1>3. ASSUME NEW e \in Dirs \ {d}
      PROVE  /\ local'[e] = local[e] /\ saved'[e] = saved[e]
             /\ local[e] # NoBranch => sync'[MachineOf[e]] # NoBranch
  <2>1. local'[e] = local[e] /\ saved'[e] = saved[e]
    BY <1>1 DEF PruneBranches, Data
  <2>2. ASSUME local[e] # NoBranch
        PROVE  sync'[MachineOf[e]] # NoBranch
    <3>1. sync[MachineOf[e]] # NoBranch
      BY <1>1, <2>2 DEF Sound
    <3>2. CASE MachineOf[e] = MachineOf[d]
      <4>1. e \in NeedSync(d)
        BY <2>2, <3>2 DEF NeedSync
      <4>2. sync'[MachineOf[d]] = s
        BY <1>1, <4>1 DEF PruneBranches, Data
      <4> QED  BY <3>1, <3>2, <4>2
    <3>3. CASE MachineOf[e] # MachineOf[d]
      BY <1>1, <3>1, <3>3 DEF PruneBranches, Data
    <3> QED  BY <3>2, <3>3
  <2> QED  BY <2>1, <2>2
<1> QED  BY <1>2, <1>3

LEMMA PruneIn ==
    ASSUME Inv, Checkouts, NEW p \in Procs, NEW d \in Dirs, cmd[p].dir = d, Prune(p)
    PROVE  Checkouts'
<1>1. cmd[p].at = "prune"
  BY DEF Prune, At
<1>2. Data /\ Dir(p) = d /\ Machine(p) = MachineOf[d] /\ Leaving(cmd[p]) /\ Sound(d)
  BY <1>1, In
<1>3. UNCHANGED <<hub, lock, env, backup, pointer, registered, touched>>
  BY DEF Prune, dirVars
<1>4. /\ local'[d] = NoBranch /\ saved'[d] = {}
      /\ \A e \in Dirs \ {d} :
            /\ local'[e] = local[e] /\ saved'[e] = saved[e]
            /\ local[e] # NoBranch => sync'[MachineOf[e]] # NoBranch
  <2>1. PruneBranches(d, sync[MachineOf[d]])
    BY <1>2 DEF Prune
  <2> QED  BY <2>1, PruneBranchesIn
<1>5. Elsewhere(d)
  BY <1>3, <1>4 DEF Elsewhere
<1>6. cmd'[p].at = (IF cmd[p].kind = "delete" THEN "deregister" ELSE "unlock")
      /\ cmd'[p].kind = cmd[p].kind /\ cmd'[p].dir = d
      /\ \A q \in Procs : q # p => cmd'[q] = cmd[q]
  BY GoFields DEF Prune
<1>7. Busy(p)'
  BY <1>1, <1>2, <1>3, <1>4, <1>6 DEF Busy, Opening, Working, Changing, Leaving
<1>8. Sound(d)'
  BY <1>2, <1>3, <1>4 DEF Sound
<1> QED  BY <1>1, <1>5, <1>6, <1>7, <1>8, GoIn

LEMMA RemoveLockIn ==
    ASSUME Inv, Checkouts, NEW p \in Procs, NEW d \in Dirs, cmd[p].dir = d, RemoveLock(p)
    PROVE  Checkouts'
<1>1. cmd[p].at = "unlock"
  BY DEF RemoveLock, At
<1>2. Data /\ Dir(p) = d /\ Leaving(cmd[p]) /\ Sound(d)
  BY <1>1, In
<1>3. /\ UNCHANGED <<hub, sync, local, env, backup, pointer, registered, saved, touched>>
      /\ lock' = [lock EXCEPT ![d] = NoLock]
  BY <1>2 DEF RemoveLock, repoVars, histVars
<1>4. Elsewhere(d)
  BY <1>2, <1>3 DEF Elsewhere, Data, Checkouts, Rest, Sound
<1>5. cmd'[p].at = "deregister" /\ cmd'[p].kind = cmd[p].kind /\ cmd'[p].dir = d
      /\ \A q \in Procs : q # p => cmd'[q] = cmd[q]
  BY GoFields DEF RemoveLock
<1>6. Busy(p)'
  BY <1>1, <1>2, <1>3, <1>5 DEF Busy, Opening, Working, Changing, Leaving
<1>7. Sound(d)'
  BY <1>1, <1>2, <1>3 DEF Sound, Leaving, Data
<1> QED  BY <1>1, <1>4, <1>5, <1>6, <1>7, GoIn

\* The checkout that is converted is still registered: nobody garbage-collects
\* a directory that is there.
LEMMA DeregisterIn ==
    ASSUME Inv, Checkouts, NEW p \in Procs, NEW d \in Dirs, cmd[p].dir = d, Deregister(p)
    PROVE  Checkouts'
<1>1. cmd[p].at = "deregister"
  BY DEF Deregister, At
<1>2. Data /\ Dir(p) = d /\ Leaving(cmd[p]) /\ Sound(d)
  BY <1>1, In
<1>3. /\ UNCHANGED <<hub, sync, local, lock, env, backup, pointer, saved, touched>>
      /\ registered' = registered \ {d}
  BY <1>2 DEF Deregister, repoVars, dirVars, histVars
<1>4. Elsewhere(d)
  BY <1>3 DEF Elsewhere, Checkouts, Rest, Sound
<1>5. Sound(d)'
  BY <1>2, <1>3 DEF Sound
<1>6. CASE cmd[p].kind = "delete"
  <2>1. End(p)
    BY <1>6 DEF Deregister
  <2>2. Settled(d)'
    BY <1>1, <1>2, <1>3, <1>6 DEF Leaving, Settled
  <2> QED  BY <1>1, <1>4, <1>5, <2>1, <2>2, EndIn
<1>7. CASE cmd[p].kind = "convert"
  <2>1. Go(p, "pointer")
    BY <1>1, <1>2, <1>7 DEF Deregister, Leaving
  <2>2. cmd'[p].at = "pointer" /\ cmd'[p].kind = cmd[p].kind /\ cmd'[p].dir = d
        /\ \A q \in Procs : q # p => cmd'[q] = cmd[q]
    BY <2>1, GoFields
  <2>3. Busy(p)'
    BY <1>1, <1>2, <1>3, <1>7, <2>2 DEF Busy, Opening, Working, Changing, Leaving
  <2> QED  BY <1>1, <1>4, <1>5, <2>2, <2>3, GoIn
<1> QED  BY <1>1, <1>2, <1>6, <1>7 DEF Leaving

LEMMA PushNewIn ==
    ASSUME Inv, Checkouts, NEW p \in Procs, NEW d \in Dirs, cmd[p].dir = d, PushNew(p)
    PROVE  Checkouts'
<1>1. cmd[p].at = "push" /\ cmd[p].kind = "import"
  BY DEF PushNew, At
<1>2. Data /\ Dir(p) = d /\ Working(cmd[p]) /\ Sound(d)
  BY <1>1, In
<1>3. UNCHANGED <<sync, local, lock, env, backup, pointer, registered, saved, touched>>
  BY DEF PushNew, dirVars
<1>4. Elsewhere(d)
  BY <1>3 DEF Elsewhere, Checkouts, Rest, Sound
<1>5. Sound(d)' /\ pointer'[d] = "path"
  BY <1>1, <1>2, <1>3 DEF Sound, Working
<1>6. CASE End(p)
  <2>1. Settled(d)'
    BY <1>5 DEF Settled
  <2> QED  BY <1>1, <1>4, <1>5, <1>6, <2>1, EndIn
<1>7. CASE Go(p, "pointer")
  <2>1. cmd'[p].at = "pointer" /\ cmd'[p].kind = "import" /\ cmd'[p].dir = d
        /\ \A q \in Procs : q # p => cmd'[q] = cmd[q]
    BY <1>1, <1>7, GoFields
  <2>2. Busy(p)'
    BY <1>5, <2>1 DEF Busy, Opening, Working, Changing, Leaving
  <2> QED  BY <1>1, <1>4, <1>5, <2>1, <2>2, GoIn
<1> QED  BY <1>6, <1>7 DEF PushNew

LEMMA WritePointerIn ==
    ASSUME Inv, Checkouts, NEW p \in Procs, NEW d \in Dirs, cmd[p].dir = d, WritePointer(p)
    PROVE  Checkouts'
<1>1. cmd[p].at = "pointer"
  BY DEF WritePointer, At
<1>2. Data /\ cmd \in [Procs -> Commands(clock)] /\ cmd[p] \in Commands(clock)
      /\ Dir(p) = d /\ Leaving(cmd[p]) /\ Sound(d)
  BY <1>1, In
<1>3. UNCHANGED <<hub, sync, local, lock, env, backup, registered, saved>>
  BY DEF WritePointer, repoVars
<1>4. Elsewhere(d)
  BY <1>2, <1>3 DEF Elsewhere, Data, Checkouts, Rest, Sound, WritePointer
<1>5. CASE cmd[p].kind = "import"
  <2>1. /\ pointer' = [pointer EXCEPT ![d] = "managed"] /\ touched' = touched \cup {d}
        /\ cmd' = [cmd EXCEPT ![p].at = "read", ![p].lock = lock[d]]
    BY <1>2, <1>5 DEF WritePointer
  <2>2. cmd'[p].at = "read" /\ cmd'[p].kind = "import" /\ cmd'[p].dir = d /\ cmd'[p].lock = lock[d]
        /\ \A q \in Procs : q # p => cmd'[q] = cmd[q]
    BY <1>2, <1>5, <2>1 DEF Commands
  <2>3. pointer'[d] = "managed" /\ d \in touched'
    BY <1>2, <2>1 DEF Data
  <2>4. Busy(p)'
    BY <1>3, <2>2, <2>3 DEF Busy, Opening, Working, Changing, Leaving
  <2>5. Sound(d)'
    BY <1>2, <1>3, <2>3 DEF Sound
  <2> QED  BY <1>1, <1>4, <2>2, <2>4, <2>5, GoIn
<1>6. CASE cmd[p].kind # "import"
  <2>1. pointer' = [pointer EXCEPT ![d] = "path"] /\ End(p)
    BY <1>2, <1>6 DEF WritePointer
  <2>2. pointer'[d] = "path" /\ env[d] # NoEnv
    BY <1>1, <1>2, <1>6, <2>1 DEF Leaving, Data
  <2>3. Sound(d)' /\ Settled(d)'
    BY <1>2, <1>3, <2>2 DEF Sound, Settled
  <2> QED  BY <1>1, <1>4, <2>1, <2>3, EndIn
<1> QED  BY <1>5, <1>6

LEMMA FailsIn ==
    ASSUME Inv, Checkouts, NEW p \in Procs, NEW d \in Dirs, cmd[p].dir = d, Fails(p)
    PROVE  Checkouts'
<1>1. cmd[p].at \in {"swap", "fetch", "push"} \/ (cmd[p].at = "commit" /\ cmd[p].kind = "sync")
  BY DEF Fails, At
<1>2. Changing(cmd[p]) /\ Working(cmd[p]) /\ Sound(d) /\ cmd[p].at # "idle"
      /\ cmd[p].kind \in AllKinds \cup {"none"}
  BY <1>1, In, CommandFields
<1>3. UNCHANGED <<hub, sync, local, lock, env, backup, pointer, registered, saved, touched>>
      /\ End(p)
  BY DEF Fails, repoVars, dirVars, histVars
<1>4. Elsewhere(d)
  BY <1>3 DEF Elsewhere, Checkouts, Rest, Sound
<1>5. Sound(d)'
  BY <1>2, <1>3 DEF Sound
<1>6. Settled(d)
  <2>1. CASE cmd[p].at = "swap"
    BY <1>2, <2>1 DEF Changing, Settled, Open, Current
  <2>2. CASE cmd[p].at = "fetch"
    BY <1>2, <2>2 DEF Working, Settled, Open
  <2>3. CASE cmd[p].at = "push"
    BY <1>2, <2>3 DEF Working, Settled, Open
  <2>4. CASE cmd[p].at = "commit" /\ cmd[p].kind = "sync"
    BY <1>2, <2>4 DEF Changing, Settled
  <2> QED  BY <1>1, <2>1, <2>2, <2>3, <2>4
<1>7. Settled(d)'
  BY <1>3, <1>6 DEF Settled, Locked, Current
<1> QED  BY <1>2, <1>3, <1>4, <1>5, <1>7, EndIn

LEMMA CrashIn ==
    ASSUME Inv, Checkouts, NEW p \in Procs, NEW d \in Dirs, cmd[p].dir = d, Crash(p)
    PROVE  Checkouts'
<1>1. cmd[p].at # "idle"
  BY DEF Crash, At
<1>2. Data /\ Dir(p) = d /\ Working(cmd[p]) /\ Changing(cmd[p]) /\ Sound(d)
  BY <1>1, In
<1>3. /\ UNCHANGED <<hub, sync, local, lock, backup, pointer, registered, saved>>
      /\ touched' = touched \cup {d} /\ End(p)
  BY <1>2 DEF Crash, repoVars
<1>4. PICK e \in (IF Copying(p) THEN {NoEnv, Partial} ELSE {env[d]}) :
          env' = [env EXCEPT ![d] = e]
  BY <1>2 DEF Crash
<1>5. Elsewhere(d)
  BY <1>2, <1>3, <1>4 DEF Elsewhere, Data, Checkouts, Rest, Sound
<1>6. Settled(d)'
  BY <1>3 DEF Settled
<1>7. env'[d] = e
  BY <1>2, <1>4 DEF Data
<1>8. Sound(d)'
  <2>1. CASE cmd[p].at = "copy"
    BY <1>2, <1>3, <2>1 DEF Sound, Working, Open
  <2>2. CASE cmd[p].at = "swapping"
    BY <1>2, <1>3, <2>2 DEF Sound, Changing, Open
  <2>3. CASE cmd[p].at = "opened" /\ env[d] = NoEnv
    BY <1>2, <1>3, <1>7, <2>3 DEF Sound, Working, Open
  <2>4. CASE ~Copying(p)
    <3>1. env'[d] = env[d]
      BY <1>4, <1>7, <2>4
    <3> QED  BY <1>2, <1>3, <3>1 DEF Sound
  <2> QED  BY <1>2, <2>1, <2>2, <2>3, <2>4 DEF Copying, At
<1> QED  BY <1>1, <1>3, <1>5, <1>6, <1>8, EndIn

LEMMA NobodyRuns ==
    ASSUME NEW d \in Dirs, Running(d) = {}
    PROVE  \A q \in Procs : ~Active(q, d)
BY DEF Running, Active, Dir

LEMMA BeginIn ==
    ASSUME Serial, Inv, Checkouts, NEW p \in Procs, NEW d \in Dirs, NEW k \in Kinds,
           NEW f \in Forces, Begin(p, d, k, f)
    PROVE  Checkouts'
<1>1. cmd[p].at = "idle" /\ (\A q \in Procs : ~Active(q, d)) /\ k \in CommandsIn(d)
  BY NobodyRuns DEF Begin, At
<1>2. Data /\ cmd \in [Procs -> Commands(clock)] /\ Sound(d) /\ Settled(d)
  BY <1>1, Here DEF Checkouts, Rest
<1>3. /\ UNCHANGED <<hub, sync, local, lock, env, backup, registered, saved, touched>>
      /\ pointer' = [pointer EXCEPT ![d] = IF k = "pullNew" THEN "managed" ELSE @]
  BY DEF Begin, repoVars, histVars
<1> DEFINE at == IF pointer[d] # "path" THEN "read"
                 ELSE IF k = "install" THEN "swap" ELSE "push"
<1>4. /\ pointer[d] = "managed" => k # "pullNew"
      /\ pointer[d] = "path" => k \in {"install", "import"}
      /\ pointer[d] = "none" => k = "pullNew"
      /\ pointer[d] \in {"managed", "path", "none"}
  BY <1>1, <1>2 DEF CommandsIn, Data
<1>5. /\ (at = "read") <=> (pointer[d] # "path")
      /\ at = "swap" => pointer[d] = "path"
      /\ at = "push" => pointer[d] = "path" /\ k = "import"
      /\ at \in {"read", "swap", "push"}
  BY <1>4
<1>6. PICK t \in (IF k = "switch" THEN Targets ELSE {0}) :
          cmd' = [cmd EXCEPT ![p] = [Idle EXCEPT
                    !.at = at, !.kind = k, !.dir = d, !.force = f, !.lock = lock[d],
                    !.target = t]]
  BY DEF Begin
<1> HIDE DEF at
<1>7. cmd'[p].at = at /\ cmd'[p].kind = k /\ cmd'[p].dir = d /\ cmd'[p].lock = lock[d]
      /\ cmd'[p].seen = NoBranch /\ \A q \in Procs : q # p => cmd'[q] = cmd[q]
  BY <1>2, <1>6 DEF Idle
<1>8. Elsewhere(d)
  BY <1>2, <1>3 DEF Elsewhere, Data, Checkouts, Rest, Sound
<1>9. pointer'[d] = IF pointer[d] = "path" THEN "path" ELSE "managed"
  BY <1>2, <1>3, <1>4 DEF Data
<1>10. Opening(cmd[p])'
  <2>1. CASE pointer[d] = "none"
    BY <1>2, <1>3, <1>4, <1>5, <1>7, <1>9, <2>1 DEF Opening, Sound
  <2>2. CASE pointer[d] = "managed"
    BY <1>2, <1>3, <1>4, <1>5, <1>7, <1>9, <2>2 DEF Opening, Settled, Locked, Current
  <2>3. CASE pointer[d] = "path"
    BY <1>5, <1>7, <2>3 DEF Opening
  <2> QED  BY <1>4, <2>1, <2>2, <2>3
<1>11. Busy(p)'
  BY <1>5, <1>7, <1>9, <1>10 DEF Busy, Working, Changing, Leaving
<1>12. Sound(d)'
  BY <1>2, <1>3, <1>9 DEF Sound
<1>13. cmd'[p].at # "idle"
  BY <1>5, <1>7
<1> QED  BY <1>1, <1>7, <1>8, <1>11, <1>12, <1>13, CommandIn

-----------------------------------------------------------------------------
\* Only the commands that delete run in a directory that is gone.
LEMMA GarbageCollectIn ==
    ASSUME Inv, Checkouts, NEW d \in Dirs, GarbageCollect(d)
    PROVE  Checkouts'
<1>1. Data /\ Sound(d) /\ pointer[d] = "none"
  BY DEF Inv, Typed, Checkouts, Rest, GarbageCollect, Holds
<1>2. UNCHANGED <<hub, lock, env, backup, pointer, cmd, touched>> /\ registered' = registered \ {d}
  BY DEF GarbageCollect, dirVars
<1>3. /\ local'[d] = NoBranch /\ saved'[d] = {}
      /\ \A e \in Dirs \ {d} :
            /\ local'[e] = local[e] /\ saved'[e] = saved[e]
            /\ local[e] # NoBranch => sync'[MachineOf[e]] # NoBranch
  <2> DEFINE s == Opened(MachineOf[d])
  <2>1. PruneBranches(d, s) /\ s # NoBranch
    BY DEF GarbageCollect
  <2> HIDE DEF s
  <2> QED  BY <2>1, PruneBranchesIn
<1>4. Elsewhere(d)
  BY <1>2, <1>3 DEF Elsewhere
<1>5. Sound(d)' /\ Settled(d)'
  BY <1>1, <1>2, <1>3 DEF Sound, Settled
<1>6. ASSUME NEW q \in Procs, Active(q, d)
      PROVE  Busy(q)'
  <2>1. cmd[q].at # "idle" /\ cmd[q].dir = d /\ cmd'[q] = cmd[q]
    BY <1>2, <1>6 DEF Active
  <2>2. Opening(cmd[q]) /\ Working(cmd[q]) /\ Changing(cmd[q]) /\ Leaving(cmd[q])
    BY <2>1 DEF Checkouts, Control, Busy
  <2>3. cmd[q].at \in {"prune", "deregister"} /\ cmd[q].kind = "delete"
    <3>1. cmd[q].at \in Steps
      BY Here, CommandFields
    <3> QED  BY <1>1, <2>1, <2>2, <3>1 DEF Opening, Working, Changing, Leaving, Open, Steps
  <2> QED  BY <1>1, <1>2, <2>1, <2>3 DEF Busy, Opening, Working, Changing, Leaving
<1> QED  BY <1>2, <1>4, <1>5, <1>6, NoCommandIn

LEMMA HandEditIn ==
    ASSUME Inv, Checkouts, NEW d \in Dirs, HandEdit(d)
    PROVE  Checkouts'
<1>1. Data /\ Sound(d) /\ pointer[d] # "none" /\ \A q \in Procs : ~Active(q, d)
  BY NobodyRuns DEF Inv, Typed, Checkouts, Rest, HandEdit, Holds
<1>2. /\ UNCHANGED <<hub, sync, local, lock, backup, pointer, registered, cmd, saved>>
      /\ env' = [env EXCEPT ![d] = Now] /\ touched' = touched \cup {d}
  BY DEF HandEdit, repoVars
<1>3. env'[d] # NoEnv
  BY <1>1, <1>2, NowIs, ManagedAssumption DEF Data
<1>4. Elsewhere(d)
  BY <1>1, <1>2 DEF Elsewhere, Data, Checkouts, Rest, Sound
<1>5. Sound(d)' /\ Settled(d)'
  BY <1>1, <1>2, <1>3 DEF Sound, Settled
<1> QED  BY <1>1, <1>2, <1>4, <1>5, NoCommandIn

LEMMA RemoveDirIn ==
    ASSUME Inv, Checkouts, NEW d \in Dirs, RemoveDir(d)
    PROVE  Checkouts'
<1>1. Data /\ Sound(d) /\ ClearDir(d) /\ \A q \in Procs : ~Active(q, d)
  BY NobodyRuns DEF Inv, Typed, Checkouts, Rest, RemoveDir
<1>2. /\ UNCHANGED <<hub, sync, local, registered, cmd>> /\ saved' = [saved EXCEPT ![d] = {}]
  BY DEF RemoveDir, repoVars
<1>3. pointer'[d] = "none" /\ lock'[d] = NoLock /\ env'[d] = NoEnv /\ backup'[d] = NoEnv
      /\ saved'[d] = {}
  BY <1>1, <1>2, ClearDirIn DEF Data
<1>4. Elsewhere(d)
  BY <1>1, <1>2, ClearDirIn DEF Elsewhere, Data, Checkouts, Rest, Sound
<1>5. Sound(d)' /\ Settled(d)'
  BY <1>1, <1>2, <1>3 DEF Sound, Settled
<1> QED  BY <1>1, <1>2, <1>4, <1>5, NoCommandIn

LEMMA RestoreBackupIn ==
    ASSUME Inv, Checkouts, NEW d \in Dirs, RestoreBackup(d)
    PROVE  Checkouts'
<1>1. Data /\ Sound(d) /\ backup[d] # NoEnv /\ \A q \in Procs : ~Active(q, d)
  BY NobodyRuns DEF Inv, Typed, Checkouts, Rest, RestoreBackup
<1>2. /\ UNCHANGED <<hub, sync, local, lock, pointer, registered, cmd, saved>>
      /\ touched' = touched \cup {d} /\ backup' = [backup EXCEPT ![d] = NoEnv]
  BY DEF RestoreBackup, repoVars
<1>3. PICK e \in {backup[d], env[d]} \ {NoEnv} : env' = [env EXCEPT ![d] = e]
  BY DEF RestoreBackup
<1>4. env'[d] # NoEnv
  BY <1>1, <1>3 DEF Data
<1>5. Elsewhere(d)
  BY <1>1, <1>2, <1>3 DEF Elsewhere, Data, Checkouts, Rest, Sound
<1>6. Sound(d)' /\ Settled(d)'
  BY <1>1, <1>2, <1>4 DEF Sound, Settled
<1> QED  BY <1>1, <1>2, <1>5, <1>6, NoCommandIn

\* Steps that are not about a checkout.
LEMMA Unrelated ==
    ASSUME Checkouts,
           UNCHANGED <<sync, local, lock, env, backup, pointer, registered, cmd, saved, touched>>
    PROVE  Checkouts'
<1>1. Alone'
  BY DEF Checkouts, Alone, Active
<1>2. Control'
  <2>1. ASSUME NEW p \in Procs PROVE Busy(p)'
    BY DEF Checkouts, Control, Busy, Opening, Working, Changing, Leaving, Open, Locked, Current,
           EnvComplete
  <2> QED  BY <2>1 DEF Control
<1>3. Rest'
  BY DEF Checkouts, Rest, Sound, Settled, Active, Locked, Current
<1> QED  BY <1>1, <1>2, <1>3 DEF Checkouts

-----------------------------------------------------------------------------
LEMMA CheckoutsInit == Init => Checkouts
<1> SUFFICES ASSUME Init PROVE Checkouts
  OBVIOUS
<1>1. \A p \in Procs : cmd[p].at = "idle"
  BY DEF Init, Idle
<1>2. Alone /\ Control
  BY <1>1 DEF Alone, Active, Control, Busy
<1>3. ASSUME NEW d \in Dirs
      PROVE  Sound(d) /\ Settled(d)
  <2>1. /\ lock[d] = NoLock /\ local[d] = NoBranch /\ backup[d] = NoEnv /\ saved[d] = {}
        /\ pointer[d] \in {"none", "path"}
        /\ env[d] = IF pointer[d] = "path" THEN 1 ELSE NoEnv
    BY DEF Init
  <2>2. 1 # NoEnv
    BY ManagedAssumption DEF Changes
  <2> QED  BY <2>1, <2>2 DEF Sound, Settled
<1> QED  BY <1>2, <1>3 DEF Checkouts, Rest

LEMMA CheckoutsNext ==
    ASSUME Serial, Inv, Checkouts, [Next]_vars
    PROVE  Checkouts'
<1>1. ASSUME NEW p \in Procs, Step(p)
      PROVE  Checkouts'
  <2>1. cmd[p].at # "idle"
    BY <1>1
       DEF Step, OpenBranch, WriteLock, Check, SwapOut, SwapIn, SwapFails, Commit, LockPointer,
           RemoveEnv, CopyEnv, Fetch, Compare, PushRef, ApplyUpdates, RemoveDotFlox, Prune,
           RemoveLock, Deregister, PushNew, WritePointer, Fails, Crash, At
  <2>2. PICK d \in Dirs : cmd[p].dir = d
    BY <2>1 DEF Inv, Prepared, Ready
  <2> USE <2>2
  <2>3. CASE OpenBranch(p)    BY <2>3, OpenBranchIn
  <2>4. CASE WriteLock(p)     BY <2>4, WriteLockIn
  <2>5. CASE Check(p)         BY <2>5, CheckIn
  <2>6. CASE SwapOut(p)       BY <2>6, SwapOutIn
  <2>7. CASE SwapIn(p)        BY <2>7, SwapInIn
  <2>8. CASE SwapFails(p)     BY <2>8, SwapFailsIn
  <2>9. CASE Commit(p)        BY <2>9, CommitIn
  <2>10. CASE LockPointer(p)  BY <2>10, LockPointerIn
  <2>11. CASE RemoveEnv(p)    BY <2>11, RemoveEnvIn
  <2>12. CASE CopyEnv(p)      BY <2>12, CopyEnvIn
  <2>13. CASE Fetch(p)        BY <2>13, FetchIn
  <2>14. CASE Compare(p)      BY <2>14, CompareIn
  <2>15. CASE PushRef(p)      BY <2>15, PushRefIn
  <2>16. CASE ApplyUpdates(p) BY <2>16, ApplyUpdatesIn
  <2>17. CASE RemoveDotFlox(p) BY <2>17, RemoveDotFloxIn
  <2>18. CASE Prune(p)        BY <2>18, PruneIn
  <2>19. CASE RemoveLock(p)   BY <2>19, RemoveLockIn
  <2>20. CASE Deregister(p)   BY <2>20, DeregisterIn
  <2>21. CASE PushNew(p)      BY <2>21, PushNewIn
  <2>22. CASE WritePointer(p) BY <2>22, WritePointerIn
  <2>23. CASE Fails(p)        BY <2>23, FailsIn
  <2>24. CASE Crash(p)        BY <2>24, CrashIn
  <2> QED  BY <1>1, <2>3, <2>4, <2>5, <2>6, <2>7, <2>8, <2>9, <2>10, <2>11, <2>12, <2>13, <2>14,
              <2>15, <2>16, <2>17, <2>18, <2>19, <2>20, <2>21, <2>22, <2>23, <2>24 DEF Step
<1>2. ASSUME NEW p \in Procs, NEW d \in Dirs, NEW k \in Kinds, NEW f \in Forces,
             Begin(p, d, k, f)
      PROVE  Checkouts'
  BY <1>2, BeginIn
<1>3. ASSUME NEW d \in Dirs,
             GarbageCollect(d) \/ HandEdit(d) \/ RemoveDir(d) \/ RestoreBackup(d)
      PROVE  Checkouts'
  BY <1>3, GarbageCollectIn, HandEditIn, RemoveDirIn, RestoreBackupIn
<1>4. CASE DeleteUpstream
  BY <1>4, Unrelated DEF DeleteUpstream, dirVars
<1>5. CASE UNCHANGED vars
  BY <1>5, Unrelated DEF vars, repoVars, dirVars, histVars
<1> QED  BY <1>1, <1>2, <1>3, <1>4, <1>5 DEF Next

LEMMA CheckoutsInvariance == Serial /\ 0 \notin Targets => (Spec => [](Inv /\ Checkouts))
<1> SUFFICES ASSUME Serial, 0 \notin Targets PROVE Spec => [](Inv /\ Checkouts)
  OBVIOUS
<1>1. Init => Inv /\ Checkouts
  BY InvInit, CheckoutsInit
<1>2. (Inv /\ Checkouts) /\ [Next]_vars => (Inv /\ Checkouts)'
  BY InvNext, CheckoutsNext
<1> QED  BY <1>1, <1>2, PTL DEF Spec

-----------------------------------------------------------------------------
\* A generation whose command reported success stays on the branch of its
\* checkout until the user drops it: a crash of a later command, a commit that
\* was not locked and that the next command takes back, a pull or a push of
\* another checkout, and the garbage collection leave it there.
THEOREM SavedAlwaysKept == Serial /\ 0 \notin Targets => (Spec => []SavedKept)
<1> SUFFICES ASSUME Serial, 0 \notin Targets PROVE Spec => []SavedKept
  OBVIOUS
<1>1. Spec => [](Inv /\ Checkouts)
  BY CheckoutsInvariance
<1>2. Inv /\ Checkouts => SavedKept
  BY DEF Checkouts, Rest, Sound, SavedKept
<1> QED  BY <1>1, <1>2, PTL

\* Between commands, a checkout that no crash or editor has touched is what its
\* live generation is, and its generation lock names the tip of its branch.
THEOREM AlwaysInSync == Serial /\ 0 \notin Targets => (Spec => []InSync)
<1> SUFFICES ASSUME Serial, 0 \notin Targets PROVE Spec => []InSync
  OBVIOUS
<1>1. Spec => [](Inv /\ Checkouts)
  BY CheckoutsInvariance
<1>2. Inv /\ Checkouts => InSync
  <2> SUFFICES ASSUME Checkouts, NEW d \in Dirs, pointer[d] = "managed", Running(d) = {},
                      d \notin touched
               PROVE  /\ lock[d] # NoLock /\ local[d] # NoBranch
                      /\ local[d] = IF lock[d].local = NoBranch THEN lock[d].rev ELSE lock[d].local
                      /\ env[d] \in {NoEnv, CurrentEnv(local[d])}
    BY DEF InSync
  <2>1. Settled(d)
    BY NobodyRuns DEF Checkouts, Rest
  <2> QED  BY <2>1 DEF Settled, Locked, LockedRev, Current
<1> QED  BY <1>1, <1>2, PTL

\* No checkout loses the sync branch that its generation lock is computed from,
\* whichever checkout of the machine is deleted, converted or collected.
THEOREM SyncAlwaysKept == Serial /\ 0 \notin Targets => (Spec => []SyncKept)
<1> SUFFICES ASSUME Serial, 0 \notin Targets PROVE Spec => []SyncKept
  OBVIOUS
<1>1. Spec => [](Inv /\ Checkouts)
  BY CheckoutsInvariance
<1>2. Inv /\ Checkouts => SyncKept
  BY DEF Checkouts, Rest, Sound, SyncKept
<1> QED  BY <1>1, <1>2, PTL

\* Wherever a transaction on a path environment fails or is killed, .flox/env or
\* a backup of it is there.
THEOREM EnvOrBackupAlways == Serial /\ 0 \notin Targets => (Spec => []EnvOrBackup)
<1> SUFFICES ASSUME Serial, 0 \notin Targets PROVE Spec => []EnvOrBackup
  OBVIOUS
<1>1. Spec => [](Inv /\ Checkouts)
  BY CheckoutsInvariance
<1>2. Inv /\ Checkouts => EnvOrBackup
  BY DEF Checkouts, Rest, Sound, EnvOrBackup
<1> QED  BY <1>1, <1>2, PTL

=============================================================================
