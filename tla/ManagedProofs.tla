---------------------------- MODULE ManagedProofs ----------------------------
(***************************************************************************)
(* The histories of a managed environment are consistent, a rollback       *)
(* returns to the generation that was live before, and what is pushed and  *)
(* locked is not lost, for any directories, machines and commands, however *)
(* the commands interleave.                                                *)
(***************************************************************************)
EXTENDS ManagedEnvironment, SequenceTheorems, FiniteSetTheorems, WellFoundedInduction, TLAPS

\* What add_generation, and switch_generation to generations that were created
\* before, make of a new branch.
Chains ==
    {h \in Seq(Entry) :
        /\ Created(h) = 1..TotalGenerations(h)
        /\ IsFiniteSet(Adds(h)) /\ Cardinality(Adds(h)) = TotalGenerations(h)
        /\ \A i, j \in Adds(h) : h[i].gen = h[j].gen => i = j
        /\ \A i \in DOMAIN h :
               /\ h[i].gen \in Created(h) /\ h[i].gen # h[i].prev
               /\ h[i].prev = IF i = 1 THEN NoGeneration ELSE h[i - 1].gen
        /\ \A i, j \in DOMAIN h : i < j => h[i].at < h[j].at}

Histories == Chains \ {<<>>}

\* The histories of the changes up to number c, and what refers to them.
Until(c) == {h \in Histories : Last(h).at <= c}
BranchesUntil(c) == Until(c) \cup {NoBranch}
LocksUntil(c) == [rev : Until(c), local : BranchesUntil(c)] \cup {NoLock}
Commands(c) == [at : Steps, kind : AllKinds \cup {"none"}, dir : Dirs \cup {"none"},
                force : BOOLEAN, lock : LocksUntil(c), seen : BranchesUntil(c),
                env : EnvStates, target : Nat, valid : BOOLEAN]

\* Every branch, lock and command is about a history that was built so.
Data ==
    /\ hub \in BranchesUntil(clock) /\ sync \in [Machines -> BranchesUntil(clock)]
    /\ local \in [Dirs -> BranchesUntil(clock)] /\ lock \in [Dirs -> LocksUntil(clock)]
    /\ env \in [Dirs -> EnvStates] /\ backup \in [Dirs -> EnvStates]
    /\ pointer \in [Dirs -> {"managed", "path", "none"}]
    /\ registered \subseteq Dirs /\ touched \subseteq Dirs
    /\ clock \in Nat /\ crashes \in 0..MaxCrashes
    /\ saved \in [Dirs -> SUBSET Changes] /\ rewritten \in BOOLEAN

Typed == Data /\ cmd \in [Procs -> Commands(clock)]

\* What a command has made sure of when it comes to commit.
Ready(c, now) ==
    /\ c.at # "idle" => c.dir \in Dirs
    /\ c.at # "idle" /\ c.kind = "switch" => c.target # 0
    /\ c.at \in {"swap", "swapping"} => c.kind = "install"
    /\ c.at = "commit" =>
        /\ c.kind \in {"install", "sync", "switch", "rollback"}
        /\ c.kind = "install" /\ c.seen # NoBranch => Last(c.seen).at < now
        /\ c.kind \in {"switch", "rollback"} /\ c.seen # NoBranch =>
               c.target \in Created(c.seen) \ {CurrentGen(c.seen)}

Prepared == \A p \in Procs : Ready(cmd[p], clock)

\* Nothing that was fetched or locked has left FloxHub.
Upstream ==
    ~rewritten =>
        /\ \A m \in Machines : sync[m] # NoBranch => ContainsCommit(hub, sync[m])
        /\ \A d \in Dirs : lock[d] # NoLock => ContainsCommit(hub, lock[d].rev)
        /\ \A p \in Procs : cmd[p].lock # NoLock => ContainsCommit(hub, cmd[p].lock.rev)

Inv == Typed /\ Prepared /\ Upstream

-----------------------------------------------------------------------------
LEMMA EntryFields ==
    ASSUME NEW e \in Entry
    PROVE  /\ e.kind \in {"add", "switch"} /\ e.gen \in Nat /\ e.prev \in Nat
           /\ e.total \in Nat /\ e.at \in Changes
           /\ e.kind = "add" => e.env \in Changes
BY DEF Entry, Entries

LEMMA Appended ==
    ASSUME NEW h \in Seq(Entry), NEW e \in Entry
    PROVE  /\ Append(h, e) \in Seq(Entry) /\ Append(h, e) # <<>>
           /\ Len(Append(h, e)) = Len(h) + 1 /\ Len(h) \in Nat
           /\ DOMAIN h = 1..Len(h) /\ DOMAIN Append(h, e) = 1..(Len(h) + 1)
           /\ \A i \in 1..Len(h) : Append(h, e)[i] = h[i]
           /\ Append(h, e)[Len(h) + 1] = e
           /\ Last(Append(h, e)) = e
<1>1. Append(h, e) \in Seq(Entry) /\ Append(h, e) # <<>>
      /\ Len(Append(h, e)) = Len(h) + 1 /\ Append(h, e)[Len(h) + 1] = e
      /\ \A i \in 1..Len(h) : Append(h, e)[i] = h[i]
  BY AppendProperties
<1>2. Len(h) \in Nat /\ DOMAIN h = 1..Len(h) /\ DOMAIN Append(h, e) = 1..Len(Append(h, e))
  BY <1>1, LenProperties
<1> QED  BY <1>1, <1>2 DEF Last

\* The last change of a history.
LEMMA LastOf ==
    ASSUME NEW h \in Seq(Entry), h # <<>>
    PROVE  /\ Len(h) \in Nat \ {0} /\ Len(h) \in DOMAIN h /\ DOMAIN h = 1..Len(h)
           /\ Last(h) = h[Len(h)] /\ Last(h) \in Entry
<1>1. Len(h) \in Nat /\ DOMAIN h = 1..Len(h) /\ Len(h) # 0
  BY LenProperties, EmptySeq
<1>2. h[Len(h)] \in Entry
  BY <1>1, ElementOfSeq
<1> QED  BY <1>1, <1>2 DEF Last

LEMMA ChangeFields ==
    ASSUME NEW h \in Seq(Entry), NEW i \in DOMAIN h
    PROVE  /\ h[i] \in Entry /\ h[i].kind \in {"add", "switch"} /\ h[i].gen \in Nat
           /\ h[i].prev \in Nat /\ h[i].total \in Nat /\ h[i].at \in Nat \ {0}
           /\ h[i].kind = "add" => h[i].env \in Changes
<1>1. h[i] \in Entry
  BY LenProperties, ElementOfSeq
<1>2. \A e \in Entry : e.at \in Nat \ {0}
  BY EntryFields DEF Changes
<1> QED  BY <1>1, <1>2, EntryFields

LEMMA NewBranch == <<>> \in Chains
<1>1. <<>> \in Seq(Entry) /\ DOMAIN <<>> = {}
  BY EmptySeq
<1>2. Adds(<<>>) = {} /\ Created(<<>>) = {} /\ TotalGenerations(<<>>) = 0
  BY <1>1 DEF Adds, Created, TotalGenerations
<1>3. IsFiniteSet(Adds(<<>>)) /\ Cardinality(Adds(<<>>)) = 0
  BY <1>2, FS_EmptySet
<1>4. 1..0 = {}
  OBVIOUS
<1> QED  BY <1>1, <1>2, <1>3, <1>4 DEF Chains

\* The live generation and the number of generations of a chain.
LEMMA ChainNumbers ==
    ASSUME NEW h \in Chains
    PROVE  /\ TotalGenerations(h) \in Nat /\ CurrentGen(h) \in 0..TotalGenerations(h)
           /\ h # <<>> => CurrentGen(h) \in Created(h) /\ CurrentGen(h) = h[Len(h)].gen
<1>1. h \in Seq(Entry) /\ Created(h) = 1..TotalGenerations(h)
      /\ \A i \in DOMAIN h : h[i].gen \in Created(h)
  BY DEF Chains
<1>2. CASE h = <<>>
  BY <1>2 DEF TotalGenerations, CurrentGen, NoGeneration
<1>3. CASE h # <<>>
  <2>1. Len(h) \in DOMAIN h /\ Last(h) = h[Len(h)] /\ Last(h).total \in Nat
    BY <1>1, <1>3, LastOf, ChangeFields
  <2>2. CurrentGen(h) = h[Len(h)].gen /\ TotalGenerations(h) \in Nat
    BY <1>3, <2>1 DEF CurrentGen, TotalGenerations
  <2> QED  BY <1>1, <1>3, <2>1, <2>2
<1> QED  BY <1>2, <1>3

\* What a change adds to the history, whichever change it is.
LEMMA ChainGrows ==
    ASSUME NEW h \in Chains, NEW e \in Entry,
           e.prev = CurrentGen(h), e.gen # e.prev, h # <<>> => Last(h).at < e.at,
           NEW g, g = Append(h, e),
           Created(g) = 1..TotalGenerations(g), e.gen \in Created(g),
           Created(h) \subseteq Created(g),
           IsFiniteSet(Adds(g)), Cardinality(Adds(g)) = TotalGenerations(g),
           \A i, j \in Adds(g) : g[i].gen = g[j].gen => i = j
    PROVE  g \in Histories
<1>1. h \in Seq(Entry) /\ (\A i, j \in DOMAIN h : i < j => h[i].at < h[j].at)
      /\ \A i \in DOMAIN h : /\ h[i].gen \in Created(h) /\ h[i].gen # h[i].prev
                             /\ h[i].prev = IF i = 1 THEN NoGeneration ELSE h[i - 1].gen
  BY DEF Chains
<1>2. /\ g \in Seq(Entry) /\ g # <<>> /\ Len(h) \in Nat
      /\ DOMAIN h = 1..Len(h) /\ DOMAIN g = 1..(Len(h) + 1)
      /\ \A i \in 1..Len(h) : g[i] = h[i]
      /\ g[Len(h) + 1] = e
  BY <1>1, Appended
<1>3. h # <<>> => Last(h) = h[Len(h)] /\ Len(h) # 0 /\ CurrentGen(h) = h[Len(h)].gen
  BY <1>1, LastOf, ChainNumbers
<1>4. h = <<>> => Len(h) = 0 /\ CurrentGen(h) = NoGeneration
  BY EmptySeq DEF CurrentGen
<1>5. ASSUME NEW i \in DOMAIN g
      PROVE  /\ g[i].gen \in Created(g) /\ g[i].gen # g[i].prev
             /\ g[i].prev = IF i = 1 THEN NoGeneration ELSE g[i - 1].gen
  <2>1. CASE i = Len(h) + 1
    <3>1. CASE h = <<>>
      BY <1>2, <1>4, <2>1, <3>1
    <3>2. CASE h # <<>>
      <4>1. i # 1 /\ i - 1 = Len(h) /\ Len(h) \in 1..Len(h)
        BY <1>2, <1>3, <2>1, <3>2
      <4>2. g[i - 1] = h[Len(h)]
        BY <1>2, <4>1
      <4> QED  BY <1>2, <1>3, <2>1, <3>2, <4>1, <4>2
    <3> QED  BY <3>1, <3>2
  <2>2. CASE i # Len(h) + 1
    <3>1. i \in 1..Len(h) /\ g[i] = h[i]
      BY <1>2, <2>2
    <3>2. i # 1 => i - 1 \in 1..Len(h) /\ g[i - 1] = h[i - 1]
      BY <1>2, <3>1
    <3> QED  BY <1>1, <1>2, <3>1, <3>2
  <2> QED  BY <2>1, <2>2
<1>6. ASSUME NEW i \in DOMAIN g, NEW j \in DOMAIN g, i < j
      PROVE  g[i].at < g[j].at
  <2>1. i \in 1..Len(h) /\ g[i] = h[i] /\ h[i].at \in Nat
    BY <1>1, <1>2, <1>6, ChangeFields
  <2>2. CASE j = Len(h) + 1
    <3>1. h # <<>> /\ Len(h) \in 1..Len(h) /\ Len(h) \in DOMAIN h
      BY <1>2, <1>4, <2>1
    <3>2. h[Len(h)].at < e.at /\ h[Len(h)].at \in Nat /\ e.at \in Nat
      <4>1. e.at \in Nat
        BY EntryFields DEF Changes
      <4> QED  BY <1>1, <1>3, <3>1, <4>1, ChangeFields
    <3>3. i # Len(h) => h[i].at < h[Len(h)].at
      BY <1>1, <1>2, <2>1, <3>1
    <3> QED  BY <1>2, <2>1, <2>2, <3>2, <3>3
  <2>3. CASE j # Len(h) + 1
    BY <1>1, <1>2, <1>6, <2>1, <2>3
  <2> QED  BY <2>2, <2>3
<1> QED  BY <1>2, <1>5, <1>6 DEF Histories, Chains

-----------------------------------------------------------------------------
\* Prefixes, entry by entry.
LEMMA PrefixIs ==
    ASSUME NEW s \in Seq(Entry), NEW t \in Seq(Entry)
    PROVE  IsPrefix(s, t) <=> Len(s) <= Len(t) /\ \A i \in 1..Len(s) : s[i] = t[i]
<1>1. Len(s) \in Nat /\ Len(t) \in Nat
  BY LenProperties
<1>2. CASE Len(s) <= Len(t)
  <2> DEFINE a == SubSeq(s, 1, Len(s))
             b == SubSeq(t, 1, Len(s))
  <2>1. a \in Seq(Entry) /\ Len(a) = Len(s) /\ \A i \in 1..Len(s) : a[i] = s[i]
    BY <1>1, SubSeqProperties
  <2>2. b \in Seq(Entry) /\ Len(b) = Len(s) /\ \A i \in 1..Len(s) : b[i] = t[i]
    BY <1>1, <1>2, SubSeqProperties
  <2> HIDE DEF a, b
  <2>3. a = b <=> \A i \in 1..Len(s) : a[i] = b[i]
    BY <2>1, <2>2, SeqEqual
  <2>4. a = b <=> \A i \in 1..Len(s) : s[i] = t[i]
    BY <2>1, <2>2, <2>3
  <2> QED  BY <1>2, <2>4 DEF IsPrefix, a, b
<1> QED  BY <1>1, <1>2 DEF IsPrefix

LEMMA PrefixSelf ==
    ASSUME NEW s \in Seq(Entry)
    PROVE  IsPrefix(s, s)
BY PrefixIs, LenProperties

LEMMA PrefixChain ==
    ASSUME NEW s \in Seq(Entry), NEW t \in Seq(Entry), NEW u \in Seq(Entry),
           IsPrefix(s, t), IsPrefix(t, u)
    PROVE  IsPrefix(s, u)
<1>1. Len(s) \in Nat /\ Len(t) \in Nat /\ Len(u) \in Nat
  BY LenProperties
<1>2. Len(s) <= Len(t) /\ \A i \in 1..Len(s) : s[i] = t[i]
  BY PrefixIs
<1>3. Len(t) <= Len(u) /\ \A i \in 1..Len(t) : t[i] = u[i]
  BY PrefixIs
<1>4. Len(s) <= Len(u) /\ \A i \in 1..Len(s) : s[i] = u[i]
  BY <1>1, <1>2, <1>3
<1> QED  BY <1>4, PrefixIs

\* A change only adds to the branch.
LEMMA PrefixGrows ==
    ASSUME NEW s \in Seq(Entry), NEW e \in Entry
    PROVE  IsPrefix(s, Append(s, e))
<1>1. /\ Append(s, e) \in Seq(Entry) /\ Len(Append(s, e)) = Len(s) + 1 /\ Len(s) \in Nat
      /\ \A i \in 1..Len(s) : Append(s, e)[i] = s[i]
  BY Appended
<1>2. Len(s) <= Len(Append(s, e)) /\ \A i \in 1..Len(s) : s[i] = Append(s, e)[i]
  BY <1>1
<1> HIDE DEF IsPrefix
<1> QED  BY <1>1, <1>2, PrefixIs

\* A longer history has the environments of a shorter one.
LEMMA PrefixEnvs ==
    ASSUME NEW s \in Seq(Entry), NEW t \in Seq(Entry), IsPrefix(s, t)
    PROVE  Envs(s) \subseteq Envs(t)
<1>1. Len(s) \in Nat /\ Len(t) \in Nat /\ DOMAIN s = 1..Len(s) /\ DOMAIN t = 1..Len(t)
  BY LenProperties
<1>2. Len(s) <= Len(t) /\ \A i \in 1..Len(s) : s[i] = t[i]
  BY PrefixIs
<1>3. \A i \in Adds(s) : i \in Adds(t) /\ s[i] = t[i]
  BY <1>1, <1>2 DEF Adds
<1> QED  BY <1>3 DEF Envs

-----------------------------------------------------------------------------
\* add_generation, from no history or a history.
LEMMA AddKeeps ==
    ASSUME NEW h \in Chains, NEW e \in Changes, NEW now \in Changes,
           h # <<>> => Last(h).at < now
    PROVE  /\ AddGeneration(h, e, now) \in Histories
           /\ Last(AddGeneration(h, e, now)).at = now
           /\ CurrentEnv(AddGeneration(h, e, now)) = e
           /\ IsPrefix(h, AddGeneration(h, e, now))
<1> DEFINE T == TotalGenerations(h)
           n == Len(h) + 1
           c == [kind |-> "add", gen |-> T + 1, prev |-> CurrentGen(h),
                 total |-> T + 1, env |-> e, at |-> now]
           g == Append(h, c)
<1>1. T \in Nat /\ CurrentGen(h) \in 0..T
  BY ChainNumbers
<1>2. c \in Entry /\ c.gen = T + 1 /\ c.prev = CurrentGen(h) /\ c.at = now
      /\ c.total = T + 1 /\ c.env = e /\ c.kind = "add"
  BY <1>1 DEF Entry, Entries
<1>3. /\ h \in Seq(Entry) /\ Created(h) = 1..T
      /\ IsFiniteSet(Adds(h)) /\ Cardinality(Adds(h)) = T
      /\ \A i, j \in Adds(h) : h[i].gen = h[j].gen => i = j
  BY DEF Chains
<1> HIDE DEF T, c
<1>4. /\ g \in Seq(Entry) /\ g # <<>> /\ Len(h) \in Nat
      /\ DOMAIN h = 1..Len(h) /\ DOMAIN g = 1..n
      /\ \A i \in 1..Len(h) : g[i] = h[i]
      /\ g[n] = c /\ Last(g) = c
  BY <1>2, <1>3, Appended
<1> HIDE DEF g
<1>5. Adds(g) = Adds(h) \cup {n} /\ n \notin Adds(h)
  BY <1>2, <1>4 DEF Adds
<1>6. IsFiniteSet(Adds(g)) /\ Cardinality(Adds(g)) = T + 1
  <2>1. \A S, x : IsFiniteSet(S) /\ x \notin S =>
            IsFiniteSet(S \cup {x}) /\ Cardinality(S \cup {x}) = Cardinality(S) + 1
    BY FS_AddElement
  <2> QED  BY <1>3, <1>5, <2>1
<1>7. TotalGenerations(g) = T + 1 /\ CurrentGen(g) = T + 1
  BY <1>2, <1>4 DEF TotalGenerations, CurrentGen
<1>8. \A i \in Adds(h) : i \in 1..Len(h) /\ g[i] = h[i] /\ h[i].gen \in 1..T
  BY <1>3, <1>4 DEF Adds, Created
<1>9. Created(g) = 1..(T + 1)
  <2>1. Created(g) = Created(h) \cup {T + 1}
    <3>1. \A i \in Adds(g) : g[i].gen \in Created(h) \cup {T + 1}
      BY <1>2, <1>3, <1>4, <1>5, <1>8
    <3>2. \A k \in Created(h) : \E i \in Adds(g) : g[i].gen = k
      BY <1>5, <1>8 DEF Created
    <3>3. \E i \in Adds(g) : g[i].gen = T + 1
      BY <1>2, <1>4, <1>5
    <3> QED  BY <3>1, <3>2, <3>3 DEF Created
  <2> QED  BY <1>1, <1>3, <2>1
<1>10. \A i, j \in Adds(g) : g[i].gen = g[j].gen => i = j
  <2>1. \A i \in Adds(h) : g[i].gen # g[n].gen
    BY <1>1, <1>2, <1>4, <1>8
  <2>2. \A i, j \in Adds(h) : g[i].gen = g[j].gen => i = j
    BY <1>3, <1>8
  <2> QED  BY <1>5, <2>1, <2>2
<1>11. g \in Histories
  <2>1. c.gen # c.prev /\ c.gen \in Created(g) /\ Created(h) \subseteq Created(g)
    BY <1>1, <1>2, <1>3, <1>9
  <2>2. g = Append(h, c)
    BY DEF g
  <2> QED  BY <1>2, <1>6, <1>7, <1>9, <1>10, <2>1, <2>2, ChainGrows
<1>12. CurrentEnv(g) = e
  <2>1. n \in Adds(g) /\ g[n].gen = T + 1 /\ T + 1 \in Created(g)
    BY <1>1, <1>2, <1>4, <1>5, <1>9
  <2>2. (CHOOSE i \in Adds(g) : g[i].gen = T + 1) = n
    BY <1>10, <2>1
  <2> QED  BY <1>2, <1>4, <1>7, <2>1, <2>2 DEF CurrentEnv, EnvOf
<1>13. IsPrefix(h, g)
  BY <1>2, <1>3, PrefixGrows DEF g
<1>14. g = AddGeneration(h, e, now)
  BY DEF g, c, T, AddGeneration
<1>15. Last(g).at = now
  BY <1>2, <1>4
<1> QED  BY <1>11, <1>12, <1>13, <1>14, <1>15

\* switch_generation to another generation that was created before.
LEMMA SwitchKeeps ==
    ASSUME NEW h \in Histories, NEW t \in Created(h) \ {CurrentGen(h)}, NEW now \in Changes,
           Last(h).at < now
    PROVE  /\ SwitchGeneration(h, t, now) \in Histories
           /\ Last(SwitchGeneration(h, t, now)).at = now
           /\ IsPrefix(h, SwitchGeneration(h, t, now))
<1> DEFINE T == TotalGenerations(h)
           n == Len(h) + 1
           c == [kind |-> "switch", gen |-> t, prev |-> CurrentGen(h),
                 total |-> T, env |-> NoEnv, at |-> now]
           g == Append(h, c)
<1>1. h \in Chains /\ h # <<>> /\ T \in Nat /\ CurrentGen(h) \in 0..T
  BY ChainNumbers DEF Histories
<1>2. /\ h \in Seq(Entry) /\ Created(h) = 1..T
      /\ IsFiniteSet(Adds(h)) /\ Cardinality(Adds(h)) = T
      /\ \A i, j \in Adds(h) : h[i].gen = h[j].gen => i = j
  BY <1>1 DEF Chains
<1>3. c \in Entry /\ c.gen = t /\ c.prev = CurrentGen(h) /\ c.at = now
      /\ c.total = T /\ c.kind = "switch"
  BY <1>1, <1>2 DEF Entry, Entries
<1> HIDE DEF T, c
<1>4. /\ g \in Seq(Entry) /\ g # <<>> /\ Len(h) \in Nat
      /\ DOMAIN h = 1..Len(h) /\ DOMAIN g = 1..n
      /\ \A i \in 1..Len(h) : g[i] = h[i]
      /\ g[n] = c /\ Last(g) = c
  BY <1>2, <1>3, Appended
<1> HIDE DEF g
<1>5. Adds(g) = Adds(h)
  BY <1>3, <1>4 DEF Adds
<1>6. \A i \in Adds(h) : i \in 1..Len(h) /\ g[i] = h[i]
  BY <1>4 DEF Adds
<1>7. TotalGenerations(g) = T
  BY <1>3, <1>4 DEF TotalGenerations
<1>8. Created(g) = Created(h) /\ IsPrefix(h, g)
  BY <1>2, <1>3, <1>5, <1>6, PrefixGrows DEF Created, g
<1>9. \A i, j \in Adds(g) : g[i].gen = g[j].gen => i = j
  BY <1>2, <1>5, <1>6
<1>10. g \in Histories
  <2>1. c.gen # c.prev /\ c.gen \in Created(g) /\ Created(h) \subseteq Created(g)
        /\ Created(g) = 1..TotalGenerations(g)
    BY <1>2, <1>3, <1>7, <1>8
  <2>2. g = Append(h, c)
    BY DEF g
  <2>3. IsFiniteSet(Adds(g)) /\ Cardinality(Adds(g)) = TotalGenerations(g)
    BY <1>2, <1>5, <1>7
  <2> QED  BY <1>1, <1>3, <1>9, <2>1, <2>2, <2>3, ChainGrows
<1>11. g = SwitchGeneration(h, t, now)
  BY DEF g, c, T, SwitchGeneration
<1>12. Last(g).at = now
  BY <1>3, <1>4
<1> QED  BY <1>8, <1>10, <1>11, <1>12

\* The live generation has an environment, and it is in the history.
LEMMA LiveEnv ==
    ASSUME NEW h \in Histories
    PROVE  CurrentEnv(h) \in Changes /\ CurrentEnv(h) \in Envs(h)
<1>1. h \in Seq(Entry) /\ CurrentGen(h) \in Created(h)
  BY ChainNumbers DEF Histories, Chains
<1>2. PICK i \in Adds(h) : h[i].gen = CurrentGen(h)
  BY <1>1 DEF Created
<1> DEFINE j == CHOOSE k \in Adds(h) : h[k].gen = CurrentGen(h)
<1>3. j \in Adds(h)
  BY <1>2
<1>4. CurrentEnv(h) = h[j].env
  BY <1>1 DEF CurrentEnv, EnvOf
<1> HIDE DEF j
<1>5. h[j].env \in Changes
  BY <1>1, <1>3, ChangeFields DEF Adds
<1> QED  BY <1>3, <1>4, <1>5 DEF Envs

-----------------------------------------------------------------------------
\* Every nonempty set of natural numbers has a smallest one.
LEMMA Smallest ==
    ASSUME NEW T, T \subseteq Nat, T # {}
    PROVE  \E x \in T : \A y \in T : x <= y
<1> DEFINE R == {ss \in Nat \X Nat : ss[1] < ss[2]}
<1>1. IsWellFoundedOn(R, Nat)
  BY NatLessThanWellFounded DEF OpToRel
<1>2. \E x \in T : \A y \in T : <<y, x>> \notin R
  <2> HIDE DEF R
  <2> QED  BY <1>1, WFMin
<1>3. PICK x \in T : \A y \in T : <<y, x>> \notin R
  BY <1>2
<1>4. \A y \in T : ~(y < x)
  BY <1>3
<1> QED  BY <1>4

\* Every nonempty set of positions has a last one.
LEMMA Largest ==
    ASSUME NEW n \in Nat, NEW T, T \subseteq 1..n, T # {}
    PROVE  \E x \in T : \A y \in T : y <= x
<1> DEFINE U == {n - x : x \in T}
<1>1. \A x \in T : n - x \in Nat /\ n - x \in U
  OBVIOUS
<1>2. PICK u \in U : \A v \in U : u <= v
  <2>1. U \subseteq Nat
    BY <1>1
  <2>2. U # {}
    BY <1>1
  <2> HIDE DEF U
  <2> QED  BY <2>1, <2>2, Smallest
<1>3. PICK x \in T : u = n - x
  BY <1>2
<1>4. \A y \in T : n - x <= n - y
  BY <1>2, <1>3
<1> QED  BY <1>4

\* When a generation that was touched has last stopped being live.
LEMMA LastLiveIs ==
    ASSUME NEW h \in Histories, NEW g \in Created(h)
    PROVE  \E i \in DOMAIN h :
               /\ h[i].gen = g \/ h[i].prev = g
               /\ \A j \in DOMAIN h : h[j].gen = g \/ h[j].prev = g => j <= i
               /\ LastLive(h, g) = IF h[i].gen = g THEN 0 ELSE h[i].at
<1> DEFINE touches == {i \in DOMAIN h : h[i].gen = g \/ h[i].prev = g}
           last == CHOOSE i \in touches : \A j \in touches : j <= i
<1>1. h \in Seq(Entry) /\ Len(h) \in Nat /\ DOMAIN h = 1..Len(h)
  BY LenProperties DEF Histories, Chains
<1>2. touches # {}
  BY DEF Created, Adds
<1>3. \E i \in touches : \A j \in touches : j <= i
  BY <1>1, <1>2, Largest
<1>4. last \in touches /\ \A j \in touches : j <= last
  BY <1>3
<1>5. LastLive(h, g) = IF h[last].gen = g THEN 0 ELSE h[last].at
  BY DEF LastLive
<1> HIDE DEF last
<1> QED  BY <1>4, <1>5

\* What determine_previous_generation finds: the generation that the last
\* change of the history made stop.
LEMMA PreviousIs ==
    ASSUME NEW h \in Histories, Cardinality(Created(h)) > 1
    PROVE  /\ PreviousGeneration(h) = Last(h).prev
           /\ Last(h).prev \in Created(h) \ {CurrentGen(h)}
<1> DEFINE n == Len(h)
           g == h[n].prev
           live == [k \in Created(h) |-> LastLive(h, k)]
<1>1. /\ h \in Seq(Entry) /\ h # <<>> /\ Created(h) = 1..TotalGenerations(h)
      /\ n \in Nat \ {0} /\ DOMAIN h = 1..n /\ Last(h) = h[n] /\ CurrentGen(h) = h[n].gen
      /\ \A i \in DOMAIN h : /\ h[i].gen \in Created(h) /\ h[i].gen # h[i].prev
                             /\ h[i].prev = IF i = 1 THEN NoGeneration ELSE h[i - 1].gen
      /\ \A i, j \in DOMAIN h : i < j => h[i].at < h[j].at
  BY LastOf, ChainNumbers DEF Histories, Chains
<1>2. n # 1
  <2> SUFFICES ASSUME n = 1 PROVE FALSE
    OBVIOUS
  <2>1. Created(h) \subseteq {h[1].gen}
    BY <1>1 DEF Created, Adds
  <2>2. IsFiniteSet({h[1].gen}) /\ Cardinality({h[1].gen}) = 1
    BY FS_Singleton
  <2>3. Cardinality(Created(h)) <= 1 /\ Cardinality(Created(h)) \in Nat
    BY <2>1, <2>2, FS_Subset, FS_CardinalityType
  <2> QED  BY <2>3
<1>3. g \in Created(h) /\ g # h[n].gen
  <2>1. n - 1 \in DOMAIN h /\ n \in DOMAIN h
    BY <1>1, <1>2
  <2> QED  BY <1>1, <1>2, <2>1
<1>4. h[n].at \in Nat \ {0}
  BY <1>1, ChangeFields
<1>5. live[g] = h[n].at
  <2>1. PICK i \in DOMAIN h :
               /\ \A j \in DOMAIN h : h[j].gen = g \/ h[j].prev = g => j <= i
               /\ LastLive(h, g) = IF h[i].gen = g THEN 0 ELSE h[i].at
    BY <1>3, LastLiveIs
  <2>2. i = n
    BY <1>1, <2>1
  <2> QED  BY <1>3, <2>1, <2>2
<1>6. ASSUME NEW k \in Created(h) \ {g}
      PROVE  live[k] \in Nat /\ live[k] < h[n].at
  <2>1. PICK i \in DOMAIN h :
               /\ h[i].gen = k \/ h[i].prev = k
               /\ \A j \in DOMAIN h : h[j].gen = k \/ h[j].prev = k => j <= i
               /\ LastLive(h, k) = IF h[i].gen = k THEN 0 ELSE h[i].at
    BY LastLiveIs
  <2>2. live[k] = LastLive(h, k) /\ h[i].at \in Nat
    BY <1>1, <2>1, ChangeFields
  <2>3. CASE h[i].gen = k
    BY <1>4, <2>1, <2>2, <2>3
  <2>4. CASE h[i].gen # k
    <3>1. i # n /\ i < n
      BY <1>1, <2>1, <2>4
    <3> QED  BY <1>1, <2>1, <2>2, <2>4, <3>1
  <2> QED  BY <2>3, <2>4
<1>7. PreviousGeneration(h) = CHOOSE m \in Created(h) : \A k \in Created(h) \ {m} :
                                  live[k] < live[m] \/ (live[k] = live[m] /\ k < m)
  BY DEF PreviousGeneration
<1> HIDE DEF live, g
<1>8. \A k \in Created(h) \ {g} : live[k] < live[g] \/ (live[k] = live[g] /\ k < g)
  BY <1>5, <1>6
<1>9. ASSUME NEW m \in Created(h), m # g,
             \A k \in Created(h) \ {m} : live[k] < live[m] \/ (live[k] = live[m] /\ k < m)
      PROVE  FALSE
  <2>1. live[g] < live[m] \/ live[g] = live[m]
    BY <1>3, <1>9
  <2>2. live[m] \in Nat /\ live[m] < h[n].at
    BY <1>6, <1>9
  <2> QED  BY <1>4, <1>5, <2>1, <2>2
<1>10. PreviousGeneration(h) = g
  BY <1>3, <1>7, <1>8, <1>9
<1> QED  BY <1>1, <1>3, <1>10 DEF g

-----------------------------------------------------------------------------
\* The sentinels are not histories.
LEMMA BranchCases ==
    ASSUME NEW c \in Nat
    PROVE  /\ NoBranch \in BranchesUntil(c) /\ NoBranch \notin Until(c)
           /\ Until(c) \subseteq BranchesUntil(c) /\ Until(c) \subseteq Histories
           /\ Until(c) \subseteq Seq(Entry) /\ Until(c) \subseteq Chains
           /\ \A b \in BranchesUntil(c) : b # NoBranch => b \in Until(c)
           /\ \A b \in Until(c) : b # <<>> /\ Last(b).at \in Nat /\ Last(b).at <= c
<1>1. Until(c) \subseteq Histories /\ Histories \subseteq Chains /\ Chains \subseteq Seq(Entry)
      /\ <<>> \notin Histories
  BY DEF Until, Histories, Chains
<1>2. NoBranch \notin Seq(Entry)
  BY ManagedAssumption
<1>3. \A b \in Until(c) : Last(b).at \in Nat
  BY <1>1, LastOf, ChangeFields
<1>4. \A b \in Until(c) : Last(b).at <= c
  BY DEF Until
<1> QED  BY <1>1, <1>2, <1>3, <1>4 DEF BranchesUntil

LEMMA LockCases ==
    ASSUME NEW c \in Nat
    PROVE  /\ NoLock \in LocksUntil(c)
           /\ \A l \in LocksUntil(c) : l # NoLock => l.rev \in Until(c) /\ l.local \in BranchesUntil(c)
           /\ \A r \in Until(c), b \in BranchesUntil(c) :
                  LET l == [rev |-> r, local |-> b] IN
                  l \in LocksUntil(c) /\ l # NoLock /\ l.rev = r /\ l.local = b
<1>1. \A r \in Until(c), b \in BranchesUntil(c) : r \in Branches /\ b \in Branches
  BY BranchCases DEF Branches
<1>2. \A r \in Until(c), b \in BranchesUntil(c) : [rev |-> r, local |-> b] # NoLock
  BY <1>1, ManagedAssumption
<1> QED  BY <1>2 DEF LocksUntil

\* Time only adds histories.
LEMMA Later ==
    ASSUME NEW c \in Nat, NEW n \in Nat, c <= n
    PROVE  /\ Until(c) \subseteq Until(n) /\ BranchesUntil(c) \subseteq BranchesUntil(n)
           /\ LocksUntil(c) \subseteq LocksUntil(n) /\ Commands(c) \subseteq Commands(n)
<1>1. Until(c) \subseteq Until(n)
  <2>1. \A h \in Until(c) : h \in Histories /\ Last(h).at \in Nat /\ Last(h).at <= c
    BY BranchCases
  <2> QED  BY <2>1 DEF Until
<1>2. BranchesUntil(c) \subseteq BranchesUntil(n)
  BY <1>1 DEF BranchesUntil
<1>3. LocksUntil(c) \subseteq LocksUntil(n)
  BY <1>1, <1>2 DEF LocksUntil
<1> QED  BY <1>1, <1>2, <1>3 DEF Commands

LEMMA DataLater ==
    ASSUME Typed, NEW n \in Nat, clock <= n
    PROVE  /\ hub \in BranchesUntil(n) /\ sync \in [Machines -> BranchesUntil(n)]
           /\ local \in [Dirs -> BranchesUntil(n)] /\ lock \in [Dirs -> LocksUntil(n)]
           /\ cmd \in [Procs -> Commands(n)]
<1>1. BranchesUntil(clock) \subseteq BranchesUntil(n) /\ LocksUntil(clock) \subseteq LocksUntil(n)
      /\ Commands(clock) \subseteq Commands(n)
  BY Later DEF Typed, Data
<1> QED  BY <1>1 DEF Typed, Data

\* The fields of a command.
LEMMA CommandFields ==
    ASSUME NEW n \in Nat, NEW c \in Commands(n)
    PROVE  /\ c.at \in Steps /\ c.kind \in AllKinds \cup {"none"} /\ c.dir \in Dirs \cup {"none"}
           /\ c.force \in BOOLEAN /\ c.lock \in LocksUntil(n) /\ c.seen \in BranchesUntil(n)
           /\ c.env \in EnvStates /\ c.target \in Nat /\ c.valid \in BOOLEAN
BY DEF Commands

\* A command that was ready stays so.
LEMMA ReadyLater ==
    ASSUME NEW m \in Nat, NEW n \in Nat, m <= n, NEW c \in Commands(m), Ready(c, m)
    PROVE  Ready(c, n)
<1>1. c.seen # NoBranch => Last(c.seen).at \in Nat
  BY BranchCases, CommandFields
<1>2. c.seen # NoBranch /\ Last(c.seen).at < m => Last(c.seen).at < n
  BY <1>1
<1> QED  BY <1>2 DEF Ready

\* One command changes.
LEMMA CommandStep ==
    ASSUME Typed, Prepared, NEW p \in Procs, clock' \in Nat, clock <= clock',
           NEW r \in Commands(clock'), Ready(r, clock'), cmd' = [cmd EXCEPT ![p] = r]
    PROVE  cmd' \in [Procs -> Commands(clock')] /\ Prepared'
<1>1. cmd \in [Procs -> Commands(clock')] /\ clock \in Nat /\ cmd \in [Procs -> Commands(clock)]
  BY DataLater DEF Typed, Data
<1>2. cmd' \in [Procs -> Commands(clock')]
  BY <1>1
<1>3. \A q \in Procs : Ready(cmd[q], clock')
  BY <1>1, ReadyLater DEF Prepared
<1>4. \A q \in Procs : cmd'[q] = IF q = p THEN r ELSE cmd[q]
  BY <1>1
<1> QED  BY <1>2, <1>3, <1>4 DEF Prepared

LEMMA IdleIs ==
    ASSUME NEW n \in Nat
    PROVE  Idle \in Commands(n) /\ Ready(Idle, n) /\ Idle.at = "idle" /\ Idle.lock = NoLock
BY BranchCases, LockCases DEF Idle, Commands, Ready, Steps, EnvStates

LEMMA EndStep ==
    ASSUME Typed, Prepared, NEW p \in Procs, clock' \in Nat, clock <= clock', End(p)
    PROVE  /\ cmd' \in [Procs -> Commands(clock')] /\ Prepared'
           /\ cmd'[p].lock = NoLock /\ \A q \in Procs : q # p => cmd'[q] = cmd[q]
<1>1. cmd' = [cmd EXCEPT ![p] = Idle] /\ cmd \in [Procs -> Commands(clock)]
  BY DEF End, Typed
<1>2. cmd' \in [Procs -> Commands(clock')] /\ Prepared'
  BY <1>1, IdleIs, CommandStep
<1>3. cmd'[p] = Idle /\ \A q \in Procs : q # p => cmd'[q] = cmd[q]
  BY <1>1
<1> QED  BY <1>2, <1>3, IdleIs

\* A command goes on to a step that needs no preparation.
LEMMA GoStep ==
    ASSUME Typed, Prepared, NEW p \in Procs, clock' \in Nat, clock <= clock',
           NEW step \in Steps \ {"swap", "swapping", "commit"}, Go(p, step), cmd[p].at # "idle"
    PROVE  /\ cmd' \in [Procs -> Commands(clock')] /\ Prepared'
           /\ cmd'[p].lock = cmd[p].lock /\ \A q \in Procs : q # p => cmd'[q] = cmd[q]
<1> DEFINE r == [cmd[p] EXCEPT !.at = step]
<1>1. cmd' = [cmd EXCEPT ![p] = r] /\ cmd \in [Procs -> Commands(clock)] /\ clock \in Nat
  BY DEF Go, Typed, Data
<1>2. cmd[p] \in Commands(clock') /\ Ready(cmd[p], clock')
  BY <1>1, DataLater, ReadyLater DEF Prepared
<1>3. r \in Commands(clock') /\ r.at = step /\ r.dir = cmd[p].dir /\ r.kind = cmd[p].kind
      /\ r.target = cmd[p].target /\ r.lock = cmd[p].lock
  BY <1>2 DEF Commands
<1>4. Ready(r, clock')
  BY <1>2, <1>3 DEF Ready
<1> HIDE DEF r
<1>5. cmd'[p] = r /\ \A q \in Procs : q # p => cmd'[q] = cmd[q]
  BY <1>1
<1> QED  BY <1>1, <1>3, <1>4, <1>5, CommandStep

-----------------------------------------------------------------------------
\* What a command that runs is about.
LEMMA Here ==
    ASSUME Inv, NEW p \in Procs
    PROVE  /\ Data /\ clock \in Nat /\ cmd[p] \in Commands(clock) /\ Ready(cmd[p], clock)
           /\ cmd \in [Procs -> Commands(clock)]
           /\ cmd[p].at # "idle" => Dir(p) \in Dirs /\ Machine(p) \in Machines
<1>1. Data /\ clock \in Nat /\ cmd[p] \in Commands(clock) /\ Ready(cmd[p], clock)
      /\ cmd \in [Procs -> Commands(clock)]
  BY DEF Inv, Typed, Data, Prepared
<1> QED  BY <1>1 DEF Ready, Dir, Machine, Machines

\* As long as FloxHub keeps its branch, what comes from it and what was known
\* of it before may be locked.
LEMMA UpstreamStep ==
    ASSUME Inv, hub' = hub, rewritten' = rewritten,
           \A m \in Machines : sync'[m] \in {NoBranch, sync[m], hub},
           \A d \in Dirs : lock'[d] # NoLock =>
               \/ lock'[d] = lock[d]
               \/ \E q \in Procs : lock'[d] = cmd[q].lock
               \/ \E m \in Machines : sync[m] # NoBranch /\ lock'[d].rev = sync[m],
           \A q \in Procs : cmd'[q].lock # NoLock =>
               \/ cmd'[q].lock = cmd[q].lock
               \/ \E d \in Dirs : cmd'[q].lock = lock[d]
               \/ hub # NoBranch /\ cmd'[q].lock.rev = hub
    PROVE  Upstream'
<1> SUFFICES ASSUME ~rewritten
             PROVE  /\ \A m \in Machines : sync'[m] # NoBranch => ContainsCommit(hub, sync'[m])
                    /\ \A d \in Dirs : lock'[d] # NoLock => ContainsCommit(hub, lock'[d].rev)
                    /\ \A q \in Procs : cmd'[q].lock # NoLock =>
                           ContainsCommit(hub, cmd'[q].lock.rev)
  BY DEF Upstream
<1>1. /\ \A m \in Machines : sync[m] # NoBranch => ContainsCommit(hub, sync[m])
      /\ \A d \in Dirs : lock[d] # NoLock => ContainsCommit(hub, lock[d].rev)
      /\ \A q \in Procs : cmd[q].lock # NoLock => ContainsCommit(hub, cmd[q].lock.rev)
  BY DEF Inv, Upstream
<1>2. hub # NoBranch => ContainsCommit(hub, hub)
  BY BranchCases, PrefixSelf DEF Inv, Typed, Data, ContainsCommit
<1>3. \A m \in Machines : sync'[m] # NoBranch => ContainsCommit(hub, sync'[m])
  BY <1>1, <1>2
<1>4. \A d \in Dirs : lock'[d] # NoLock => ContainsCommit(hub, lock'[d].rev)
  BY <1>1, <1>2
<1>5. \A q \in Procs : cmd'[q].lock # NoLock => ContainsCommit(hub, cmd'[q].lock.rev)
  BY <1>1, <1>2
<1> QED  BY <1>3, <1>4, <1>5

\* A command ends, or goes on to a step that needs no preparation.
GoesOn(p) ==
    cmd[p].at # "idle" /\ \E step \in Steps \ {"swap", "swapping", "commit"} : Go(p, step)

LEMMA GoesOnStep ==
    ASSUME Inv, NEW p \in Procs, clock' \in Nat, clock <= clock', End(p) \/ GoesOn(p)
    PROVE  /\ cmd' \in [Procs -> Commands(clock')] /\ Prepared'
           /\ \A q \in Procs : cmd'[q].lock # NoLock => cmd'[q].lock = cmd[q].lock
<1>1. Typed /\ Prepared
  BY DEF Inv
<1>2. CASE End(p)
  BY <1>1, <1>2, EndStep
<1>3. CASE GoesOn(p)
  <2>1. PICK step \in Steps \ {"swap", "swapping", "commit"} : Go(p, step)
    BY <1>3 DEF GoesOn
  <2>2. cmd[p].at # "idle"
    BY <1>3 DEF GoesOn
  <2> QED  BY <1>1, <2>1, <2>2, GoStep
<1> QED  BY <1>2, <1>3

\* A command is replaced by another.
LEMMA ReplaceStep ==
    ASSUME Inv, NEW p \in Procs, clock' \in Nat, clock <= clock',
           NEW r \in Commands(clock'), Ready(r, clock'), cmd' = [cmd EXCEPT ![p] = r]
    PROVE  /\ cmd' \in [Procs -> Commands(clock')] /\ Prepared'
           /\ cmd'[p] = r /\ \A q \in Procs : q # p => cmd'[q] = cmd[q]
<1>1. Typed /\ Prepared /\ cmd \in [Procs -> Commands(clock)]
  BY DEF Inv, Typed
<1> QED  BY <1>1, CommandStep

\* Steps that only change the files of a directory.
LEMMA FilesStep ==
    ASSUME Inv, UNCHANGED <<repoVars, lock, rewritten>>,
           clock' \in Nat, clock <= clock',
           env' \in [Dirs -> EnvStates], backup' \in [Dirs -> EnvStates],
           pointer' \in [Dirs -> {"managed", "path", "none"}],
           registered' \subseteq Dirs, touched' \subseteq Dirs,
           crashes' \in 0..MaxCrashes, saved' \in [Dirs -> SUBSET Changes],
           cmd' \in [Procs -> Commands(clock')], Prepared',
           \A q \in Procs : cmd'[q].lock # NoLock =>
               \/ cmd'[q].lock = cmd[q].lock
               \/ \E d \in Dirs : cmd'[q].lock = lock[d]
    PROVE  Inv'
<1>1. Data'
  <2>1. hub \in BranchesUntil(clock') /\ sync \in [Machines -> BranchesUntil(clock')]
        /\ local \in [Dirs -> BranchesUntil(clock')] /\ lock \in [Dirs -> LocksUntil(clock')]
        /\ rewritten \in BOOLEAN
    BY DataLater DEF Inv, Typed, Data
  <2> QED  BY <2>1 DEF Data, repoVars
<1>2. Upstream'
  <2>1. hub' = hub /\ sync' = sync /\ lock' = lock /\ rewritten' = rewritten
    BY DEF repoVars
  <2> QED  BY <2>1, UpstreamStep
<1> QED  BY <1>1, <1>2 DEF Inv, Typed

LEMMA NowIs ==
    ASSUME Inv
    PROVE  Now \in Nat /\ Now \in Changes /\ clock <= Now /\ clock < Now /\ Now \in EnvStates
BY DEF Inv, Typed, Data, Now, Changes, EnvStates

LEMMA SwapOutKeeps ==
    ASSUME Inv, NEW p \in Procs, SwapOut(p)
    PROVE  Inv'
<1>1. /\ Data /\ clock \in Nat /\ cmd[p] \in Commands(clock) /\ Ready(cmd[p], clock)
      /\ cmd \in [Procs -> Commands(clock)] /\ cmd[p].at = "swap" /\ Dir(p) \in Dirs
  BY Here DEF SwapOut, At
<1>2. env' \in [Dirs -> EnvStates] /\ backup' \in [Dirs -> EnvStates]
  BY <1>1 DEF SwapOut, Data, EnvStates
<1>3. /\ cmd' \in [Procs -> Commands(clock')] /\ Prepared'
      /\ \A q \in Procs : cmd'[q].lock # NoLock => cmd'[q].lock = cmd[q].lock
  <2>1. clock' = clock
    BY DEF SwapOut
  <2>2. CASE End(p)
    BY <1>1, <2>1, <2>2, GoesOnStep
  <2>3. CASE Go(p, "swapping")
    <3> DEFINE r == [cmd[p] EXCEPT !.at = "swapping"]
    <3>1. r \in Commands(clock) /\ r.at = "swapping" /\ r.kind = cmd[p].kind /\ r.dir = cmd[p].dir
          /\ r.target = cmd[p].target /\ r.lock = cmd[p].lock
      BY <1>1 DEF Commands, Steps
    <3>2. Ready(r, clock) /\ cmd' = [cmd EXCEPT ![p] = r]
      BY <1>1, <2>3, <3>1 DEF Ready, Go
    <3> HIDE DEF r
    <3>3. r \in Commands(clock') /\ Ready(r, clock') /\ clock' \in Nat /\ clock <= clock'
      BY <1>1, <2>1, <3>1, <3>2
    <3>4. /\ cmd' \in [Procs -> Commands(clock')] /\ Prepared'
          /\ cmd'[p] = r /\ \A q \in Procs : q # p => cmd'[q] = cmd[q]
      BY <3>2, <3>3, ReplaceStep
    <3> QED  BY <3>1, <3>4
  <2> QED  BY <2>2, <2>3 DEF SwapOut
<1>4. UNCHANGED <<repoVars, lock, rewritten, clock, pointer, registered, touched, crashes, saved>>
  BY DEF SwapOut, histVars
<1> QED  BY <1>1, <1>2, <1>3, <1>4, FilesStep DEF Data

LEMMA SwapInKeeps ==
    ASSUME Inv, NEW p \in Procs, SwapIn(p)
    PROVE  Inv'
<1>1. /\ Data /\ clock \in Nat /\ cmd[p] \in Commands(clock) /\ Ready(cmd[p], clock)
      /\ cmd \in [Procs -> Commands(clock)] /\ cmd[p].at = "swapping" /\ Dir(p) \in Dirs
  BY Here DEF SwapIn, At
<1>2. clock' \in Nat /\ clock <= clock' /\ clock < clock' /\ Now \in EnvStates
  BY NowIs DEF SwapIn, Tick
<1>3. env' \in [Dirs -> EnvStates] /\ backup' \in [Dirs -> EnvStates]
  BY <1>1, <1>2 DEF SwapIn, Data, EnvStates
<1>4. /\ cmd' \in [Procs -> Commands(clock')] /\ Prepared'
      /\ \A q \in Procs : cmd'[q].lock # NoLock => cmd'[q].lock = cmd[q].lock
  <2>1. CASE End(p)
    BY <1>1, <1>2, <2>1, GoesOnStep
  <2>2. CASE Go(p, "commit") /\ cmd[p].seen # NoBranch
    <3> DEFINE r == [cmd[p] EXCEPT !.at = "commit"]
    <3>1. cmd[p] \in Commands(clock')
      BY <1>1, <1>2, Later
    <3>2. r \in Commands(clock') /\ r.at = "commit" /\ r.kind = cmd[p].kind /\ r.dir = cmd[p].dir
          /\ r.target = cmd[p].target /\ r.lock = cmd[p].lock /\ r.seen = cmd[p].seen
      BY <3>1 DEF Commands, Steps
    <3>3. r.kind = "install" /\ cmd' = [cmd EXCEPT ![p] = r]
      BY <1>1, <2>2, <3>2 DEF Ready, Go
    <3>4. Last(r.seen).at < clock'
      <4>1. r.seen \in Until(clock)
        BY <1>1, <2>2, <3>2, BranchCases, CommandFields
      <4>2. Last(r.seen).at \in Nat /\ Last(r.seen).at <= clock
        BY <1>1, <4>1, BranchCases
      <4> QED  BY <1>1, <1>2, <4>2
    <3> HIDE DEF r
    <3>5. Ready(r, clock')
      BY <1>1, <3>2, <3>3, <3>4 DEF Ready
    <3>6. /\ cmd' \in [Procs -> Commands(clock')] /\ Prepared'
          /\ cmd'[p] = r /\ \A q \in Procs : q # p => cmd'[q] = cmd[q]
      BY <1>2, <3>2, <3>3, <3>5, ReplaceStep
    <3> QED  BY <3>2, <3>6
  <2> QED  BY <2>1, <2>2 DEF SwapIn
<1>5. UNCHANGED <<repoVars, lock, rewritten, pointer, registered, touched, crashes, saved>>
  BY DEF SwapIn, histVars
<1> QED  BY <1>1, <1>2, <1>3, <1>4, <1>5, FilesStep DEF Data

\* The steps after which a command ends, or goes on unprepared, and that only
\* change files.
LEMMA EndFilesStep ==
    ASSUME Inv, NEW p \in Procs, UNCHANGED <<repoVars, lock, rewritten, clock>>,
           End(p) \/ GoesOn(p),
           env' \in [Dirs -> EnvStates], backup' \in [Dirs -> EnvStates],
           pointer' \in [Dirs -> {"managed", "path", "none"}],
           registered' \subseteq Dirs, touched' \subseteq Dirs,
           crashes' \in 0..MaxCrashes, saved' \in [Dirs -> SUBSET Changes]
    PROVE  Inv'
<1>1. clock' \in Nat /\ clock <= clock'
  BY DEF Inv, Typed, Data
<1>2. /\ cmd' \in [Procs -> Commands(clock')] /\ Prepared'
      /\ \A q \in Procs : cmd'[q].lock # NoLock => cmd'[q].lock = cmd[q].lock
  BY <1>1, GoesOnStep
<1> QED  BY <1>1, <1>2, FilesStep

LEMMA SwapFailsKeeps ==
    ASSUME Inv, NEW p \in Procs, SwapFails(p)
    PROVE  Inv'
<1>1. Data /\ Dir(p) \in Dirs
  BY Here DEF SwapFails, At
<1>2. env' \in [Dirs -> EnvStates] /\ backup' \in [Dirs -> EnvStates]
  BY <1>1 DEF SwapFails, Data, EnvStates
<1> QED  BY <1>1, <1>2, EndFilesStep DEF SwapFails, histVars, Data

LEMMA CopyEnvKeeps ==
    ASSUME Inv, NEW p \in Procs, CopyEnv(p)
    PROVE  Inv'
<1>1. Data /\ Dir(p) \in Dirs /\ cmd[p].env \in EnvStates
  BY Here, CommandFields DEF CopyEnv, At
<1>2. env' \in [Dirs -> EnvStates]
  BY <1>1 DEF CopyEnv, Data, EnvStates
<1> QED  BY <1>1, <1>2, EndFilesStep DEF CopyEnv, Data

LEMMA CompareKeeps ==
    ASSUME Inv, NEW p \in Procs, Compare(p)
    PROVE  Inv'
<1>1. Data /\ cmd[p].at = "compare"
  BY Here DEF Compare, At
<1>2. AfterCompare(p) \in {"push", "idle", "reset", "apply"}
  BY DEF AfterCompare
<1>3. End(p) \/ GoesOn(p)
  BY <1>1, <1>2 DEF Compare, GoesOn, Steps
<1> QED  BY <1>1, <1>3, EndFilesStep DEF Compare, histVars, dirVars, Data

LEMMA DeregisterKeeps ==
    ASSUME Inv, NEW p \in Procs, Deregister(p)
    PROVE  Inv'
<1>1. Data /\ cmd[p].at = "deregister"
  BY Here DEF Deregister, At
<1>2. End(p) \/ GoesOn(p)
  BY <1>1 DEF Deregister, GoesOn, Steps
<1> QED  BY <1>1, <1>2, EndFilesStep DEF Deregister, histVars, dirVars, Data

LEMMA FailsKeeps ==
    ASSUME Inv, NEW p \in Procs, Fails(p)
    PROVE  Inv'
<1>1. Data
  BY Here
<1> QED  BY <1>1, EndFilesStep DEF Fails, histVars, dirVars, Data

LEMMA CrashKeeps ==
    ASSUME Inv, NEW p \in Procs, Crash(p)
    PROVE  Inv'
<1>1. Data /\ Dir(p) \in Dirs
  BY Here DEF Crash, At
<1>2. crashes' \in 0..MaxCrashes
  BY <1>1, ManagedAssumption DEF Crash, Data
<1>3. env' \in [Dirs -> EnvStates]
  <2>1. \E e \in {NoEnv, Partial, env[Dir(p)]} : env' = [env EXCEPT ![Dir(p)] = e]
    BY DEF Crash
  <2>2. env[Dir(p)] \in EnvStates
    BY <1>1 DEF Data
  <2> QED  BY <1>1, <2>1, <2>2 DEF Data, EnvStates
<1>4. touched' \subseteq Dirs
  BY <1>1 DEF Crash, Data
<1> QED  BY <1>1, <1>2, <1>3, <1>4, EndFilesStep DEF Crash, Data

LEMMA HandEditKeeps ==
    ASSUME Inv, NEW d \in Dirs, HandEdit(d)
    PROVE  Inv'
<1>1. Data /\ Typed /\ Prepared
  BY DEF Inv, Typed
<1>2. clock' \in Nat /\ clock <= clock' /\ Now \in EnvStates
  BY NowIs DEF HandEdit, Tick
<1>3. env' \in [Dirs -> EnvStates] /\ touched' \subseteq Dirs
  BY <1>1, <1>2 DEF HandEdit, Data
<1>4. cmd' \in [Procs -> Commands(clock')] /\ Prepared' /\ cmd' = cmd
  <2>1. cmd' = cmd /\ cmd \in [Procs -> Commands(clock')] /\ clock \in Nat
    BY <1>1, <1>2, DataLater DEF HandEdit, Data
  <2>2. \A q \in Procs : Ready(cmd[q], clock')
    BY <1>1, <1>2, <2>1, ReadyLater DEF Prepared, Typed
  <2> QED  BY <2>1, <2>2 DEF Prepared
<1>5. UNCHANGED <<repoVars, lock, rewritten, backup, pointer, registered, crashes, saved>>
  BY DEF HandEdit
<1> QED  BY <1>1, <1>2, <1>3, <1>4, <1>5, FilesStep DEF Data

LEMMA RestoreBackupKeeps ==
    ASSUME Inv, NEW d \in Dirs, RestoreBackup(d)
    PROVE  Inv'
<1>1. Data /\ Typed /\ Prepared
  BY DEF Inv, Typed
<1>2. env' \in [Dirs -> EnvStates] /\ backup' \in [Dirs -> EnvStates] /\ touched' \subseteq Dirs
  BY <1>1 DEF RestoreBackup, Data, EnvStates
<1>3. clock' \in Nat /\ clock <= clock'
  BY <1>1 DEF RestoreBackup, Data
<1>4. cmd' \in [Procs -> Commands(clock')] /\ Prepared' /\ cmd' = cmd
  BY <1>1 DEF RestoreBackup, Typed, Prepared
<1>5. UNCHANGED <<repoVars, lock, rewritten, pointer, registered, crashes, saved>>
  BY DEF RestoreBackup
<1> QED  BY <1>1, <1>2, <1>3, <1>4, <1>5, FilesStep DEF Data

LEMMA RemoveEnvKeeps ==
    ASSUME Inv, NEW p \in Procs, RemoveEnv(p)
    PROVE  Inv'
<1> DEFINE d == Dir(p)
<1>1. /\ Data /\ clock \in Nat /\ cmd[p] \in Commands(clock) /\ Ready(cmd[p], clock)
      /\ cmd[p].at # "idle" /\ Dir(p) \in Dirs
  BY Here DEF RemoveEnv, At
<1>2. UNCHANGED <<repoVars, lock, rewritten, clock, backup, pointer, registered, touched,
                  crashes, saved>>
  BY DEF RemoveEnv, histVars
<1>3. env' \in [Dirs -> EnvStates]
  BY <1>1 DEF RemoveEnv, Data, EnvStates
<1>4. CASE End(p)
  BY <1>1, <1>2, <1>3, <1>4, EndFilesStep DEF Data
<1>5. CASE local[d] # NoBranch /\ env[d] # NoEnv
  <2> DEFINE r == [cmd[p] EXCEPT !.at = "copy", !.lock = NoLock, !.env = CurrentEnv(local[d])]
  <2>1. CurrentEnv(local[d]) \in EnvStates
    <3>1. local[d] \in Histories
      BY <1>1, <1>5, BranchCases DEF Data
    <3> QED  BY <3>1, LiveEnv DEF EnvStates
  <2>2. r \in Commands(clock) /\ r.at = "copy" /\ r.lock = NoLock /\ r.kind = cmd[p].kind
        /\ r.dir = cmd[p].dir /\ r.target = cmd[p].target
    BY <1>1, <2>1, LockCases DEF Commands, Steps
  <2>3. Ready(r, clock)
    BY <1>1, <2>2 DEF Ready
  <2>4. cmd' = [cmd EXCEPT ![p] = r]
    BY <1>5 DEF RemoveEnv
  <2> HIDE DEF r
  <2>5. clock' \in Nat /\ clock <= clock' /\ r \in Commands(clock') /\ Ready(r, clock')
    BY <1>1, <1>2, <2>2, <2>3
  <2>6. /\ cmd' \in [Procs -> Commands(clock')] /\ Prepared'
        /\ cmd'[p] = r /\ \A q \in Procs : q # p => cmd'[q] = cmd[q]
    BY <2>4, <2>5, ReplaceStep
  <2>7. \A q \in Procs : cmd'[q].lock # NoLock => cmd'[q].lock = cmd[q].lock
    BY <2>2, <2>6
  <2> QED  BY <1>1, <1>2, <1>3, <2>5, <2>6, <2>7, FilesStep DEF Data
<1> QED  BY <1>4, <1>5 DEF RemoveEnv

LEMMA WritePointerKeeps ==
    ASSUME Inv, NEW p \in Procs, WritePointer(p)
    PROVE  Inv'
<1> DEFINE d == Dir(p)
<1>1. /\ Data /\ clock \in Nat /\ cmd[p] \in Commands(clock) /\ Ready(cmd[p], clock)
      /\ cmd[p].at # "idle" /\ Dir(p) \in Dirs
  BY Here DEF WritePointer, At
<1>2. UNCHANGED <<repoVars, lock, rewritten, clock, env, backup, registered, crashes, saved>>
  BY DEF WritePointer
<1>3. pointer' \in [Dirs -> {"managed", "path", "none"}] /\ touched' \subseteq Dirs
  BY <1>1 DEF WritePointer, Data
<1>4. CASE End(p)
  BY <1>1, <1>2, <1>3, <1>4, EndFilesStep DEF Data
<1>5. CASE cmd[p].kind = "import"
  <2> DEFINE r == [cmd[p] EXCEPT !.at = "read", !.lock = lock[d]]
  <2>1. r \in Commands(clock) /\ r.at = "read" /\ r.lock = lock[d] /\ r.kind = cmd[p].kind
        /\ r.dir = cmd[p].dir /\ r.target = cmd[p].target
    BY <1>1 DEF Commands, Steps, Data
  <2>2. Ready(r, clock)
    BY <1>1, <2>1 DEF Ready
  <2>3. cmd' = [cmd EXCEPT ![p] = r]
    BY <1>5 DEF WritePointer
  <2> HIDE DEF r
  <2>4. clock' \in Nat /\ clock <= clock' /\ r \in Commands(clock') /\ Ready(r, clock')
    BY <1>1, <1>2, <2>1, <2>2
  <2>5. /\ cmd' \in [Procs -> Commands(clock')] /\ Prepared'
        /\ cmd'[p] = r /\ \A q \in Procs : q # p => cmd'[q] = cmd[q]
    BY <2>3, <2>4, ReplaceStep
  <2>6. \A q \in Procs : cmd'[q].lock # NoLock =>
               \/ cmd'[q].lock = cmd[q].lock
               \/ \E e \in Dirs : cmd'[q].lock = lock[e]
    BY <1>1, <2>1, <2>5
  <2> QED  BY <1>1, <1>2, <1>3, <2>4, <2>5, <2>6, FilesStep DEF Data
<1> QED  BY <1>4, <1>5 DEF WritePointer

\* A switch is to a generation that was created, by number or as the previous.
LEMMA TargetCreated ==
    ASSUME Inv, NEW p \in Procs, cmd[p].at = "opened", local[Dir(p)] # NoBranch,
           cmd[p].kind \in {"switch", "rollback"}, MaySwitch(p)
    PROVE  TargetOf(p) \in Created(local[Dir(p)]) \ {CurrentGen(local[Dir(p)])}
<1> DEFINE h == local[Dir(p)]
<1>1. /\ Data /\ clock \in Nat /\ cmd[p] \in Commands(clock) /\ Ready(cmd[p], clock)
      /\ Dir(p) \in Dirs
  BY Here
<1>2. h \in Histories /\ h \in Chains
  BY <1>1, BranchCases DEF Data
<1>3. Created(h) = 1..TotalGenerations(h) /\ TotalGenerations(h) \in Nat
  BY <1>2, ChainNumbers DEF Chains
<1>4. CASE cmd[p].kind = "rollback"
  <2>1. Cardinality(Created(h)) > 1 /\ TargetOf(p) = PreviousGeneration(h)
    BY <1>4 DEF MaySwitch, TargetOf
  <2> HIDE DEF h
  <2>2. PreviousGeneration(h) = Last(h).prev /\ Last(h).prev \in Created(h) \ {CurrentGen(h)}
    BY <1>2, <2>1, PreviousIs
  <2> QED  BY <2>1, <2>2 DEF h
<1>5. CASE cmd[p].kind = "switch"
  <2>1. TargetOf(p) = cmd[p].target /\ cmd[p].target \in Nat /\ cmd[p].target # 0
    BY <1>1, <1>5, CommandFields DEF TargetOf, Ready
  <2>2. TargetOf(p) # CurrentGen(h) /\ ~(TargetOf(p) > TotalGenerations(h))
    BY DEF MaySwitch, SwitchRefused
  <2> QED  BY <1>3, <2>1, <2>2
<1> QED  BY <1>4, <1>5

LEMMA CheckKeeps ==
    ASSUME Inv, NEW p \in Procs, Check(p)
    PROVE  Inv'
<1> DEFINE d == Dir(p)
<1>1. /\ Data /\ clock \in Nat /\ cmd[p] \in Commands(clock) /\ Ready(cmd[p], clock)
      /\ cmd[p].at = "opened" /\ Dir(p) \in Dirs
  BY Here DEF Check, At
<1>2. UNCHANGED <<repoVars, lock, rewritten, clock, backup, pointer, registered, touched,
                  crashes, saved>>
  BY DEF Check, histVars
<1>3. local[d] # NoBranch => LocalEnv(d) \in EnvStates
  <2>1. local[d] # NoBranch => local[d] \in Histories
    BY <1>1, BranchCases DEF Data
  <2> QED  BY <1>1, <2>1, LiveEnv DEF LocalEnv, Data, EnvStates
<1>4. env' \in [Dirs -> EnvStates]
  BY <1>1, <1>3 DEF Check, Data
<1>5. CASE End(p)
  BY <1>1, <1>2, <1>4, <1>5, EndFilesStep DEF Data
<1>6. CASE local[d] # NoBranch /\ AfterOpen(p) # "idle" /\ ~End(p)
  <2> DEFINE next == AfterOpen(p)
             k == cmd[p].kind
             r == [cmd[p] EXCEPT !.at = next, !.lock = NoLock, !.valid = Valid(d),
                                 !.seen = IF next \in {"swap", "commit"}
                                          THEN local[d] ELSE NoBranch,
                                 !.target = IF k \in {"switch", "rollback"}
                                            THEN TargetOf(p) ELSE 0]
  <2>1. cmd' = [cmd EXCEPT ![p] = r]
    BY <1>6 DEF Check
  <2>2. /\ next \in {"swap", "commit", "fetch", "prune", "idle"}
        /\ next = "swap" => k = "install"
        /\ next = "commit" => k \in {"switch", "rollback", "sync"}
        /\ next # "idle" /\ k \in {"switch", "rollback"} => MaySwitch(p)
    BY DEF AfterOpen
  <2>3. k \in {"switch", "rollback"} =>
            TargetOf(p) \in Created(local[d]) \ {CurrentGen(local[d])} /\ TargetOf(p) \in Nat
           /\ TargetOf(p) # 0
    <3>1. local[d] \in Chains
      BY <1>1, <1>6, BranchCases DEF Data
    <3>2. Created(local[d]) \subseteq Nat \ {0}
      BY <3>1, ChainNumbers DEF Chains
    <3> QED  BY <1>1, <1>6, <2>2, <3>2, TargetCreated
  <2>4. Valid(d) \in BOOLEAN
    BY DEF Valid
  <2>5. local[d] \in BranchesUntil(clock) /\ NoBranch \in BranchesUntil(clock)
        /\ NoLock \in LocksUntil(clock)
    BY <1>1, BranchCases, LockCases DEF Data
  <2> HIDE DEF next
  <2>6. r \in Commands(clock)
    BY <1>1, <1>6, <2>2, <2>3, <2>4, <2>5 DEF Commands, Steps
  <2>7. r.at = next /\ r.kind = k /\ r.lock = NoLock /\ r.dir = cmd[p].dir
        /\ r.seen = (IF next \in {"swap", "commit"} THEN local[d] ELSE NoBranch)
        /\ r.target = (IF k \in {"switch", "rollback"} THEN TargetOf(p) ELSE 0)
    BY <1>1 DEF Commands
  <2> HIDE DEF r
  <2>8. Ready(r, clock)
    BY <1>1, <1>6, <2>2, <2>3, <2>7 DEF Ready
  <2>9. clock' \in Nat /\ clock <= clock' /\ r \in Commands(clock') /\ Ready(r, clock')
    BY <1>1, <1>2, <2>6, <2>8
  <2>10. /\ cmd' \in [Procs -> Commands(clock')] /\ Prepared'
         /\ cmd'[p] = r /\ \A q \in Procs : q # p => cmd'[q] = cmd[q]
    BY <2>1, <2>9, ReplaceStep
  <2>11. \A q \in Procs : cmd'[q].lock # NoLock => cmd'[q].lock = cmd[q].lock
    BY <2>7, <2>10
  <2> QED  BY <1>1, <1>2, <1>4, <2>9, <2>10, <2>11, FilesStep DEF Data
<1> QED  BY <1>5, <1>6 DEF Check

\* `generations switch` is given the number of a generation, which is not 0.
LEMMA BeginKeeps ==
    ASSUME 0 \notin Targets, Inv, NEW p \in Procs, NEW d \in Dirs, NEW k \in Kinds,
           NEW f \in Forces, Begin(p, d, k, f)
    PROVE  Inv'
<1>1. Data /\ clock \in Nat /\ cmd \in [Procs -> Commands(clock)]
  BY Here
<1>2. UNCHANGED <<repoVars, lock, rewritten, clock, env, backup, registered, touched,
                  crashes, saved>>
  BY DEF Begin, histVars
<1>3. pointer' \in [Dirs -> {"managed", "path", "none"}]
  BY <1>1 DEF Begin, Data
<1> DEFINE at == IF pointer[d] # "path" THEN "read"
                 ELSE IF k = "install" THEN "swap" ELSE "push"
<1>4. PICK t \in (IF k = "switch" THEN Targets ELSE {0}) :
          cmd' = [cmd EXCEPT ![p] = [Idle EXCEPT
                    !.at = at, !.kind = k, !.dir = d, !.force = f, !.lock = lock[d],
                    !.target = t]]
  BY DEF Begin
<1>5. at \in {"read", "swap", "push"} /\ (at = "swap" => k = "install")
  OBVIOUS
<1> HIDE DEF at
<1> DEFINE r == [Idle EXCEPT !.at = at, !.kind = k, !.dir = d, !.force = f,
                             !.lock = lock[d], !.target = t]
<1>6. r.at = at /\ r.kind = k /\ r.dir = d /\ r.lock = lock[d] /\ r.target = t
  BY DEF Idle
<1>7. r \in Commands(clock)
  <2>1. Idle \in Commands(clock)
    BY <1>1, IdleIs
  <2>2. k \in AllKinds /\ f \in BOOLEAN /\ t \in Nat /\ lock[d] \in LocksUntil(clock)
    BY <1>1, ManagedAssumption DEF Data
  <2> QED  BY <1>5, <2>1, <2>2 DEF Commands, Steps
<1>8. cmd' = [cmd EXCEPT ![p] = r]
  BY <1>4
<1> HIDE DEF r
<1>9. Ready(r, clock)
  BY <1>5, <1>6 DEF Ready
<1>10. clock' \in Nat /\ clock <= clock' /\ r \in Commands(clock') /\ Ready(r, clock')
  BY <1>1, <1>2, <1>7, <1>9
<1>11. /\ cmd' \in [Procs -> Commands(clock')] /\ Prepared'
       /\ cmd'[p] = r /\ \A q \in Procs : q # p => cmd'[q] = cmd[q]
  BY <1>8, <1>10, ReplaceStep
<1>12. \A q \in Procs : cmd'[q].lock # NoLock =>
               \/ cmd'[q].lock = cmd[q].lock
               \/ \E e \in Dirs : cmd'[q].lock = lock[e]
  BY <1>6, <1>11
<1> QED  BY <1>1, <1>2, <1>3, <1>10, <1>11, <1>12, FilesStep DEF Data

-----------------------------------------------------------------------------
LEMMA OpenedIs ==
    ASSUME Inv, NEW m \in Machines
    PROVE  Opened(m) \in BranchesUntil(clock) /\ Opened(m) \in {sync[m], hub}
BY DEF Inv, Typed, Data, Opened

LEMMA LockedRevIs ==
    ASSUME NEW c \in Nat, NEW l \in LocksUntil(c), l # NoLock
    PROVE  LockedRev(l) \in Until(c)
<1>1. l.rev \in Until(c) /\ l.local \in BranchesUntil(c)
  BY LockCases
<1>2. l.local # NoBranch => l.local \in Until(c)
  BY <1>1, BranchCases
<1> QED  BY <1>1, <1>2 DEF LockedRev

LEMMA OpenBranchKeeps ==
    ASSUME Inv, NEW p \in Procs, OpenBranch(p)
    PROVE  Inv'
<1> DEFINE d == Dir(p)
           m == Machine(p)
           l == cmd[p].lock
           fetched == IF MustFetch(d, l) THEN hub ELSE Opened(m)
           validated == IF l = NoLock THEN [rev |-> fetched, local |-> NoBranch] ELSE l
<1>1. /\ Data /\ clock \in Nat /\ cmd[p] \in Commands(clock) /\ Ready(cmd[p], clock)
      /\ cmd[p].at # "idle" /\ d \in Dirs /\ m \in Machines
      /\ cmd \in [Procs -> Commands(clock)]
  BY Here DEF OpenBranch, At
<1>2. Opened(m) \in BranchesUntil(clock) /\ Opened(m) \in {sync[m], hub}
      /\ fetched \in BranchesUntil(clock) /\ fetched \in {sync[m], hub}
  BY <1>1, OpenedIs DEF Data
<1>3. sync' = [sync EXCEPT ![m] = IF fetched = NoBranch THEN Opened(m) ELSE fetched]
  BY DEF OpenBranch
<1>4. UNCHANGED <<hub, lock, env, backup, registered, clock, histVars>>
  BY DEF OpenBranch
<1>5. l \in LocksUntil(clock)
  BY <1>1, CommandFields
<1>6. \/ End(p) /\ UNCHANGED local
         /\ pointer' = [pointer EXCEPT ![d] = IF cmd[p].kind = "pullNew" THEN "none" ELSE @]
      \/ /\ fetched # NoBranch
         /\ local' = [local EXCEPT ![d] = LockedRev(validated)]
         /\ cmd' = [cmd EXCEPT ![p].at = "branch", ![p].lock = validated]
         /\ UNCHANGED pointer
  BY DEF OpenBranch
<1>7. fetched # NoBranch => /\ validated \in LocksUntil(clock) /\ validated # NoLock
                            /\ l = NoLock => validated.rev = fetched
  <2>1. fetched # NoBranch => fetched \in Until(clock) /\ NoBranch \in BranchesUntil(clock)
    BY <1>1, <1>2, BranchCases
  <2> HIDE DEF fetched
  <2>2. fetched # NoBranch =>
            LET v == [rev |-> fetched, local |-> NoBranch] IN
            v \in LocksUntil(clock) /\ v # NoLock /\ v.rev = fetched
    BY <1>1, <2>1, LockCases
  <2> QED  BY <1>5, <2>2
<1>8. l = NoLock => fetched = hub
  BY DEF MustFetch
<1>9. l # NoLock => validated = l
  OBVIOUS
<1> HIDE DEF fetched, validated
<1>10. fetched # NoBranch => LockedRev(validated) \in BranchesUntil(clock)
  BY <1>1, <1>7, LockedRevIs, BranchCases
<1>11. Data'
  <2>1. sync' \in [Machines -> BranchesUntil(clock)]
    BY <1>1, <1>2, <1>3 DEF Data
  <2>2. local' \in [Dirs -> BranchesUntil(clock)]
    BY <1>1, <1>6, <1>10 DEF Data
  <2>3. pointer' \in [Dirs -> {"managed", "path", "none"}]
    BY <1>1, <1>6 DEF Data
  <2> QED  BY <1>1, <1>4, <2>1, <2>2, <2>3 DEF Data, histVars
<1>12. /\ cmd' \in [Procs -> Commands(clock')] /\ Prepared'
       /\ \A q \in Procs : cmd'[q].lock # NoLock =>
               \/ cmd'[q].lock = cmd[q].lock
               \/ hub # NoBranch /\ cmd'[q].lock.rev = hub
  <2>1. clock' \in Nat /\ clock <= clock' /\ clock' = clock
    BY <1>1, <1>4
  <2>2. CASE End(p)
    BY <2>1, <2>2, GoesOnStep
  <2>3. CASE fetched # NoBranch /\ cmd' = [cmd EXCEPT ![p].at = "branch", ![p].lock = validated]
    <3> DEFINE r == [cmd[p] EXCEPT !.at = "branch", !.lock = validated]
    <3>1. r \in Commands(clock') /\ r.at = "branch" /\ r.lock = validated
          /\ r.kind = cmd[p].kind /\ r.dir = cmd[p].dir /\ r.target = cmd[p].target
      BY <1>1, <1>7, <2>1, <2>3 DEF Commands, Steps
    <3>2. cmd' = [cmd EXCEPT ![p] = r]
      BY <2>3
    <3> HIDE DEF r
    <3>3. Ready(r, clock')
      BY <1>1, <3>1 DEF Ready
    <3>4. /\ cmd' \in [Procs -> Commands(clock')] /\ Prepared'
          /\ cmd'[p] = r /\ \A q \in Procs : q # p => cmd'[q] = cmd[q]
      BY <2>1, <3>1, <3>2, <3>3, ReplaceStep
    <3> QED  BY <1>7, <1>8, <1>9, <2>3, <3>1, <3>4
  <2> QED  BY <1>6, <2>2, <2>3
<1>13. Upstream'
  <2>1. \A n \in Machines : sync'[n] \in {NoBranch, sync[n], hub}
    BY <1>1, <1>2, <1>3 DEF Data
  <2>2. hub' = hub /\ lock' = lock /\ rewritten' = rewritten
    BY <1>4 DEF histVars
  <2> QED  BY <1>12, <2>1, <2>2, UpstreamStep
<1> QED  BY <1>11, <1>12, <1>13 DEF Inv, Typed

\* Steps of a command that ends or goes on unprepared.
LEMMA RepoStep ==
    ASSUME Inv, Data', NEW p \in Procs, End(p) \/ GoesOn(p), UNCHANGED <<hub, clock, rewritten>>,
           \A m \in Machines : sync'[m] \in {NoBranch, sync[m], hub},
           \A d \in Dirs : lock'[d] # NoLock =>
               \/ lock'[d] = lock[d]
               \/ \E q \in Procs : lock'[d] = cmd[q].lock
               \/ \E m \in Machines : sync[m] # NoBranch /\ lock'[d].rev = sync[m]
    PROVE  Inv'
<1>1. clock' \in Nat /\ clock <= clock'
  BY DEF Inv, Typed, Data
<1>2. /\ cmd' \in [Procs -> Commands(clock')] /\ Prepared'
      /\ \A q \in Procs : cmd'[q].lock # NoLock => cmd'[q].lock = cmd[q].lock
  BY <1>1, GoesOnStep
<1>3. Upstream'
  BY <1>2, UpstreamStep
<1> QED  BY <1>2, <1>3 DEF Inv, Typed

LEMMA WriteLockKeeps ==
    ASSUME Inv, NEW p \in Procs, WriteLock(p)
    PROVE  Inv'
<1>1. Data /\ clock \in Nat /\ Dir(p) \in Dirs /\ cmd[p].at = "branch"
      /\ cmd[p].lock \in LocksUntil(clock)
  BY Here, CommandFields DEF WriteLock, At
<1>2. lock' = [lock EXCEPT ![Dir(p)] = cmd[p].lock]
  BY DEF WriteLock
<1>3. Data'
  <2>1. lock' \in [Dirs -> LocksUntil(clock)]
    BY <1>1, <1>2 DEF Data
  <2>2. touched' \subseteq Dirs /\ registered' \subseteq Dirs
    BY <1>1 DEF Data, WriteLock
  <2> QED  BY <1>1, <2>1, <2>2 DEF Data, WriteLock, repoVars
<1>4. GoesOn(p)
  BY <1>1 DEF WriteLock, GoesOn, Steps
<1>5. \A d \in Dirs : lock'[d] # NoLock => lock'[d] = lock[d] \/ \E q \in Procs : lock'[d] = cmd[q].lock
  BY <1>1, <1>2 DEF Data
<1>6. hub' = hub /\ sync' = sync /\ clock' = clock /\ rewritten' = rewritten
  BY DEF WriteLock, repoVars
<1> QED  BY <1>3, <1>4, <1>5, <1>6, RepoStep

LEMMA LockPointerKeeps ==
    ASSUME Inv, NEW p \in Procs, LockPointer(p)
    PROVE  Inv'
<1> DEFINE d == Dir(p)
           m == Machine(p)
<1>1. Data /\ clock \in Nat /\ d \in Dirs /\ m \in Machines /\ cmd[p].at = "lock"
  BY Here DEF LockPointer, At
<1>2. hub' = hub /\ sync' = sync /\ local' = local /\ clock' = clock /\ rewritten' = rewritten
  BY DEF LockPointer, repoVars
<1>3. End(p) \/ GoesOn(p)
  BY <1>1 DEF LockPointer, GoesOn, Steps
<1>4. CASE lock' = lock /\ saved' = saved /\ touched' = touched
  <2>1. Data'
    BY <1>1, <1>2, <1>4 DEF Data, LockPointer
  <2> QED  BY <1>2, <1>3, <1>4, <2>1, RepoStep
<1>5. CASE sync[m] # NoBranch /\ local[d] # NoBranch /\ lock' = [lock EXCEPT ![d] = GenerationLock(d)]
  <2>1. m = MachineOf[d]
    BY DEF Machine, Dir
  <2>2. /\ sync[m] \in Until(clock) /\ local[d] \in Until(clock) /\ local[d] \in Histories
        /\ NoBranch \in BranchesUntil(clock) /\ local[d] \in BranchesUntil(clock)
    BY <1>1, <1>5, BranchCases DEF Data
  <2>3. GenerationLock(d) \in LocksUntil(clock) /\ GenerationLock(d).rev = sync[m]
    BY <1>1, <2>1, <2>2, LockCases DEF GenerationLock
  <2>4. CurrentEnv(local[d]) \in Changes
    BY <2>2, LiveEnv
  <2>5. Data'
    <3>1. lock' \in [Dirs -> LocksUntil(clock)]
      BY <1>1, <1>5, <2>3 DEF Data
    <3>2. saved' \in [Dirs -> SUBSET Changes] /\ touched' \subseteq Dirs
      BY <1>1, <2>4 DEF Data, LockPointer
    <3> QED  BY <1>1, <1>2, <3>1, <3>2 DEF Data, LockPointer
  <2>6. \A e \in Dirs : lock'[e] # NoLock =>
            lock'[e] = lock[e] \/ \E n \in Machines : sync[n] # NoBranch /\ lock'[e].rev = sync[n]
    BY <1>1, <1>5, <2>3 DEF Data
  <2> QED  BY <1>2, <1>3, <2>5, <2>6, RepoStep
<1> QED  BY <1>4, <1>5 DEF LockPointer

LEMMA FetchKeeps ==
    ASSUME Inv, NEW p \in Procs, Fetch(p)
    PROVE  Inv'
<1>1. Data /\ clock \in Nat /\ Machine(p) \in Machines /\ cmd[p].at = "fetch"
  BY Here DEF Fetch, At
<1>2. sync' \in [Machines -> BranchesUntil(clock)]
      /\ \A m \in Machines : sync'[m] \in {sync[m], hub}
  BY <1>1 DEF Data, Fetch
<1>3. Data'
  BY <1>1, <1>2 DEF Data, Fetch, dirVars, histVars
<1>4. End(p) \/ GoesOn(p)
  BY <1>1 DEF Fetch, GoesOn, Steps
<1>5. hub' = hub /\ lock' = lock /\ clock' = clock /\ rewritten' = rewritten
  BY DEF Fetch, dirVars, histVars
<1> QED  BY <1>2, <1>3, <1>4, <1>5, RepoStep

LEMMA ApplyUpdatesKeeps ==
    ASSUME Inv, NEW p \in Procs, ApplyUpdates(p)
    PROVE  Inv'
<1>1. Data /\ clock \in Nat /\ Dir(p) \in Dirs /\ Machine(p) \in Machines /\ cmd[p].at = "apply"
  BY Here DEF ApplyUpdates, At
<1>2. local' \in [Dirs -> BranchesUntil(clock)]
  BY <1>1 DEF Data, ApplyUpdates
<1>3. saved' \in [Dirs -> SUBSET Changes]
  BY <1>1 DEF Data, ApplyUpdates
<1>4. Data'
  BY <1>1, <1>2, <1>3 DEF Data, ApplyUpdates, dirVars
<1>5. End(p) \/ GoesOn(p)
  BY <1>1 DEF ApplyUpdates, GoesOn, Steps
<1>6. hub' = hub /\ sync' = sync /\ lock' = lock /\ clock' = clock /\ rewritten' = rewritten
  BY DEF ApplyUpdates, dirVars
<1> QED  BY <1>4, <1>5, <1>6, RepoStep

LEMMA ClearDirIs ==
    ASSUME Data, NEW d \in Dirs, ClearDir(d)
    PROVE  /\ lock' \in [Dirs -> LocksUntil(clock)] /\ env' \in [Dirs -> EnvStates]
           /\ backup' \in [Dirs -> EnvStates] /\ touched' \subseteq Dirs
           /\ pointer' \in [Dirs -> {"managed", "path", "none"}]
           /\ \A e \in Dirs : lock'[e] # NoLock => lock'[e] = lock[e]
<1>1. NoLock \in LocksUntil(clock)
  BY LockCases DEF Data
<1> QED  BY <1>1 DEF Data, ClearDir, EnvStates

LEMMA RemoveDotFloxKeeps ==
    ASSUME Inv, NEW p \in Procs, RemoveDotFlox(p)
    PROVE  Inv'
<1>1. Data /\ Dir(p) \in Dirs /\ cmd[p].at = "opened" /\ ClearDir(Dir(p))
  BY Here DEF RemoveDotFlox, At
<1>2. hub' = hub /\ sync' = sync /\ local' = local /\ clock' = clock /\ rewritten' = rewritten
  BY DEF RemoveDotFlox, repoVars
<1>3. saved' \in [Dirs -> SUBSET Changes]
  BY <1>1 DEF Data, RemoveDotFlox
<1>4. Data' /\ \A e \in Dirs : lock'[e] # NoLock => lock'[e] = lock[e]
  BY <1>1, <1>2, <1>3, ClearDirIs DEF Data, RemoveDotFlox
<1>5. GoesOn(p)
  BY <1>1 DEF RemoveDotFlox, GoesOn, Steps
<1> QED  BY <1>2, <1>4, <1>5, RepoStep

LEMMA PruneKeeps ==
    ASSUME Inv, NEW p \in Procs, Prune(p)
    PROVE  Inv'
<1> DEFINE d == Dir(p)
<1>1. Data /\ clock \in Nat /\ d \in Dirs /\ Machine(p) \in Machines /\ cmd[p].at = "prune"
      /\ Machine(p) = MachineOf[d] /\ NoBranch \in BranchesUntil(clock)
  BY Here, BranchCases DEF Prune, At, Machine, Dir
<1>2. PruneBranches(d, sync[MachineOf[d]])
  BY <1>1 DEF Prune
<1>3. local' \in [Dirs -> BranchesUntil(clock)] /\ saved' \in [Dirs -> SUBSET Changes]
      /\ sync' \in [Machines -> BranchesUntil(clock)]
      /\ \A m \in Machines : sync'[m] \in {NoBranch, sync[m]}
  BY <1>1, <1>2 DEF Data, PruneBranches
<1>4. hub' = hub /\ lock' = lock /\ clock' = clock /\ rewritten' = rewritten
  BY DEF Prune, dirVars
<1>5. Data'
  BY <1>1, <1>3, <1>4 DEF Data, Prune, dirVars
<1>6. GoesOn(p)
  BY <1>1 DEF Prune, GoesOn, Steps
<1> QED  BY <1>3, <1>4, <1>5, <1>6, RepoStep

LEMMA RemoveLockKeeps ==
    ASSUME Inv, NEW p \in Procs, RemoveLock(p)
    PROVE  Inv'
<1>1. Data /\ clock \in Nat /\ Dir(p) \in Dirs /\ cmd[p].at = "unlock"
      /\ NoLock \in LocksUntil(clock)
  BY Here, LockCases DEF RemoveLock, At
<1>2. lock' \in [Dirs -> LocksUntil(clock)]
      /\ \A e \in Dirs : lock'[e] # NoLock => lock'[e] = lock[e]
  BY <1>1 DEF Data, RemoveLock
<1>3. hub' = hub /\ sync' = sync /\ local' = local /\ clock' = clock /\ rewritten' = rewritten
  BY DEF RemoveLock, repoVars, histVars
<1>4. Data'
  BY <1>1, <1>2, <1>3 DEF Data, RemoveLock, histVars
<1>5. GoesOn(p)
  BY <1>1 DEF RemoveLock, GoesOn, Steps
<1> QED  BY <1>2, <1>3, <1>4, <1>5, RepoStep

LEMMA CommitKeeps ==
    ASSUME Inv, NEW p \in Procs, Commit(p)
    PROVE  Inv'
<1> DEFINE d == Dir(p)
           k == cmd[p].kind
           base == IF k = "sync" THEN local[d] ELSE cmd[p].seen
           now == IF k = "install" THEN clock ELSE Now
           next == IF k \in {"switch", "rollback"}
                   THEN SwitchGeneration(base, cmd[p].target, now)
                   ELSE AddGeneration(base, env[d], now)
<1>1. /\ Data /\ Typed /\ clock \in Nat /\ cmd[p] \in Commands(clock) /\ Ready(cmd[p], clock)
      /\ cmd[p].at = "commit" /\ Dir(p) \in Dirs
  BY Here DEF Commit, At, Inv
<1>2. clock' = now /\ now \in Nat /\ clock <= now
  BY <1>1, NowIs DEF Commit
<1>3. UNCHANGED <<hub, sync, dirVars, registered, histVars>>
  BY DEF Commit
<1>4. \/ End(p) /\ UNCHANGED local
      \/ /\ base # NoBranch
         /\ k \in {"install", "sync"} => EnvComplete(d)
         /\ local' = [local EXCEPT ![d] = next] /\ Go(p, "lock")
  BY DEF Commit
<1>5. ASSUME base # NoBranch, k \in {"install", "sync"} => EnvComplete(d)
      PROVE  next \in BranchesUntil(now)
  <2>1. base \in Until(clock)
    BY <1>1, <1>5, BranchCases, CommandFields DEF Data
  <2>2. /\ base \in Histories /\ base \in Chains /\ Last(base).at \in Nat
        /\ Last(base).at <= clock
    BY <1>1, <2>1, BranchCases
  <2>3. k \in {"install", "sync", "switch", "rollback"}
    BY <1>1 DEF Ready
  <2>4. Last(base).at < now
    <3>1. CASE k = "install"
      <4>1. base = cmd[p].seen /\ Last(cmd[p].seen).at < clock
        BY <1>1, <1>5, <3>1 DEF Ready
      <4> QED  BY <3>1, <4>1
    <3>2. CASE k # "install"
      BY <1>1, <2>2, <3>2, NowIs
    <3> QED  BY <3>1, <3>2
  <2>5. now \in Changes
    BY <1>1, <1>2, <2>2, <2>4 DEF Changes
  <2> HIDE DEF base, now
  <2>6. CASE k \in {"switch", "rollback"}
    <3>1. cmd[p].target \in Created(base) \ {CurrentGen(base)}
      BY <1>1, <1>5, <2>6 DEF Ready, base
    <3>2. next = SwitchGeneration(base, cmd[p].target, now)
      BY <2>6
    <3>3. next \in Histories /\ Last(next).at = now
      BY <2>2, <2>4, <2>5, <3>1, <3>2, SwitchKeeps
    <3> QED  BY <1>2, <3>3 DEF BranchesUntil, Until
  <2>7. CASE k \in {"install", "sync"}
    <3>1. env[d] \in Changes
      BY <1>5, <2>7 DEF EnvComplete
    <3>2. next = AddGeneration(base, env[d], now)
      BY <2>7
    <3>3. next \in Histories /\ Last(next).at = now
      BY <2>2, <2>4, <2>5, <3>1, <3>2, AddKeeps
    <3> QED  BY <1>2, <3>3 DEF BranchesUntil, Until
  <2> QED  BY <2>3, <2>6, <2>7
<1> HIDE DEF base, now, next
<1>6. local' \in [Dirs -> BranchesUntil(clock')]
  <2>1. local \in [Dirs -> BranchesUntil(now)]
    BY <1>1, <1>2, DataLater
  <2> QED  BY <1>1, <1>2, <1>4, <1>5, <2>1
<1>7. Data'
  <2>1. hub \in BranchesUntil(now) /\ sync \in [Machines -> BranchesUntil(now)]
        /\ lock \in [Dirs -> LocksUntil(now)]
    BY <1>1, <1>2, DataLater
  <2> QED  BY <1>1, <1>2, <1>3, <1>6, <2>1 DEF Data, dirVars, histVars
<1>8. End(p) \/ GoesOn(p)
  BY <1>1, <1>4 DEF GoesOn, Steps
<1>9. /\ cmd' \in [Procs -> Commands(clock')] /\ Prepared'
      /\ \A q \in Procs : cmd'[q].lock # NoLock => cmd'[q].lock = cmd[q].lock
  BY <1>2, <1>8, GoesOnStep
<1>10. Upstream'
  <2>1. hub' = hub /\ sync' = sync /\ lock' = lock /\ rewritten' = rewritten
    BY <1>3 DEF dirVars, histVars
  <2> QED  BY <1>9, <2>1, UpstreamStep
<1> QED  BY <1>7, <1>9, <1>10 DEF Inv, Typed

\* FloxHub gets a longer branch, or its first one, or commits are dropped.
LEMMA UpstreamPush ==
    ASSUME Inv, UNCHANGED <<sync, lock>>, hub' \in Seq(Entry), hub' # NoBranch,
           ~rewritten' => ~rewritten /\ (hub = NoBranch \/ IsPrefix(hub, hub')),
           \A q \in Procs : cmd'[q].lock # NoLock => cmd'[q].lock = cmd[q].lock
    PROVE  Upstream'
<1> SUFFICES ASSUME ~rewritten'
             PROVE  /\ \A m \in Machines : sync[m] # NoBranch => ContainsCommit(hub', sync[m])
                    /\ \A d \in Dirs : lock[d] # NoLock => ContainsCommit(hub', lock[d].rev)
                    /\ \A q \in Procs : cmd'[q].lock # NoLock =>
                           ContainsCommit(hub', cmd'[q].lock.rev)
  BY DEF Upstream
<1>1. /\ \A m \in Machines : sync[m] # NoBranch => ContainsCommit(hub, sync[m])
      /\ \A d \in Dirs : lock[d] # NoLock => ContainsCommit(hub, lock[d].rev)
      /\ \A q \in Procs : cmd[q].lock # NoLock => ContainsCommit(hub, cmd[q].lock.rev)
  BY DEF Inv, Upstream
<1>2. ASSUME NEW b \in Seq(Entry), ContainsCommit(hub, b)
      PROVE  ContainsCommit(hub', b)
  <2>1. hub # NoBranch /\ IsPrefix(b, hub) /\ hub \in Seq(Entry)
    BY <1>2, BranchCases DEF ContainsCommit, Inv, Typed, Data
  <2>2. IsPrefix(b, hub')
    BY <2>1, PrefixChain
  <2> QED  BY <2>2 DEF ContainsCommit
<1>3. clock \in Nat /\ Until(clock) \subseteq Seq(Entry)
  BY BranchCases DEF Inv, Typed, Data
<1>4. \A m \in Machines : sync[m] # NoBranch => sync[m] \in Seq(Entry)
  BY <1>3, BranchCases DEF Inv, Typed, Data
<1>5. \A d \in Dirs : lock[d] # NoLock => lock[d].rev \in Seq(Entry)
  BY <1>3, LockCases DEF Inv, Typed, Data
<1>6. \A q \in Procs : cmd[q].lock # NoLock => cmd[q].lock.rev \in Seq(Entry)
  <2>1. \A q \in Procs : cmd[q].lock \in LocksUntil(clock)
    BY <1>3, CommandFields DEF Inv, Typed
  <2> QED  BY <1>3, <2>1, LockCases
<1>7. \A q \in Procs : cmd'[q].lock # NoLock => ContainsCommit(hub', cmd'[q].lock.rev)
  BY <1>1, <1>2, <1>6
<1> QED  BY <1>1, <1>2, <1>4, <1>5, <1>7

LEMMA PushRefKeeps ==
    ASSUME Inv, NEW p \in Procs, PushRef(p)
    PROVE  Inv'
<1> DEFINE h == local[Dir(p)]
<1>1. /\ Data /\ clock \in Nat /\ cmd[p] \in Commands(clock) /\ Ready(cmd[p], clock)
      /\ cmd[p].at = "push" /\ Dir(p) \in Dirs
  BY Here DEF PushRef, At
<1>2. UNCHANGED <<sync, local, dirVars, registered, clock, crashes, saved, touched>>
  BY DEF PushRef
<1>3. CASE End(p) /\ UNCHANGED <<hub, rewritten>>
  BY <1>1, <1>2, <1>3, EndFilesStep DEF Data, dirVars, repoVars
<1>4. CASE /\ h # NoBranch /\ hub' = h
           /\ rewritten' = (rewritten \/ (hub # NoBranch /\ ~IsPrefix(hub, h)))
           /\ cmd' = [cmd EXCEPT ![p].at = "opened", ![p].kind = "pull"]
  <2> DEFINE r == [cmd[p] EXCEPT !.at = "opened", !.kind = "pull"]
  <2>1. r \in Commands(clock') /\ r.at = "opened" /\ r.kind = "pull" /\ r.lock = cmd[p].lock
        /\ r.dir = cmd[p].dir /\ r.target = cmd[p].target
    BY <1>1, <1>2 DEF Commands, Steps, AllKinds
  <2>2. cmd' = [cmd EXCEPT ![p] = r]
    BY <1>4
  <2> HIDE DEF r
  <2>3. Ready(r, clock') /\ clock' \in Nat /\ clock <= clock'
    BY <1>1, <1>2, <2>1 DEF Ready
  <2>4. /\ cmd' \in [Procs -> Commands(clock')] /\ Prepared'
        /\ cmd'[p] = r /\ \A q \in Procs : q # p => cmd'[q] = cmd[q]
    BY <2>1, <2>2, <2>3, ReplaceStep
  <2>5. h \in BranchesUntil(clock) /\ h \in Seq(Entry)
    BY <1>1, <1>4, BranchCases DEF Data
  <2>6. rewritten' \in BOOLEAN /\ (~rewritten' => ~rewritten /\ (hub = NoBranch \/ IsPrefix(hub, hub')))
    BY <1>4
  <2>7. Data'
    BY <1>1, <1>2, <1>4, <2>5, <2>6 DEF Data, dirVars
  <2>8. \A q \in Procs : cmd'[q].lock # NoLock => cmd'[q].lock = cmd[q].lock
    BY <2>1, <2>4
  <2>9. UNCHANGED <<sync, lock>>
    BY <1>2 DEF dirVars
  <2>10. Upstream'
    BY <1>4, <2>5, <2>6, <2>8, <2>9, UpstreamPush
  <2> QED  BY <2>4, <2>7, <2>10 DEF Inv, Typed
<1> QED  BY <1>3, <1>4 DEF PushRef

LEMMA PushNewKeeps ==
    ASSUME Inv, NEW p \in Procs, PushNew(p)
    PROVE  Inv'
<1> DEFINE d == Dir(p)
           h == AddGeneration(<<>>, env[d], Now)
<1>1. Data /\ Typed /\ clock \in Nat /\ cmd[p].at = "push" /\ Dir(p) \in Dirs
  BY Here DEF PushNew, At, Inv
<1>2. UNCHANGED <<sync, local, dirVars, registered, crashes, saved, touched>>
  BY DEF PushNew
<1>3. CASE End(p) /\ UNCHANGED <<hub, rewritten, clock>>
  BY <1>1, <1>2, <1>3, EndFilesStep DEF Data, dirVars, repoVars
<1>4. CASE /\ env[d] \in Changes /\ clock' = Now /\ hub' = h
           /\ rewritten' = (rewritten \/ hub # NoBranch) /\ Go(p, "pointer")
  <2>1. clock' \in Nat /\ clock <= clock' /\ Now \in Changes
    BY <1>4, NowIs
  <2>2. h \in Histories /\ Last(h).at = Now
    BY <1>4, <2>1, NewBranch, AddKeeps
  <2> HIDE DEF h
  <2>3. h \in BranchesUntil(clock') /\ h \in Seq(Entry) /\ h # NoBranch
    <3>1. h \in Until(clock')
      BY <1>4, <2>1, <2>2 DEF Until
    <3> QED  BY <2>1, <3>1, BranchCases
  <2>4. Data'
    <3>1. sync \in [Machines -> BranchesUntil(clock')] /\ local \in [Dirs -> BranchesUntil(clock')]
          /\ lock \in [Dirs -> LocksUntil(clock')]
      BY <1>1, <2>1, DataLater
    <3>2. rewritten' \in BOOLEAN
      BY <1>4
    <3> QED  BY <1>1, <1>2, <1>4, <2>1, <2>3, <3>1, <3>2 DEF Data, dirVars
  <2>5. /\ cmd' \in [Procs -> Commands(clock')] /\ Prepared'
        /\ \A q \in Procs : cmd'[q].lock # NoLock => cmd'[q].lock = cmd[q].lock
    <3>1. GoesOn(p)
      BY <1>1, <1>4 DEF GoesOn, Steps
    <3> QED  BY <2>1, <3>1, GoesOnStep
  <2>6. Upstream'
    <3>1. UNCHANGED <<sync, lock>> /\ (~rewritten' => ~rewritten /\ hub = NoBranch)
      BY <1>2, <1>4 DEF dirVars
    <3> QED  BY <1>4, <2>3, <2>5, <3>1, UpstreamPush
  <2> QED  BY <2>4, <2>5, <2>6 DEF Inv, Typed
<1> QED  BY <1>3, <1>4 DEF PushNew, EnvComplete, Tick

\* Steps of no command.
LEMMA OutsideStep ==
    ASSUME Inv, Data', UNCHANGED <<hub, clock, rewritten, cmd>>,
           \A m \in Machines : sync'[m] \in {NoBranch, sync[m], hub},
           \A d \in Dirs : lock'[d] # NoLock => lock'[d] = lock[d]
    PROVE  Inv'
<1>1. Upstream'
  BY UpstreamStep
<1>2. cmd' \in [Procs -> Commands(clock')] /\ Prepared'
  BY DEF Inv, Typed, Prepared
<1> QED  BY <1>1, <1>2 DEF Inv, Typed

LEMMA GarbageCollectKeeps ==
    ASSUME Inv, NEW d \in Dirs, GarbageCollect(d)
    PROVE  Inv'
<1> DEFINE s == Opened(MachineOf[d])
<1>1. Data /\ clock \in Nat /\ MachineOf[d] \in Machines /\ NoBranch \in BranchesUntil(clock)
  BY BranchCases DEF Inv, Typed, Data, Machines
<1>2. s \in BranchesUntil(clock) /\ s \in {sync[MachineOf[d]], hub}
  BY <1>1, OpenedIs
<1>3. PruneBranches(d, s) /\ UNCHANGED <<hub, dirVars, cmd, clock, crashes, touched, rewritten>>
      /\ registered' = registered \ {d}
  BY DEF GarbageCollect
<1> HIDE DEF s
<1>4. local' \in [Dirs -> BranchesUntil(clock)] /\ saved' \in [Dirs -> SUBSET Changes]
      /\ sync' \in [Machines -> BranchesUntil(clock)]
      /\ \A m \in Machines : sync'[m] \in {NoBranch, sync[m], hub}
  BY <1>1, <1>2, <1>3 DEF Data, PruneBranches
<1>5. Data'
  BY <1>1, <1>3, <1>4 DEF Data, dirVars
<1>6. UNCHANGED <<hub, clock, rewritten, cmd, lock>>
  BY <1>3 DEF dirVars
<1> QED  BY <1>4, <1>5, <1>6, OutsideStep

LEMMA RemoveDirKeeps ==
    ASSUME Inv, NEW d \in Dirs, RemoveDir(d)
    PROVE  Inv'
<1>1. Data /\ ClearDir(d)
  BY DEF Inv, Typed, RemoveDir
<1>2. UNCHANGED <<hub, sync, local, registered, cmd, clock, crashes, rewritten>>
  BY DEF RemoveDir, repoVars
<1>3. saved' \in [Dirs -> SUBSET Changes]
  BY <1>1 DEF Data, RemoveDir
<1>4. Data' /\ \A e \in Dirs : lock'[e] # NoLock => lock'[e] = lock[e]
  BY <1>1, <1>2, <1>3, ClearDirIs DEF Data
<1> QED  BY <1>2, <1>4, OutsideStep

LEMMA DeleteUpstreamKeeps ==
    ASSUME Inv, DeleteUpstream
    PROVE  Inv'
<1>1. Data /\ NoBranch \in BranchesUntil(clock)
  BY BranchCases DEF Inv, Typed, Data
<1>2. Data'
  BY <1>1 DEF Data, DeleteUpstream, dirVars
<1>3. cmd' \in [Procs -> Commands(clock')] /\ Prepared'
  BY DEF Inv, Typed, Prepared, DeleteUpstream
<1>4. Upstream'
  BY DEF Upstream, DeleteUpstream
<1> QED  BY <1>2, <1>3, <1>4 DEF Inv, Typed

-----------------------------------------------------------------------------
LEMMA SwitchedBackIs == SwitchedBack \in Until(3) /\ Len(SwitchedBack) = 3
<1> DEFINE a == AddGeneration(<<>>, 1, 1)
           b == AddGeneration(a, 2, 2)
           c == SwitchGeneration(b, 1, 3)
<1>1. 1 \in Changes /\ 2 \in Changes /\ 3 \in Changes
  BY DEF Changes
<1>2. a \in Histories /\ Last(a).at = 1
  BY <1>1, NewBranch, AddKeeps
<1>3. a \in Chains /\ a # <<>> /\ a \in Seq(Entry)
  BY <1>2 DEF Histories, Chains
<1>4. Last(a).total = 1 /\ Len(a) = 1
  BY DEF AddGeneration, TotalGenerations, Last
<1>5. TotalGenerations(a) = 1
  BY <1>3, <1>4 DEF TotalGenerations
<1> HIDE DEF a
<1>6. b \in Histories /\ Last(b).at = 2
  BY <1>1, <1>2, <1>3, AddKeeps
<1>7. Len(b) = 2 /\ Last(b).gen = 2 /\ Last(b).total = 2 /\ b # <<>> /\ b \in Seq(Entry)
  <2> DEFINE e == [kind |-> "add", gen |-> TotalGenerations(a) + 1, prev |-> CurrentGen(a),
                   total |-> TotalGenerations(a) + 1, env |-> 2, at |-> 2]
  <2>1. CurrentGen(a) \in Nat
    BY <1>3, <1>5, ChainNumbers
  <2>2. e \in Entry /\ e.gen = 2 /\ e.total = 2
    BY <1>1, <1>5, <2>1 DEF Entry, Entries
  <2>3. b = Append(a, e)
    BY DEF AddGeneration
  <2> HIDE DEF e, b
  <2>4. \A x \in Entry : /\ Append(a, x) \in Seq(Entry) /\ Append(a, x) # <<>>
                         /\ Len(Append(a, x)) = Len(a) + 1 /\ Last(Append(a, x)) = x
    BY <1>3, Appended
  <2> QED  BY <1>4, <2>2, <2>3, <2>4
<1>8. CurrentGen(b) = 2 /\ TotalGenerations(b) = 2
  BY <1>7 DEF CurrentGen, TotalGenerations
<1>9. b \in Chains /\ Created(b) = 1..2
  BY <1>6, <1>8 DEF Histories, Chains
<1> HIDE DEF b
<1>10. c \in Histories /\ Last(c).at = 3
  BY <1>1, <1>6, <1>8, <1>9, SwitchKeeps
<1>11. Len(c) = 3
  <2> DEFINE e == [kind |-> "switch", gen |-> 1, prev |-> CurrentGen(b),
                   total |-> TotalGenerations(b), env |-> NoEnv, at |-> 3]
  <2>1. e \in Entry
    BY <1>1, <1>8 DEF Entry, Entries
  <2>2. c = Append(b, e)
    BY DEF SwitchGeneration
  <2> HIDE DEF e, c
  <2>3. \A x \in Entry : Len(Append(b, x)) = Len(b) + 1
    BY <1>7, Appended
  <2> QED  BY <1>7, <2>1, <2>2, <2>3
<1>12. c = SwitchedBack
  BY DEF SwitchedBack, a, b
<1> HIDE DEF c
<1> QED  BY <1>10, <1>11, <1>12 DEF Until

LEMMA InvInit == Init => Inv
<1> SUFFICES ASSUME Init PROVE Inv
  OBVIOUS
<1>1. clock = 3 /\ hub \in BranchesUntil(3) /\ NoBranch \in BranchesUntil(3)
      /\ NoLock \in LocksUntil(3)
  BY SwitchedBackIs, BranchCases, LockCases DEF Init
<1>2. Data
  <2>1. sync \in [Machines -> BranchesUntil(3)] /\ local \in [Dirs -> BranchesUntil(3)]
        /\ lock \in [Dirs -> LocksUntil(3)]
    BY <1>1 DEF Init
  <2>2. pointer \in [Dirs -> {"managed", "path", "none"}]
    BY DEF Init
  <2>3. env \in [Dirs -> EnvStates] /\ backup \in [Dirs -> EnvStates]
    BY DEF Init, EnvStates, Changes
  <2>4. crashes \in 0..MaxCrashes /\ saved \in [Dirs -> SUBSET Changes]
    BY ManagedAssumption DEF Init
  <2>5. registered \subseteq Dirs /\ touched \subseteq Dirs /\ rewritten \in BOOLEAN
    BY DEF Init
  <2> QED  BY <1>1, <2>1, <2>2, <2>3, <2>4, <2>5 DEF Data
<1>3. cmd \in [Procs -> Commands(clock)] /\ \A p \in Procs : cmd[p] = Idle
  BY <1>1, IdleIs DEF Init
<1>4. Prepared
  BY <1>1, <1>3, IdleIs DEF Prepared
<1>5. Upstream
  <2>1. /\ \A m \in Machines : sync[m] = NoBranch
        /\ \A d \in Dirs : lock[d] = NoLock
        /\ \A p \in Procs : cmd[p].lock = NoLock
    BY <1>1, <1>3, IdleIs DEF Init
  <2> QED  BY <2>1 DEF Upstream
<1> QED  BY <1>2, <1>3, <1>4, <1>5 DEF Inv, Typed

LEMMA InvNext ==
    ASSUME 0 \notin Targets, Inv, [Next]_vars
    PROVE  Inv'
<1>1. ASSUME NEW p \in Procs, Step(p)
      PROVE  Inv'
  <2> USE <1>1
  <2>1. CASE OpenBranch(p)    BY <2>1, OpenBranchKeeps
  <2>2. CASE WriteLock(p)     BY <2>2, WriteLockKeeps
  <2>3. CASE Check(p)         BY <2>3, CheckKeeps
  <2>4. CASE SwapOut(p)       BY <2>4, SwapOutKeeps
  <2>5. CASE SwapIn(p)        BY <2>5, SwapInKeeps
  <2>6. CASE SwapFails(p)     BY <2>6, SwapFailsKeeps
  <2>7. CASE Commit(p)        BY <2>7, CommitKeeps
  <2>8. CASE LockPointer(p)   BY <2>8, LockPointerKeeps
  <2>9. CASE RemoveEnv(p)     BY <2>9, RemoveEnvKeeps
  <2>10. CASE CopyEnv(p)      BY <2>10, CopyEnvKeeps
  <2>11. CASE Fetch(p)        BY <2>11, FetchKeeps
  <2>12. CASE Compare(p)      BY <2>12, CompareKeeps
  <2>13. CASE PushRef(p)      BY <2>13, PushRefKeeps
  <2>14. CASE ApplyUpdates(p) BY <2>14, ApplyUpdatesKeeps
  <2>15. CASE RemoveDotFlox(p) BY <2>15, RemoveDotFloxKeeps
  <2>16. CASE Prune(p)        BY <2>16, PruneKeeps
  <2>17. CASE RemoveLock(p)   BY <2>17, RemoveLockKeeps
  <2>18. CASE Deregister(p)   BY <2>18, DeregisterKeeps
  <2>19. CASE PushNew(p)      BY <2>19, PushNewKeeps
  <2>20. CASE WritePointer(p) BY <2>20, WritePointerKeeps
  <2>21. CASE Fails(p)        BY <2>21, FailsKeeps
  <2>22. CASE Crash(p)        BY <2>22, CrashKeeps
  <2> QED  BY <2>1, <2>2, <2>3, <2>4, <2>5, <2>6, <2>7, <2>8, <2>9, <2>10, <2>11, <2>12,
              <2>13, <2>14, <2>15, <2>16, <2>17, <2>18, <2>19, <2>20, <2>21, <2>22 DEF Step
<1>2. ASSUME NEW p \in Procs, NEW d \in Dirs, NEW k \in Kinds, NEW f \in Forces,
             Begin(p, d, k, f)
      PROVE  Inv'
  BY <1>2, BeginKeeps
<1>3. ASSUME NEW d \in Dirs,
             GarbageCollect(d) \/ HandEdit(d) \/ RemoveDir(d) \/ RestoreBackup(d)
      PROVE  Inv'
  BY <1>3, GarbageCollectKeeps, HandEditKeeps, RemoveDirKeeps, RestoreBackupKeeps
<1>4. CASE DeleteUpstream
  BY <1>4, DeleteUpstreamKeeps
<1>5. CASE UNCHANGED vars
  <2>1. UNCHANGED <<hub, sync, local, lock, env, backup, pointer, registered, cmd, clock,
                    crashes, saved, touched, rewritten>>
    BY <1>5 DEF vars, repoVars, dirVars, histVars
  <2> QED  BY <2>1 DEF Inv, Typed, Data, Prepared, Upstream
<1> QED  BY <1>1, <1>2, <1>3, <1>4, <1>5 DEF Next

LEMMA Invariance == 0 \notin Targets => (Spec => []Inv)
<1> SUFFICES ASSUME 0 \notin Targets PROVE Spec => []Inv
  OBVIOUS
<1>1. Inv /\ [Next]_vars => Inv'
  BY InvNext
<1> QED  BY <1>1, InvInit, PTL DEF Spec

-----------------------------------------------------------------------------
LEMMA TypeFollows == Typed => TypeOK
<1> SUFFICES ASSUME Typed PROVE TypeOK
  OBVIOUS
<1>1. clock \in Nat /\ BranchesUntil(clock) \subseteq Branches
  BY BranchCases DEF Typed, Data, Branches
<1>2. LocksUntil(clock) \subseteq Locks
  <2>1. Until(clock) \subseteq Branches
    BY <1>1, BranchCases
  <2> QED  BY <1>1, <2>1 DEF LocksUntil, Locks
<1>3. cmd \in [Procs -> [at : Steps, kind : AllKinds \cup {"none"}, dir : Dirs \cup {"none"},
                        force : BOOLEAN, lock : Locks, seen : Branches, env : EnvStates,
                        target : Nat, valid : BOOLEAN]]
  BY <1>1, <1>2 DEF Typed, Commands
<1> QED  BY <1>1, <1>2, <1>3 DEF Typed, Data, TypeOK

\* Every variable of the commands on a managed environment keeps its type.
THEOREM ManagedTypeCorrect == 0 \notin Targets => (Spec => []TypeOK)
<1> SUFFICES ASSUME 0 \notin Targets PROVE Spec => []TypeOK
  OBVIOUS
<1>1. Spec => []Inv
  BY Invariance
<1>2. Inv => TypeOK
  BY TypeFollows DEF Inv
<1> QED  BY <1>1, <1>2, PTL

\* The histories that the invariants are about.
LEMMA AllBranchesAre ==
    ASSUME Inv, NEW h \in AllBranches
    PROVE  h \in Histories
<1>1. clock \in Nat /\ h \in BranchesUntil(clock) /\ h # NoBranch
  BY DEF Inv, Typed, Data, AllBranches
<1> QED  BY <1>1, BranchCases

\* add_generation and switch_generation maintain what generations() requires of
\* the history on FloxHub and of that of every checkout, whatever commands run
\* at once, in one directory too, and wherever they are killed, as long as
\* nobody asks to switch to generation 0.
THEOREM HistoriesConsistent == 0 \notin Targets => (Spec => []HistoryConsistent)
<1> SUFFICES ASSUME 0 \notin Targets PROVE Spec => []HistoryConsistent
  OBVIOUS
<1>1. Spec => []Inv
  BY Invariance
<1>2. Inv => HistoryConsistent
  <2>1. \A h \in Histories :
            /\ Created(h) = 1..TotalGenerations(h) /\ Cardinality(Adds(h)) = TotalGenerations(h)
            /\ \A i \in DOMAIN h :
                   /\ h[i].gen \in Created(h)
                   /\ h[i].prev = IF i = 1 THEN NoGeneration ELSE h[i - 1].gen
    BY DEF Histories, Chains
  <2> QED  BY <2>1, AllBranchesAre DEF HistoryConsistent
<1> QED  BY <1>1, <1>2, PTL

\* determine_previous_generation, which orders the generations by when they
\* were last live, finds the one that was live before the current one, in every
\* history that can come about.
THEOREM RollbackReturnsAlways == 0 \notin Targets => (Spec => []RollbackReturns)
<1> SUFFICES ASSUME 0 \notin Targets PROVE Spec => []RollbackReturns
  OBVIOUS
<1>1. Spec => []Inv
  BY Invariance
<1>2. Inv => RollbackReturns
  BY AllBranchesAre, PreviousIs DEF RollbackReturns
<1> QED  BY <1>1, <1>2, PTL

\* As long as nobody drops commits from FloxHub, the revision in every
\* generation lock is on FloxHub or the lock itself has the local revision: a
\* checkout that is copied or opened again finds what it was locked to.
THEOREM LocksRecoverable == 0 \notin Targets => (Spec => []LockRecoverable)
<1> SUFFICES ASSUME 0 \notin Targets PROVE Spec => []LockRecoverable
  OBVIOUS
<1>1. Spec => []Inv
  BY Invariance
<1>2. Inv => LockRecoverable
  BY DEF Inv, Upstream, LockRecoverable
<1> QED  BY <1>1, <1>2, PTL
=============================================================================
