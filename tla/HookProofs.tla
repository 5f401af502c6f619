------------------------------ MODULE HookProofs ------------------------------
(***************************************************************************)
(* As long as no environment is activated that is active already, and no   *)
(* command comes between a request and the prompt, a deactivation undoes   *)
(* what the activation did, the hook keeps its hands off what is not its   *)
(* own, and it settles in two prompts - wherever the user goes, however    *)
(* shells nest, and whatever fails or gets lost.                           *)
(***************************************************************************)
EXTENDS AutoActivation, SequenceTheorems, FiniteSetTheorems, WellFoundedInduction, TLAPS

\* The stack without its first k layers.
Below(s, k) == SubSeq(s, k + 1, Len(s))

\* What the diffs give back, and that only the first activation of a shell may
\* be that of a shell of its own.
Matching(sh) ==
    /\ \A i, j \in DOMAIN sh.active : sh.active[i] = sh.active[j] => i = j
    /\ \A j \in DOMAIN sh.diffs : sh.diffs[j].active = Below(sh.active, j)
    /\ \A j \in DOMAIN sh.diffs : j < Len(sh.diffs) => sh.diffs[j].inPlace

\* What is the hook's: that which it tracks and is active, unless it gave it up.
Tracking(sh) ==
    /\ sh.request # Nobody => sh.active # <<>> /\ Head(sh.active) = sh.request
    /\ sh.claimed = sh.auto
    /\ sh.auto \cap Range(sh.active) \subseteq sh.hooked
    /\ sh.hooked \subseteq Range(sh.active) \cap (sh.auto \cup sh.warned)

\* What was refused stays suppressed while the shell is in its directory.
Refusing(sh) ==
    /\ sh.refused \cap sh.hooked = {}
    /\ sh.refused \subseteq sh.suppressed
    /\ \A d \in sh.refused : Inside(sh, d)

Good(sh) == sh \in Shell /\ Matching(sh) /\ Tracking(sh) /\ Refusing(sh)

\* What shell i inherited.
Inherited(i) == IF i = 1 THEN {} ELSE Range(shells[i - 1].active)

\* A shell keeps what it inherited, whatever it deactivates, and is attached to
\* the rest.
Rests(sh, inherited) ==
    /\ inherited \subseteq Range(sh.active)
    /\ \A j \in DOMAIN sh.diffs : inherited \subseteq Range(sh.diffs[j].active)
    /\ sh.attached = Range(sh.active) \ inherited

ShellsGood ==
    /\ shells \in Seq(Shell) /\ Len(shells) \in 1..MaxShells
    /\ \A i \in DOMAIN shells : Good(shells[i]) /\ Rests(shells[i], Inherited(i))

\* No layer that the shell left is at the front of the stack.
Unwound(sh) == PopFront(sh.active, Leavers(sh)) = <<>>

\* The shell has what its directory asks for.
Calm(sh) ==
    /\ \A d \in Discovered(sh) : config[d] = "allow" =>
           IsActive(sh, d) \/ d \in sh.suppressed \cup sh.auto
    /\ \A d \in sh.hooked : Inside(sh, d) \/ d \in sh.warned

\* What one and what two prompts achieve.
Settling ==
    /\ quiet > 0 => Stuck \/ Unwound(Top)
    /\ quiet = MaxQuiet => Stuck \/ Calm(Top)

Others ==
    /\ config \in [Dirs -> {"allow", "deny", "unset"}] /\ ask \in BOOLEAN
    /\ dotFlox \subseteq Dirs
    /\ quiet \in 0..MaxQuiet /\ faults \in 0..MaxFaults /\ prefs \in 0..MaxPrefs

Inv == ShellsGood /\ Others /\ Settling

-----------------------------------------------------------------------------
\* Stacks.
LEMMA BelowIs ==
    ASSUME NEW S, NEW s \in Seq(S), NEW k \in Nat
    PROVE  /\ Below(s, k) \in Seq(S)
           /\ Len(Below(s, k)) = IF k < Len(s) THEN Len(s) - k ELSE 0
           /\ DOMAIN Below(s, k) = 1..Len(Below(s, k))
           /\ \A i \in 1..Len(s) - k : Below(s, k)[i] = s[k + i]
<1>1. Len(s) \in Nat /\ \A i \in 1..Len(s) : s[i] \in S
  BY LenProperties, ElementOfSeq
<1>2. \A i \in (k + 1)..Len(s) : s[i] \in S
  BY <1>1
<1>3. /\ SubSeq(s, k + 1, Len(s)) \in Seq(S)
      /\ Len(SubSeq(s, k + 1, Len(s))) =
            IF k + 1 <= Len(s) THEN Len(s) - (k + 1) + 1 ELSE 0
      /\ \A i \in 1..(Len(s) - (k + 1) + 1) :
            SubSeq(s, k + 1, Len(s))[i] = s[(k + 1) + i - 1]
  <2>1. k + 1 \in Int /\ Len(s) \in Int
    BY <1>1
  <2> QED  BY <1>2, <2>1, SubSeqProperties
<1>4. DOMAIN SubSeq(s, k + 1, Len(s)) = 1..Len(SubSeq(s, k + 1, Len(s)))
  BY <1>3, LenProperties
<1>5. /\ (k + 1 <= Len(s)) <=> (k < Len(s))
      /\ Len(s) - (k + 1) + 1 = Len(s) - k
      /\ \A i \in 1..(Len(s) - k) : (k + 1) + i - 1 = k + i
  BY <1>1
<1> QED  BY <1>3, <1>4, <1>5 DEF Below

LEMMA BelowZero ==
    ASSUME NEW S, NEW s \in Seq(S)
    PROVE  Below(s, 0) = s
BY SubSeqFull DEF Below

LEMMA BelowBelow ==
    ASSUME NEW S, NEW s \in Seq(S), NEW k \in Nat, NEW j \in Nat
    PROVE  Below(Below(s, k), j) = Below(s, k + j)
<1>1. Len(s) \in Nat
  BY LenProperties
<1> DEFINE b == Below(s, k)
           u == Below(b, j)
           w == Below(s, k + j)
<1>2. /\ b \in Seq(S) /\ Len(b) = IF k < Len(s) THEN Len(s) - k ELSE 0
      /\ \A i \in 1..Len(s) - k : b[i] = s[k + i]
  BY BelowIs
<1> HIDE DEF b
<1>3. /\ u \in Seq(S) /\ Len(u) = IF j < Len(b) THEN Len(b) - j ELSE 0
      /\ \A i \in 1..Len(b) - j : u[i] = b[j + i]
  BY <1>2, BelowIs
<1>4. /\ w \in Seq(S) /\ Len(w) = IF k + j < Len(s) THEN Len(s) - (k + j) ELSE 0
      /\ \A i \in 1..Len(s) - (k + j) : w[i] = s[k + j + i]
  <2>1. k + j \in Nat
    OBVIOUS
  <2> QED  BY <2>1, BelowIs
<1> HIDE DEF u, w
<1>5. Len(u) = Len(w)
  BY <1>1, <1>2, <1>3, <1>4
<1>6. \A i \in 1..Len(u) : u[i] = w[i]
  <2> SUFFICES ASSUME NEW i \in 1..Len(u) PROVE u[i] = w[i]
    OBVIOUS
  <2>1. i \in 1..Len(b) - j /\ j + i \in 1..Len(s) - k /\ i \in 1..Len(s) - (k + j)
    BY <1>1, <1>2, <1>3, <1>4
  <2>2. u[i] = b[j + i] /\ b[j + i] = s[k + (j + i)] /\ w[i] = s[k + j + i]
    BY <1>2, <1>3, <1>4, <2>1
  <2>3. k + (j + i) = k + j + i
    OBVIOUS
  <2> QED  BY <2>2, <2>3
<1> QED  BY <1>3, <1>4, <1>5, <1>6, SeqEqual DEF b, u, w

\* A new layer on top.
LEMMA OnTop ==
    ASSUME NEW S, NEW s \in Seq(S), NEW e \in S
    PROVE  /\ <<e>> \o s \in Seq(S) /\ Len(<<e>> \o s) = Len(s) + 1
           /\ DOMAIN (<<e>> \o s) = 1..Len(s) + 1
           /\ (<<e>> \o s)[1] = e
           /\ \A i \in 1..Len(s) : (<<e>> \o s)[i + 1] = s[i]
           /\ \A i \in 2..Len(s) + 1 : (<<e>> \o s)[i] = s[i - 1]
           /\ Range(<<e>> \o s) = Range(s) \cup {e}
           /\ \A j \in Nat : Below(<<e>> \o s, j + 1) = Below(s, j)
<1>1. Len(s) \in Nat /\ DOMAIN s = 1..Len(s)
  BY LenProperties
<1>2. <<e>> \in Seq(S) /\ Len(<<e>>) = 1 /\ <<e>>[1] = e
  OBVIOUS
<1> DEFINE t == <<e>> \o s
<1>3. /\ t \in Seq(S) /\ Len(t) = 1 + Len(s)
      /\ \A i \in 1..1 + Len(s) : t[i] = IF i <= 1 THEN <<e>>[i] ELSE s[i - 1]
  BY <1>2, ConcatProperties
<1>4. DOMAIN t = 1..Len(t)
  BY <1>3, LenProperties
<1> HIDE DEF t
<1>5. t[1] = e /\ (\A i \in 1..Len(s) : t[i + 1] = s[i])
      /\ \A i \in 2..Len(s) + 1 : t[i] = s[i - 1]
  <2>1. t[1] = e
    BY <1>1, <1>2, <1>3
  <2>2. \A i \in 2..Len(s) + 1 : t[i] = s[i - 1]
    BY <1>1, <1>3
  <2>3. ASSUME NEW i \in 1..Len(s)
        PROVE  t[i + 1] = s[i]
    <3>1. i + 1 \in 2..Len(s) + 1 /\ (i + 1) - 1 = i
      BY <1>1
    <3> QED  BY <2>2, <3>1
  <2> QED  BY <2>1, <2>2, <2>3
<1>6. Range(t) = Range(s) \cup {e}
  <2>1. Range(t) = {t[i] : i \in 1..Len(s) + 1} /\ Range(s) = {s[i] : i \in 1..Len(s)}
    BY <1>1, <1>3, <1>4 DEF Range
  <2>2. \A i \in 1..Len(s) + 1 : i = 1 \/ i - 1 \in 1..Len(s)
    BY <1>1
  <2>3. \A i \in 1..Len(s) : i + 1 \in 1..Len(s) + 1
    BY <1>1
  <2>4. \A i \in 1..Len(s) + 1 : t[i] = e \/ t[i] \in Range(s)
    <3> SUFFICES ASSUME NEW i \in 1..Len(s) + 1, i # 1 PROVE t[i] \in Range(s)
      BY <1>5
    <3>1. i \in 2..Len(s) + 1 /\ i - 1 \in 1..Len(s)
      BY <1>1
    <3> QED  BY <1>5, <2>1, <3>1
  <2>5. \A i \in 1..Len(s) : s[i] \in Range(t)
    BY <1>5, <2>1, <2>3
  <2>6. e \in Range(t)
    BY <1>1, <1>5, <2>1
  <2> QED  BY <2>1, <2>4, <2>5, <2>6
<1>7. ASSUME NEW j \in Nat
      PROVE  Below(t, j + 1) = Below(s, j)
  <2> DEFINE u == Below(t, j + 1)
             w == Below(s, j)
  <2>1. /\ u \in Seq(S) /\ Len(u) = IF j + 1 < Len(t) THEN Len(t) - (j + 1) ELSE 0
        /\ \A i \in 1..Len(t) - (j + 1) : u[i] = t[(j + 1) + i]
    <3>1. j + 1 \in Nat
      OBVIOUS
    <3> QED  BY <1>3, <3>1, BelowIs
  <2>2. /\ w \in Seq(S) /\ Len(w) = IF j < Len(s) THEN Len(s) - j ELSE 0
        /\ \A i \in 1..Len(s) - j : w[i] = s[j + i]
    BY BelowIs
  <2> HIDE DEF u, w
  <2>3. Len(u) = Len(w)
    <3>1. /\ Len(u) = IF j + 1 < Len(t) THEN Len(t) - (j + 1) ELSE 0
          /\ Len(w) = IF j < Len(s) THEN Len(s) - j ELSE 0
          /\ Len(t) = 1 + Len(s)
      BY <1>3, <2>1, <2>2
    <3>2. CASE j < Len(s)
      <4>1. j + 1 < 1 + Len(s) /\ (1 + Len(s)) - (j + 1) = Len(s) - j
        BY <1>1, <3>2
      <4> QED  BY <3>1, <3>2, <4>1
    <3>3. CASE ~(j < Len(s))
      <4>1. ~(j + 1 < 1 + Len(s))
        BY <1>1, <3>3
      <4> QED  BY <3>1, <3>3, <4>1
    <3> QED  BY <3>2, <3>3
  <2>4. \A i \in 1..Len(u) : u[i] = w[i]
    <3> SUFFICES ASSUME NEW i \in 1..Len(u) PROVE u[i] = w[i]
      OBVIOUS
    <3>1. /\ i \in 1..Len(t) - (j + 1) /\ i \in 1..Len(s) - j /\ j + i \in 1..Len(s)
          /\ (j + 1) + i = (j + i) + 1
      BY <1>1, <1>3, <2>1
    <3> QED  BY <1>5, <2>1, <2>2, <3>1
  <2> QED  BY <2>1, <2>2, <2>3, <2>4, SeqEqual DEF u, w
<1>8. DOMAIN t = 1..Len(s) + 1 /\ Len(t) = Len(s) + 1
  BY <1>1, <1>3, <1>4
<1> QED  BY <1>3, <1>5, <1>6, <1>7, <1>8 DEF t

\* It keeps the stack free of repetitions if it is new.
LEMMA OnTopDistinct ==
    ASSUME NEW S, NEW s \in Seq(S), NEW e \in S, e \notin Range(s),
           \A i, j \in DOMAIN s : s[i] = s[j] => i = j
    PROVE  \A i, j \in DOMAIN (<<e>> \o s) : (<<e>> \o s)[i] = (<<e>> \o s)[j] => i = j
<1> DEFINE t == <<e>> \o s
           n == Len(s)
<1>1. n \in Nat /\ DOMAIN s = 1..n
  BY LenProperties
<1>2. DOMAIN t = 1..n + 1 /\ t[1] = e /\ \A i \in 2..n + 1 : t[i] = s[i - 1]
  BY OnTop
<1> HIDE DEF t, n
<1>3. \A i \in 1..n + 1 : i = 1 \/ (i \in 2..n + 1 /\ i - 1 \in 1..n)
  BY <1>1
<1>4. \A i \in 1..n : s[i] # e
  BY <1>1 DEF Range
<1>5. \A i \in 1..n + 1 : i = 1 \/ t[i] # e
  BY <1>2, <1>3, <1>4
<1>6. ASSUME NEW i \in 1..n + 1, NEW j \in 1..n + 1, t[i] = t[j]
      PROVE  i = j
  <2>1. CASE i = 1 \/ j = 1
    BY <1>2, <1>5, <1>6, <2>1
  <2>2. CASE i # 1 /\ j # 1
    <3>1. i - 1 \in DOMAIN s /\ j - 1 \in DOMAIN s /\ s[i - 1] = s[j - 1]
      BY <1>1, <1>2, <1>3, <1>6, <2>2
    <3>2. i - 1 = j - 1
      BY <3>1
    <3> QED  BY <1>1, <3>2
  <2> QED  BY <2>1, <2>2
<1> QED  BY <1>2, <1>6 DEF t

\* Without its first k layers, a stack without repetitions loses just those.
LEMMA RangeBelow ==
    ASSUME NEW S, NEW s \in Seq(S), NEW k \in Nat, k <= Len(s),
           \A i, j \in DOMAIN s : s[i] = s[j] => i = j
    PROVE  /\ Range(Below(s, k)) = Range(s) \ {s[i] : i \in 1..k}
           /\ \A i, j \in DOMAIN Below(s, k) : Below(s, k)[i] = Below(s, k)[j] => i = j
<1>1. Len(s) \in Nat /\ DOMAIN s = 1..Len(s)
  BY LenProperties
<1> DEFINE b == Below(s, k)
<1>2. /\ DOMAIN b = 1..Len(s) - k
      /\ \A i \in 1..Len(s) - k : b[i] = s[k + i]
  <2>1. /\ Len(b) = IF k < Len(s) THEN Len(s) - k ELSE 0
        /\ DOMAIN b = 1..Len(b)
        /\ \A i \in 1..Len(s) - k : b[i] = s[k + i]
    BY BelowIs
  <2>2. Len(b) = Len(s) - k
    <3>1. Len(b) = IF k < Len(s) THEN Len(s) - k ELSE 0
      BY <2>1
    <3>2. ~(k < Len(s)) => Len(s) - k = 0
      <4> DEFINE n == Len(s)
      <4>1. n \in Nat /\ k <= n
        BY <1>1
      <4> HIDE DEF n
      <4>2. ~(k < n) => n - k = 0
        BY <4>1
      <4> QED  BY <4>2 DEF n
    <3> HIDE DEF b
    <3> QED  BY <3>1, <3>2
  <2> QED  BY <2>1, <2>2
<1> HIDE DEF b
<1>3. \A i \in 1..Len(s) - k : k + i \in 1..Len(s) /\ k + i \notin 1..k
  BY <1>1
<1>4. \A i \in 1..Len(s) : i \in 1..k \/ (i - k \in 1..Len(s) - k /\ k + (i - k) = i)
  BY <1>1
<1>5. Range(b) \subseteq Range(s) \ {s[i] : i \in 1..k}
  <2> SUFFICES ASSUME NEW i \in 1..Len(s) - k
               PROVE  b[i] \in Range(s) /\ \A j \in 1..k : s[j] # b[i]
    BY <1>2 DEF Range
  <2>1. \A j \in 1..k : j \in 1..Len(s)
    BY <1>1
  <2> QED  BY <1>1, <1>2, <1>3, <2>1 DEF Range
<1>6. ASSUME NEW i \in 1..Len(s), i \notin 1..k
      PROVE  s[i] \in Range(b)
  <2>1. i - k \in DOMAIN b /\ b[i - k] = s[i]
    BY <1>2, <1>4, <1>6
  <2> QED  BY <2>1 DEF Range
<1>7. Range(s) \ {s[i] : i \in 1..k} \subseteq Range(b)
  BY <1>1, <1>6 DEF Range
<1>8. \A i, j \in DOMAIN b : b[i] = b[j] => i = j
  <2> SUFFICES ASSUME NEW i \in 1..Len(s) - k, NEW j \in 1..Len(s) - k, b[i] = b[j]
               PROVE  i = j
    BY <1>2
  <2>1. k + i = k + j
    BY <1>1, <1>2, <1>3
  <2> QED  BY <1>1, <2>1
<1> QED  BY <1>5, <1>7, <1>8 DEF b

-----------------------------------------------------------------------------
\* Activations.
LEMMA IsActiveIs ==
    ASSUME NEW sh, NEW e
    PROVE  IsActive(sh, e) <=> e \in Range(sh.active)
BY DEF IsActive, Range

\* What an activation and a deactivation leave alone.
SameLists(r, sh) ==
    /\ r.cwd = sh.cwd /\ r.auto = sh.auto /\ r.suppressed = sh.suppressed
    /\ r.claimed = sh.claimed /\ r.hooked = sh.hooked
    /\ r.refused = sh.refused /\ r.warned = sh.warned

LEMMA ShellIs ==
    ASSUME NEW sh \in Shell
    PROVE  /\ sh.cwd \in Places /\ sh.active \in Seq(Envs) /\ sh.diffs \in Seq(Diff)
           /\ sh.kind \in {"none", "inplace", "interactive"}
           /\ sh.request \in Envs \cup {Nobody} /\ sh.attached \in SUBSET Envs
           /\ sh.auto \subseteq Dirs /\ sh.suppressed \subseteq Dirs
           /\ sh.claimed \subseteq Dirs /\ sh.hooked \subseteq Dirs
           /\ sh.refused \subseteq Dirs /\ sh.warned \subseteq Dirs
           /\ Len(sh.active) \in Nat /\ DOMAIN sh.active = 1..Len(sh.active)
           /\ Len(sh.diffs) \in Nat /\ DOMAIN sh.diffs = 1..Len(sh.diffs)
           /\ Range(sh.active) \subseteq Envs
<1>1. /\ sh.cwd \in Places /\ sh.active \in Seq(Envs) /\ sh.diffs \in Seq(Diff)
      /\ sh.kind \in {"none", "inplace", "interactive"}
      /\ sh.request \in Envs \cup {Nobody} /\ sh.attached \in SUBSET Envs
      /\ sh.auto \subseteq Dirs /\ sh.suppressed \subseteq Dirs
      /\ sh.claimed \subseteq Dirs /\ sh.hooked \subseteq Dirs
      /\ sh.refused \subseteq Dirs /\ sh.warned \subseteq Dirs
  BY DEF Shell
<1>2. /\ Len(sh.active) \in Nat /\ DOMAIN sh.active = 1..Len(sh.active)
      /\ Len(sh.diffs) \in Nat /\ DOMAIN sh.diffs = 1..Len(sh.diffs)
  BY <1>1, LenProperties
<1>3. \A i \in 1..Len(sh.active) : sh.active[i] \in Envs
  BY <1>1, ElementOfSeq
<1> QED  BY <1>1, <1>2, <1>3 DEF Range

LEMMA DiffIs ==
    ASSUME NEW sh \in Shell, NEW j \in DOMAIN sh.diffs
    PROVE  /\ sh.diffs[j] \in Diff /\ sh.diffs[j].active \in Seq(Envs)
           /\ sh.diffs[j].kind \in {"none", "inplace", "interactive"}
           /\ sh.diffs[j].inPlace \in BOOLEAN
<1>1. sh.diffs[j] \in Diff
  BY ShellIs, ElementOfSeq
<1> QED  BY <1>1 DEF Diff

\* Each diff of x is one of those of sh, or gives back at least what sh has.
Grown(x, sh) ==
    /\ Range(sh.active) \subseteq Range(x.active)
    /\ \A j \in DOMAIN x.diffs :
         \/ Range(sh.active) \subseteq Range(x.diffs[j].active)
         \/ \E i \in DOMAIN sh.diffs : x.diffs[j] = sh.diffs[i]

LEMMA ActivateInPlaceIs ==
    ASSUME NEW sh \in Shell, Matching(sh), NEW e \in Envs, e \notin Range(sh.active)
    PROVE  /\ ActivateInPlace(sh, e) \in Shell /\ Matching(ActivateInPlace(sh, e))
           /\ SameLists(ActivateInPlace(sh, e), sh)
           /\ ActivateInPlace(sh, e).request = sh.request
           /\ Range(ActivateInPlace(sh, e).active) = Range(sh.active) \cup {e}
           /\ ActivateInPlace(sh, e).attached = sh.attached \cup {e}
           /\ Grown(ActivateInPlace(sh, e), sh)
<1> DEFINE diff == [active |-> sh.active, kind |-> sh.kind, inPlace |-> TRUE]
           a == <<e>> \o sh.active
           ds == <<diff>> \o sh.diffs
           r == ActivateInPlace(sh, e)
<1>1. r = [sh EXCEPT !.active = a, !.diffs = ds, !.kind = "inplace",
                     !.attached = @ \cup {e}]
  BY IsActiveIs DEF ActivateInPlace, Pushed
<1>2. diff \in Diff /\ diff.active = sh.active /\ diff.inPlace
  BY ShellIs DEF Diff
<1> HIDE DEF diff
<1>3. /\ a \in Seq(Envs) /\ DOMAIN a = 1..Len(sh.active) + 1 /\ a[1] = e
      /\ \A i \in 2..Len(sh.active) + 1 : a[i] = sh.active[i - 1]
      /\ Range(a) = Range(sh.active) \cup {e}
      /\ \A j \in Nat : Below(a, j + 1) = Below(sh.active, j)
  <2>1. sh.active \in Seq(Envs)
    BY ShellIs
  <2>2. /\ a \in Seq(Envs) /\ DOMAIN a = 1..Len(sh.active) + 1 /\ a[1] = e
    BY <2>1, OnTop
  <2>3. \A i \in 2..Len(sh.active) + 1 : a[i] = sh.active[i - 1]
    BY <2>1, OnTop
  <2>4. Range(a) = Range(sh.active) \cup {e}
    BY <2>1, OnTop
  <2>5. \A j \in Nat : Below(a, j + 1) = Below(sh.active, j)
    BY <2>1, OnTop
  <2> QED  BY <2>2, <2>3, <2>4, <2>5
<1>4. /\ ds \in Seq(Diff) /\ DOMAIN ds = 1..Len(sh.diffs) + 1 /\ ds[1] = diff
      /\ \A i \in 2..Len(sh.diffs) + 1 : ds[i] = sh.diffs[i - 1]
      /\ Len(ds) = Len(sh.diffs) + 1
  BY <1>2, ShellIs, OnTop
<1> HIDE DEF a, ds
<1>5. /\ r.active = a /\ r.diffs = ds /\ r.attached = sh.attached \cup {e}
      /\ SameLists(r, sh) /\ r.request = sh.request
  BY <1>1 DEF Shell, SameLists
<1>6. r \in Shell
  <2>1. sh.attached \cup {e} \in SUBSET Envs
    BY ShellIs
  <2> QED  BY <1>1, <1>3, <1>4, <2>1 DEF Shell
<1> HIDE DEF r
<1>7. Len(sh.active) \in Nat /\ DOMAIN sh.active = 1..Len(sh.active)
      /\ Len(sh.diffs) \in Nat /\ DOMAIN sh.diffs = 1..Len(sh.diffs)
  BY ShellIs
<1>8. Matching(r)
  <2>1. \A i, j \in DOMAIN a : a[i] = a[j] => i = j
    BY ShellIs, OnTopDistinct DEF Matching, a
  <2>2. ASSUME NEW j \in 1..Len(sh.diffs) + 1
        PROVE  ds[j].active = Below(a, j)
    <3>1. CASE j = 1
      <4>1. Below(a, 0 + 1) = Below(sh.active, 0)
        BY <1>3
      <4> QED  BY <1>2, <1>4, <3>1, <4>1, BelowZero, ShellIs
    <3>2. CASE j # 1
      <4>1. j \in 2..Len(sh.diffs) + 1 /\ j - 1 \in DOMAIN sh.diffs /\ j - 1 \in Nat
            /\ (j - 1) + 1 = j
        BY <1>7, <3>2
      <4>2. Below(a, (j - 1) + 1) = Below(sh.active, j - 1)
        BY <1>3, <4>1
      <4> QED  BY <1>4, <4>1, <4>2 DEF Matching
    <3> QED  BY <3>1, <3>2
  <2>3. ASSUME NEW j \in 1..Len(sh.diffs) + 1, j < Len(ds)
        PROVE  ds[j].inPlace
    <3>1. CASE j = 1
      BY <1>2, <1>4, <3>1
    <3>2. CASE j # 1
      <4>1. j \in 2..Len(sh.diffs) + 1 /\ j - 1 \in DOMAIN sh.diffs /\ j - 1 < Len(sh.diffs)
        BY <1>4, <1>7, <2>3, <3>2
      <4> QED  BY <1>4, <4>1 DEF Matching
    <3> QED  BY <3>1, <3>2
  <2> QED  BY <1>3, <1>4, <1>5, <2>1, <2>2, <2>3 DEF Matching
<1>9. Grown(r, sh)
  <2>1. ASSUME NEW j \in DOMAIN ds
        PROVE  \/ Range(sh.active) \subseteq Range(ds[j].active)
               \/ \E i \in DOMAIN sh.diffs : ds[j] = sh.diffs[i]
    <3>1. CASE j = 1
      BY <1>2, <1>4, <3>1
    <3>2. CASE j # 1
      <4>1. j \in 2..Len(sh.diffs) + 1 /\ j - 1 \in DOMAIN sh.diffs
        BY <1>4, <1>7, <3>2
      <4> QED  BY <1>4, <4>1
    <3> QED  BY <3>1, <3>2
  <2> QED  BY <1>3, <1>5, <2>1 DEF Grown
<1> QED  BY <1>3, <1>5, <1>6, <1>8, <1>9 DEF r

LEMMA SubshellIs ==
    ASSUME NEW sh \in Shell, Matching(sh), NEW e \in Envs, e \notin Range(sh.active)
    PROVE  /\ Subshell(sh, e) \in Shell /\ Matching(Subshell(sh, e))
           /\ Range(Subshell(sh, e).active) = Range(sh.active) \cup {e}
           /\ Subshell(sh, e).attached = {e} /\ Subshell(sh, e).request = Nobody
           /\ Subshell(sh, e).cwd = sh.cwd /\ Subshell(sh, e).auto = sh.auto
           /\ Subshell(sh, e).suppressed = sh.suppressed
           /\ Subshell(sh, e).claimed = sh.claimed /\ Subshell(sh, e).refused = sh.refused
           /\ Subshell(sh, e).warned = sh.warned
           /\ Subshell(sh, e).hooked = sh.hooked \cup ({e} \cap sh.claimed)
<1> DEFINE diff == [active |-> sh.active, kind |-> "none", inPlace |-> FALSE]
           a == <<e>> \o sh.active
           ds == <<diff>>
           r == Subshell(sh, e)
<1>1. r = [sh EXCEPT !.active = a, !.diffs = ds, !.kind = "interactive",
                     !.request = Nobody, !.attached = {e},
                     !.hooked = @ \cup ({e} \cap sh.claimed)]
  BY IsActiveIs DEF Subshell, Pushed
<1>2. diff \in Diff /\ diff.active = sh.active
  BY ShellIs DEF Diff
<1> HIDE DEF diff
<1>3. /\ a \in Seq(Envs) /\ DOMAIN a = 1..Len(sh.active) + 1 /\ a[1] = e
      /\ \A i \in 2..Len(sh.active) + 1 : a[i] = sh.active[i - 1]
      /\ Range(a) = Range(sh.active) \cup {e}
      /\ \A j \in Nat : Below(a, j + 1) = Below(sh.active, j)
  <2>1. sh.active \in Seq(Envs)
    BY ShellIs
  <2>2. /\ a \in Seq(Envs) /\ DOMAIN a = 1..Len(sh.active) + 1 /\ a[1] = e
    BY <2>1, OnTop
  <2>3. \A i \in 2..Len(sh.active) + 1 : a[i] = sh.active[i - 1]
    BY <2>1, OnTop
  <2>4. Range(a) = Range(sh.active) \cup {e}
    BY <2>1, OnTop
  <2>5. \A j \in Nat : Below(a, j + 1) = Below(sh.active, j)
    BY <2>1, OnTop
  <2> QED  BY <2>2, <2>3, <2>4, <2>5
<1>4. ds \in Seq(Diff) /\ DOMAIN ds = {1} /\ Len(ds) = 1 /\ ds[1] = diff
  BY <1>2
<1> HIDE DEF a, ds
<1>5. /\ r.active = a /\ r.diffs = ds /\ r.attached = {e} /\ r.request = Nobody
      /\ r.cwd = sh.cwd /\ r.auto = sh.auto /\ r.suppressed = sh.suppressed
      /\ r.claimed = sh.claimed /\ r.refused = sh.refused /\ r.warned = sh.warned
      /\ r.hooked = sh.hooked \cup ({e} \cap sh.claimed)
  BY <1>1 DEF Shell
<1>6. r \in Shell
  <2> DEFINE h == sh.hooked \cup ({e} \cap sh.claimed)
             own == {e}
  <2>1. h \in SUBSET Dirs /\ own \in SUBSET Envs
    BY ShellIs
  <2>2. r = [sh EXCEPT !.active = a, !.diffs = ds, !.kind = "interactive",
                       !.request = Nobody, !.attached = own, !.hooked = h]
    BY <1>1
  <2> HIDE DEF h, own, r
  <2> QED  BY <1>3, <1>4, <2>1, <2>2 DEF Shell
<1> HIDE DEF r
<1>7. Len(sh.active) \in Nat /\ DOMAIN sh.active = 1..Len(sh.active)
  BY ShellIs
<1>8. Matching(r)
  <2>1. \A i, j \in DOMAIN a : a[i] = a[j] => i = j
    BY ShellIs, OnTopDistinct DEF Matching, a
  <2>2. ds[1].active = Below(a, 1)
    <3>1. Below(a, 0 + 1) = Below(sh.active, 0)
      BY <1>3
    <3> QED  BY <1>2, <1>4, <3>1, BelowZero, ShellIs
  <2>3. \A j \in DOMAIN ds : j = 1 /\ ~(j < Len(ds))
    BY <1>4
  <2> QED  BY <1>5, <2>1, <2>2, <2>3 DEF Matching
<1> QED  BY <1>3, <1>5, <1>6, <1>8 DEF r

\* The first n layers of the stack.
Layers(sh, n) == {sh.active[i] : i \in 1..n}

LEMMA LayersGone ==
    ASSUME NEW sh \in Shell, Matching(sh), NEW n \in Nat, n <= Len(sh.active)
    PROVE  Range(Below(sh.active, n)) = Range(sh.active) \ Layers(sh, n)
BY RangeBelow, ShellIs DEF Matching, Layers

\* The first n diffs give back the stack without its first n layers.
LEMMA RestoreDiffsIs ==
    ASSUME NEW sh \in Shell, Matching(sh), NEW n \in Nat, n <= Len(sh.diffs),
           n <= Len(sh.active), NEW es, es = Layers(sh, n)
    PROVE  /\ RestoreDiffs(sh, n, es) \in Shell /\ Matching(RestoreDiffs(sh, n, es))
           /\ SameLists(RestoreDiffs(sh, n, es), sh)
           /\ RestoreDiffs(sh, n, es).request = sh.request
           /\ RestoreDiffs(sh, n, es).active = Below(sh.active, n)
           /\ RestoreDiffs(sh, n, es).attached = sh.attached \ es
           /\ n < Len(sh.diffs) => RestoreDiffs(sh, n, es).diffs # <<>>
           /\ \A j \in DOMAIN RestoreDiffs(sh, n, es).diffs :
                \E i \in DOMAIN sh.diffs : RestoreDiffs(sh, n, es).diffs[j] = sh.diffs[i]
<1> DEFINE r == RestoreDiffs(sh, n, es)
<1>1. CASE n = 0
  <2>1. es = {}
    BY <1>1 DEF Layers
  <2>2. r = sh
    BY <1>1 DEF RestoreDiffs
  <2>3. Below(sh.active, 0) = sh.active
    BY BelowZero, ShellIs
  <2>4. Len(sh.diffs) > 0 => sh.diffs # <<>>
    BY ShellIs
  <2> QED  BY <1>1, <2>1, <2>2, <2>3, <2>4 DEF SameLists
<1>2. CASE n # 0
  <2> DEFINE diff == sh.diffs[n]
             ds == IF diff.inPlace THEN SubSeq(sh.diffs, n + 1, Len(sh.diffs)) ELSE <<>>
  <2>1. n \in DOMAIN sh.diffs
    BY <1>2, ShellIs
  <2>2. diff.active \in Seq(Envs) /\ diff.kind \in {"none", "inplace", "interactive"}
        /\ diff.active = Below(sh.active, n) /\ (n < Len(sh.diffs) => diff.inPlace)
    BY <2>1, DiffIs DEF Matching
  <2>3. r = [sh EXCEPT !.active = diff.active, !.diffs = ds, !.kind = diff.kind,
                       !.attached = @ \ es]
    BY <1>2 DEF RestoreDiffs
  <2> HIDE DEF diff
  <2>4. ds = IF diff.inPlace THEN Below(sh.diffs, n) ELSE <<>>
    BY DEF Below
  <2> HIDE DEF ds
  <2>5. /\ Below(sh.diffs, n) \in Seq(Diff)
        /\ Len(Below(sh.diffs, n)) = IF n < Len(sh.diffs) THEN Len(sh.diffs) - n ELSE 0
        /\ DOMAIN Below(sh.diffs, n) = 1..Len(Below(sh.diffs, n))
        /\ \A i \in 1..Len(sh.diffs) - n : Below(sh.diffs, n)[i] = sh.diffs[n + i]
    BY ShellIs, BelowIs
  <2>6. <<>> \in Seq(Diff) /\ Len(<<>>) = 0 /\ DOMAIN <<>> = {}
    OBVIOUS
  <2>7. ds \in Seq(Diff)
    BY <2>4, <2>5, <2>6
  <2>8. /\ r.active = diff.active /\ r.diffs = ds /\ r.attached = sh.attached \ es
        /\ SameLists(r, sh) /\ r.request = sh.request
    BY <2>3 DEF Shell, SameLists
  <2>9. r \in Shell
    <3>1. sh.attached \ es \in SUBSET Envs
      BY ShellIs
    <3> QED  BY <2>2, <2>3, <2>7, <3>1 DEF Shell
  <2> HIDE DEF r
  <2>10. /\ Range(Below(sh.active, n)) = Range(sh.active) \ es
         /\ \A i, j \in DOMAIN Below(sh.active, n) :
              Below(sh.active, n)[i] = Below(sh.active, n)[j] => i = j
    BY RangeBelow, ShellIs DEF Matching, Layers
  <2>11. Len(sh.diffs) \in Nat /\ DOMAIN sh.diffs = 1..Len(sh.diffs)
    BY ShellIs
  <2>12. \A j \in DOMAIN ds : /\ j \in Nat /\ n + j \in DOMAIN sh.diffs /\ ds[j] = sh.diffs[n + j]
                              /\ j < Len(ds) => n + j < Len(sh.diffs)
    <3> SUFFICES ASSUME NEW j \in DOMAIN ds, n < Len(sh.diffs)
                 PROVE  /\ j \in Nat /\ n + j \in DOMAIN sh.diffs /\ ds[j] = sh.diffs[n + j]
                        /\ j < Len(ds) => n + j < Len(sh.diffs)
      BY <2>4, <2>5, <2>6
    <3>1. diff.inPlace /\ ds = Below(sh.diffs, n) /\ Len(ds) = Len(sh.diffs) - n
          /\ j \in 1..Len(sh.diffs) - n
      BY <2>2, <2>4, <2>5
    <3>2. j \in Nat /\ n + j \in 1..Len(sh.diffs)
          /\ (j < Len(sh.diffs) - n => n + j < Len(sh.diffs))
      BY <2>11, <3>1
    <3> QED  BY <2>5, <2>11, <3>1, <3>2
  <2>13. \A j \in DOMAIN ds : ds[j].active = Below(Below(sh.active, n), j)
    <3> SUFFICES ASSUME NEW j \in DOMAIN ds
                 PROVE  ds[j].active = Below(Below(sh.active, n), j)
      OBVIOUS
    <3>1. ds[j].active = Below(sh.active, n + j)
      BY <2>12 DEF Matching
    <3>2. Below(Below(sh.active, n), j) = Below(sh.active, n + j)
      BY <2>12, ShellIs, BelowBelow
    <3> QED  BY <3>1, <3>2
  <2>14. \A j \in DOMAIN ds : j < Len(ds) => ds[j].inPlace
    BY <2>12 DEF Matching
  <2>15. Matching(r)
    BY <2>2, <2>8, <2>10, <2>13, <2>14 DEF Matching
  <2>16. n < Len(sh.diffs) => ds # <<>>
    <3> SUFFICES ASSUME n < Len(sh.diffs) PROVE ds # <<>>
      OBVIOUS
    <3>1. Len(ds) = Len(sh.diffs) - n
      BY <2>2, <2>4, <2>5
    <3>2. Len(sh.diffs) - n # 0
      BY <2>11
    <3> QED  BY <2>6, <3>1, <3>2
  <2>17. \A j \in DOMAIN r.diffs : \E i \in DOMAIN sh.diffs : r.diffs[j] = sh.diffs[i]
    BY <2>8, <2>12
  <2> QED  BY <2>2, <2>8, <2>9, <2>10, <2>15, <2>16, <2>17 DEF r
<1> QED  BY <1>1, <1>2

-----------------------------------------------------------------------------
\* Several activations.  The recursion of ActivateAll is one over the levels of
\* the working directory: a level for which there is no such function, or after
\* which the shell is not as it should be, would have a smallest one.
LEMMA Smallest ==
    ASSUME NEW T, T \subseteq Nat, T # {}
    PROVE  \E x \in T : \A y \in T : x <= y
<1> DEFINE R == {ss \in Nat \X Nat : ss[1] < ss[2]}
<1>1. IsWellFoundedOn(R, Nat)
  BY NatLessThanWellFounded DEF OpToRel
<1>2. \E x \in T : \A y \in T : <<y, x>> \notin R
  <2> HIDE DEF R
  <2> QED  BY <1>1, WFMin
<1>3. PICK x \in T : \A y \in T : <<y, x>> \notin R
  BY <1>2
<1>4. \A y \in T : ~(y < x)
  BY <1>3
<1> QED  BY <1>4

Level(sh, n) == SubSeq(sh.cwd, 1, n - 1)
StepUp(x, sh, es, n) == IF Level(sh, n) \in es THEN ActivateInPlace(x, Level(sh, n)) ELSE x
Climbs(g, sh, es, m) ==
    g = [n \in 0..m |-> IF n = 0 THEN sh ELSE StepUp(g[n - 1], sh, es, n)]

\* The shell sh after the activation of the environments of us.
Activated(x, sh, us) ==
    /\ x \in Shell /\ Matching(x) /\ SameLists(x, sh) /\ x.request = sh.request
    /\ Range(x.active) = Range(sh.active) \cup us
    /\ x.attached = sh.attached \cup us
    /\ Grown(x, sh)
    /\ us = {} => x.active = sh.active

UpTo(es, n) == {d \in es : Len(d) < n}

LEMMA LevelIs ==
    ASSUME NEW sh \in Shell, NEW n \in 1..Len(sh.cwd) + 1
    PROVE  Len(Level(sh, n)) = n - 1
<1>1. sh.cwd \in Seq(STRING) /\ Len(sh.cwd) \in Nat
  BY AutoAssumption, ShellIs, LenProperties
<1>2. n - 1 \in Int /\ \A i \in 1..n - 1 : sh.cwd[i] \in STRING
  BY <1>1, ElementOfSeq
<1>3. Len(SubSeq(sh.cwd, 1, n - 1)) = IF 1 <= n - 1 THEN (n - 1) - 1 + 1 ELSE 0
  BY <1>2, SubSeqProperties
<1>4. (1 <= n - 1 => (n - 1) - 1 + 1 = n - 1) /\ (~(1 <= n - 1) => n - 1 = 0)
  BY <1>1
<1> QED  BY <1>3, <1>4 DEF Level

LEMMA InsideIs ==
    ASSUME NEW sh \in Shell, NEW d \in Dirs, Inside(sh, d)
    PROVE  Len(d) \in 0..Len(sh.cwd) /\ Level(sh, Len(d) + 1) = d
<1>1. d \in Seq(STRING) /\ Len(d) \in Nat /\ sh.cwd \in Seq(STRING) /\ Len(sh.cwd) \in Nat
  BY AutoAssumption, ShellIs, LenProperties
<1>2. Len(d) <= Len(sh.cwd) /\ SubSeq(d, 1, Len(d)) = SubSeq(sh.cwd, 1, Len(d))
  BY DEF Inside, IsPrefix
<1>3. SubSeq(d, 1, Len(d)) = d
  BY <1>1, SubSeqFull
<1>4. (Len(d) + 1) - 1 = Len(d)
  BY <1>1
<1> QED  BY <1>1, <1>2, <1>3, <1>4 DEF Level

LEMMA StepUpIs ==
    ASSUME NEW sh \in Shell, NEW es \in SUBSET Dirs, es \cap Range(sh.active) = {},
           \A d \in es : Inside(sh, d), NEW n \in 1..Len(sh.cwd) + 1,
           NEW x, Activated(x, sh, UpTo(es, n - 1))
    PROVE  Activated(StepUp(x, sh, es, n), sh, UpTo(es, n))
<1> DEFINE l == Level(sh, n)
<1>1. Len(sh.cwd) \in Nat /\ Len(l) = n - 1
  BY AutoAssumption, ShellIs, LenProperties, LevelIs
<1>2. \A d \in es : Len(d) \in Nat /\ Level(sh, Len(d) + 1) = d
  BY <1>1, InsideIs
<1>3. \A d \in es : Len(d) = n - 1 => d = l
  <2> SUFFICES ASSUME NEW d \in es, Len(d) = n - 1 PROVE d = l
    OBVIOUS
  <2>1. Len(d) + 1 = n
    OBVIOUS
  <2> QED  BY <1>2, <2>1
<1> HIDE DEF l
<1>4. UpTo(es, n) = UpTo(es, n - 1) \cup ({l} \cap es)
  <2>1. \A d \in es : (Len(d) < n) <=> (Len(d) < n - 1 \/ Len(d) = n - 1)
    BY <1>2
  <2> QED  BY <1>1, <1>3, <2>1 DEF UpTo
<1>5. CASE l \in es
  <2>1. l \notin UpTo(es, n - 1)
    BY <1>1 DEF UpTo
  <2>2. l \notin Range(x.active) /\ l \in Envs
    BY <1>5, <2>1 DEF Activated, Envs
  <2> DEFINE y == ActivateInPlace(x, l)
  <2>3. /\ y \in Shell /\ Matching(y) /\ SameLists(y, x) /\ y.request = x.request
        /\ Range(y.active) = Range(x.active) \cup {l} /\ y.attached = x.attached \cup {l}
        /\ Grown(y, x)
    BY <2>2, ActivateInPlaceIs DEF Activated
  <2>4. StepUp(x, sh, es, n) = y
    BY <1>5 DEF StepUp, l
  <2> HIDE DEF y
  <2>5. Grown(y, sh)
    BY <2>3 DEF Activated, Grown
  <2>6. UpTo(es, n) # {}
    BY <1>4, <1>5
  <2> QED  BY <1>4, <1>5, <2>3, <2>4, <2>5, <2>6 DEF Activated, SameLists
<1>6. CASE l \notin es
  BY <1>4, <1>6 DEF StepUp, l
<1> QED  BY <1>5, <1>6

LEMMA ClimbOn ==
    ASSUME NEW sh, NEW es, NEW m \in Nat, NEW g, Climbs(g, sh, es, m)
    PROVE  \E h : /\ Climbs(h, sh, es, m + 1)
                  /\ \A n \in 0..m : h[n] = g[n]
                  /\ h[m + 1] = StepUp(g[m], sh, es, m + 1)
<1> DEFINE h == [n \in 0..m + 1 |-> IF n = m + 1 THEN StepUp(g[m], sh, es, n) ELSE g[n]]
<1>1. \A n \in 0..m : h[n] = g[n]
  OBVIOUS
<1>2. h[m + 1] = StepUp(g[m], sh, es, m + 1)
  OBVIOUS
<1>3. \A n \in 0..m : g[n] = IF n = 0 THEN sh ELSE StepUp(g[n - 1], sh, es, n)
  BY DEF Climbs
<1>4. ASSUME NEW n \in 0..m + 1
      PROVE  h[n] = IF n = 0 THEN sh ELSE StepUp(h[n - 1], sh, es, n)
  <2>1. CASE n = m + 1
    <3>1. n # 0 /\ n - 1 = m /\ m \in 0..m
      BY <2>1
    <3> QED  BY <1>1, <1>2, <2>1, <3>1
  <2>2. CASE n # m + 1
    <3>1. n \in 0..m /\ (n # 0 => n - 1 \in 0..m)
      BY <2>2
    <3> QED  BY <1>1, <1>3, <3>1
  <2> QED  BY <2>1, <2>2
<1>5. h = [n \in 0..m + 1 |-> h[n]]
  OBVIOUS
<1>6. Climbs(h, sh, es, m + 1)
  <2> HIDE DEF h
  <2> QED  BY <1>4, <1>5 DEF Climbs
<1> QED  BY <1>1, <1>2, <1>6

LEMMA AllUp ==
    ASSUME NEW sh \in Shell, Matching(sh), NEW es \in SUBSET Dirs,
           es \cap Range(sh.active) = {}, \A d \in es : Inside(sh, d),
           NEW m \in 0..Len(sh.cwd) + 1
    PROVE  \E g : Climbs(g, sh, es, m) /\ Activated(g[m], sh, UpTo(es, m))
<1> DEFINE P(k) == \E g : Climbs(g, sh, es, k) /\ Activated(g[k], sh, UpTo(es, k))
           T == {k \in 0..Len(sh.cwd) + 1 : ~P(k)}
<1>1. Len(sh.cwd) \in Nat
  BY AutoAssumption, ShellIs, LenProperties
<1>2. P(0)
  <2> DEFINE g == [n \in 0..0 |-> sh]
  <2>1. \A n \in 0..0 : n = 0
    OBVIOUS
  <2>2. g[0] = sh /\ g = [n \in 0..0 |-> IF n = 0 THEN sh ELSE StepUp(g[n - 1], sh, es, n)]
    BY <2>1
  <2>3. UpTo(es, 0) = {}
    BY AutoAssumption, LenProperties DEF UpTo
  <2> HIDE DEF g
  <2>4. Grown(sh, sh)
    BY DEF Grown
  <2> QED  BY <2>2, <2>3, <2>4 DEF Climbs, Activated, SameLists
<1>3. ASSUME NEW k \in Nat, k + 1 \in 0..Len(sh.cwd) + 1, P(k)
      PROVE  P(k + 1)
  <2>1. PICK g : Climbs(g, sh, es, k) /\ Activated(g[k], sh, UpTo(es, k))
    BY <1>3
  <2>2. PICK h : Climbs(h, sh, es, k + 1) /\ h[k + 1] = StepUp(g[k], sh, es, k + 1)
    BY <2>1, ClimbOn
  <2>3. k + 1 \in 1..Len(sh.cwd) + 1 /\ (k + 1) - 1 = k
    BY <1>1, <1>3
  <2>4. Activated(StepUp(g[k], sh, es, k + 1), sh, UpTo(es, k + 1))
    BY <2>1, <2>3, StepUpIs
  <2> QED  BY <2>2, <2>4
<1> HIDE DEF P
<1>4. T = {}
  <2> SUFFICES ASSUME T # {} PROVE FALSE
    OBVIOUS
  <2>1. PICK k \in T : \A y \in T : k <= y
    <3>1. T \subseteq Nat
      BY <1>1
    <3> QED  BY <3>1, Smallest
  <2>2. k \in Nat /\ k # 0 /\ k \in 0..Len(sh.cwd) + 1
    BY <1>1, <1>2
  <2>3. k - 1 \in Nat /\ (k - 1) + 1 = k /\ k - 1 \in 0..Len(sh.cwd) + 1 /\ ~(k <= k - 1)
    BY <1>1, <2>2
  <2>4. P(k - 1)
    BY <2>1, <2>3
  <2> QED  BY <1>3, <2>2, <2>3, <2>4
<1>5. P(m)
  BY <1>4
<1> QED  BY <1>5 DEF P

LEMMA ActivateAllIs ==
    ASSUME NEW sh \in Shell, Matching(sh), NEW es \in SUBSET Dirs,
           es \cap Range(sh.active) = {}, \A d \in es : Inside(sh, d)
    PROVE  Activated(ActivateAll(sh, es), sh, es)
<1> DEFINE N == Len(sh.cwd) + 1
           up == CHOOSE g : Climbs(g, sh, es, N)
<1>1. Len(sh.cwd) \in Nat /\ N \in 0..Len(sh.cwd) + 1
  BY AutoAssumption, ShellIs, LenProperties
<1>2. \E g : Climbs(g, sh, es, N) /\ Activated(g[N], sh, UpTo(es, N))
  BY <1>1, AllUp
<1>3. Climbs(up, sh, es, N)
  BY <1>2
<1>4. ActivateAll(sh, es) = up[N]
  BY DEF ActivateAll, Climbs, StepUp, Level
<1>5. PICK g : Climbs(g, sh, es, N) /\ Activated(g[N], sh, UpTo(es, N))
  BY <1>2
<1> HIDE DEF up
<1>6. up[N] = g[N]
  <2> DEFINE T == {n \in 0..N : up[n] # g[n]}
  <2>1. /\ \A n \in 0..N : up[n] = IF n = 0 THEN sh ELSE StepUp(up[n - 1], sh, es, n)
        /\ \A n \in 0..N : g[n] = IF n = 0 THEN sh ELSE StepUp(g[n - 1], sh, es, n)
    BY <1>3, <1>5 DEF Climbs
  <2> HIDE DEF N
  <2>2. N \in Nat
    BY <1>1 DEF N
  <2> SUFFICES ASSUME T # {} PROVE FALSE
    BY <2>2
  <2>3. PICK n \in T : \A y \in T : n <= y
    <3>1. T \subseteq Nat
      BY <2>2
    <3> QED  BY <3>1, Smallest
  <2>4. n \in 0..N /\ n # 0
    BY <2>1, <2>2, <2>3
  <2>5. n - 1 \in 0..N /\ ~(n <= n - 1)
    BY <2>2, <2>4
  <2>6. up[n - 1] = g[n - 1]
    BY <2>3, <2>5
  <2> QED  BY <2>1, <2>3, <2>4, <2>6
<1>7. UpTo(es, N) = es
  <2>1. \A d \in es : Len(d) < N
    BY <1>1, InsideIs
  <2> QED  BY <2>1 DEF UpTo
<1> QED  BY <1>4, <1>5, <1>6, <1>7

-----------------------------------------------------------------------------
\* What the hook pops.
LEMMA MinIs ==
    ASSUME NEW T, T \subseteq Nat, T # {}
    PROVE  Min(T) \in T /\ \A y \in T : Min(T) <= y
BY Smallest DEF Min

LEMMA PrefixIs ==
    ASSUME NEW S, NEW s \in Seq(S), NEW n \in 0..Len(s)
    PROVE  /\ SubSeq(s, 1, n) \in Seq(S) /\ Len(SubSeq(s, 1, n)) = n
           /\ DOMAIN SubSeq(s, 1, n) = 1..n
           /\ \A i \in 1..n : SubSeq(s, 1, n)[i] = s[i]
<1>1. Len(s) \in Nat /\ \A i \in 1..Len(s) : s[i] \in S
  BY LenProperties, ElementOfSeq
<1>2. \A i \in 1..n : s[i] \in S
  BY <1>1
<1>3. n \in Int /\ n - 1 + 1 = n
  BY <1>1
<1>4. /\ SubSeq(s, 1, n) \in Seq(S)
      /\ Len(SubSeq(s, 1, n)) = IF 1 <= n THEN n - 1 + 1 ELSE 0
      /\ \A i \in 1..n - 1 + 1 : SubSeq(s, 1, n)[i] = s[1 + i - 1]
  BY <1>2, <1>3, SubSeqProperties
<1>5. ~(1 <= n) => n = 0
  BY <1>1
<1>6. Len(SubSeq(s, 1, n)) = n
  BY <1>3, <1>4, <1>5
<1>7. DOMAIN SubSeq(s, 1, n) = 1..n
  BY <1>4, <1>6, LenProperties
<1>8. \A i \in 1..n : 1 + i - 1 = i
  BY <1>1
<1> QED  BY <1>3, <1>4, <1>6, <1>7, <1>8

LEMMA PopFrontIs ==
    ASSUME NEW S, NEW s \in Seq(S), NEW L, NEW pop, pop = PopFront(s, L)
    PROVE  /\ pop \in Seq(S) /\ Len(pop) \in 0..Len(s) /\ DOMAIN pop = 1..Len(pop)
           /\ \A i \in 1..Len(pop) : pop[i] = s[i] /\ s[i] \in L
           /\ Len(pop) < Len(s) => s[Len(pop) + 1] \notin L
<1> DEFINE stay == {i \in DOMAIN s : s[i] \notin L}
           n == IF stay = {} THEN Len(s) ELSE Min(stay) - 1
<1>1. Len(s) \in Nat /\ DOMAIN s = 1..Len(s)
  BY LenProperties
<1>2. pop = SubSeq(s, 1, n)
  BY DEF PopFront
<1>3. /\ n \in 0..Len(s)
      /\ \A i \in 1..n : s[i] \in L
      /\ n < Len(s) => s[n + 1] \notin L
  <2>1. CASE stay = {}
    BY <1>1, <2>1
  <2>2. CASE stay # {}
    <3>1. stay \subseteq Nat
      BY <1>1
    <3>2. Min(stay) \in stay /\ \A y \in stay : Min(stay) <= y
      BY <2>2, <3>1, MinIs
    <3> DEFINE m == Min(stay)
    <3>3. n = m - 1
      BY <2>2
    <3> HIDE DEF m, n
    <3>4. m \in 1..Len(s) /\ s[m] \notin L
      BY <1>1, <3>2 DEF m
    <3>5. n \in 0..Len(s) /\ n + 1 = m
      BY <1>1, <3>3, <3>4
    <3>6. \A i \in 1..n : s[i] \in L
      <4> SUFFICES ASSUME NEW i \in 1..n, s[i] \notin L PROVE FALSE
        OBVIOUS
      <4>1. i \in 1..Len(s) /\ ~(m <= i)
        BY <1>1, <3>4, <3>5
      <4> QED  BY <1>1, <3>2, <4>1 DEF m
    <3> QED  BY <3>4, <3>5, <3>6
  <2> QED  BY <2>1, <2>2
<1> HIDE DEF n
<1>4. /\ pop \in Seq(S) /\ Len(pop) = n /\ DOMAIN pop = 1..n
      /\ \A i \in 1..n : pop[i] = s[i]
  BY <1>2, <1>3, PrefixIs
<1> QED  BY <1>3, <1>4

\* How many of the layers at the front are popped: all that have a diff, or, if
\* one cannot be opened, those above it.
LEMMA PopCountIs ==
    ASSUME NEW sh \in Shell, NEW pop \in Seq(Envs)
    PROVE  /\ PopCount(sh, pop) \in Nat
           /\ PopCount(sh, pop) <= Len(pop) /\ PopCount(sh, pop) <= Len(sh.diffs)
           /\ Unopened(sh, pop) = {} =>
                PopCount(sh, pop) = Len(pop) \/ PopCount(sh, pop) = Len(sh.diffs)
           /\ Unopened(sh, pop) # {} =>
                /\ PopCount(sh, pop) < Len(pop) /\ PopCount(sh, pop) < Len(sh.diffs)
                /\ pop[PopCount(sh, pop) + 1] \notin dotFlox
           /\ Unopened(sh, pop) =
                {i \in 1..Len(pop) : i <= Len(sh.diffs) /\ pop[i] \notin dotFlox}
<1> DEFINE p == Len(pop)
           q == Len(sh.diffs)
           w == Min({p, q})
           un == Unopened(sh, pop)
           n == PopCount(sh, pop)
<1>1. p \in Nat /\ q \in Nat
  BY ShellIs, LenProperties
<1>2. w \in {p, q} /\ w <= p /\ w <= q
  <2>1. {p, q} \subseteq Nat /\ {p, q} # {}
    BY <1>1
  <2> HIDE DEF p, q
  <2> QED  BY <2>1, MinIs
<1>3. w \in 0..p
  BY <1>1, <1>2
<1>4. Len(Walk(sh, pop)) = w /\ DOMAIN Walk(sh, pop) = 1..w
  BY <1>3, PrefixIs DEF Walk
<1>5. un = {i \in 1..w : pop[i] \notin dotFlox}
  BY <1>4 DEF Unopened
<1>6. n = IF un = {} THEN w ELSE Min(un) - 1
  BY <1>4 DEF PopCount
<1> HIDE DEF p, q, w, un, n
<1>7. \A i \in 1..p : (i \in 1..w) <=> (i <= q)
  BY <1>1, <1>2
<1>8. \A i \in 1..w : i \in 1..p
  BY <1>1, <1>2
<1>9. un = {i \in 1..p : i <= q /\ pop[i] \notin dotFlox}
  BY <1>5, <1>7, <1>8
<1>10. CASE un = {}
  <2>1. n = w
    BY <1>6, <1>10
  <2> QED  BY <1>1, <1>2, <1>9, <1>10, <2>1 DEF p, q, un, n
<1>11. CASE un # {}
  <2> DEFINE m == Min(un)
  <2>1. un \subseteq Nat
    BY <1>1, <1>2, <1>5
  <2>2. m \in un
    BY <1>11, <2>1, MinIs
  <2>3. n = m - 1
    BY <1>6, <1>11
  <2> HIDE DEF m
  <2>4. m \in 1..w /\ pop[m] \notin dotFlox
    BY <1>5, <2>2
  <2>5. n \in Nat /\ n < p /\ n < q /\ n <= p /\ n <= q /\ n + 1 = m
    BY <1>1, <1>2, <2>3, <2>4
  <2> QED  BY <1>9, <1>11, <2>4, <2>5 DEF p, q, un, n
<1> QED  BY <1>10, <1>11

\* What a shell inherited stays through deactivations and activations.
LEMMA RestRestored ==
    ASSUME NEW sh \in Shell, Matching(sh), NEW n \in Nat, n <= Len(sh.diffs),
           n <= Len(sh.active), NEW es, es = Layers(sh, n),
           NEW inh, Rests(sh, inh)
    PROVE  Rests(RestoreDiffs(sh, n, es), inh)
<1> DEFINE r == RestoreDiffs(sh, n, es)
<1>1. /\ r.active = Below(sh.active, n) /\ Range(r.active) = Range(sh.active) \ es
      /\ r.attached = sh.attached \ es
      /\ \A j \in DOMAIN r.diffs : \E i \in DOMAIN sh.diffs : r.diffs[j] = sh.diffs[i]
  <2>1. r.active = Below(sh.active, n)
    BY RestoreDiffsIs
  <2>2. Range(r.active) = Range(sh.active) \ es
    <3>1. Range(Below(sh.active, n)) = Range(sh.active) \ es
      BY LayersGone
    <3> QED  BY <2>1, <3>1
  <2>3. r.attached = sh.attached \ es
    BY RestoreDiffsIs
  <2>4. \A j \in DOMAIN r.diffs : \E i \in DOMAIN sh.diffs : r.diffs[j] = sh.diffs[i]
    BY RestoreDiffsIs
  <2> QED  BY <2>1, <2>2, <2>3, <2>4
<1> HIDE DEF r
<1>2. inh \subseteq Range(r.active)
  <2>1. CASE n = 0
    <3>1. es = {}
      BY <2>1 DEF Layers
    <3> QED  BY <1>1, <3>1 DEF Rests
  <2>2. CASE n # 0
    <3>1. n \in DOMAIN sh.diffs
      BY <2>2, ShellIs
    <3>2. sh.diffs[n].active = r.active
      BY <1>1, <3>1 DEF Matching
    <3> QED  BY <3>1, <3>2 DEF Rests
  <2> QED  BY <2>1, <2>2
<1>3. r.attached = Range(r.active) \ inh
  BY <1>1, <1>2 DEF Rests
<1>4. \A j \in DOMAIN r.diffs : inh \subseteq Range(r.diffs[j].active)
  BY <1>1 DEF Rests
<1> QED  BY <1>2, <1>3, <1>4 DEF Rests, r

LEMMA RestGrown ==
    ASSUME NEW sh, NEW x, NEW us, NEW inh, Rests(sh, inh), Grown(x, sh),
           us \cap Range(sh.active) = {}, Range(x.active) = Range(sh.active) \cup us,
           x.attached = sh.attached \cup us
    PROVE  Rests(x, inh)
<1>1. inh \subseteq Range(x.active)
  BY DEF Rests
<1>2. \A j \in DOMAIN x.diffs : inh \subseteq Range(x.diffs[j].active)
  BY DEF Rests, Grown
<1>3. x.attached = Range(x.active) \ inh
  BY DEF Rests
<1> QED  BY <1>1, <1>2, <1>3 DEF Rests

-----------------------------------------------------------------------------
\* A shell that is good but for what its history says of environments that are
\* not active any more, which Remember forgets.
Nearly(sh) ==
    /\ sh \in Shell /\ Matching(sh)
    /\ sh.request # Nobody => sh.active # <<>> /\ Head(sh.active) = sh.request
    /\ sh.claimed = sh.auto
    /\ sh.auto \cap Range(sh.active) \subseteq sh.hooked
    /\ sh.hooked \cap Range(sh.active) \subseteq sh.auto \cup sh.warned
    /\ sh.refused \cap sh.hooked \cap Range(sh.active) = {}
    /\ sh.refused \subseteq sh.suppressed
    /\ \A d \in sh.refused : Inside(sh, d)

LEMMA RememberIs ==
    ASSUME NEW sh \in Shell
    PROVE  /\ Remember(sh) \in Shell
           /\ Remember(sh).cwd = sh.cwd /\ Remember(sh).active = sh.active
           /\ Remember(sh).diffs = sh.diffs /\ Remember(sh).request = sh.request
           /\ Remember(sh).attached = sh.attached /\ Remember(sh).auto = sh.auto
           /\ Remember(sh).claimed = sh.claimed /\ Remember(sh).suppressed = sh.suppressed
           /\ Remember(sh).refused = sh.refused
           /\ Remember(sh).hooked = sh.hooked \cap Range(sh.active)
           /\ Remember(sh).warned = sh.warned \cap Range(sh.active)
<1> DEFINE h == sh.hooked \cap Range(sh.active)
           w == sh.warned \cap Range(sh.active)
           r == [sh EXCEPT !.hooked = h, !.warned = w]
<1>1. h = {d \in sh.hooked : IsActive(sh, d)} /\ w = {d \in sh.warned : IsActive(sh, d)}
  BY IsActiveIs
<1>2. Remember(sh) = r
  BY <1>1 DEF Remember
<1>3. h \in SUBSET Dirs /\ w \in SUBSET Dirs
  BY ShellIs
<1> HIDE DEF h, w
<1>4. r \in Shell
  BY <1>3 DEF Shell
<1>5. /\ r.cwd = sh.cwd /\ r.active = sh.active /\ r.diffs = sh.diffs
      /\ r.request = sh.request /\ r.attached = sh.attached /\ r.auto = sh.auto
      /\ r.claimed = sh.claimed /\ r.suppressed = sh.suppressed /\ r.refused = sh.refused
      /\ r.hooked = h /\ r.warned = w
  BY DEF Shell
<1> HIDE DEF r
<1> QED  BY <1>2, <1>4, <1>5 DEF h, w

LEMMA RememberGood ==
    ASSUME NEW sh, Nearly(sh)
    PROVE  Good(Remember(sh))
<1> DEFINE r == Remember(sh)
<1>1. sh \in Shell
  BY DEF Nearly
<1>2. /\ r \in Shell
      /\ r.cwd = sh.cwd /\ r.active = sh.active /\ r.diffs = sh.diffs
      /\ r.request = sh.request /\ r.auto = sh.auto
      /\ r.claimed = sh.claimed /\ r.suppressed = sh.suppressed /\ r.refused = sh.refused
      /\ r.hooked = sh.hooked \cap Range(sh.active)
      /\ r.warned = sh.warned \cap Range(sh.active)
  BY <1>1, RememberIs
<1> HIDE DEF r
<1>3. Matching(r)
  BY <1>2 DEF Nearly, Matching
<1>4. Tracking(r)
  BY <1>2 DEF Nearly, Tracking
<1>5. Refusing(r)
  BY <1>2 DEF Nearly, Refusing, Inside
<1> QED  BY <1>2, <1>3, <1>4, <1>5 DEF Good, r

LEMMA RememberRests ==
    ASSUME NEW sh \in Shell, NEW inh, Rests(sh, inh)
    PROVE  Rests(Remember(sh), inh)
BY RememberIs DEF Rests

\* The shell at the prompt changes.
LEMMA TopIs ==
    ASSUME ShellsGood
    PROVE  /\ Len(shells) \in Nat /\ Len(shells) \in DOMAIN shells
           /\ DOMAIN shells = 1..Len(shells)
           /\ Top \in Shell /\ Good(Top) /\ Rests(Top, Inherited(Len(shells)))
<1>1. Len(shells) \in Nat /\ DOMAIN shells = 1..Len(shells) /\ Len(shells) >= 1
  BY LenProperties DEF ShellsGood
<1>2. Len(shells) \in DOMAIN shells
  BY <1>1
<1> QED  BY <1>1, <1>2 DEF ShellsGood, Good, Top

LEMMA TopChanges ==
    ASSUME ShellsGood, NEW r, Good(r), Rests(r, Inherited(Len(shells))),
           shells' = [shells EXCEPT ![Len(shells)] = r]
    PROVE  ShellsGood' /\ Top' = r
<1> DEFINE n == Len(shells)
<1>1. /\ shells \in Seq(Shell) /\ n \in Nat /\ n \in DOMAIN shells
      /\ DOMAIN shells = 1..n /\ n \in 1..MaxShells
  BY TopIs DEF ShellsGood
<1>2. r \in Shell
  BY DEF Good
<1>3. /\ shells' \in Seq(Shell) /\ Len(shells') = n /\ DOMAIN shells' = 1..n
      /\ shells'[n] = r /\ \A i \in 1..n : i # n => shells'[i] = shells[i]
  <2>1. shells' \in Seq(Shell) /\ Len(shells') = n
    BY <1>1, <1>2, ExceptSeq
  <2>2. DOMAIN shells' = 1..n
    BY <2>1, LenProperties
  <2> QED  BY <1>1, <2>1, <2>2
<1>4. ASSUME NEW i \in 1..n
      PROVE  Inherited(i)' = Inherited(i)
  <2>1. i # 1 => i - 1 \in 1..n /\ i - 1 # n
    BY <1>1
  <2> QED  BY <1>3, <2>1 DEF Inherited
<1> HIDE DEF n
<1>5. ASSUME NEW i \in 1..n
      PROVE  Good(shells'[i]) /\ Rests(shells'[i], Inherited(i)')
  <2>1. CASE i = n
    BY <1>3, <1>4, <2>1 DEF n
  <2>2. CASE i # n
    BY <1>1, <1>3, <1>4, <2>2 DEF ShellsGood
  <2> QED  BY <2>1, <2>2
<1>6. ShellsGood'
  BY <1>1, <1>3, <1>5 DEF ShellsGood
<1>7. Top' = r
  BY <1>3 DEF Top
<1> QED  BY <1>6, <1>7

\* The same for an action that says what it does by SetTop.
LEMMA TopSet ==
    ASSUME ShellsGood, NEW sh, Nearly(sh), Rests(sh, Inherited(Len(shells))), SetTop(sh)
    PROVE  ShellsGood' /\ Top' = Remember(sh)
<1>1. Good(Remember(sh)) /\ Rests(Remember(sh), Inherited(Len(shells)))
  BY RememberGood, RememberRests DEF Nearly
<1>2. shells' = [shells EXCEPT ![Len(shells)] = Remember(sh)]
  BY DEF SetTop
<1> QED  BY <1>1, <1>2, TopChanges

LEMMA ExitGood ==
    ASSUME ShellsGood, ExitShell
    PROVE  ShellsGood'
<1> DEFINE n == Len(shells)
           m == n - 1
<1>1. /\ shells \in Seq(Shell) /\ n \in Nat /\ DOMAIN shells = 1..n
      /\ n \in 1..MaxShells /\ n > 1 /\ MaxShells \in Nat
  BY TopIs, AutoAssumption DEF ShellsGood, ExitShell
<1>2. m \in 0..n /\ m \in 1..MaxShells /\ m \in Nat /\ \A i \in 1..m : i \in 1..n
  BY <1>1
<1>3. shells' = SubSeq(shells, 1, m)
  BY DEF ExitShell, Front
<1> HIDE DEF m
<1>4. /\ shells' \in Seq(Shell) /\ Len(shells') = m /\ DOMAIN shells' = 1..m
      /\ \A i \in 1..m : shells'[i] = shells[i]
  BY <1>1, <1>2, <1>3, PrefixIs
<1>5. ASSUME NEW i \in 1..m
      PROVE  Inherited(i)' = Inherited(i)
  <2>1. i # 1 => i - 1 \in 1..m
    BY <1>2
  <2> QED  BY <1>4, <2>1 DEF Inherited
<1>6. ASSUME NEW i \in 1..m
      PROVE  Good(shells'[i]) /\ Rests(shells'[i], Inherited(i)')
  BY <1>1, <1>2, <1>4, <1>5 DEF ShellsGood
<1> QED  BY <1>2, <1>4, <1>6 DEF ShellsGood

LEMMA AppendGood ==
    ASSUME ShellsGood, Len(shells) < MaxShells, NEW r, Good(r), Rests(r, Range(Top.active)),
           shells' = Append(shells, r)
    PROVE  ShellsGood'
<1> DEFINE n == Len(shells)
           m == n + 1
<1>1. /\ shells \in Seq(Shell) /\ n \in Nat /\ DOMAIN shells = 1..n
      /\ n \in 1..MaxShells /\ MaxShells \in Nat
  BY TopIs, AutoAssumption DEF ShellsGood
<1>2. m \in 1..MaxShells /\ \A i \in 1..m : i = m \/ i \in 1..n
  BY <1>1
<1>3. r \in Shell
  BY DEF Good
<1>4. /\ shells' \in Seq(Shell) /\ Len(shells') = m /\ DOMAIN shells' = 1..m
      /\ (\A i \in 1..n : shells'[i] = shells[i]) /\ shells'[m] = r
  <2>1. /\ shells' \in Seq(Shell) /\ Len(shells') = m
        /\ (\A i \in 1..n : shells'[i] = shells[i]) /\ shells'[m] = r
    BY <1>1, <1>3, AppendProperties
  <2> QED  BY <2>1, LenProperties
<1>5. ASSUME NEW i \in 1..n
      PROVE  Inherited(i)' = Inherited(i)
  <2>1. i # 1 => i - 1 \in 1..n
    BY <1>1
  <2> QED  BY <1>4, <2>1 DEF Inherited
<1>6. ASSUME NEW i \in 1..m, i = m
      PROVE  Inherited(i)' = Range(Top.active)
  <2>1. i # 1 /\ i - 1 = n /\ n \in 1..n
    BY <1>1, <1>6
  <2> QED  BY <1>4, <2>1 DEF Inherited, Top
<1> HIDE DEF m
<1>7. ASSUME NEW i \in 1..m
      PROVE  Good(shells'[i]) /\ Rests(shells'[i], Inherited(i)')
  <2>1. CASE i = m
    BY <1>4, <1>6, <2>1
  <2>2. CASE i \in 1..n
    BY <1>1, <1>4, <1>5, <2>2 DEF ShellsGood
  <2> QED  BY <1>2, <2>1, <2>2
<1> QED  BY <1>2, <1>4, <1>7 DEF ShellsGood

-----------------------------------------------------------------------------
\* The steps that the user takes.
LEMMA CdGood ==
    ASSUME ShellsGood, NEW p \in Places, Cd(p)
    PROVE  ShellsGood'
<1> DEFINE there == [Top EXCEPT !.cwd = p]
           refused == {d \in Top.refused : Inside(there, d)}
           x == [there EXCEPT !.refused = refused]
<1>1. Top \in Shell /\ Good(Top) /\ Rests(Top, Inherited(Len(shells)))
  BY TopIs
<1>2. there \in Shell /\ there.cwd = p /\ there.refused = Top.refused
  BY <1>1 DEF Shell
<1>3. SetTop(x)
  BY <1>2 DEF Cd, Typed
<1>4. refused \in SUBSET Dirs
  BY <1>1, ShellIs
<1>5. refused \subseteq Top.refused /\ \A d \in refused : Inside(there, d)
  OBVIOUS
<1> DEFINE u == refused
<1> HIDE DEF u, refused
<1>6. /\ x \in Shell /\ x.cwd = p /\ x.active = Top.active /\ x.diffs = Top.diffs
      /\ x.request = Top.request /\ x.attached = Top.attached /\ x.auto = Top.auto
      /\ x.claimed = Top.claimed /\ x.suppressed = Top.suppressed
      /\ x.hooked = Top.hooked /\ x.warned = Top.warned /\ x.refused = refused
  BY <1>1, <1>4 DEF Shell
<1> HIDE DEF x
<1>7. Matching(x)
  BY <1>1, <1>6 DEF Good, Matching
<1>8. \A d \in x.refused : Inside(x, d)
  BY <1>2, <1>5, <1>6 DEF Inside
<1>9. Nearly(x)
  BY <1>1, <1>5, <1>6, <1>7, <1>8 DEF Nearly, Good, Tracking, Refusing
<1>10. Rests(x, Inherited(Len(shells)))
  BY <1>1, <1>6 DEF Rests
<1> QED  BY <1>3, <1>9, <1>10, TopSet

LEMMA EvalActivateGood ==
    ASSUME ShellsGood, ~Again, ~Chained, NEW e \in InPlace, EvalActivate(e)
    PROVE  ShellsGood'
<1> DEFINE sh == ActivateInPlace(Top, e)
           hooked == sh.hooked \cup ({e} \cap sh.claimed)
           refused == sh.refused \ {e}
           x == [sh EXCEPT !.hooked = hooked, !.refused = refused]
<1>1. Top \in Shell /\ Good(Top) /\ Rests(Top, Inherited(Len(shells))) /\ Matching(Top)
  BY TopIs DEF Good
<1>2. Top.request = Nobody /\ e \notin Range(Top.active) /\ e \in Envs
  BY IsActiveIs, AutoAssumption DEF EvalActivate, AtPrompt
<1>3. SetTop(x)
  BY DEF EvalActivate, Typed
<1>4. /\ sh \in Shell /\ Matching(sh) /\ SameLists(sh, Top) /\ sh.request = Top.request
      /\ Range(sh.active) = Range(Top.active) \cup {e}
      /\ sh.attached = Top.attached \cup {e} /\ Grown(sh, Top)
  BY <1>1, <1>2, ActivateInPlaceIs
<1> HIDE DEF sh
<1>5. hooked \in SUBSET Dirs /\ refused \in SUBSET Dirs
  BY <1>4, ShellIs
<1>6. /\ hooked = Top.hooked \cup ({e} \cap Top.claimed) /\ refused = Top.refused \ {e}
  BY <1>4 DEF SameLists
<1> HIDE DEF hooked, refused
<1>7. /\ x \in Shell /\ x.cwd = Top.cwd /\ x.active = sh.active /\ x.diffs = sh.diffs
      /\ x.request = Nobody /\ x.attached = sh.attached /\ x.auto = Top.auto
      /\ x.claimed = Top.claimed /\ x.suppressed = Top.suppressed
      /\ x.hooked = hooked /\ x.warned = Top.warned /\ x.refused = refused
  BY <1>2, <1>4, <1>5 DEF Shell, SameLists
<1> HIDE DEF x
<1>8. Matching(x) /\ \A d \in x.refused : Inside(x, d)
  BY <1>1, <1>4, <1>6, <1>7 DEF Matching, Inside, Good, Refusing
<1>9. /\ x.claimed = x.auto /\ x.auto \cap Range(x.active) \subseteq x.hooked
      /\ x.hooked \cap Range(x.active) \subseteq x.auto \cup x.warned
  BY <1>1, <1>4, <1>6, <1>7 DEF Good, Tracking
<1>10. x.refused \cap x.hooked \cap Range(x.active) = {} /\ x.refused \subseteq x.suppressed
  BY <1>1, <1>6, <1>7 DEF Good, Refusing
<1>11. Nearly(x)
  BY <1>7, <1>8, <1>9, <1>10 DEF Nearly
<1>12. Rests(sh, Inherited(Len(shells)))
  <2>1. {e} \cap Range(Top.active) = {}
    BY <1>2
  <2> QED  BY <1>1, <1>4, <2>1, RestGrown
<1>13. Rests(x, Inherited(Len(shells)))
  BY <1>7, <1>12 DEF Rests
<1> QED  BY <1>3, <1>11, <1>13, TopSet

LEMMA ActivateGood ==
    ASSUME ShellsGood, ~Chained, NEW e \in InShell, Activate(e)
    PROVE  ShellsGood'
<1> DEFINE sh == Subshell(Top, e)
           refused == sh.refused \ {e}
           x == [sh EXCEPT !.refused = refused]
<1>1. Top \in Shell /\ Good(Top) /\ Matching(Top)
  BY TopIs DEF Good
<1>2. e \notin Range(Top.active) /\ e \in Envs
  BY IsActiveIs, AutoAssumption DEF Activate
<1>3. shells' = Append(shells, x) /\ Len(shells) < MaxShells
  BY DEF Activate
<1>4. /\ sh \in Shell /\ Matching(sh)
      /\ Range(sh.active) = Range(Top.active) \cup {e}
      /\ sh.attached = {e} /\ sh.request = Nobody
      /\ sh.cwd = Top.cwd /\ sh.auto = Top.auto /\ sh.suppressed = Top.suppressed
      /\ sh.claimed = Top.claimed /\ sh.refused = Top.refused /\ sh.warned = Top.warned
      /\ sh.hooked = Top.hooked \cup ({e} \cap Top.claimed)
  BY <1>1, <1>2, SubshellIs
<1>5. \A j \in DOMAIN sh.diffs : sh.diffs[j].active = Top.active
  <2>1. sh.diffs = <<[active |-> Top.active, kind |-> "none", inPlace |-> FALSE]>>
    BY <1>1 DEF Subshell, Shell
  <2> HIDE DEF sh
  <2> QED  BY <2>1
<1> HIDE DEF sh
<1>6. refused \in SUBSET Dirs /\ refused = Top.refused \ {e}
  BY <1>4, ShellIs
<1> HIDE DEF refused
<1>7. /\ x \in Shell /\ x.cwd = Top.cwd /\ x.active = sh.active /\ x.diffs = sh.diffs
      /\ x.request = Nobody /\ x.attached = {e} /\ x.auto = Top.auto
      /\ x.claimed = Top.claimed /\ x.suppressed = Top.suppressed
      /\ x.hooked = Top.hooked \cup ({e} \cap Top.claimed)
      /\ x.warned = Top.warned /\ x.refused = refused
  BY <1>4, <1>6 DEF Shell
<1> HIDE DEF x
<1>8. Matching(x)
  BY <1>4, <1>7 DEF Matching
<1>9. Tracking(x)
  BY <1>1, <1>4, <1>7 DEF Good, Tracking
<1>10. Refusing(x)
  BY <1>1, <1>6, <1>7 DEF Good, Refusing, Inside
<1>11. Rests(x, Range(Top.active))
  BY <1>2, <1>4, <1>5, <1>7 DEF Rests
<1> QED  BY <1>3, <1>7, <1>8, <1>9, <1>10, <1>11, AppendGood DEF Good

LEMMA DeactivateGood ==
    ASSUME ShellsGood, Deactivate
    PROVE  ShellsGood'
<1> DEFINE front == Head(Top.active)
           x == [Top EXCEPT !.request = front]
<1>1. Top \in Shell /\ Good(Top) /\ Rests(Top, Inherited(Len(shells)))
  BY TopIs
<1>2. Top.active # <<>> /\ SetTop(x)
  BY DEF Deactivate, Typed
<1>3. front \in Envs
  <2>1. Top.active \in Seq(Envs)
    BY <1>1, ShellIs
  <2> QED  BY <1>2, <2>1
<1> HIDE DEF front
<1>4. /\ x \in Shell /\ x.cwd = Top.cwd /\ x.active = Top.active /\ x.diffs = Top.diffs
      /\ x.request = front /\ x.attached = Top.attached /\ x.auto = Top.auto
      /\ x.claimed = Top.claimed /\ x.suppressed = Top.suppressed
      /\ x.hooked = Top.hooked /\ x.warned = Top.warned /\ x.refused = Top.refused
  BY <1>1, <1>3 DEF Shell
<1> HIDE DEF x
<1>5. Matching(x) /\ \A d \in x.refused : Inside(x, d)
  BY <1>1, <1>4 DEF Good, Matching, Refusing, Inside
<1>6. Nearly(x)
  BY <1>1, <1>2, <1>4, <1>5 DEF Nearly, Good, Tracking, Refusing, front
<1>7. Rests(x, Inherited(Len(shells)))
  BY <1>1, <1>4 DEF Rests
<1> QED  BY <1>2, <1>6, <1>7, TopSet

LEMMA LoseDiffGood ==
    ASSUME ShellsGood, LoseDiff
    PROVE  ShellsGood'
<1> DEFINE none == <<>>
           x == [Top EXCEPT !.diffs = none]
<1>1. Top \in Shell /\ Good(Top) /\ Rests(Top, Inherited(Len(shells)))
  BY TopIs
<1>2. SetTop(x)
  BY DEF LoseDiff, Typed
<1>8. none \in Seq(Diff) /\ DOMAIN none = {}
  OBVIOUS
<1> HIDE DEF none
<1>3. /\ x \in Shell /\ x.cwd = Top.cwd /\ x.active = Top.active /\ x.diffs = none
      /\ x.request = Top.request /\ x.attached = Top.attached /\ x.auto = Top.auto
      /\ x.claimed = Top.claimed /\ x.suppressed = Top.suppressed
      /\ x.hooked = Top.hooked /\ x.warned = Top.warned /\ x.refused = Top.refused
  BY <1>1, <1>8 DEF Shell
<1> HIDE DEF x
<1>4. DOMAIN x.diffs = {}
  BY <1>8, <1>3
<1>5. Matching(x) /\ \A d \in x.refused : Inside(x, d)
  BY <1>1, <1>3, <1>4 DEF Good, Matching, Refusing, Inside
<1>6. Nearly(x)
  BY <1>1, <1>3, <1>5 DEF Nearly, Good, Tracking, Refusing
<1>7. Rests(x, Inherited(Len(shells)))
  BY <1>1, <1>3, <1>4 DEF Rests
<1> QED  BY <1>2, <1>6, <1>7, TopSet

\* The first diff undoes the activation at the front.
LEMMA FrontLayer ==
    ASSUME NEW sh \in Shell, sh.active # <<>>
    PROVE  /\ Layers(sh, 1) = {Head(sh.active)} /\ 1 <= Len(sh.active)
           /\ Matching(sh) => \A e : e \in Range(Below(sh.active, 1)) <=>
                                       e \in Range(sh.active) /\ e # Head(sh.active)
<1>1. sh.active \in Seq(Envs) /\ Len(sh.active) \in Nat
  BY ShellIs
<1>2. 1 <= Len(sh.active) /\ Head(sh.active) = sh.active[1]
  <2>1. Len(sh.active) # 0
    BY <1>1, EmptySeq
  <2> QED  BY <1>1, <2>1
<1>3. Layers(sh, 1) = {Head(sh.active)}
  <2>1. 1..1 = {1}
    OBVIOUS
  <2> QED  BY <1>2, <2>1 DEF Layers
<1>4. ASSUME Matching(sh), NEW e
      PROVE  e \in Range(Below(sh.active, 1)) <=> e \in Range(sh.active) /\ e # Head(sh.active)
  <2>1. Range(Below(sh.active, 1)) = Range(sh.active) \ Layers(sh, 1)
    BY <1>2, <1>4, LayersGone
  <2> QED  BY <1>3, <2>1
<1> QED  BY <1>2, <1>3, <1>4

LEMMA FrontRestored ==
    ASSUME NEW sh \in Shell, Matching(sh), sh.active # <<>>, sh.diffs # <<>>,
           NEW es, es = Layers(sh, 1)
    PROVE  /\ RestoreDiffs(sh, 1, es) \in Shell /\ Matching(RestoreDiffs(sh, 1, es))
           /\ SameLists(RestoreDiffs(sh, 1, es), sh)
           /\ RestoreDiffs(sh, 1, es).request = sh.request
           /\ RestoreDiffs(sh, 1, es).active = Below(sh.active, 1)
           /\ \A inh : Rests(sh, inh) => Rests(RestoreDiffs(sh, 1, es), inh)
<1>1. sh.diffs \in Seq(Diff) /\ Len(sh.diffs) \in Nat
  BY ShellIs
<1>2. 1 <= Len(sh.diffs) /\ 1 <= Len(sh.active)
  <2>1. Len(sh.diffs) # 0
    BY <1>1, EmptySeq
  <2> QED  BY <1>1, <2>1, FrontLayer
<1> DEFINE k == 1
<1>3. k \in Nat /\ k <= Len(sh.active) /\ k <= Len(sh.diffs) /\ es = Layers(sh, k)
  BY <1>2
<1> HIDE DEF k
<1> DEFINE r == RestoreDiffs(sh, k, es)
<1>4. r \in Shell /\ Matching(r) /\ SameLists(r, sh) /\ r.request = sh.request
  BY <1>3, RestoreDiffsIs
<1>5. r.active = Below(sh.active, k)
  BY <1>3, RestoreDiffsIs
<1>6. \A inh : Rests(sh, inh) => Rests(r, inh)
  BY <1>3, RestRestored
<1> QED  BY <1>4, <1>5, <1>6 DEF k

LEMMA PrintScriptGood ==
    ASSUME ShellsGood, ~Chained, DeactivatePrintScript
    PROVE  ShellsGood'
<1>1. CASE ExitShell
  BY <1>1, ExitGood
<1>2. CASE Top.diffs # <<>> /\ Typed(RestoreDiffs(Top, 1, {Head(Top.active)}))
  <2> DEFINE es == {Head(Top.active)}
             x == RestoreDiffs(Top, 1, es)
  <2>1. Top \in Shell /\ Good(Top) /\ Rests(Top, Inherited(Len(shells))) /\ Matching(Top)
    BY TopIs DEF Good
  <2>2. Top.request = Nobody /\ Top.active # <<>> /\ SetTop(x)
    BY <1>2 DEF DeactivatePrintScript, AtPrompt, Typed
  <2>3. /\ x \in Shell /\ Matching(x) /\ SameLists(x, Top) /\ x.request = Nobody
        /\ \A e : e \in Range(x.active) <=> e \in Range(Top.active) /\ e # Head(Top.active)
        /\ Rests(x, Inherited(Len(shells)))
    <3>1. es = Layers(Top, 1)
      BY <2>1, <2>2, FrontLayer
    <3> HIDE DEF es
    <3>2. /\ x \in Shell /\ Matching(x) /\ SameLists(x, Top) /\ x.request = Nobody
          /\ x.active = Below(Top.active, 1)
      BY <1>2, <2>1, <2>2, <3>1, FrontRestored
    <3>3. Rests(x, Inherited(Len(shells)))
      BY <1>2, <2>1, <2>2, <3>1, FrontRestored
    <3> QED  BY <2>1, <2>2, <3>2, <3>3, FrontLayer
  <2> HIDE DEF x
  <2>4. Nearly(x)
    BY <2>1, <2>3 DEF Nearly, Good, Tracking, Refusing, SameLists, Inside
  <2> QED  BY <2>2, <2>3, <2>4, TopSet
<1> QED  BY <1>1, <1>2 DEF DeactivatePrintScript

-----------------------------------------------------------------------------
\* The request of flox deactivate.
LEMMA PlanAfterRequestGood ==
    ASSUME NEW was \in Shell, Good(was), was.request # Nobody, NEW sh \in Shell,
           Matching(sh), SameLists(sh, was), sh.request = Nobody,
           \A e : e \in Range(sh.active) <=> e \in Range(was.active) /\ e # Head(was.active)
    PROVE  /\ Nearly(PlanAfterRequest(sh, was))
           /\ \A inh : Rests(sh, inh) => Rests(PlanAfterRequest(sh, was), inh)
<1> DEFINE front == FrontDir(was)
           off == {d \in front : Inside(was, d)}
           auto == Tracked(was) \ front
           claimed == {d \in auto : IsActive(was, d)}
           suppressed == Suppressed(was) \cup off
           refused == sh.refused \cup off
           x == [sh EXCEPT !.auto = auto, !.claimed = claimed, !.suppressed = suppressed,
                           !.refused = refused]
<1>1. PlanAfterRequest(sh, was) = x
  BY DEF PlanAfterRequest
<1>2. was.active # <<>> /\ was.active \in Seq(Envs) /\ Head(was.active) \in Envs
  <2>1. was.active # <<>> /\ was.active \in Seq(Envs)
    BY ShellIs DEF Good, Tracking
  <2> QED  BY <2>1
<1>3. front = {Head(was.active)} \ {Remote} /\ front \subseteq Dirs
  BY <1>2 DEF FrontDir, Envs
<1>4. \A d \in was.auto : d \in Tracked(was) <=> d \in Range(was.active)
  BY IsActiveIs DEF Tracked
<1>5. Tracked(was) \subseteq was.auto
  BY DEF Tracked
<1>6. claimed = auto
  BY IsActiveIs DEF Tracked
<1>7. was.refused \subseteq Suppressed(was) /\ Suppressed(was) \subseteq Dirs
  BY <1>5, ShellIs DEF Suppressed, Good, Refusing
<1>8. /\ auto \in SUBSET Dirs /\ claimed \in SUBSET Dirs
      /\ suppressed \in SUBSET Dirs /\ refused \in SUBSET Dirs
  BY <1>3, <1>5, <1>6, <1>7, ShellIs
<1>9. /\ off \subseteq front /\ \A d \in off : Inside(was, d)
  OBVIOUS
<1>10. /\ auto = Tracked(was) \ front /\ suppressed = Suppressed(was) \cup off
       /\ refused = was.refused \cup off
  BY DEF SameLists
<1> HIDE DEF auto, claimed, suppressed, refused, off, front
<1>11. /\ x \in Shell /\ x.cwd = sh.cwd /\ x.active = sh.active /\ x.diffs = sh.diffs
       /\ x.request = sh.request /\ x.attached = sh.attached /\ x.auto = auto
       /\ x.claimed = claimed /\ x.suppressed = suppressed
       /\ x.hooked = sh.hooked /\ x.warned = sh.warned /\ x.refused = refused
  BY <1>8 DEF Shell
<1> HIDE DEF x
<1>12. Matching(x)
  BY <1>11 DEF Matching
<1>13. /\ x.cwd = was.cwd /\ x.hooked = was.hooked /\ x.warned = was.warned
       /\ x.request = Nobody
  BY <1>11 DEF SameLists
<1>14. x.auto \cap Range(x.active) \subseteq x.hooked
  BY <1>4, <1>5, <1>10, <1>11, <1>13 DEF Good, Tracking
<1>15. x.hooked \cap Range(x.active) \subseteq x.auto \cup x.warned
  BY <1>3, <1>4, <1>10, <1>11, <1>13 DEF Good, Tracking
<1>16. x.refused \cap x.hooked \cap Range(x.active) = {}
  BY <1>3, <1>9, <1>10, <1>11, <1>13 DEF Good, Refusing
<1>17. x.refused \subseteq x.suppressed
  BY <1>7, <1>10, <1>11
<1>18. \A d \in x.refused : Inside(x, d)
  BY <1>9, <1>10, <1>11, <1>13 DEF Good, Refusing, Inside
<1>19. Nearly(x)
  BY <1>6, <1>11, <1>12, <1>13, <1>14, <1>15, <1>16, <1>17, <1>18 DEF Nearly
<1>20. \A inh : Rests(sh, inh) => Rests(x, inh)
  BY <1>11 DEF Rests
<1> QED  BY <1>1, <1>19, <1>20

LEMMA HookRequestGood ==
    ASSUME ShellsGood, HookRequest
    PROVE  ShellsGood'
<1> DEFINE taken == [Top EXCEPT !.request = Nobody]
           es == {Top.request}
           back == RestoreDiffs(taken, 1, es)
<1>1. Top \in Shell /\ Good(Top) /\ Rests(Top, Inherited(Len(shells))) /\ Matching(Top)
  BY TopIs DEF Good
<1>2. Top.request # Nobody /\ Top.active # <<>> /\ Head(Top.active) = Top.request
  BY <1>1 DEF HookRequest, Good, Tracking
<1>3. /\ taken \in Shell /\ taken.cwd = Top.cwd /\ taken.active = Top.active
      /\ taken.diffs = Top.diffs /\ taken.request = Nobody
      /\ taken.attached = Top.attached /\ SameLists(taken, Top)
  BY <1>1 DEF Shell, SameLists
<1>4. CASE ExitShell
  BY <1>4, ExitGood
<1>5. CASE SetTop(IF Top.diffs = <<>> THEN taken ELSE PlanAfterRequest(back, Top))
  <2> HIDE DEF taken
  <2>1. Matching(taken) /\ Rests(taken, Inherited(Len(shells)))
    BY <1>1, <1>3 DEF Matching, Rests
  <2>2. CASE Top.diffs = <<>>
    <3>1. SetTop(taken)
      BY <1>5, <2>2
    <3>2. Nearly(taken)
      BY <1>1, <1>3, <2>1 DEF Nearly, Good, Tracking, Refusing, SameLists, Inside
    <3> QED  BY <2>1, <3>1, <3>2, TopSet
  <2>3. CASE Top.diffs # <<>>
    <3>1. SetTop(PlanAfterRequest(back, Top))
      BY <1>5, <2>3
    <3>2. es = Layers(taken, 1)
      BY <1>2, <1>3, FrontLayer
    <3> HIDE DEF es
    <3>3. /\ back \in Shell /\ Matching(back) /\ SameLists(back, taken)
          /\ back.request = Nobody
          /\ \A e : e \in Range(back.active) <=>
                       e \in Range(taken.active) /\ e # Head(taken.active)
          /\ Rests(back, Inherited(Len(shells)))
      <4>1. taken.active # <<>> /\ taken.diffs # <<>>
        BY <1>2, <1>3, <2>3
      <4>2. /\ back \in Shell /\ Matching(back) /\ SameLists(back, taken)
            /\ back.request = taken.request /\ back.active = Below(taken.active, 1)
        BY <1>3, <2>1, <3>2, <4>1, FrontRestored
      <4>3. \A e : e \in Range(back.active) <=>
                      e \in Range(taken.active) /\ e # Head(taken.active)
        BY <1>3, <2>1, <4>1, <4>2, FrontLayer
      <4>4. Rests(back, Inherited(Len(shells)))
        BY <1>3, <2>1, <3>2, <4>1, FrontRestored
      <4> QED  BY <1>3, <4>2, <4>3, <4>4
    <3> HIDE DEF back
    <3>4. /\ SameLists(back, Top)
          /\ \A e : e \in Range(back.active) <=>
                       e \in Range(Top.active) /\ e # Head(Top.active)
      BY <1>3, <3>3 DEF SameLists
    <3>5. /\ Nearly(PlanAfterRequest(back, Top))
          /\ Rests(PlanAfterRequest(back, Top), Inherited(Len(shells)))
      BY <1>1, <1>2, <3>3, <3>4, PlanAfterRequestGood
    <3> QED  BY <3>1, <3>5, TopSet
  <2> QED  BY <2>2, <2>3
<1> QED  BY <1>4, <1>5 DEF HookRequest

-----------------------------------------------------------------------------
\* The hook on its own account.
Popped(sh) == PopFront(sh.active, Leavers(sh))
Count(sh) == PopCount(sh, Popped(sh))
Gone(sh) == Layers(sh, Count(sh))

LEMMA LeaversIs ==
    ASSUME NEW sh
    PROVE  /\ \A d : d \in Tracked(sh) <=> d \in sh.auto /\ d \in Range(sh.active)
           /\ \A d : d \in Leavers(sh) <=>
                        d \in sh.auto /\ d \in Range(sh.active) /\ ~Inside(sh, d)
BY IsActiveIs DEF Leavers, Tracked

LEMMA PoppedIs ==
    ASSUME NEW sh, Good(sh)
    PROVE  /\ Popped(sh) \in Seq(Envs) /\ Len(Popped(sh)) \in 0..Len(sh.active)
           /\ DOMAIN Popped(sh) = 1..Len(Popped(sh))
           /\ \A i \in 1..Len(Popped(sh)) :
                Popped(sh)[i] = sh.active[i] /\ sh.active[i] \in Leavers(sh)
           /\ Len(Popped(sh)) < Len(sh.active) =>
                sh.active[Len(Popped(sh)) + 1] \notin Leavers(sh)
           /\ Count(sh) \in Nat /\ Count(sh) <= Len(Popped(sh))
           /\ Count(sh) <= Len(sh.active) /\ Count(sh) <= Len(sh.diffs)
           /\ Gone(sh) \subseteq Leavers(sh) /\ Gone(sh) \subseteq Range(Popped(sh))
           /\ AfterPops(sh, Popped(sh)) = RestoreDiffs(sh, Count(sh), Gone(sh))
<1>1. sh \in Shell /\ Matching(sh) /\ sh.active \in Seq(Envs)
  BY ShellIs DEF Good
<1>2. /\ Popped(sh) \in Seq(Envs) /\ Len(Popped(sh)) \in 0..Len(sh.active)
      /\ DOMAIN Popped(sh) = 1..Len(Popped(sh))
      /\ \A i \in 1..Len(Popped(sh)) :
           Popped(sh)[i] = sh.active[i] /\ sh.active[i] \in Leavers(sh)
      /\ Len(Popped(sh)) < Len(sh.active) =>
           sh.active[Len(Popped(sh)) + 1] \notin Leavers(sh)
  BY <1>1, PopFrontIs DEF Popped
<1>3. /\ Count(sh) \in Nat /\ Count(sh) <= Len(sh.diffs)
      /\ Count(sh) <= Len(sh.active) /\ Count(sh) <= Len(Popped(sh))
      /\ Gone(sh) \subseteq Leavers(sh) /\ Gone(sh) \subseteq Range(Popped(sh))
      /\ AfterPops(sh, Popped(sh)) = RestoreDiffs(sh, Count(sh), Gone(sh))
  <2> DEFINE pop == Popped(sh)
             n == Count(sh)
             t == SubSeq(pop, 1, n)
  <2>1. n = PopCount(sh, pop) /\ Gone(sh) = Layers(sh, n) /\ Len(sh.active) \in Nat
    BY <1>1, ShellIs DEF Count, Gone
  <2>2. n \in Nat /\ n <= Len(pop) /\ n <= Len(sh.diffs)
    BY <1>1, <1>2, PopCountIs DEF Count
  <2> HIDE DEF n, pop
  <2>3. n <= Len(sh.active) /\ n \in 0..Len(pop) /\ \A i \in 1..n : i \in 1..Len(pop)
    BY <1>2, <2>1, <2>2 DEF pop
  <2>4. DOMAIN t = 1..n /\ \A i \in 1..n : t[i] = pop[i]
    BY <1>2, <2>3, PrefixIs DEF pop
  <2>5. \A i \in 1..n : t[i] = sh.active[i] /\ pop[i] = sh.active[i] /\ sh.active[i] \in Leavers(sh)
    BY <1>2, <2>3, <2>4 DEF pop
  <2>6. AfterPops(sh, pop) = RestoreDiffs(sh, n, Range(t))
    BY <2>1 DEF AfterPops
  <2> HIDE DEF t
  <2>7. Range(t) = Layers(sh, n)
    BY <2>4, <2>5 DEF Range, Layers
  <2>8. Layers(sh, n) \subseteq Leavers(sh) /\ Layers(sh, n) \subseteq Range(pop)
    BY <1>2, <2>3, <2>5 DEF Range, Layers, pop
  <2> QED  BY <2>1, <2>2, <2>3, <2>6, <2>7, <2>8 DEF n, pop
<1> QED  BY <1>2, <1>3

LEMMA AfterIs ==
    ASSUME NEW sh, Good(sh), NEW a, a = AfterPops(sh, Popped(sh))
    PROVE  /\ a \in Shell /\ Matching(a) /\ SameLists(a, sh) /\ a.request = sh.request
           /\ a.active = Below(sh.active, Count(sh))
           /\ \A e : e \in Range(a.active) <=> e \in Range(sh.active) /\ e \notin Gone(sh)
           /\ Count(sh) < Len(sh.diffs) => a.diffs # <<>>
           /\ \A inh : Rests(sh, inh) => Rests(a, inh)
<1> DEFINE n == Count(sh)
           es == Gone(sh)
<1>1. sh \in Shell /\ Matching(sh)
  BY DEF Good
<1>2. n \in Nat /\ n <= Len(sh.diffs) /\ n <= Len(sh.active) /\ a = RestoreDiffs(sh, n, es)
  BY PoppedIs
<1>3. es = Layers(sh, n)
  BY DEF Gone
<1> HIDE DEF n, es
<1>4. a \in Shell /\ Matching(a) /\ SameLists(a, sh) /\ a.request = sh.request
  BY <1>1, <1>2, <1>3, RestoreDiffsIs
<1>5. a.active = Below(sh.active, n)
  BY <1>1, <1>2, <1>3, RestoreDiffsIs
<1>6. n < Len(sh.diffs) => a.diffs # <<>>
  BY <1>1, <1>2, <1>3, RestoreDiffsIs
<1>7. \A inh : Rests(sh, inh) => Rests(a, inh)
  BY <1>1, <1>2, <1>3, RestRestored
<1>8. Range(Below(sh.active, n)) = Range(sh.active) \ es
  BY <1>1, <1>2, <1>3, LayersGone
<1>9. \A e : e \in Range(a.active) <=> e \in Range(sh.active) /\ e \notin es
  BY <1>5, <1>8
<1> QED  BY <1>4, <1>5, <1>6, <1>7, <1>9 DEF n, es

LEMMA StillStuck ==
    ASSUME NEW sh, Good(sh), Unopened(sh, Popped(sh)) # {},
           NEW r, r = Remember(AfterPops(sh, Popped(sh))), Good(r)
    PROVE  Unopened(r, Popped(r)) # {}
<1> DEFINE a == AfterPops(sh, Popped(sh))
           n == Count(sh)
           pop == Popped(sh)
           e == sh.active[n + 1]
<1>1. sh \in Shell /\ sh.active \in Seq(Envs) /\ Len(sh.active) \in Nat
  BY ShellIs DEF Good
<1>2. /\ pop \in Seq(Envs) /\ Len(pop) \in 0..Len(sh.active)
      /\ \A i \in 1..Len(pop) : pop[i] = sh.active[i] /\ sh.active[i] \in Leavers(sh)
  BY PoppedIs
<1>3. /\ n \in Nat /\ n < Len(pop) /\ n < Len(sh.diffs) /\ pop[n + 1] \notin dotFlox
  BY <1>1, <1>2, PopCountIs DEF Count
<1>4. /\ a \in Shell /\ SameLists(a, sh) /\ a.active = Below(sh.active, n) /\ a.diffs # <<>>
  BY <1>3, AfterIs
<1>5. r \in Shell /\ r.cwd = a.cwd /\ r.active = a.active /\ r.diffs = a.diffs
      /\ r.auto = a.auto
  BY <1>4, RememberIs
<1> HIDE DEF a, n, pop
<1>6. n + 1 \in 1..Len(pop) /\ n + 1 \in 1..Len(sh.active) /\ 1 \in 1..Len(sh.active) - n
      /\ n < Len(sh.active)
  BY <1>1, <1>2, <1>3
<1>7. e \in Leavers(sh) /\ e \notin dotFlox
  BY <1>2, <1>3, <1>6
<1>8. /\ Len(r.active) = Len(sh.active) - n /\ r.active[1] = e
      /\ DOMAIN r.active = 1..Len(r.active)
  <2>1. /\ Len(Below(sh.active, n)) = IF n < Len(sh.active) THEN Len(sh.active) - n ELSE 0
        /\ DOMAIN Below(sh.active, n) = 1..Len(Below(sh.active, n))
        /\ \A i \in 1..Len(sh.active) - n : Below(sh.active, n)[i] = sh.active[n + i]
    BY <1>1, <1>3, BelowIs
  <2> QED  BY <1>4, <1>5, <1>6, <2>1
<1>9. e \in Range(r.active)
  BY <1>6, <1>8 DEF Range
<1>10. e \in Leavers(r)
  BY <1>4, <1>5, <1>7, <1>9, LeaversIs DEF SameLists, Inside
<1> DEFINE p == Popped(r)
<1>11. /\ p \in Seq(Envs) /\ Len(p) \in 0..Len(r.active)
       /\ \A i \in 1..Len(p) : p[i] = r.active[i]
       /\ Len(p) < Len(r.active) => r.active[Len(p) + 1] \notin Leavers(r)
  BY PoppedIs
<1> HIDE DEF p, e
<1>12. Len(p) # 0
  <2> SUFFICES ASSUME Len(p) = 0 PROVE FALSE
    OBVIOUS
  <2>1. 0 < Len(r.active) /\ 0 + 1 = 1
    BY <1>1, <1>3, <1>6, <1>8
  <2> QED  BY <1>8, <1>10, <1>11, <2>1
<1>13. 1 \in 1..Len(p)
  <2>1. Len(p) \in Nat
    BY <1>1, <1>11, LenProperties
  <2> QED  BY <1>12, <2>1
<1>14. p[1] \notin dotFlox
  BY <1>7, <1>8, <1>11, <1>13
<1>15. 1 <= Len(r.diffs)
  <2>1. r.diffs \in Seq(Diff) /\ Len(r.diffs) \in Nat
    BY <1>5, ShellIs
  <2>2. Len(r.diffs) # 0
    BY <1>4, <1>5, <2>1, EmptySeq
  <2> QED  BY <2>1, <2>2
<1>16. Unopened(r, p) = {i \in 1..Len(p) : i <= Len(r.diffs) /\ p[i] \notin dotFlox}
  BY <1>5, <1>11, PopCountIs
<1>17. 1 \in Unopened(r, p)
  BY <1>13, <1>14, <1>15, <1>16
<1> QED  BY <1>17 DEF p

LEMMA PlanPops ==
    ASSUME NEW sh
    PROVE  Plan(sh).deactivate = Popped(sh)
BY DEF Plan, Popped

LEMMA StuckNext ==
    ASSUME NEW r, Top' = r, dotFlox' = dotFlox
    PROVE  Stuck' <=> Unopened(r, Popped(r)) # {}
<1>1. Stuck' <=> {i \in DOMAIN Walk(r, Popped(r)) : Popped(r)[i] \notin dotFlox'} # {}
  BY DEF Stuck, Plan, Popped, Unopened
<1> QED  BY <1>1 DEF Unopened

\* A run that fails leaves the shell stuck.
LEMMA HookErrorDoes ==
    ASSUME ShellsGood, HookError
    PROVE  /\ ShellsGood' /\ Stuck'
           /\ \A e : e \in Range(Top.active) /\ e \notin Range(Top'.active) => e \in Top.hooked
<1> DEFINE x == AfterPops(Top, Popped(Top))
           r == Remember(x)
<1>1. Good(Top) /\ Rests(Top, Inherited(Len(shells)))
  BY TopIs
<1>2. /\ Top.request = Nobody /\ Unopened(Top, Popped(Top)) # {} /\ SetTop(x)
      /\ dotFlox' = dotFlox
  BY PlanPops DEF HookError, Ran
<1>3. /\ x \in Shell /\ Matching(x) /\ SameLists(x, Top) /\ x.request = Top.request
      /\ \A e : e \in Range(x.active) <=> e \in Range(Top.active) /\ e \notin Gone(Top)
  BY <1>1, AfterIs
<1>4. Rests(x, Inherited(Len(shells)))
  BY <1>1, AfterIs
<1>5. Nearly(x)
  <2> HIDE DEF x
  <2> QED  BY <1>1, <1>2, <1>3 DEF Nearly, Good, Tracking, Refusing, SameLists, Inside
<1>6. ShellsGood' /\ Top' = r
  BY <1>2, <1>4, <1>5, TopSet
<1>7. Good(r)
  BY <1>5, RememberGood
<1>8. Unopened(r, Popped(r)) # {}
  BY <1>1, <1>2, <1>7, StillStuck
<1>9. Stuck'
  <2> SUFFICES ASSUME NEW z, z = Top' PROVE Stuck'
    OBVIOUS
  <2>1. Unopened(z, Popped(z)) # {}
    BY <1>6, <1>8
  <2> QED  BY <1>2, <2>1, StuckNext
<1>10. ASSUME NEW e, e \in Range(Top.active), e \notin Range(Top'.active)
       PROVE  e \in Top.hooked
  <2>1. Top'.active = x.active
    BY <1>3, <1>6, RememberIs
  <2>2. e \in Gone(Top)
    BY <1>3, <1>10, <2>1
  <2>3. e \in Leavers(Top)
    BY <1>1, <2>2, PoppedIs
  <2> QED  BY <1>1, <2>3, LeaversIs DEF Good, Tracking
<1> QED  BY <1>6, <1>9, <1>10

LEMMA PlanIs ==
    ASSUME NEW sh, Good(sh), dotFlox \subseteq Dirs, NEW plan, plan = Plan(sh)
    PROVE  /\ plan.deactivate = Popped(sh)
           /\ plan.suppressed = Suppressed(sh)
           /\ plan.abandoned = Abandoned(Popped(sh), Leavers(sh))
           /\ plan.auto = (Tracked(sh) \ Range(Popped(sh))) \ plan.abandoned
           /\ \A d \in plan.activate \cup plan.prompt :
                /\ d \in Dirs /\ Inside(sh, d) /\ d \notin Range(sh.active)
                /\ d \notin Suppressed(sh) /\ plan.auto \cap Leavers(sh) = {}
           /\ \A d \in plan.activate : config[d] = "allow"
           /\ \A d \in plan.prompt : config[d] = "unset"
           /\ plan.auto \cap Leavers(sh) = {} =>
                \A d \in Discovered(sh) : config[d] = "allow" =>
                    d \in Range(sh.active) \cup Suppressed(sh) \cup plan.activate
<1> DEFINE suppressed == Suppressed(sh)
           leavers == Leavers(sh)
           pop == Popped(sh)
           abandoned == Abandoned(pop, leavers)
           tracked == (Tracked(sh) \ Range(pop)) \ abandoned
           unwinding == \E d \in tracked : d \in leavers
           candidates == {d \in Discovered(sh) :
                             ~unwinding /\ ~IsActive(sh, d) /\ d \notin suppressed}
<1>1. plan = [activate |-> {d \in candidates : config[d] = "allow"},
              prompt |-> {d \in candidates : ask /\ config[d] = "unset"},
              deactivate |-> pop, abandoned |-> abandoned, auto |-> tracked,
              suppressed |-> suppressed]
  BY DEF Plan, Popped
<1>2. \A d : d \in candidates <=>
         /\ d \in Discovered(sh) /\ tracked \cap leavers = {}
         /\ d \notin Range(sh.active) /\ d \notin suppressed
  BY IsActiveIs
<1>3. \A d \in Discovered(sh) : d \in Dirs /\ Inside(sh, d)
  BY DEF Discovered
<1> HIDE DEF candidates, tracked, abandoned, suppressed, leavers, pop
<1>4. /\ plan.activate = {d \in candidates : config[d] = "allow"}
      /\ plan.prompt = {d \in candidates : ask /\ config[d] = "unset"}
      /\ plan.deactivate = pop /\ plan.abandoned = abandoned
      /\ plan.auto = tracked /\ plan.suppressed = suppressed
  BY <1>1
<1>5. \A d \in plan.activate \cup plan.prompt : d \in candidates
  BY <1>4
<1>6. \A d \in plan.activate \cup plan.prompt :
         /\ d \in Dirs /\ Inside(sh, d) /\ d \notin Range(sh.active)
         /\ d \notin suppressed /\ plan.auto \cap leavers = {}
  BY <1>2, <1>3, <1>4, <1>5
<1>7. /\ \A d \in plan.activate : config[d] = "allow"
      /\ \A d \in plan.prompt : config[d] = "unset"
  BY <1>4
<1>8. plan.auto \cap leavers = {} =>
         \A d \in Discovered(sh) : config[d] = "allow" =>
             d \in Range(sh.active) \cup suppressed \cup plan.activate
  BY <1>2, <1>4
<1>9. plan.auto = (Tracked(sh) \ Range(pop)) \ plan.abandoned
  BY <1>4 DEF tracked
<1>10. plan.abandoned = Abandoned(pop, leavers)
  BY <1>4 DEF abandoned
<1> QED  BY <1>4, <1>6, <1>7, <1>8, <1>9, <1>10 DEF suppressed, leavers, pop

\* The shell after a run that does not fail.
After(sh, plan, started, up, no, unpopped) ==
    [ActivateAll(AfterPops(sh, Popped(sh)), up) EXCEPT
        !.auto = plan.auto \cup started,
        !.claimed = {d \in plan.auto : IsActive(sh, d)} \cup started,
        !.suppressed = plan.suppressed \cup no,
        !.hooked = @ \cup up,
        !.refused = @ \cup no,
        !.warned = @ \cup plan.abandoned \cup unpopped]

\* What the arguments of After are.
Decided(sh, plan, yes, no, started, up, unpopped) ==
    /\ plan = Plan(sh)
    /\ yes \in SUBSET plan.prompt /\ no \in SUBSET plan.prompt /\ (yes = {} \/ no = {})
    /\ started = plan.activate \cup yes /\ up \in SUBSET started
    /\ unpopped \subseteq Dirs /\ Range(Popped(sh)) \subseteq Gone(sh) \cup unpopped

\* What the hook made of the shell sh.
Followed(r, sh, plan, no, started, up) ==
    /\ r.cwd = sh.cwd /\ r.auto = plan.auto \cup started
    /\ r.suppressed = plan.suppressed \cup no
    /\ \A e : e \in Range(r.active) <=>
                 (e \in Range(sh.active) /\ e \notin Gone(sh)) \/ e \in up
    /\ up = {} => r.active = Below(sh.active, Count(sh))

LEMMA MatchingSame ==
    ASSUME NEW x, NEW b, x.active = b.active, x.diffs = b.diffs, Matching(b)
    PROVE  Matching(x)
BY DEF Matching

LEMMA AfterHook ==
    ASSUME NEW sh, Good(sh), sh.request = Nobody, dotFlox \subseteq Dirs,
           NEW plan, NEW yes, NEW no, NEW started, NEW up, NEW unpopped,
           Decided(sh, plan, yes, no, started, up, unpopped),
           NEW x, x = After(sh, plan, started, up, no, unpopped)
    PROVE  /\ Nearly(x) /\ Followed(x, sh, plan, no, started, up)
           /\ \A inh : Rests(sh, inh) => Rests(x, inh)
<1> USE DEF Decided
<1> DEFINE a == AfterPops(sh, Popped(sh))
           b == ActivateAll(a, up)
           auto == plan.auto \cup started
           claimed == {d \in plan.auto : IsActive(sh, d)} \cup started
           suppressed == plan.suppressed \cup no
           hooked == sh.hooked \cup up
           refused == sh.refused \cup no
           warned == sh.warned \cup plan.abandoned \cup unpopped
<1>1. sh \in Shell /\ Matching(sh) /\ Tracking(sh) /\ Refusing(sh)
  BY DEF Good
<1>2. /\ plan.suppressed = Suppressed(sh)
      /\ plan.abandoned = Abandoned(Popped(sh), Leavers(sh))
      /\ plan.auto = (Tracked(sh) \ Range(Popped(sh))) \ plan.abandoned
      /\ \A d \in plan.activate \cup plan.prompt :
           /\ d \in Dirs /\ Inside(sh, d) /\ d \notin Range(sh.active)
           /\ d \notin Suppressed(sh)
      /\ \A d \in plan.activate : config[d] = "allow"
      /\ \A d \in plan.prompt : config[d] = "unset"
  BY PlanIs
<1>3. /\ a \in Shell /\ Matching(a) /\ SameLists(a, sh) /\ a.request = sh.request
      /\ a.active = Below(sh.active, Count(sh))
      /\ \A e : e \in Range(a.active) <=> e \in Range(sh.active) /\ e \notin Gone(sh)
  BY AfterIs
<1>4. \A inh : Rests(sh, inh) => Rests(a, inh)
  BY AfterIs
<1> HIDE DEF a
<1>5. /\ \A d \in started \cup yes \cup no :
           d \in Dirs /\ Inside(sh, d) /\ d \notin Range(sh.active) /\ d \notin Suppressed(sh)
      /\ \A d \in no : d \notin started
  <2>1. \A d \in started \cup yes \cup no : d \in plan.activate \cup plan.prompt
    OBVIOUS
  <2>2. \A d \in plan.activate : d \notin plan.prompt
    BY <1>2
  <2> QED  BY <1>2, <2>1, <2>2
<1>6. /\ up \in SUBSET Dirs /\ up \cap Range(a.active) = {} /\ \A d \in up : Inside(a, d)
  BY <1>3, <1>5 DEF SameLists, Inside
<1>7. Activated(b, a, up)
  BY <1>3, <1>6, ActivateAllIs
<1>8. x = [b EXCEPT !.auto = auto, !.claimed = claimed, !.suppressed = suppressed,
                    !.hooked = @ \cup up, !.refused = @ \cup no,
                    !.warned = @ \cup plan.abandoned \cup unpopped]
  BY DEF a, After
<1> HIDE DEF b
<1>9. b \in Shell /\ SameLists(b, sh) /\ b.request = Nobody /\ Matching(b)
  BY <1>3, <1>7 DEF Activated, SameLists
<1>10. b.hooked \cup up = hooked /\ b.refused \cup no = refused
       /\ b.warned \cup plan.abandoned \cup unpopped = warned
  BY <1>9 DEF SameLists
<1>11. x = [b EXCEPT !.auto = auto, !.claimed = claimed, !.suppressed = suppressed,
                     !.hooked = hooked, !.refused = refused, !.warned = warned]
  BY <1>8, <1>10
<1>12. plan.auto \subseteq sh.auto \cap Range(sh.active) /\ plan.abandoned \subseteq Leavers(sh)
  BY <1>2, LeaversIs DEF Abandoned
<1>13. claimed = auto
  BY <1>12, IsActiveIs
<1>14. sh.refused \subseteq Suppressed(sh) /\ Suppressed(sh) \subseteq Dirs
  BY <1>1, ShellIs DEF Suppressed, Refusing
<1>15. /\ auto \in SUBSET Dirs /\ claimed \in SUBSET Dirs /\ suppressed \in SUBSET Dirs
       /\ hooked \in SUBSET Dirs /\ refused \in SUBSET Dirs /\ warned \in SUBSET Dirs
  <2>1. auto \in SUBSET Dirs /\ claimed \in SUBSET Dirs
    BY <1>1, <1>5, <1>12, <1>13, ShellIs
  <2>2. suppressed \in SUBSET Dirs
    BY <1>2, <1>5, <1>14
  <2>3. hooked \in SUBSET Dirs /\ refused \in SUBSET Dirs
    BY <1>1, <1>5, ShellIs
  <2>4. plan.abandoned \subseteq Dirs
    BY <1>1, <1>12, ShellIs, LeaversIs
  <2>5. warned \in SUBSET Dirs
    BY <1>1, <2>4, ShellIs
  <2> QED  BY <2>1, <2>2, <2>3, <2>5
<1> HIDE DEF auto, claimed, suppressed, hooked, refused, warned
<1>16. /\ x \in Shell /\ x.cwd = b.cwd /\ x.active = b.active /\ x.diffs = b.diffs
       /\ x.request = b.request /\ x.attached = b.attached /\ x.auto = auto
       /\ x.claimed = claimed /\ x.suppressed = suppressed
       /\ x.hooked = hooked /\ x.warned = warned /\ x.refused = refused
  BY <1>9, <1>11, <1>15 DEF Shell
<1>17. x.cwd = sh.cwd /\ x.request = Nobody /\ Matching(x)
  <2>1. x.cwd = sh.cwd /\ x.request = Nobody
    BY <1>9, <1>16 DEF SameLists
  <2>2. x.active = b.active /\ x.diffs = b.diffs /\ Matching(b)
    BY <1>9, <1>16
  <2>3. Matching(x)
    BY <2>2, MatchingSame
  <2> QED  BY <2>1, <2>3
<1>18. \A e : e \in Range(x.active) <=>
                 (e \in Range(sh.active) /\ e \notin Gone(sh)) \/ e \in up
  BY <1>3, <1>7, <1>16 DEF Activated
<1>19. x.auto \cap Range(x.active) \subseteq x.hooked
  <2> SUFFICES ASSUME NEW d \in auto, d \in Range(x.active) PROVE d \in hooked
    BY <1>16
  <2>1. CASE d \in plan.auto
    BY <1>1, <1>12, <2>1 DEF Tracking, hooked
  <2>2. CASE d \in started
    BY <1>5, <1>18, <2>2 DEF hooked
  <2> QED  BY <2>1, <2>2 DEF auto
<1>20. x.hooked \cap Range(x.active) \subseteq x.auto \cup x.warned
  <2> SUFFICES ASSUME NEW d \in hooked, d \in Range(x.active) PROVE d \in auto \cup warned
    BY <1>16
  <2>1. CASE d \in up
    BY <2>1 DEF auto
  <2>2. CASE d \notin up
    <3>1. d \in sh.hooked /\ d \in Range(sh.active) /\ d \notin Gone(sh)
      BY <1>18, <2>2 DEF hooked
    <3>2. d \in sh.warned \/ d \in Tracked(sh)
      BY <1>1, <3>1, LeaversIs DEF Tracking
    <3>3. d \in Range(Popped(sh)) => d \in unpopped
      BY <3>1
    <3>4. d \in Tracked(sh) => d \in plan.auto \/ d \in Range(Popped(sh)) \/ d \in plan.abandoned
      BY <1>2
    <3> QED  BY <3>2, <3>3, <3>4 DEF auto, warned
  <2> QED  BY <2>1, <2>2
<1>21. x.refused \cap x.hooked \cap Range(x.active) = {}
  <2> SUFFICES ASSUME NEW d \in refused, d \in hooked PROVE FALSE
    BY <1>16
  <2>1. d \in sh.refused => d \notin sh.hooked /\ d \in Suppressed(sh)
    BY <1>1, <1>14 DEF Refusing
  <2>2. d \in sh.hooked => d \in Range(sh.active)
    BY <1>1 DEF Tracking
  <2>3. d \in up => d \in started /\ d \notin Suppressed(sh)
    BY <1>5
  <2>4. d \in no => d \notin started /\ d \notin Range(sh.active)
    BY <1>5
  <2> QED  BY <2>1, <2>2, <2>3, <2>4 DEF refused, hooked
<1>22. x.refused \subseteq x.suppressed
  BY <1>2, <1>14, <1>16 DEF refused, suppressed
<1>23. \A d \in x.refused : Inside(x, d)
  BY <1>1, <1>5, <1>16, <1>17 DEF refused, Refusing, Inside
<1>24. Nearly(x)
  BY <1>13, <1>16, <1>17, <1>19, <1>20, <1>21, <1>22, <1>23 DEF Nearly
<1>25. ASSUME NEW inh, Rests(sh, inh)
       PROVE  Rests(x, inh)
  <2>1. Rests(b, inh)
    BY <1>4, <1>6, <1>7, <1>25, RestGrown DEF Activated
  <2> QED  BY <1>16, <2>1 DEF Rests
<1>26. up = {} => x.active = Below(sh.active, Count(sh))
  BY <1>3, <1>7, <1>16 DEF Activated
<1>27. Followed(x, sh, plan, no, started, up)
  BY <1>16, <1>17, <1>18, <1>26 DEF auto, suppressed, Followed
<1> QED  BY <1>24, <1>25, <1>27

LEMMA UnwoundIf ==
    ASSUME NEW r, Good(r), Len(r.active) > 0 => r.active[1] \notin Leavers(r)
    PROVE  Unwound(r)
<1> DEFINE p == Popped(r)
<1>1. /\ p \in Seq(Envs) /\ Len(p) \in 0..Len(r.active)
      /\ \A i \in 1..Len(p) : p[i] = r.active[i] /\ r.active[i] \in Leavers(r)
  BY PoppedIs
<1>2. Len(r.active) \in Nat
  BY ShellIs DEF Good
<1> HIDE DEF p
<1>3. Len(p) = 0
  <2> SUFFICES ASSUME Len(p) # 0 PROVE FALSE
    OBVIOUS
  <2>1. 1 \in 1..Len(p) /\ Len(r.active) > 0
    BY <1>1, <1>2
  <2> QED  BY <1>1, <2>1
<1>4. p = <<>>
  BY <1>1, <1>3, EmptySeq
<1> QED  BY <1>4 DEF Unwound, Popped, p

\* One run unwinds what it can and gives up the rest; unless something is still
\* to be unwound, it leaves what its directory asks for.
LEMMA Settles ==
    ASSUME NEW sh, Good(sh), dotFlox \subseteq Dirs,
           NEW plan, NEW yes, NEW no, NEW started, NEW up, NEW unpopped,
           Decided(sh, plan, yes, no, started, up, unpopped),
           NEW r, Good(r), Followed(r, sh, plan, no, started, up)
    PROVE  /\ Unwound(r)
           /\ Unwound(sh) =>
                /\ \A d \in dotFlox : Inside(r, d) /\ (config[d] = "allow" \/ d \in yes) =>
                       IsActive(r, d) \/ d \in r.suppressed \cup r.auto
                /\ \A d \in r.hooked : Inside(r, d) \/ d \in r.warned
<1> USE DEF Decided, Followed
<1>1. /\ plan.suppressed = Suppressed(sh)
      /\ plan.abandoned = Abandoned(Popped(sh), Leavers(sh))
      /\ plan.auto = (Tracked(sh) \ Range(Popped(sh))) \ plan.abandoned
      /\ \A d \in plan.activate \cup plan.prompt :
           Inside(sh, d) /\ plan.auto \cap Leavers(sh) = {}
      /\ plan.auto \cap Leavers(sh) = {} =>
           \A d \in Discovered(sh) : config[d] = "allow" =>
               d \in Range(sh.active) \cup Suppressed(sh) \cup plan.activate
  BY PlanIs
<1>2. \A d : Inside(r, d) <=> Inside(sh, d)
  BY DEF Inside
<1>3. \A d \in started : Inside(sh, d) /\ plan.auto \cap Leavers(sh) = {}
  BY <1>1
<1>4. plan.auto \subseteq Tracked(sh)
  BY <1>1
<1>5. \A d \in Leavers(r) : d \in plan.auto /\ d \in Leavers(sh)
  <2> SUFFICES ASSUME NEW d \in Leavers(r) PROVE d \in plan.auto /\ d \in Leavers(sh)
    OBVIOUS
  <2>1. d \in plan.auto \cup started /\ ~Inside(sh, d)
    BY <1>2, LeaversIs
  <2>2. d \in plan.auto
    BY <1>3, <2>1
  <2> QED  BY <1>4, <2>1, <2>2, LeaversIs
<1>6. Unwound(r)
  <2>1. CASE plan.auto \cap Leavers(sh) = {}
    BY <1>5, <2>1, UnwoundIf
  <2>2. CASE plan.auto \cap Leavers(sh) # {}
    <3> DEFINE n == Count(sh)
               pop == Popped(sh)
    <3>1. up = {}
      BY <1>3, <2>2
    <3>2. r.active = Below(sh.active, n)
      BY <3>1
    <3>3. sh.active \in Seq(Envs) /\ Len(sh.active) \in Nat
      BY ShellIs DEF Good
    <3>4. /\ n \in Nat /\ n <= Len(pop) /\ n <= Len(sh.active)
          /\ Len(pop) \in 0..Len(sh.active) /\ DOMAIN pop = 1..Len(pop)
          /\ \A i \in 1..Len(pop) : pop[i] = sh.active[i]
          /\ Len(pop) < Len(sh.active) => sh.active[Len(pop) + 1] \notin Leavers(sh)
      BY PoppedIs
    <3> HIDE DEF n, pop
    <3>5. SUFFICES ASSUME Len(r.active) > 0 PROVE r.active[1] \notin Leavers(r)
      BY UnwoundIf
    <3>6. /\ Len(r.active) = IF n < Len(sh.active) THEN Len(sh.active) - n ELSE 0
          /\ \A i \in 1..Len(sh.active) - n : r.active[i] = sh.active[n + i]
      BY <3>2, <3>3, <3>4, BelowIs
    <3>7. n < Len(sh.active)
      BY <3>5, <3>6
    <3>8. r.active[1] = sh.active[n + 1]
      <4>1. 1 \in 1..Len(sh.active) - n
        BY <3>3, <3>4, <3>7
      <4> QED  BY <3>6, <4>1
    <3>9. CASE n < Len(pop)
      <4>1. n + 1 \in 1..Len(pop)
        BY <3>3, <3>4, <3>9
      <4>2. sh.active[n + 1] \in Range(pop)
        BY <3>4, <4>1 DEF Range
      <4> QED  BY <1>1, <1>5, <3>8, <4>2 DEF pop
    <3>10. CASE ~(n < Len(pop))
      <4>1. n = Len(pop)
        <5> DEFINE m == Len(pop)
        <5>1. n \in Nat /\ m \in Nat /\ n <= m /\ ~(n < m)
          BY <3>3, <3>4, <3>10
        <5> HIDE DEF m
        <5>2. n = m
          BY <5>1
        <5> QED  BY <5>2 DEF m
      <4> QED  BY <1>5, <3>4, <3>7, <3>8, <4>1
    <3> QED  BY <3>9, <3>10
  <2> QED  BY <2>1, <2>2
<1>7. ASSUME Unwound(sh)
      PROVE  /\ \A d \in dotFlox : Inside(r, d) /\ (config[d] = "allow" \/ d \in yes) =>
                    IsActive(r, d) \/ d \in r.suppressed \cup r.auto
             /\ \A d \in r.hooked : Inside(r, d) \/ d \in r.warned
  <2>1. plan.auto \cap Leavers(sh) = {}
    <3>1. plan.abandoned = Leavers(sh)
      BY <1>1, <1>7 DEF Abandoned, Unwound, Popped
    <3> QED  BY <1>1, <3>1
  <2>2. ASSUME NEW d \in dotFlox, Inside(r, d), config[d] = "allow" \/ d \in yes
        PROVE  IsActive(r, d) \/ d \in r.suppressed \cup r.auto
    <3>1. d \in Discovered(sh) /\ d \notin Leavers(sh)
      BY <1>2, <2>2, LeaversIs DEF Discovered
    <3>2. CASE d \in started
      BY <3>2
    <3>3. CASE d \notin started
      <4>1. d \in Range(sh.active) \cup Suppressed(sh)
        BY <1>1, <2>1, <2>2, <3>1, <3>3
      <4>2. d \notin Gone(sh)
        BY <3>1, PoppedIs
      <4>3. d \in Range(sh.active) => IsActive(r, d)
        BY <4>2, IsActiveIs
      <4> QED  BY <1>1, <4>1, <4>3
    <3> QED  BY <3>2, <3>3
  <2>3. ASSUME NEW d \in r.hooked
        PROVE  Inside(r, d) \/ d \in r.warned
    <3>1. d \in Range(r.active) /\ (d \in r.auto \/ d \in r.warned)
      BY <2>3 DEF Good, Tracking
    <3> QED  BY <1>5, <2>1, <3>1, LeaversIs
  <2> QED  BY <2>2, <2>3
<1> QED  BY <1>6, <1>7

Unpopped(sh) == Range(Below(Popped(sh), Count(sh)))

LEMMA UnpoppedIs ==
    ASSUME NEW sh, Good(sh)
    PROVE  /\ Unpopped(sh) \subseteq Dirs
           /\ Range(Popped(sh)) \subseteq Gone(sh) \cup Unpopped(sh)
<1> DEFINE pop == Popped(sh)
           n == Count(sh)
           b == Below(pop, n)
           m == Len(pop)
<1>1. /\ pop \in Seq(Envs) /\ DOMAIN pop = 1..m /\ n \in Nat /\ n <= m
      /\ \A i \in 1..m : pop[i] = sh.active[i] /\ sh.active[i] \in Leavers(sh)
  BY PoppedIs
<1>2. m \in Nat
  BY <1>1, LenProperties
<1>3. Gone(sh) = {sh.active[i] : i \in 1..n} /\ Unpopped(sh) = Range(b)
  BY DEF Gone, Layers, Unpopped
<1> HIDE DEF n, pop
<1>4. /\ DOMAIN b = 1..Len(b) /\ Len(b) = IF n < m THEN m - n ELSE 0
      /\ \A i \in 1..m - n : b[i] = pop[n + i]
  BY <1>1, BelowIs
<1> HIDE DEF b, m
<1>5. DOMAIN b = 1..m - n
  <2>1. ~(n < m) => m - n = 0
    BY <1>1, <1>2
  <2> QED  BY <1>4, <2>1
<1>6. Leavers(sh) \subseteq Dirs
  <2>1. sh \in Shell
    BY DEF Good
  <2> QED  BY <2>1, ShellIs, LeaversIs
<1>7. Range(b) \subseteq Dirs
  <2>1. \A i \in 1..m - n : n + i \in 1..m
    BY <1>1, <1>2
  <2>2. \A i \in DOMAIN b : b[i] \in Dirs
    BY <1>1, <1>4, <1>5, <1>6, <2>1
  <2> QED  BY <2>2 DEF Range
<1>8. ASSUME NEW i \in 1..m
      PROVE  pop[i] \in Gone(sh) \cup Range(b)
  <2>1. CASE i \in 1..n
    BY <1>1, <1>3, <2>1
  <2>2. CASE i \notin 1..n
    <3>1. i - n \in 1..m - n /\ n + (i - n) = i
      BY <1>1, <1>2, <2>2
    <3>2. b[i - n] = pop[i]
      BY <1>4, <3>1
    <3> QED  BY <1>5, <3>1, <3>2 DEF Range
  <2> QED  BY <2>1, <2>2
<1>9. Range(pop) \subseteq Gone(sh) \cup Range(b)
  BY <1>1, <1>8 DEF Range
<1> QED  BY <1>3, <1>7, <1>9 DEF pop

LEMMA HookAutoDoes ==
    ASSUME ShellsGood, Others, HookAuto
    PROVE  /\ ShellsGood' /\ Others'
           /\ Unwound(Top)' /\ (Unwound(Top) => Calm(Top)')
           /\ \A e : e \in Range(Top.active) /\ e \notin Range(Top'.active) => e \in Top.hooked
<1> DEFINE plan == Plan(Top)
           unpopped == Unpopped(Top)
<1>1. Good(Top) /\ Rests(Top, Inherited(Len(shells))) /\ dotFlox \subseteq Dirs
  BY TopIs DEF Others
<1> DEFINE pop == plan.deactivate
           rest == Range(SubSeq(pop, PopCount(Top, pop) + 1, Len(pop)))
           yess(consent) == IF consent = "allow" THEN plan.prompt ELSE {}
           noes(consent) == IF consent = "decline" THEN plan.prompt ELSE {}
           all(consent) == plan.activate \cup yess(consent)
           new(consent, up) ==
               [ActivateAll(AfterPops(Top, pop), up) EXCEPT
                   !.auto = plan.auto \cup all(consent),
                   !.claimed = {d \in plan.auto : IsActive(Top, d)} \cup all(consent),
                   !.suppressed = plan.suppressed \cup noes(consent),
                   !.hooked = @ \cup up,
                   !.refused = @ \cup noes(consent),
                   !.warned = @ \cup plan.abandoned \cup rest]
<1>2. PICK consent \in IF plan.prompt = {} THEN {"noTerminal"}
                       ELSE {"noTerminal", "allow", "decline"} :
        /\ \E failing \in SUBSET all(consent) :
             /\ faults + Cardinality(failing) <= MaxFaults
             /\ faults' = faults + Cardinality(failing)
             /\ Ran(new(consent, all(consent) \ failing))
        /\ config' = [d \in Dirs |-> IF d \in yess(consent) THEN "allow" ELSE config[d]]
  BY Zenon DEF HookAuto
<1> DEFINE yes == yess(consent)
           no == noes(consent)
           started == all(consent)
<1>3. PICK failing \in SUBSET started :
        /\ faults + Cardinality(failing) <= MaxFaults
        /\ faults' = faults + Cardinality(failing)
        /\ Ran(new(consent, started \ failing))
  BY <1>2
<1>17. new(consent, started \ failing) =
          After(Top, plan, started, started \ failing, no, unpopped)
  <2>1. pop = Popped(Top)
    BY PlanPops
  <2> HIDE DEF pop
  <2> QED  BY <2>1, Zenon DEF After, Unpopped, Below, Count
<1> HIDE DEF new
<1> DEFINE up == started \ failing
           x == After(Top, plan, started, up, no, unpopped)
           r == Remember(x)
<1>4. /\ config' = [d \in Dirs |-> IF d \in yes THEN "allow" ELSE config[d]]
      /\ SetTop(x) /\ quiet' = (IF quiet < MaxQuiet THEN quiet + 1 ELSE quiet)
      /\ Top.request = Nobody /\ ask' = ask /\ dotFlox' = dotFlox /\ prefs' = prefs
  BY <1>2, <1>3, <1>17 DEF Ran, HookAuto
<1>5. unpopped \subseteq Dirs /\ Range(Popped(Top)) \subseteq Gone(Top) \cup unpopped
  BY <1>1, UnpoppedIs
<1>6. Decided(Top, plan, yes, no, started, up, unpopped)
  <2>1. /\ yes \in SUBSET plan.prompt /\ no \in SUBSET plan.prompt /\ (yes = {} \/ no = {})
        /\ started = plan.activate \cup yes /\ up \in SUBSET started /\ plan = Plan(Top)
    OBVIOUS
  <2> HIDE DEF plan, unpopped, yes, no, started, up
  <2> QED  BY <1>5, <2>1 DEF Decided
<1>7. started \subseteq Dirs
  BY <1>1, PlanIs
<1> HIDE DEF plan, unpopped, yes, no, started, up
<1>8. Nearly(x) /\ Followed(x, Top, plan, no, started, up)
  BY <1>1, <1>4, <1>6, AfterHook
<1>9. Rests(x, Inherited(Len(shells)))
  BY <1>1, <1>4, <1>6, AfterHook
<1> HIDE DEF x
<1>10. ShellsGood' /\ Top' = r
  BY <1>4, <1>8, <1>9, TopSet
<1>11. /\ Good(r) /\ r.cwd = x.cwd /\ r.auto = x.auto /\ r.suppressed = x.suppressed
       /\ r.active = x.active
  BY <1>8, RememberGood, RememberIs DEF Nearly
<1> HIDE DEF r
<1>12. Others'
  <2>1. config' \in [Dirs -> {"allow", "deny", "unset"}]
    <3>1. \A d \in Dirs : (IF d \in yes THEN "allow" ELSE config[d]) \in {"allow", "deny", "unset"}
      BY DEF Others
    <3> QED  BY <1>4, <3>1
  <2>2. IsFiniteSet(failing)
    BY <1>3, <1>7, AutoAssumption, FS_Subset
  <2>3. Cardinality(failing) \in Nat
    BY <2>2, FS_CardinalityType
  <2>4. faults' \in 0..MaxFaults
    BY <1>3, <2>3, AutoAssumption DEF Others
  <2>5. quiet' \in 0..MaxQuiet
    BY <1>4 DEF Others, MaxQuiet
  <2> QED  BY <1>4, <2>1, <2>4, <2>5 DEF Others
<1>13. /\ Unwound(r)
       /\ Unwound(Top) =>
            /\ \A d \in dotFlox : Inside(r, d) /\ (config[d] = "allow" \/ d \in yes) =>
                   IsActive(r, d) \/ d \in r.suppressed \cup r.auto
            /\ \A d \in r.hooked : Inside(r, d) \/ d \in r.warned
  <2>1. Followed(r, Top, plan, no, started, up)
    BY <1>8, <1>11 DEF Followed
  <2>2. Unwound(r)
    BY <1>1, <1>6, <1>11, <2>1, Settles
  <2>3. Unwound(Top) =>
           /\ \A d \in dotFlox : Inside(r, d) /\ (config[d] = "allow" \/ d \in yes) =>
                  IsActive(r, d) \/ d \in r.suppressed \cup r.auto
           /\ \A d \in r.hooked : Inside(r, d) \/ d \in r.warned
    BY <1>1, <1>6, <1>11, <2>1, Settles
  <2> QED  BY <2>2, <2>3
<1>14. Unwound(Top)'
  BY <1>10, <1>13 DEF Unwound, Leavers, Tracked, IsActive, PopFront, Inside
<1>15. ASSUME Unwound(Top)
       PROVE  Calm(Top)'
  <2>1. \A d \in dotFlox : config'[d] = "allow" => config[d] = "allow" \/ d \in yes
    BY <1>1, <1>4
  <2>2. \A d \in Discovered(Top)' : d \in dotFlox /\ Inside(r, d)
    BY <1>4, <1>10 DEF Discovered, Inside
  <2> SUFFICES /\ \A d \in Discovered(Top)' : config'[d] = "allow" =>
                      IsActive(r, d) \/ d \in r.suppressed \cup r.auto
               /\ \A d \in r.hooked : Inside(r, d) \/ d \in r.warned
    BY <1>10 DEF Calm, IsActive, Inside
  <2> QED  BY <1>13, <1>15, <2>1, <2>2
<1>16. ASSUME NEW e, e \in Range(Top.active), e \notin Range(Top'.active)
       PROVE  e \in Top.hooked
  <2>1. e \in Gone(Top)
    BY <1>8, <1>10, <1>11, <1>16 DEF Followed
  <2>2. e \in Leavers(Top)
    BY <1>1, <2>1, PoppedIs
  <2> QED  BY <1>1, <2>2, LeaversIs DEF Good, Tracking
<1> QED  BY <1>10, <1>12, <1>14, <1>15, <1>16

-----------------------------------------------------------------------------
\* The invariant.
LEMMA InvInit ==
    ASSUME Init
    PROVE  Inv
<1>1. PICK p \in Places : shells = <<LoginShell(p)>>
  BY DEF Init
<1> DEFINE x == LoginShell(p)
<1>2. /\ x.cwd = p /\ x.active = <<>> /\ x.diffs = <<>> /\ x.request = Nobody
      /\ x.attached = {} /\ x.auto = {} /\ x.claimed = {} /\ x.suppressed = {}
      /\ x.hooked = {} /\ x.refused = {} /\ x.warned = {}
  BY DEF LoginShell
<1>3. x \in Shell
  <2>1. <<>> \in Seq(Envs) /\ <<>> \in Seq(Diff)
    OBVIOUS
  <2> QED  BY <2>1 DEF LoginShell, Shell
<1> HIDE DEF x
<1>4. DOMAIN x.active = {} /\ DOMAIN x.diffs = {} /\ Range(x.active) = {}
  BY <1>2 DEF Range
<1>5. Good(x)
  BY <1>2, <1>3, <1>4 DEF Good, Matching, Tracking, Refusing
<1>6. Rests(x, {})
  BY <1>2, <1>4 DEF Rests
<1>7. /\ shells \in Seq(Shell) /\ Len(shells) = 1 /\ DOMAIN shells = {1} /\ shells[1] = x
  BY <1>1, <1>3 DEF x
<1>8. 1 \in 1..MaxShells
  BY AutoAssumption
<1>9. ShellsGood
  BY <1>5, <1>6, <1>7, <1>8 DEF ShellsGood, Inherited
<1>10. Others /\ Settling
  BY DEF Init, Others, Settling, MaxQuiet
<1> QED  BY <1>9, <1>10 DEF Inv

\* Whatever else happens, the count of quiet prompts starts again.
LEMMA QuietSettles ==
    ASSUME quiet' = 0
    PROVE  Settling'
BY DEF Settling, MaxQuiet

LEMMA Unhooked ==
    ASSUME Others, config' = config, ask' = ask, dotFlox' = dotFlox, prefs' = prefs,
           quiet' = 0, faults' = faults \/ (faults < MaxFaults /\ faults' = faults + 1)
    PROVE  Others'
<1>1. quiet' \in 0..MaxQuiet
  BY DEF MaxQuiet
<1>2. faults' \in 0..MaxFaults
  BY AutoAssumption DEF Others
<1> QED  BY <1>1, <1>2 DEF Others

\* The hook.
LEMMA HookStep ==
    ASSUME Inv, Hook
    PROVE  Inv'
<1>1. CASE HookRequest
  <2>1. quiet' = 0 /\ UNCHANGED <<config, ask, dotFlox, faults, prefs>>
    BY <1>1 DEF HookRequest, ExitShell
  <2> QED  BY <1>1, <2>1, HookRequestGood, QuietSettles, Unhooked DEF Inv
<1>2. CASE HookError
  <2>1. ShellsGood' /\ Stuck'
    BY <1>2, HookErrorDoes DEF Inv
  <2>2. Others'
    <3>1. quiet' \in 0..MaxQuiet
      BY <1>2 DEF HookError, Ran, Inv, Others, MaxQuiet
    <3> QED  BY <1>2, <3>1 DEF HookError, Inv, Others
  <2> QED  BY <2>1, <2>2 DEF Inv, Settling
<1>3. CASE HookAuto
  <2>1. ShellsGood' /\ Others' /\ Unwound(Top)' /\ (Unwound(Top) => Calm(Top)')
    BY <1>3, HookAutoDoes DEF Inv
  <2>2. ~Stuck /\ quiet' = (IF quiet < MaxQuiet THEN quiet + 1 ELSE quiet)
    BY <1>3 DEF HookAuto, Ran, Stuck
  <2>3. quiet' = MaxQuiet => quiet > 0
    BY <2>2 DEF Inv, Others, MaxQuiet
  <2>4. quiet' = MaxQuiet => Calm(Top)'
    BY <2>1, <2>2, <2>3 DEF Inv, Settling
  <2> QED  BY <2>1, <2>4 DEF Inv, Settling
<1> QED  BY <1>1, <1>2, <1>3 DEF Hook

LEMMA InvNext ==
    ASSUME Inv, ~Again, ~Chained, [Next]_vars
    PROVE  Inv'
<1> USE DEF Inv
<1>1. CASE Hook
  BY <1>1, HookStep
<1>2. ASSUME NEW p \in Places, Cd(p)
      PROVE  Inv'
  BY <1>2, CdGood, QuietSettles, Unhooked DEF Cd, Typed
<1>3. ASSUME NEW e \in InPlace, EvalActivate(e)
      PROVE  Inv'
  BY <1>3, EvalActivateGood, QuietSettles, Unhooked DEF EvalActivate, Typed
<1>4. ASSUME NEW e \in InShell, Activate(e)
      PROVE  Inv'
  BY <1>4, ActivateGood, QuietSettles, Unhooked DEF Activate
<1>5. CASE Deactivate
  BY <1>5, DeactivateGood, QuietSettles, Unhooked DEF Deactivate, Typed
<1>6. CASE DeactivatePrintScript
  <2>1. quiet' = 0 /\ UNCHANGED <<config, ask, dotFlox, faults, prefs>>
    BY <1>6 DEF DeactivatePrintScript, ExitShell, Typed
  <2> QED  BY <1>6, <2>1, PrintScriptGood, QuietSettles, Unhooked
<1>7. CASE ExitShell
  BY <1>7, ExitGood, QuietSettles, Unhooked DEF ExitShell
<1>8. ASSUME NEW d \in Dirs, NEW preference \in {"allow", "deny"}, Prefer(d, preference)
      PROVE  Inv'
  <2>1. ShellsGood'
    BY <1>8 DEF Prefer, ShellsGood, Inherited
  <2>2. config' \in [Dirs -> {"allow", "deny", "unset"}]
    BY <1>8 DEF Prefer, Others
  <2>3. prefs' \in 0..MaxPrefs /\ quiet' \in 0..MaxQuiet
    BY <1>8, AutoAssumption DEF Prefer, Others, MaxQuiet
  <2>4. Others'
    BY <1>8, <2>2, <2>3 DEF Prefer, Others
  <2> QED  BY <1>8, <2>1, <2>4, QuietSettles DEF Prefer
<1>9. ASSUME NEW d \in Dirs, RemoveDotFlox(d)
      PROVE  Inv'
  <2>1. ShellsGood'
    BY <1>9 DEF RemoveDotFlox, ShellsGood, Inherited
  <2>2. faults' \in 0..MaxFaults /\ quiet' \in 0..MaxQuiet /\ dotFlox' \subseteq Dirs
    BY <1>9, AutoAssumption DEF RemoveDotFlox, Others, MaxQuiet
  <2>3. Others'
    BY <1>9, <2>2 DEF RemoveDotFlox, Others
  <2> QED  BY <1>9, <2>1, <2>3, QuietSettles DEF RemoveDotFlox
<1>10. CASE LoseDiff
  BY <1>10, LoseDiffGood, QuietSettles, Unhooked DEF LoseDiff, Typed
<1>11. CASE UNCHANGED vars
  <2>1. ShellsGood' /\ Others'
    BY <1>11 DEF vars, ShellsGood, Others, Inherited
  <2>2. Settling'
    BY <1>11 DEF vars, Settling, Stuck, Unopened, Plan, Top, Calm, Discovered, Suppressed
  <2> QED  BY <2>1, <2>2
<1> QED
  BY <1>1, <1>2, <1>3, <1>4, <1>5, <1>6, <1>7, <1>8, <1>9, <1>10, <1>11 DEF Next

\* The invariant holds in every reachable state.
LEMMA InvAlways ==
    ASSUME ~Again, ~Chained
    PROVE  Spec => []Inv
BY InvInit, InvNext, PTL DEF Spec

-----------------------------------------------------------------------------
\* Whatever is deactivated, by the hook, by a request or by a script, the shell
\* is given back what it had before, and detaches from what it attached to:
\* provided that no active environment is activated again and that no command
\* follows a request on its line.
THEOREM DiffsAlwaysMatch ==
    ASSUME ~Again, ~Chained
    PROVE  Spec => []DiffsMatchStack
<1>1. Inv => DiffsMatchStack
  BY DEF Inv, ShellsGood, Good, Matching, Below, Rests, Inherited, DiffsMatchStack
<1> QED  BY <1>1, InvAlways, PTL

\* The hook never brings back what the user deactivated or declined, while the
\* shell is in that directory.
THEOREM RefusalsHold ==
    ASSUME ~Again, ~Chained
    PROVE  Spec => []RefusalHolds
<1>1. Inv => RefusalHolds
  BY DEF Inv, ShellsGood, Good, Refusing, RefusalHolds
<1> QED  BY <1>1, InvAlways, PTL

\* Two prompts settle the shell, however many layers are left behind.
THEOREM SettledAlways ==
    ASSUME ~Again, ~Chained
    PROVE  Spec => []SettledInTwo
<1>1. Inv => SettledInTwo
  BY DEF Inv, Settling, Calm, SettledInTwo
<1> QED  BY <1>1, InvAlways, PTL

\* The hook deactivates nothing that the user activated.
THEOREM ManualAlwaysKept ==
    ASSUME ~Again, ~Chained
    PROVE  Spec => ManualKept
<1>1. ASSUME Inv, Next, quiet' # 0
      PROVE  Range(Top.active) \ Range(Top'.active) \subseteq Top.hooked
  <2>1. CASE HookError
    BY <1>1, <2>1, HookErrorDoes DEF Inv
  <2>2. CASE HookAuto
    BY <1>1, <2>2, HookAutoDoes DEF Inv
  <2>3. HookError \/ HookAuto \/ shells' = shells
    BY <1>1 DEF Next, Hook, HookRequest, Cd, EvalActivate, Activate, Deactivate,
       DeactivatePrintScript, ExitShell, Prefer, RemoveDotFlox, LoseDiff, Typed
  <2> QED  BY <2>1, <2>2, <2>3 DEF Top
<1>2. Inv /\ [Next]_vars =>
        [quiet' # 0 => Range(Top.active) \ Range(Top'.active) \subseteq Top.hooked]_vars
  BY <1>1
<1> QED  BY <1>2, InvAlways, PTL DEF Spec, ManualKept

\* The variables of the shells keep their types.
THEOREM HookTypeCorrect ==
    ASSUME ~Again, ~Chained
    PROVE  Spec => []TypeOK
<1>1. Inv => TypeOK
  BY DEF Inv, ShellsGood, Others, TypeOK
<1> QED  BY <1>1, InvAlways, PTL

=============================================================================
