----------------------------- MODULE EventsProofs -----------------------------
(***************************************************************************)
(* Events are not lost silently, wait in order and are recorded once, for  *)
(* any invocations, limits and faults.                                     *)
(***************************************************************************)
EXTENDS Events, SequenceTheorems, FiniteSetTheorems, WellFoundedInduction, TLAPS

\* The events that their invocations have begun to record.
Started == {e \in Event : IF e.kind = "completed" THEN completed[e.by]
                                                ELSE e.kind \in inv[e.by].did}

\* Who waits, whom a buffer belongs to, and whose event is being recorded.
Phases ==
    \A p \in Invocations :
        /\ inv[p].at = "none" => inv[p].event = NoEvent
        /\ inv[p].at = "send" => inv[p].event = NoEvent
        /\ inv[p].at = "push" => inv[p].event # NoEvent
        /\ inv[p].at \in {"none", "lock"} => inv[p].buffer = <<>>
        /\ inv[p].event # NoEvent => inv[p].event.by = p /\ inv[p].event \in Started

\* All that is known is of an event that was begun.
KnownStarted ==
    /\ \A i \in DOMAIN file : file[i] # Torn => file[i] \in Started
    /\ \A i \in DOMAIN recorded : recorded[i] \in Started
    /\ \A p \in Invocations : \A i \in DOMAIN inv[p].buffer : inv[p].buffer[i] \in Started

\* An event that is being recorded is nowhere yet, but at the end of the buffer
\* that its own push is about to write.
Fresh ==
    \A p \in Invocations : inv[p].event # NoEvent =>
        /\ \A i \in DOMAIN file : file[i] # inv[p].event
        /\ \A i \in DOMAIN recorded : recorded[i] # inv[p].event
        /\ \A q \in Invocations : \A i \in DOMAIN inv[q].buffer :
               inv[q].buffer[i] = inv[p].event =>
                   p = q /\ inv[p].at = "overwrite" /\ i = Len(inv[p].buffer)

Distinct == \A i, j \in DOMAIN recorded : recorded[i] = recorded[j] => i = j

\* What the holder of the lock has read is what is there.
BufferRead ==
    /\ \A p \in Invocations : inv[p].at \in {"push", "send"} => inv[p].buffer = ReadEvents(file)
    /\ ~torn => file \in Seq(Event)

\* What the new file leaves out was sent or given up.
OverwriteKeeps ==
    \A p \in Invocations : ~torn /\ inv[p].at = "overwrite" =>
        /\ ToSet(file) \subseteq ToSet(inv[p].buffer) \cup received \cup dropped
        /\ inv[p].event # NoEvent => inv[p].event \in ToSet(inv[p].buffer) \cup dropped

\* The entries of w that are in r come in the same order as in r.
InOrder(w, r) ==
    \A i, j \in DOMAIN w, k, l \in DOMAIN r : i < j /\ w[i] = r[k] /\ w[j] = r[l] => k <= l

\* The history once the event of p is recorded.
RecordedWith(p) == IF inv[p].event = NoEvent THEN recorded ELSE Append(recorded, inv[p].event)

Waits ==
    /\ Len(ReadEvents(file)) < MaxBuffer
    /\ InOrder(ReadEvents(file), recorded)
    /\ \A p \in Invocations : inv[p].at = "overwrite" =>
           Len(inv[p].buffer) < MaxBuffer /\ InOrder(inv[p].buffer, RecordedWith(p))

Inv == TypeOK /\ Phases /\ KnownStarted /\ Fresh /\ Distinct /\ BufferRead
       /\ OverwriteKeeps /\ Waits /\ NoSilentLoss

-------------------------------------------------------------------------------
\* Every nonempty set of natural numbers has a smallest one.
LEMMA Smallest ==
    ASSUME NEW T, T \subseteq Nat, T # {}
    PROVE  \E x \in T : \A y \in T : x <= y
<1> DEFINE R == {ss \in Nat \X Nat : ss[1] < ss[2]}
<1>1. IsWellFoundedOn(R, Nat)
  BY NatLessThanWellFounded DEF OpToRel
<1>2. \E x \in T : \A y \in T : <<y, x>> \notin R
  <2> HIDE DEF R
  <2> QED  BY <1>1, WFMin
<1>3. PICK x \in T : \A y \in T : <<y, x>> \notin R
  BY <1>2
<1>4. \A y \in T : ~(y < x)
  BY <1>3
<1> QED  BY <1>4

\* What is read is the file up to its first entry that is torn.
LEMMA ReadEventsPrefix ==
    ASSUME NEW f \in Seq(Entries)
    PROVE  /\ ReadEvents(f) \in Seq(Event)
           /\ Len(ReadEvents(f)) <= Len(f)
           /\ \A i \in 1..Len(ReadEvents(f)) : ReadEvents(f)[i] = f[i]
           /\ Len(ReadEvents(f)) = Len(f) \/ f[Len(ReadEvents(f)) + 1] = Torn
<1>1. CASE \E i \in DOMAIN f : f[i] = Torn
  <2> DEFINE T == {i \in DOMAIN f : f[i] = Torn}
             First(i) == f[i] = Torn /\ \A j \in 1..(i-1) : f[j] # Torn
             t == CHOOSE i \in DOMAIN f : First(i)
  <2>1. PICK x \in T : \A y \in T : x <= y
    <3>1. T \subseteq Nat /\ T # {}
      BY <1>1, LenProperties
    <3> HIDE DEF T
    <3> QED  BY <3>1, Smallest
  <2>2. x \in DOMAIN f /\ First(x)
    <3>1. x \in 1..Len(f) /\ f[x] = Torn
      BY <2>1, LenProperties
    <3>2. ASSUME NEW j \in 1..(x-1), f[j] = Torn  PROVE FALSE
      <4>1. j \in T
        BY <3>1, <3>2, LenProperties
      <4> QED  BY <2>1, <3>1, <4>1
    <3> QED  BY <3>1, <3>2, LenProperties
  <2>3. t \in DOMAIN f /\ First(t)
    BY <2>2, Zenon
  <2> HIDE DEF t
  <2>4. t \in 1..Len(f) /\ \A j \in 1..(t-1) : f[j] \in Event
    BY <2>3, LenProperties, ElementOfSeq DEF Entries
  <2>5. ReadEvents(f) = SubSeq(f, 1, t - 1)
    BY <1>1, Zenon DEF ReadEvents, t
  <2>6. /\ SubSeq(f, 1, t - 1) \in Seq(Event)
        /\ Len(SubSeq(f, 1, t - 1)) = t - 1
        /\ \A i \in 1..(t-1) : SubSeq(f, 1, t - 1)[i] = f[i]
    <3>1. t - 1 \in Int /\ 1 \in Int /\ \A i \in 1..(t-1) : f[i] \in Event
      BY <2>4
    <3> QED  BY <2>4, <3>1, SubSeqProperties
  <2> QED  BY <2>3, <2>4, <2>5, <2>6, LenProperties
<1>2. CASE ~\E i \in DOMAIN f : f[i] = Torn
  <2>1. ReadEvents(f) = f
    BY <1>2 DEF ReadEvents
  <2>2. f \in [1..Len(f) -> Event] /\ Len(f) \in Nat
    BY <1>2, LenProperties, ElementOfSeq DEF Entries
  <2> QED  BY <2>1, <2>2
<1> QED  BY <1>1, <1>2

\* A file without a torn entry is read as it is.
LEMMA ReadWhole ==
    ASSUME NEW f \in Seq(Event)
    PROVE  f \in Seq(Entries) /\ ReadEvents(f) = f
<1>1. \A i \in DOMAIN f : f[i] \in Event
  BY LenProperties, ElementOfSeq
<1>2. ~\E i \in DOMAIN f : f[i] = Torn
  BY <1>1, EventsAssumption
<1> QED  BY <1>2, SeqMonotonic DEF ReadEvents, Entries

\* An entry at the end of the file is read if all before it are.
LEMMA ReadAppend ==
    ASSUME NEW f \in Seq(Entries), NEW x \in Entries
    PROVE  \/ ReadEvents(Append(f, x)) = ReadEvents(f)
           \/ /\ x # Torn /\ f = ReadEvents(f)
              /\ ReadEvents(Append(f, x)) = Append(f, x)
<1> DEFINE g == Append(f, x)
           r == ReadEvents(f)
           s == ReadEvents(g)
<1>1. g \in Seq(Entries) /\ Len(g) = Len(f) + 1 /\ g[Len(f) + 1] = x
      /\ \A i \in 1..Len(f) : g[i] = f[i]
  BY AppendProperties
<1>2. /\ r \in Seq(Event) /\ Len(r) \in Nat /\ Len(r) <= Len(f)
      /\ \A i \in 1..Len(r) : r[i] = f[i] /\ f[i] # Torn
      /\ Len(r) = Len(f) \/ f[Len(r) + 1] = Torn
  BY ReadEventsPrefix, LenProperties, ElementOfSeq, EventsAssumption
<1>3. /\ s \in Seq(Event) /\ Len(s) \in Nat /\ Len(s) <= Len(g)
      /\ \A i \in 1..Len(s) : s[i] = g[i] /\ g[i] # Torn
      /\ Len(s) = Len(g) \/ g[Len(s) + 1] = Torn
  BY <1>1, ReadEventsPrefix, LenProperties, ElementOfSeq, EventsAssumption
<1> HIDE DEF g, r, s
<1>4. Len(f) \in Nat
  BY LenProperties
<1>5. CASE Len(s) = Len(r)
  <2>1. \A i \in 1..Len(s) : s[i] = r[i]
    BY <1>1, <1>2, <1>3, <1>4, <1>5
  <2>2. s = r
    BY <1>2, <1>3, <1>5, <2>1, SeqEqual
  <2> QED  BY <2>2 DEF s, r, g
<1>6. CASE Len(s) # Len(r)
  <2>1. Len(s) > Len(r)
    <3>1. SUFFICES ASSUME Len(s) < Len(r)  PROVE FALSE
      BY <1>2, <1>3, <1>6
    <3>2. Len(s) + 1 \in 1..Len(r) /\ Len(s) + 1 \in 1..Len(f)
      BY <1>2, <1>3, <1>4, <3>1
    <3>3. g[Len(s) + 1] # Torn
      BY <1>1, <1>2, <3>2
    <3>4. Len(s) # Len(g)
      BY <1>1, <1>2, <1>4, <3>1
    <3> QED  BY <1>3, <3>3, <3>4
  <2>2. Len(r) = Len(f)
    <3>1. SUFFICES ASSUME Len(r) < Len(f)  PROVE FALSE
      BY <1>2, <1>4
    <3>2. Len(r) + 1 \in 1..Len(s) /\ Len(r) + 1 \in 1..Len(f)
      BY <1>2, <1>3, <1>4, <2>1, <3>1
    <3>3. g[Len(r) + 1] = Torn
      BY <1>1, <1>2, <1>4, <3>1, <3>2
    <3> QED  BY <1>3, <3>2, <3>3
  <2>3. Len(s) = Len(g)
    BY <1>1, <1>3, <1>4, <2>1, <2>2
  <2>4. x # Torn
    BY <1>1, <1>3, <1>4, <2>3
  <2>5. r \in Seq(Entries) /\ s \in Seq(Entries)
    BY <1>2, <1>3, ReadWhole
  <2>6. f = r
    BY <1>2, <1>4, <2>2, <2>5, SeqEqual
  <2>7. s = g
    BY <1>1, <1>3, <2>3, <2>5, SeqEqual
  <2> QED  BY <2>4, <2>6, <2>7 DEF s, r, g
<1> QED  BY <1>5, <1>6

-------------------------------------------------------------------------------
\* A part of an ordered sequence is ordered, and so is an ordered sequence with
\* a new entry that is the next one to be recorded.
LEMMA InOrderPart ==
    ASSUME NEW w \in Seq(Event), NEW r, InOrder(w, r),
           NEW m \in 1..(Len(w) + 1), NEW n \in 0..Len(w)
    PROVE  /\ SubSeq(w, m, n) \in Seq(Event)
           /\ Len(SubSeq(w, m, n)) = IF m <= n THEN n - m + 1 ELSE 0
           /\ \A i \in DOMAIN SubSeq(w, m, n) :
                  i + m - 1 \in DOMAIN w /\ SubSeq(w, m, n)[i] = w[i + m - 1]
           /\ InOrder(SubSeq(w, m, n), r)
<1> DEFINE u == SubSeq(w, m, n)
<1>0. Len(w) \in Nat /\ DOMAIN w = 1..Len(w)
  BY LenProperties
<1>1. \A i \in m..n : w[i] \in Event
  BY <1>0, ElementOfSeq
<1>2. m \in Int /\ n \in Int
  BY <1>0
<1>3. /\ u \in Seq(Event)
      /\ Len(u) = IF m <= n THEN n - m + 1 ELSE 0
      /\ \A i \in 1..(n - m + 1) : u[i] = w[m + i - 1]
  BY <1>1, <1>2, SubSeqProperties
<1> HIDE DEF u
<1>4. \A i \in DOMAIN u : i \in Nat /\ i + m - 1 \in DOMAIN w /\ u[i] = w[i + m - 1]
  BY <1>0, <1>2, <1>3, LenProperties
<1>5. InOrder(u, r)
  <2> SUFFICES ASSUME NEW i \in DOMAIN u, NEW j \in DOMAIN u,
                      NEW k \in DOMAIN r, NEW l \in DOMAIN r,
                      i < j, u[i] = r[k], u[j] = r[l]
               PROVE  k <= l
    BY DEF InOrder
  <2>1. i + m - 1 < j + m - 1
    BY <1>0, <1>4
  <2> QED  BY <1>4, <2>1 DEF InOrder
<1> QED  BY <1>3, <1>4, <1>5 DEF u

LEMMA InOrderAppend ==
    ASSUME NEW w \in Seq(Event), NEW r \in Seq(Event), NEW e \in Event, InOrder(w, r),
           \A i \in DOMAIN w : w[i] # e, \A i \in DOMAIN r : r[i] # e
    PROVE  InOrder(Append(w, e), Append(r, e)) /\ InOrder(w, Append(r, e))
           /\ InOrder(Append(w, e), r)
<1> DEFINE x == Append(w, e)
           s == Append(r, e)
<1>1. /\ DOMAIN w = 1..Len(w) /\ DOMAIN r = 1..Len(r) /\ Len(w) \in Nat /\ Len(r) \in Nat
      /\ DOMAIN x = 1..(Len(w) + 1) /\ DOMAIN s = 1..(Len(r) + 1)
      /\ \A i \in DOMAIN w : x[i] = w[i]
      /\ \A i \in DOMAIN r : s[i] = r[i]
      /\ x[Len(w) + 1] = e /\ s[Len(r) + 1] = e
  BY LenProperties, AppendProperties
<1> HIDE DEF x, s
<1>2. \A i \in DOMAIN x, k \in DOMAIN s : x[i] = s[k] =>
          (i \in DOMAIN w /\ k \in DOMAIN r /\ w[i] = r[k]) \/ (i = Len(w) + 1 /\ k = Len(r) + 1)
  BY <1>1
<1>3. InOrder(x, s)
  <2> SUFFICES ASSUME NEW i \in DOMAIN x, NEW j \in DOMAIN x,
                      NEW k \in DOMAIN s, NEW l \in DOMAIN s,
                      i < j, x[i] = s[k], x[j] = s[l]
               PROVE  k <= l
    BY DEF InOrder
  <2>1. CASE j \in DOMAIN w
    <3>1. i \in DOMAIN w /\ j # Len(w) + 1 /\ i # Len(w) + 1
      BY <1>1, <2>1
    <3>2. k \in DOMAIN r /\ l \in DOMAIN r /\ w[i] = r[k] /\ w[j] = r[l]
      BY <1>2, <3>1
    <3> QED  BY <2>1, <3>1, <3>2 DEF InOrder
  <2>2. CASE j = Len(w) + 1
    BY <1>1, <1>2, <2>2
  <2> QED  BY <1>1, <2>1, <2>2
<1>4. InOrder(w, s)
  BY <1>1 DEF InOrder
<1>5. InOrder(x, r)
  BY <1>1 DEF InOrder
<1> QED  BY <1>3, <1>4, <1>5 DEF x, s

-------------------------------------------------------------------------------
(***************************************************************************)
(* What a step of p does to the others and to what was begun.              *)
(***************************************************************************)
Invocation == [stage : {"start", "work", "exec", "execed", "exit", "gone"},
               at : {"none", "lock", "push", "overwrite", "send"},
               event : Event \cup {NoEvent}, buffer : Seq(Event), did : SUBSET Kinds]

Others(p) == \A q \in Invocations \ {p} : inv'[q] = inv[q]

StartedKept == Started \subseteq Started'

Rest == Phases /\ KnownStarted /\ Fresh /\ Distinct /\ BufferRead /\ OverwriteKeeps
        /\ Waits /\ NoSilentLoss

\* p goes on, begins to flush, or begins to record an event.
Begins(p) ==
    /\ inv[p].at = "none"
    /\ inv'[p].at \in {"none", "lock"} /\ inv'[p].buffer = inv[p].buffer
    /\ \/ inv'[p].event = NoEvent
       \/ /\ inv'[p].at = "lock"
          /\ inv'[p].event \in Started' \ Started /\ inv'[p].event.by = p
    /\ UNCHANGED <<file, holder, received, torn, recorded, dropped>>

LEMMA BeginsKeeps ==
    ASSUME NEW p \in Invocations, Inv, Others(p), StartedKept, Begins(p)
    PROVE  Rest'
<1> DEFINE e == inv'[p].event
<1>1. \A q \in Invocations \ {p} : inv'[q] = inv[q]
  BY DEF Others
<1>2. \A q \in Invocations : inv'[q].buffer = inv[q].buffer
  BY <1>1 DEF Begins
<1>3. UNCHANGED <<file, recorded, received, dropped, torn>>
  BY DEF Begins
<1>4. KnownStarted'
  BY <1>2, <1>3 DEF Inv, KnownStarted, StartedKept
<1>5. Phases'
  <2> SUFFICES ASSUME NEW q \in Invocations
               PROVE  /\ inv'[q].at = "none" => inv'[q].event = NoEvent
                      /\ inv'[q].at = "send" => inv'[q].event = NoEvent
                      /\ inv'[q].at = "push" => inv'[q].event # NoEvent
                      /\ inv'[q].at \in {"none", "lock"} => inv'[q].buffer = <<>>
                      /\ inv'[q].event # NoEvent => inv'[q].event.by = q /\ inv'[q].event \in Started'
    BY DEF Phases
  <2>1. CASE q = p
    BY <2>1 DEF Begins, Inv, Phases
  <2>2. CASE q # p
    BY <1>1, <2>2 DEF Inv, Phases, StartedKept
  <2> QED  BY <2>1, <2>2
<1>6. Fresh'
  <2> SUFFICES ASSUME NEW q \in Invocations, inv'[q].event # NoEvent
               PROVE  /\ \A i \in DOMAIN file : file[i] # inv'[q].event
                      /\ \A i \in DOMAIN recorded : recorded[i] # inv'[q].event
                      /\ \A o \in Invocations : \A i \in DOMAIN inv'[o].buffer :
                             inv'[o].buffer[i] = inv'[q].event =>
                             q = o /\ inv'[q].at = "overwrite" /\ i = Len(inv'[q].buffer)
    BY <1>3 DEF Fresh
  <2>1. CASE q = p
    <3>1. e \in Started' \ Started /\ e # Torn
      BY <2>1, EventsAssumption DEF Begins, Started
    <3>2. /\ \A i \in DOMAIN file : file[i] # e
          /\ \A i \in DOMAIN recorded : recorded[i] # e
          /\ \A o \in Invocations : \A i \in DOMAIN inv[o].buffer : inv[o].buffer[i] # e
      BY <3>1 DEF Inv, KnownStarted
    <3> QED  BY <1>2, <2>1, <3>2
  <2>2. CASE q # p
    BY <1>1, <1>2, <2>2 DEF Inv, Fresh
  <2> QED  BY <2>1, <2>2
<1>7. \A q \in Invocations : inv'[q].at \in {"push", "send", "overwrite"} =>
             q # p /\ inv'[q] = inv[q]
  BY <1>1 DEF Begins
<1>8. Distinct' /\ BufferRead' /\ OverwriteKeeps' /\ NoSilentLoss'
  BY <1>3, <1>7 DEF Inv, Distinct, BufferRead, OverwriteKeeps, NoSilentLoss
<1>9. Waits'
  BY <1>3, <1>7 DEF Inv, Waits, RecordedWith
<1> QED  BY <1>4, <1>5, <1>6, <1>8, <1>9 DEF Rest

LEMMA ReadsKeeps ==
    ASSUME NEW p \in Invocations, Inv, TypeOK', Others(p), StartedKept, ReadBuffer(p)
    PROVE  Rest'
<1>1. /\ \A q \in Invocations \ {p} : inv'[q] = inv[q]
      /\ UNCHANGED <<file, recorded, received, dropped, torn>>
      /\ inv'[p].event = inv[p].event /\ inv'[p].buffer = ReadEvents(file)
      /\ inv'[p].at = IF inv[p].event = NoEvent THEN "send" ELSE "push"
      /\ inv[p].at = "lock"
  BY DEF Others, ReadBuffer, counters, Inv, TypeOK
<1>2. /\ DOMAIN ReadEvents(file) \subseteq DOMAIN file
      /\ \A i \in DOMAIN ReadEvents(file) : ReadEvents(file)[i] = file[i] /\ file[i] # Torn
  <2>1. file \in Seq(Entries)
    BY DEF Inv, TypeOK
  <2> QED  BY <2>1, ReadEventsPrefix, LenProperties, ElementOfSeq, EventsAssumption
<1>3. \A q \in Invocations \ {p} : inv[q].at \in {"none", "lock"}
  BY <1>1 DEF Inv, TypeOK, ReadBuffer
<1>4. KnownStarted'
  BY <1>1, <1>2 DEF Inv, KnownStarted, StartedKept
<1>5. Phases'
  <2> SUFFICES ASSUME NEW q \in Invocations
               PROVE  /\ inv'[q].at = "none" => inv'[q].event = NoEvent
                      /\ inv'[q].at = "send" => inv'[q].event = NoEvent
                      /\ inv'[q].at = "push" => inv'[q].event # NoEvent
                      /\ inv'[q].at \in {"none", "lock"} => inv'[q].buffer = <<>>
                      /\ inv'[q].event # NoEvent => inv'[q].event.by = q /\ inv'[q].event \in Started'
    BY DEF Phases
  <2> QED  BY <1>1 DEF Inv, Phases, StartedKept
<1>6. Fresh'
  <2> SUFFICES ASSUME NEW q \in Invocations, inv'[q].event # NoEvent
               PROVE  /\ \A i \in DOMAIN file : file[i] # inv'[q].event
                      /\ \A i \in DOMAIN recorded : recorded[i] # inv'[q].event
                      /\ \A o \in Invocations : \A i \in DOMAIN inv'[o].buffer :
                             inv'[o].buffer[i] = inv'[q].event =>
                             q = o /\ inv'[q].at = "overwrite" /\ i = Len(inv'[q].buffer)
    BY <1>1 DEF Fresh
  <2>1. inv'[q].event = inv[q].event
    BY <1>1
  <2>2. /\ \A i \in DOMAIN file : file[i] # inv'[q].event
        /\ \A i \in DOMAIN recorded : recorded[i] # inv'[q].event
    BY <2>1 DEF Inv, Fresh
  <2>3. ASSUME NEW o \in Invocations, NEW i \in DOMAIN inv'[o].buffer,
               inv'[o].buffer[i] = inv'[q].event
        PROVE  FALSE
    <3>1. CASE o = p
      BY <1>1, <1>2, <2>2, <2>3, <3>1
    <3>2. CASE o # p
      BY <1>1, <1>3, <2>3, <3>2 DEF Inv, Phases
    <3> QED  BY <3>1, <3>2
  <2> QED  BY <2>2, <2>3
<1>7. \A q \in Invocations : inv'[q].at \in {"push", "send"} => q = p
  BY <1>1, <1>3
<1>8. \A q \in Invocations : inv'[q].at # "overwrite"
  BY <1>1, <1>3
<1>9. Distinct' /\ BufferRead' /\ OverwriteKeeps' /\ NoSilentLoss'
  BY <1>1, <1>7, <1>8 DEF Inv, Distinct, BufferRead, OverwriteKeeps, NoSilentLoss
<1>10. Waits'
  BY <1>1, <1>8 DEF Inv, Waits
<1> QED  BY <1>4, <1>5, <1>6, <1>9, <1>10 DEF Rest

\* p is done with the buffer, or gone.
Releases(p) ==
    /\ inv'[p].at = "none" /\ inv'[p].event = NoEvent /\ inv'[p].buffer = <<>>
    /\ \/ inv[p].at \in {"push", "overwrite", "send"}
       \/ UNCHANGED <<file, recorded>>
    /\ received \subseteq received' /\ dropped \subseteq dropped' /\ (torn => torn')

\* What p leaves in the file is of events in the file or in its hands, and no
\* recorded event is lost.
Leaves(p) ==
    /\ \A i \in DOMAIN file' :
           \/ file'[i] = Torn
           \/ \E j \in DOMAIN file : file'[i] = file[j]
           \/ \E j \in DOMAIN inv[p].buffer : file'[i] = inv[p].buffer[j]
           \/ inv[p].event # NoEvent /\ file'[i] = inv[p].event
    /\ \/ recorded' = recorded
       \/ inv[p].event # NoEvent /\ recorded' = Append(recorded, inv[p].event)
    /\ Len(ReadEvents(file')) < MaxBuffer /\ InOrder(ReadEvents(file'), recorded')
    /\ ~torn' => file' \in Seq(Event)
    /\ NoSilentLoss'

\* An event that is being recorded and not by p is none of those p may write.
LEMMA NotOfOthers ==
    ASSUME NEW p \in Invocations, NEW q \in Invocations \ {p}, Inv, inv[q].event # NoEvent
    PROVE  /\ \A j \in DOMAIN file : file[j] # inv[q].event
           /\ \A j \in DOMAIN recorded : recorded[j] # inv[q].event
           /\ \A j \in DOMAIN inv[p].buffer : inv[p].buffer[j] # inv[q].event
           /\ inv[p].event # inv[q].event
           /\ inv[q].event # Torn
<1>1. inv[q].event # Torn
  BY EventsAssumption DEF Inv, TypeOK, Phases, Started
<1>2. inv[p].event # inv[q].event
  BY DEF Inv, Phases
<1>3. /\ \A j \in DOMAIN file : file[j] # inv[q].event
      /\ \A j \in DOMAIN recorded : recorded[j] # inv[q].event
      /\ \A j \in DOMAIN inv[p].buffer : inv[p].buffer[j] # inv[q].event
  BY DEF Inv, Fresh
<1> QED  BY <1>1, <1>2, <1>3

\* The entries of a sequence with one more.
LEMMA AppendEntries ==
    ASSUME NEW S, NEW s \in Seq(S), NEW e \in S
    PROVE  /\ DOMAIN Append(s, e) = DOMAIN s \cup {Len(s) + 1}
           /\ Len(s) + 1 \notin DOMAIN s
           /\ \A i \in DOMAIN s : Append(s, e)[i] = s[i]
           /\ Append(s, e)[Len(s) + 1] = e
           /\ ToSet(Append(s, e)) = ToSet(s) \cup {e}
<1>1. /\ DOMAIN s = 1..Len(s) /\ Len(s) \in Nat
      /\ Append(s, e) \in Seq(S) /\ Len(Append(s, e)) = Len(s) + 1
      /\ \A i \in 1..Len(s) : Append(s, e)[i] = s[i]
      /\ Append(s, e)[Len(s) + 1] = e
  BY LenProperties, AppendProperties
<1>2. DOMAIN Append(s, e) = 1..(Len(s) + 1)
  BY <1>1, LenProperties
<1>3. DOMAIN Append(s, e) = DOMAIN s \cup {Len(s) + 1} /\ Len(s) + 1 \notin DOMAIN s
  BY <1>1, <1>2
<1> QED  BY <1>1, <1>3 DEF ToSet

LEMMA ReleasesKeeps ==
    ASSUME NEW p \in Invocations, Inv, TypeOK', Others(p), StartedKept, Releases(p), Leaves(p)
    PROVE  Rest'
<1>1. /\ \A q \in Invocations \ {p} : inv'[q] = inv[q]
      /\ inv'[p].at = "none" /\ inv'[p].event = NoEvent /\ inv'[p].buffer = <<>>
  BY DEF Others, Releases
<1>2. DOMAIN inv'[p].buffer = {}
  BY <1>1
<1>3. file \in Seq(Entries) /\ recorded \in Seq(Event) /\ inv[p].event \in Event \cup {NoEvent}
  BY DEF Inv, TypeOK
<1>4. recorded' # recorded =>
         /\ inv[p].event # NoEvent /\ inv[p].event \in Event
         /\ DOMAIN recorded' = DOMAIN recorded \cup {Len(recorded) + 1}
         /\ Len(recorded) + 1 \notin DOMAIN recorded
         /\ \A i \in DOMAIN recorded : recorded'[i] = recorded[i]
         /\ recorded'[Len(recorded) + 1] = inv[p].event
  <2>1. ASSUME recorded' # recorded
        PROVE  /\ inv[p].event # NoEvent /\ inv[p].event \in Event
               /\ recorded' = Append(recorded, inv[p].event)
    BY <1>3, <2>1 DEF Leaves
  <2>2. \A e \in Event :
          /\ DOMAIN Append(recorded, e) = DOMAIN recorded \cup {Len(recorded) + 1}
          /\ Len(recorded) + 1 \notin DOMAIN recorded
          /\ \A i \in DOMAIN recorded : Append(recorded, e)[i] = recorded[i]
          /\ Append(recorded, e)[Len(recorded) + 1] = e
    BY <1>3, AppendEntries
  <2> QED  BY <2>1, <2>2
<1>5. KnownStarted'
  <2>1. \A i \in DOMAIN file' : file'[i] # Torn => file'[i] \in Started
    BY DEF Leaves, Inv, KnownStarted, Phases
  <2>2. \A i \in DOMAIN recorded' : recorded'[i] \in Started
    BY <1>4 DEF Inv, KnownStarted, Phases
  <2>3. \A q \in Invocations : \A i \in DOMAIN inv'[q].buffer : inv'[q].buffer[i] \in Started
    BY <1>1, <1>2 DEF Inv, KnownStarted
  <2> QED  BY <2>1, <2>2, <2>3 DEF KnownStarted, StartedKept
<1>6. Phases'
  <2> SUFFICES ASSUME NEW q \in Invocations
               PROVE  /\ inv'[q].at = "none" => inv'[q].event = NoEvent
                      /\ inv'[q].at = "send" => inv'[q].event = NoEvent
                      /\ inv'[q].at = "push" => inv'[q].event # NoEvent
                      /\ inv'[q].at \in {"none", "lock"} => inv'[q].buffer = <<>>
                      /\ inv'[q].event # NoEvent => inv'[q].event.by = q /\ inv'[q].event \in Started'
    BY DEF Phases
  <2> QED  BY <1>1 DEF Inv, Phases, StartedKept
<1>7. Fresh'
  <2> SUFFICES ASSUME NEW q \in Invocations, inv'[q].event # NoEvent
               PROVE  /\ \A i \in DOMAIN file' : file'[i] # inv'[q].event
                      /\ \A i \in DOMAIN recorded' : recorded'[i] # inv'[q].event
                      /\ \A o \in Invocations : \A i \in DOMAIN inv'[o].buffer :
                             inv'[o].buffer[i] = inv'[q].event =>
                             q = o /\ inv'[q].at = "overwrite" /\ i = Len(inv'[q].buffer)
    BY DEF Fresh
  <2>1. q \in Invocations \ {p} /\ inv'[q] = inv[q]
    BY <1>1
  <2>2. /\ \A j \in DOMAIN file : file[j] # inv[q].event
        /\ \A j \in DOMAIN recorded : recorded[j] # inv[q].event
        /\ \A j \in DOMAIN inv[p].buffer : inv[p].buffer[j] # inv[q].event
        /\ inv[p].event # inv[q].event /\ inv[q].event # Torn
    BY <2>1, NotOfOthers
  <2>3. \A i \in DOMAIN file' : file'[i] # inv'[q].event
    BY <2>1, <2>2 DEF Leaves
  <2>4. \A i \in DOMAIN recorded' : recorded'[i] # inv'[q].event
    BY <1>4, <2>1, <2>2
  <2>5. ASSUME NEW o \in Invocations, NEW i \in DOMAIN inv'[o].buffer,
               inv'[o].buffer[i] = inv'[q].event
        PROVE  q = o /\ inv'[q].at = "overwrite" /\ i = Len(inv'[q].buffer)
    <3>1. o # p
      BY <1>2, <2>5
    <3> QED  BY <1>1, <2>1, <2>5, <3>1 DEF Inv, Fresh
  <2> QED  BY <2>3, <2>4, <2>5
<1>8. Distinct'
  <2>1. CASE recorded' = recorded
    BY <2>1 DEF Inv, Distinct
  <2>2. CASE recorded' # recorded
    <3>1. \A i \in DOMAIN recorded : recorded[i] # inv[p].event
      BY <1>4, <2>2 DEF Inv, Fresh
    <3> QED  BY <1>4, <2>2, <3>1 DEF Inv, Distinct
  <2> QED  BY <2>1, <2>2
<1>9. \A q \in Invocations : inv'[q].at \in {"push", "send", "overwrite"} =>
          q # p /\ inv'[q] = inv[q] /\ file' = file /\ recorded' = recorded
  BY <1>1 DEF Inv, TypeOK, Releases
<1>10. BufferRead'
  BY <1>9 DEF Inv, BufferRead, Leaves
<1>11. OverwriteKeeps'
  BY <1>9 DEF Inv, OverwriteKeeps, Releases
<1>12. Waits'
  BY <1>9 DEF Inv, Waits, Leaves, RecordedWith
<1> QED  BY <1>5, <1>6, <1>7, <1>8, <1>10, <1>11, <1>12 DEF Rest, Leaves

\* p has cut the buffer it read, for a push at the limit or after a batch was
\* sent, and is about to write it.
Cuts(p) ==
    /\ inv[p].at \in {"push", "send"}
    /\ inv'[p].at = "overwrite" /\ inv'[p].event = inv[p].event
    /\ inv'[p].buffer \in Seq(Event) /\ Len(inv'[p].buffer) < MaxBuffer
    /\ InOrder(inv'[p].buffer, RecordedWith(p))
    /\ \A i \in DOMAIN inv'[p].buffer :
           \/ \E j \in DOMAIN inv[p].buffer : inv'[p].buffer[i] = inv[p].buffer[j]
           \/ /\ inv[p].event # NoEvent /\ i = Len(inv'[p].buffer)
              /\ inv'[p].buffer[i] = inv[p].event
    /\ ToSet(inv[p].buffer) \subseteq ToSet(inv'[p].buffer) \cup received' \cup dropped'
    /\ inv[p].event # NoEvent => inv[p].event \in ToSet(inv'[p].buffer) \cup dropped'
    /\ received \subseteq received' /\ dropped \subseteq dropped'
    /\ UNCHANGED <<file, holder, torn, recorded>>

LEMMA CutsKeeps ==
    ASSUME NEW p \in Invocations, Inv, TypeOK', Others(p), StartedKept, Cuts(p)
    PROVE  Rest'
<1>1. /\ \A q \in Invocations \ {p} : inv'[q] = inv[q]
      /\ \A q \in Invocations \ {p} : inv[q].at \in {"none", "lock"}
  BY DEF Others, Cuts, Inv, TypeOK
<1>2. UNCHANGED <<file, holder, torn, recorded>> /\ inv'[p].at = "overwrite"
      /\ inv'[p].event = inv[p].event
  BY DEF Cuts
<1>3. KnownStarted'
  <2>1. \A i \in DOMAIN inv'[p].buffer : inv'[p].buffer[i] \in Started
    BY DEF Cuts, Inv, KnownStarted, Phases
  <2> QED  BY <1>1, <1>2, <2>1 DEF Inv, KnownStarted, StartedKept
<1>4. Phases'
  <2> SUFFICES ASSUME NEW q \in Invocations
               PROVE  /\ inv'[q].at = "none" => inv'[q].event = NoEvent
                      /\ inv'[q].at = "send" => inv'[q].event = NoEvent
                      /\ inv'[q].at = "push" => inv'[q].event # NoEvent
                      /\ inv'[q].at \in {"none", "lock"} => inv'[q].buffer = <<>>
                      /\ inv'[q].event # NoEvent => inv'[q].event.by = q /\ inv'[q].event \in Started'
    BY DEF Phases
  <2> QED  BY <1>1, <1>2 DEF Inv, Phases, StartedKept
<1>5. Fresh'
  <2> SUFFICES ASSUME NEW q \in Invocations, inv'[q].event # NoEvent
               PROVE  /\ \A i \in DOMAIN file : file[i] # inv'[q].event
                      /\ \A i \in DOMAIN recorded : recorded[i] # inv'[q].event
                      /\ \A o \in Invocations : \A i \in DOMAIN inv'[o].buffer :
                             inv'[o].buffer[i] = inv'[q].event =>
                             q = o /\ inv'[q].at = "overwrite" /\ i = Len(inv'[q].buffer)
    BY <1>2 DEF Fresh
  <2>1. inv'[q].event = inv[q].event
    BY <1>1, <1>2
  <2>2. /\ \A i \in DOMAIN file : file[i] # inv'[q].event
        /\ \A i \in DOMAIN recorded : recorded[i] # inv'[q].event
        /\ \A i \in DOMAIN inv[p].buffer : inv[p].buffer[i] # inv'[q].event
    BY <2>1, <1>1 DEF Inv, Fresh, Cuts
  <2>3. ASSUME NEW o \in Invocations, NEW i \in DOMAIN inv'[o].buffer,
               inv'[o].buffer[i] = inv'[q].event
        PROVE  q = o /\ inv'[q].at = "overwrite" /\ i = Len(inv'[q].buffer)
    <3>1. o = p
      <4>1. SUFFICES ASSUME o # p  PROVE FALSE
        OBVIOUS
      <4>2. inv[o].buffer = <<>>
        BY <1>1, <4>1 DEF Inv, Phases
      <4> QED  BY <1>1, <2>3, <4>1, <4>2
    <3>2. inv[p].event # NoEvent /\ i = Len(inv'[p].buffer) /\ inv[p].event = inv[q].event
      BY <2>1, <2>2, <2>3, <3>1 DEF Cuts
    <3>3. q = p
      BY <3>2 DEF Inv, Phases
    <3> QED  BY <1>2, <3>1, <3>2, <3>3
  <2> QED  BY <2>2, <2>3
<1>6. Distinct' /\ BufferRead'
  BY <1>1, <1>2 DEF Inv, Distinct, BufferRead
<1>7. OverwriteKeeps'
  <2>1. ~torn => ToSet(file) = ToSet(inv[p].buffer)
    <3>1. ~torn => ReadEvents(file) = file
      BY ReadWhole DEF Inv, BufferRead
    <3> QED  BY <3>1 DEF Inv, BufferRead, Cuts
  <2>2. \A q \in Invocations : inv'[q].at = "overwrite" => q = p
    BY <1>1
  <2>3. ~torn => ToSet(file) \subseteq ToSet(inv'[p].buffer) \cup received' \cup dropped'
    BY <2>1 DEF Cuts
  <2> QED  BY <1>2, <2>2, <2>3 DEF OverwriteKeeps, Cuts
<1>8. Waits'
  BY <1>1, <1>2 DEF Inv, Waits, Cuts, RecordedWith
<1>9. NoSilentLoss'
  BY <1>2 DEF Inv, NoSilentLoss, Cuts
<1> QED  BY <1>3, <1>4, <1>5, <1>6, <1>7, <1>8, <1>9 DEF Rest

\* p has written the file anew between two batches.
Rewrites(p) ==
    /\ inv[p].at = "overwrite" /\ inv[p].event = NoEvent
    /\ inv'[p].at = "send" /\ inv'[p].event = NoEvent /\ inv'[p].buffer = inv[p].buffer
    /\ file' = inv[p].buffer
    /\ UNCHANGED <<holder, received, torn, recorded, dropped>>

LEMMA RewritesKeeps ==
    ASSUME NEW p \in Invocations, Inv, TypeOK', Others(p), StartedKept, Rewrites(p)
    PROVE  Rest'
<1>1. /\ \A q \in Invocations \ {p} : inv'[q] = inv[q]
      /\ \A q \in Invocations \ {p} : inv[q].at \in {"none", "lock"}
      /\ inv[p].buffer \in Seq(Event)
  BY DEF Others, Rewrites, Inv, TypeOK
<1>2. /\ UNCHANGED <<holder, received, torn, recorded, dropped>> /\ file' = inv[p].buffer
      /\ inv'[p].at = "send" /\ inv'[p].event = inv[p].event
      /\ \A q \in Invocations : inv'[q].event = inv[q].event /\ inv'[q].buffer = inv[q].buffer
  BY <1>1 DEF Rewrites
<1>3. ReadEvents(file') = file' /\ file' \in Seq(Event)
  BY <1>1, <1>2, ReadWhole
<1>4. KnownStarted'
  BY <1>2 DEF Inv, KnownStarted, StartedKept
<1>5. Phases'
  <2> SUFFICES ASSUME NEW q \in Invocations
               PROVE  /\ inv'[q].at = "none" => inv'[q].event = NoEvent
                      /\ inv'[q].at = "send" => inv'[q].event = NoEvent
                      /\ inv'[q].at = "push" => inv'[q].event # NoEvent
                      /\ inv'[q].at \in {"none", "lock"} => inv'[q].buffer = <<>>
                      /\ inv'[q].event # NoEvent => inv'[q].event.by = q /\ inv'[q].event \in Started'
    BY DEF Phases
  <2> QED  BY <1>1, <1>2 DEF Inv, Phases, StartedKept, Rewrites
<1>6. Fresh'
  <2> SUFFICES ASSUME NEW q \in Invocations, inv[q].event # NoEvent
               PROVE  /\ \A i \in DOMAIN file' : file'[i] # inv[q].event
                      /\ \A i \in DOMAIN recorded : recorded[i] # inv[q].event
                      /\ \A o \in Invocations : \A i \in DOMAIN inv[o].buffer :
                             inv[o].buffer[i] # inv[q].event
    BY <1>2 DEF Fresh
  <2>1. q # p
    BY DEF Rewrites
  <2>2. \A i \in DOMAIN recorded : recorded[i] # inv[q].event
    BY DEF Inv, Fresh
  <2>3. \A o \in Invocations : \A i \in DOMAIN inv[o].buffer : inv[o].buffer[i] # inv[q].event
    BY <1>1, <2>1 DEF Inv, Fresh
  <2> QED  BY <1>2, <2>2, <2>3
<1>7. Distinct' /\ BufferRead'
  BY <1>1, <1>2, <1>3 DEF Inv, Distinct, BufferRead
<1>8. OverwriteKeeps'
  BY <1>1, <1>2 DEF OverwriteKeeps
<1>9. Waits'
  BY <1>1, <1>2, <1>3 DEF Inv, Waits, RecordedWith, Rewrites
<1>10. NoSilentLoss'
  <2>1. ~torn => ReadEvents(file) = file
    BY ReadWhole DEF Inv, BufferRead
  <2> QED  BY <1>2, <1>3, <2>1 DEF Inv, NoSilentLoss, OverwriteKeeps, Rewrites
<1> QED  BY <1>4, <1>5, <1>6, <1>7, <1>8, <1>9, <1>10 DEF Rest

-------------------------------------------------------------------------------
(***************************************************************************)
(* What each action does.                                                  *)
(***************************************************************************)
\* The step of one invocation that keeps the types.
Sound(p) == TypeOK' /\ Others(p) /\ StartedKept

LEMMA TypeStep ==
    ASSUME NEW p \in Invocations, TypeOK,
           inv' \in [Invocations -> Invocation], Others(p),
           inv[p].did \subseteq inv'[p].did,
           completed' \in [Invocations -> BOOLEAN],
           \A q \in Invocations : completed[q] => completed'[q],
           pipeline' = pipeline, file' \in Seq(Entries), recorded' \in Seq(Event),
           late' \subseteq Seq(Event), received' \subseteq Event, dropped' \subseteq Event,
           faults' \in 0..MaxFaults, torn' \in BOOLEAN,
           holder' \in Invocations \cup {Nobody},
           inv'[p].at \in {"push", "overwrite", "send"} <=> holder' = p,
           \A q \in Invocations \ {p} : holder' = q <=> holder = q
    PROVE  Sound(p)
<1>1. TypeOK'
  BY DEF TypeOK, Invocation, Others
<1>2. StartedKept
  BY DEF StartedKept, Started, Others, Event, TypeOK
<1> QED  BY <1>1, <1>2 DEF Sound

\* One invocation is replaced.
LEMMA Replaced ==
    ASSUME NEW p \in Invocations, inv \in [Invocations -> Invocation],
           NEW r \in Invocation, inv' = [inv EXCEPT ![p] = r]
    PROVE  inv' \in [Invocations -> Invocation] /\ Others(p) /\ inv'[p] = r
BY DEF Others

LEMMA RecordBegins ==
    ASSUME NEW p \in Invocations, Inv, NEW k \in {"run", "detail"}, Record(p, k)
    PROVE  Sound(p) /\ Begins(p)
<1> DEFINE e == [by |-> p, kind |-> k]
<1>0. TypeOK /\ inv \in [Invocations -> Invocation] /\ e \in Event
      /\ UNCHANGED <<pipeline, file, holder, completed, late, received, faults, torn, recorded, dropped>>
  BY DEF Inv, TypeOK, Invocation, Record, counters, Event, Kinds
<1>1. /\ inv' = [inv EXCEPT ![p] = [stage |-> "work", at |-> "lock", event |-> e,
                                    buffer |-> inv[p].buffer, did |-> inv[p].did \cup {k}]]
      /\ inv[p].at = "none" /\ k \notin inv[p].did
  BY <1>0 DEF Record, Between, Invocation
<1>2. inv' \in [Invocations -> Invocation] /\ Others(p)
  BY <1>0, <1>1 DEF Others, Invocation, Kinds
<1>3. Sound(p)
  <2>1. inv'[p].at = "lock" /\ inv[p].did \subseteq inv'[p].did /\ holder # p
    BY <1>0, <1>1 DEF TypeOK
  <2> QED  BY <1>0, <1>2, <2>1, TypeStep DEF TypeOK
<1>4. e \in Started' \ Started
  BY <1>0, <1>1 DEF Started, Invocation
<1>5. Begins(p)
  BY <1>0, <1>1, <1>4 DEF Begins
<1> QED  BY <1>3, <1>5

\* record_command_completed begins to record, or only changes the stage.
LEMMA CompletedBegins ==
    ASSUME NEW p \in Invocations, Inv, inv[p].at = "none",
           NEW stage \in {"exec", "exit"}, RecordCompleted(p, stage),
           UNCHANGED <<pipeline, file, holder, late, received, counters, recorded, dropped>>
    PROVE  Sound(p) /\ Begins(p)
<1> DEFINE e == [by |-> p, kind |-> "completed"]
<1>0. TypeOK /\ inv \in [Invocations -> Invocation] /\ e \in Event
      /\ UNCHANGED <<pipeline, file, holder, late, received, faults, torn, recorded, dropped>>
      /\ inv[p].event = NoEvent
  BY DEF Inv, TypeOK, Invocation, counters, Event, Kinds, Phases
<1>1. CASE pipeline = "legacy" \/ completed[p]
  <2>1. /\ inv' = [inv EXCEPT ![p] = [stage |-> stage, at |-> "none", event |-> NoEvent,
                                      buffer |-> inv[p].buffer, did |-> inv[p].did]]
        /\ completed' = completed
    BY <1>0, <1>1 DEF RecordCompleted, Invocation
  <2>2. inv' \in [Invocations -> Invocation] /\ Others(p)
    BY <1>0, <2>1 DEF Others, Invocation
  <2>3. Sound(p)
    <3>1. inv'[p].at = "none" /\ inv[p].did \subseteq inv'[p].did /\ holder # p
      BY <1>0, <2>1 DEF TypeOK
    <3> QED  BY <1>0, <2>1, <2>2, <3>1, TypeStep DEF TypeOK
  <2>4. Begins(p)
    BY <1>0, <2>1 DEF Begins
  <2> QED  BY <2>3, <2>4
<1>2. CASE ~(pipeline = "legacy" \/ completed[p])
  <2>1. /\ inv' = [inv EXCEPT ![p] = [stage |-> stage, at |-> "lock", event |-> e,
                                      buffer |-> inv[p].buffer, did |-> inv[p].did]]
        /\ completed' = [completed EXCEPT ![p] = TRUE] /\ ~completed[p]
    BY <1>0, <1>2 DEF RecordCompleted, Invocation
  <2>2. inv' \in [Invocations -> Invocation] /\ Others(p)
    BY <1>0, <2>1 DEF Others, Invocation
  <2>3. Sound(p)
    <3>1. inv'[p].at = "lock" /\ inv[p].did \subseteq inv'[p].did /\ holder # p
      BY <1>0, <2>1 DEF TypeOK
    <3>2. /\ completed' \in [Invocations -> BOOLEAN]
          /\ \A q \in Invocations : completed[q] => completed'[q]
      BY <1>0, <2>1 DEF TypeOK
    <3> QED  BY <1>0, <2>2, <3>1, <3>2, TypeStep DEF TypeOK
  <2>4. e \in Started' \ Started
    BY <1>0, <2>1 DEF Started, TypeOK
  <2>5. Begins(p)
    BY <1>0, <2>1, <2>4 DEF Begins
  <2> QED  BY <2>3, <2>5
<1> QED  BY <1>1, <1>2

LEMMA OtherBegins ==
    ASSUME NEW p \in Invocations, Inv,
           Finish(p) \/ PrepareExec(p) \/ Exec(p) \/ BeginFlush(p)
    PROVE  Sound(p) /\ Begins(p)
<1>0. TypeOK /\ inv \in [Invocations -> Invocation]
  BY DEF Inv, TypeOK, Invocation
<1>1. CASE Finish(p)
  BY <1>1, CompletedBegins DEF Finish, Between
<1>2. CASE PrepareExec(p)
  BY <1>2, CompletedBegins DEF PrepareExec, Between
<1>3. CASE Exec(p) /\ RecordCompleted(p, "exit")
  BY <1>3, CompletedBegins DEF Exec, Between
<1>4. CASE BeginFlush(p) \/ (Exec(p) /\ ~RecordCompleted(p, "exit"))
  <2>1. UNCHANGED <<pipeline, file, holder, late, received, faults, torn, completed, recorded, dropped>>
        /\ inv[p].at = "none" /\ inv[p].event = NoEvent
    BY <1>4 DEF BeginFlush, Exec, counters, Between, Inv, Phases
  <2>2. PICK r \in Invocation :
           /\ inv' = [inv EXCEPT ![p] = r]
           /\ r.at \in {"none", "lock"} /\ r.event = NoEvent
           /\ r.buffer = inv[p].buffer /\ r.did = inv[p].did
    <3> DEFINE flush == [inv[p] EXCEPT !.at = "lock", !.event = NoEvent]
               gone == [inv[p] EXCEPT !.stage = "gone"]
    <3>1. inv[p] \in Invocation
      BY <1>0
    <3>2. /\ flush \in Invocation /\ flush.at = "lock" /\ flush.event = NoEvent
          /\ flush.buffer = inv[p].buffer /\ flush.did = inv[p].did
      BY <3>1 DEF Invocation
    <3>3. /\ gone \in Invocation /\ gone.at = "none" /\ gone.event = NoEvent
          /\ gone.buffer = inv[p].buffer /\ gone.did = inv[p].did
      BY <2>1, <3>1 DEF Invocation
    <3>4. CASE BeginFlush(p)
      <4>1. inv' = [inv EXCEPT ![p] = flush]
        BY <1>0, <3>4 DEF BeginFlush
      <4> QED  BY <3>2, <4>1
    <3>5. CASE Exec(p) /\ ~RecordCompleted(p, "exit")
      <4>1. inv' = [inv EXCEPT ![p] = gone]
        BY <3>5 DEF Exec
      <4> QED  BY <3>3, <4>1
    <3> QED  BY <1>4, <3>4, <3>5
  <2>3. inv' \in [Invocations -> Invocation] /\ Others(p) /\ inv'[p] = r
    BY <1>0, <2>2, Replaced
  <2>4. inv'[p].at \in {"none", "lock"} /\ inv[p].did \subseteq inv'[p].did /\ holder # p
    BY <1>0, <2>1, <2>2, <2>3 DEF TypeOK
  <2>5. Sound(p)
    BY <1>0, <2>1, <2>3, <2>4, TypeStep DEF TypeOK
  <2>6. Begins(p)
    BY <2>1, <2>2, <2>3 DEF Begins
  <2> QED  BY <2>5, <2>6
<1> QED  BY <1>1, <1>2, <1>3, <1>4

LEMMA ReadSound ==
    ASSUME NEW p \in Invocations, Inv, ReadBuffer(p)
    PROVE  Sound(p)
<1>0. TypeOK /\ inv \in [Invocations -> Invocation]
      /\ UNCHANGED <<pipeline, file, completed, late, received, faults, torn, recorded, dropped>>
  BY DEF Inv, TypeOK, Invocation, ReadBuffer, counters
<1>1. ReadEvents(file) \in Seq(Event)
  BY <1>0, ReadEventsPrefix DEF TypeOK
<1>2. PICK r \in Invocation :
         /\ inv' = [inv EXCEPT ![p] = r]
         /\ r.at \in {"push", "overwrite", "send"} /\ r.did = inv[p].did
  <2> DEFINE r == [inv[p] EXCEPT !.at = IF inv[p].event = NoEvent THEN "send" ELSE "push",
                                 !.buffer = ReadEvents(file)]
  <2>1. inv[p] \in Invocation
    BY <1>0
  <2>2. r \in Invocation /\ r.at \in {"push", "overwrite", "send"} /\ r.did = inv[p].did
    BY <1>1, <2>1 DEF Invocation
  <2>3. inv' = [inv EXCEPT ![p] = r]
    BY <1>0 DEF ReadBuffer
  <2> HIDE DEF r
  <2> QED  BY <2>2, <2>3
<1>3. inv' \in [Invocations -> Invocation] /\ Others(p) /\ inv'[p] = r
  BY <1>0, <1>2, Replaced
<1>4. /\ inv'[p].at \in {"push", "overwrite", "send"} /\ inv[p].did \subseteq inv'[p].did
      /\ holder' = p /\ holder = Nobody
  BY <1>2, <1>3 DEF ReadBuffer
<1>5. \A q \in Invocations \ {p} : holder' = q <=> holder = q
  BY <1>4, EventsAssumption
<1> QED  BY <1>0, <1>3, <1>4, <1>5, TypeStep DEF TypeOK

\* The history without the event that is being recorded.
LEMMA InOrderRecorded ==
    ASSUME NEW p \in Invocations, TypeOK, NEW w, InOrder(w, RecordedWith(p))
    PROVE  InOrder(w, recorded)
<1>1. CASE inv[p].event = NoEvent
  BY <1>1 DEF RecordedWith
<1>2. CASE inv[p].event # NoEvent
  <2>1. inv[p].event \in Event /\ recorded \in Seq(Event)
    BY <1>2 DEF TypeOK
  <2> DEFINE r == Append(recorded, inv[p].event)
  <2>2. DOMAIN recorded \subseteq DOMAIN r /\ \A i \in DOMAIN recorded : r[i] = recorded[i]
    BY <2>1, AppendEntries
  <2>3. InOrder(w, r)
    BY <1>2 DEF RecordedWith
  <2> HIDE DEF r
  <2> QED  BY <2>2, <2>3 DEF InOrder
<1> QED  BY <1>1, <1>2

LEMMA KeptLeaves ==
    ASSUME NEW p \in Invocations, Inv, UNCHANGED <<file, recorded, torn>>,
           received \subseteq received', dropped \subseteq dropped'
    PROVE  Leaves(p)
BY DEF Leaves, Inv, Waits, BufferRead, NoSilentLoss

LEMMA AppendedLeaves ==
    ASSUME NEW p \in Invocations, Inv, inv[p].at = "push",
           ~OverLimit(Append(inv[p].buffer, inv[p].event)),
           file' = Append(file, inv[p].event),
           recorded' = recorded \/ recorded' = Append(recorded, inv[p].event),
           UNCHANGED <<torn, received, dropped>>
    PROVE  Leaves(p)
<1> DEFINE e == inv[p].event
           b == inv[p].buffer
<1>1. /\ e # NoEvent /\ e \in Event /\ e \in Entries
      /\ file \in Seq(Entries) /\ recorded \in Seq(Event) /\ b \in Seq(Event)
      /\ b = ReadEvents(file)
  BY DEF Inv, TypeOK, Phases, BufferRead, Entries
<1>2. /\ DOMAIN file' = DOMAIN file \cup {Len(file) + 1}
      /\ \A i \in DOMAIN file : file'[i] = file[i]
      /\ file'[Len(file) + 1] = e
      /\ ToSet(file') = ToSet(file) \cup {e}
  <2> HIDE DEF e
  <2> QED  BY <1>1, AppendEntries DEF e
<1>3. \A i \in DOMAIN file' : (\E j \in DOMAIN file : file'[i] = file[j]) \/ file'[i] = e
  BY <1>2
<1>4. ReadEvents(file') = b \/ (file = b /\ ReadEvents(file') = Append(b, e))
  <2> HIDE DEF e
  <2> QED  BY <1>1, ReadAppend DEF e
<1>5. /\ \A i \in DOMAIN b : b[i] # e
      /\ \A i \in DOMAIN recorded : recorded[i] # e
      /\ InOrder(b, recorded) /\ Len(b) < MaxBuffer
  BY <1>1 DEF Inv, Fresh, Waits
<1>6. InOrder(Append(b, e), Append(recorded, e)) /\ InOrder(b, Append(recorded, e))
      /\ InOrder(Append(b, e), recorded)
  <2> HIDE DEF e, b
  <2> QED  BY <1>1, <1>5, InOrderAppend
<1>7. Len(ReadEvents(file')) < MaxBuffer
  <2>1. Len(Append(b, e)) \in Nat /\ MaxBuffer \in Nat
    BY <1>1, AppendProperties, EventsAssumption
  <2>2. Len(Append(b, e)) < MaxBuffer
    BY <2>1 DEF OverLimit
  <2> QED  BY <1>4, <1>5, <2>2
<1>8. InOrder(ReadEvents(file'), recorded')
  BY <1>4, <1>5, <1>6
<1>9. ~torn => file \in Seq(Event) /\ file' \in Seq(Event)
  <2>1. ~torn => file \in Seq(Event)
    BY DEF Inv, BufferRead
  <2> HIDE DEF e
  <2> QED  BY <1>1, <2>1, AppendProperties DEF e
<1>10. NoSilentLoss'
  <2> SUFFICES ASSUME ~torn
               PROVE  ToSet(recorded') \subseteq received \cup ToSet(ReadEvents(file')) \cup dropped
    BY DEF NoSilentLoss
  <2>1. ReadEvents(file') = file' /\ ReadEvents(file) = file
    BY <1>9, ReadWhole
  <2>2. ToSet(recorded') \subseteq ToSet(recorded) \cup {e}
    <3>1. \A x \in Event : ToSet(Append(recorded, x)) = ToSet(recorded) \cup {x}
      BY <1>1, AppendEntries
    <3> QED  BY <1>1, <3>1
  <2>3. ToSet(recorded) \subseteq received \cup ToSet(file) \cup dropped
    BY <2>1 DEF Inv, NoSilentLoss
  <2> QED  BY <1>2, <2>1, <2>2, <2>3
<1> QED  BY <1>1, <1>3, <1>7, <1>8, <1>9, <1>10 DEF Leaves

\* The file is written anew, to the end or up to some entry.
LEMMA WrittenLeaves ==
    ASSUME NEW p \in Invocations, Inv, inv[p].at = "overwrite",
           NEW n \in 0..Len(inv[p].buffer), file' = SubSeq(inv[p].buffer, 1, n),
           \/ recorded' = recorded
           \/ /\ n = Len(inv[p].buffer) /\ inv[p].event # NoEvent
              /\ recorded' = Append(recorded, inv[p].event),
           ToSet(inv[p].buffer) \subseteq ToSet(file') \cup dropped',
           dropped \subseteq dropped', UNCHANGED <<torn, received>>
    PROVE  Leaves(p)
<1> DEFINE e == inv[p].event
           b == inv[p].buffer
<1>1. /\ TypeOK /\ file \in Seq(Entries) /\ recorded \in Seq(Event) /\ b \in Seq(Event)
      /\ e \in Event \cup {NoEvent}
      /\ Len(b) < MaxBuffer /\ InOrder(b, RecordedWith(p)) /\ Len(b) \in Nat
  BY LenProperties DEF Inv, TypeOK, Waits
<1>2. /\ file' \in Seq(Event) /\ Len(file') = n
      /\ \A i \in DOMAIN file' : i \in DOMAIN b /\ file'[i] = b[i]
      /\ InOrder(file', RecordedWith(p))
  <2> HIDE DEF b
  <2>1. 1 \in 1..(Len(b) + 1) /\ n \in 0..Len(b)
    BY <1>1 DEF b
  <2>2. /\ file' \in Seq(Event) /\ Len(file') = IF 1 <= n THEN n - 1 + 1 ELSE 0
        /\ \A i \in DOMAIN file' : i + 1 - 1 \in DOMAIN b /\ file'[i] = b[i + 1 - 1]
        /\ InOrder(file', RecordedWith(p))
    BY <1>1, <2>1, InOrderPart DEF b
  <2>3. DOMAIN file' \subseteq Nat
    BY <2>2, LenProperties
  <2>4. \A i \in DOMAIN file' : i + 1 - 1 = i
    BY <2>3
  <2> QED  BY <2>1, <2>2, <2>4
<1>3. ReadEvents(file') = file'
  BY <1>2, ReadWhole
<1>4. InOrder(file', recorded')
  <2>1. CASE recorded' = recorded
    BY <1>1, <1>2, <2>1, InOrderRecorded
  <2>2. CASE recorded' # recorded
    BY <1>2, <2>2 DEF RecordedWith
  <2> QED  BY <2>1, <2>2
<1>5. Len(ReadEvents(file')) < MaxBuffer
  BY <1>1, <1>2, <1>3, EventsAssumption
<1>6. NoSilentLoss'
  <2> SUFFICES ASSUME ~torn
               PROVE  ToSet(recorded') \subseteq received \cup ToSet(file') \cup dropped'
    BY <1>3 DEF NoSilentLoss
  <2>1. ReadEvents(file) = file
    BY ReadWhole DEF Inv, BufferRead
  <2>2. ToSet(recorded) \subseteq received \cup ToSet(file) \cup dropped
    BY <2>1 DEF Inv, NoSilentLoss
  <2>3. /\ ToSet(file) \subseteq ToSet(b) \cup received \cup dropped
        /\ e # NoEvent => e \in ToSet(b) \cup dropped
    BY DEF Inv, OverwriteKeeps
  <2>4. recorded' = recorded \/ (e # NoEvent /\ ToSet(recorded') = ToSet(recorded) \cup {e})
    <3>1. \A x \in Event : ToSet(Append(recorded, x)) = ToSet(recorded) \cup {x}
      BY <1>1, AppendEntries
    <3> QED  BY <1>1, <3>1
  <2> QED  BY <2>2, <2>3, <2>4
<1> QED  BY <1>2, <1>3, <1>4, <1>5, <1>6 DEF Leaves

\* A write ends half-way.
LEMMA TornLeaves ==
    ASSUME NEW p \in Invocations, Inv, torn', recorded' = recorded,
           \/ file' = Append(file, Torn)
           \/ /\ inv[p].at = "overwrite"
              /\ \E i \in 0..Len(inv[p].buffer) : file' = Append(SubSeq(inv[p].buffer, 1, i), Torn)
    PROVE  Leaves(p)
<1> DEFINE b == inv[p].buffer
<1>1. /\ TypeOK /\ file \in Seq(Entries) /\ b \in Seq(Event) /\ Torn \in Entries
      /\ Len(ReadEvents(file)) < MaxBuffer /\ InOrder(ReadEvents(file), recorded)
  BY DEF Inv, TypeOK, Waits, Entries
<1>2. PICK f \in Seq(Entries) :
         /\ file' = Append(f, Torn)
         /\ Len(ReadEvents(f)) < MaxBuffer /\ InOrder(ReadEvents(f), recorded)
         /\ \A i \in DOMAIN f : \/ \E j \in DOMAIN file : f[i] = file[j]
                                \/ \E j \in DOMAIN b : f[i] = b[j]
  <2>1. CASE file' = Append(file, Torn)
    BY <1>1, <2>1
  <2>2. CASE inv[p].at = "overwrite" /\ \E i \in 0..Len(b) : file' = Append(SubSeq(b, 1, i), Torn)
    <3>1. PICK i \in 0..Len(b) : file' = Append(SubSeq(b, 1, i), Torn)
      BY <2>2
    <3>2. InOrder(b, recorded) /\ Len(b) < MaxBuffer /\ Len(b) \in Nat /\ 1 \in 1..(Len(b) + 1)
      BY <1>1, <2>2, InOrderRecorded, LenProperties DEF Inv, Waits
    <3> DEFINE f == SubSeq(b, 1, i)
    <3>3. /\ f \in Seq(Event) /\ Len(f) = IF 1 <= i THEN i - 1 + 1 ELSE 0
          /\ \A j \in DOMAIN f : j + 1 - 1 \in DOMAIN b /\ f[j] = b[j + 1 - 1]
          /\ InOrder(f, recorded)
      <4> HIDE DEF b
      <4> QED  BY <1>1, <3>2, InOrderPart
    <3>4. f \in Seq(Entries) /\ ReadEvents(f) = f
      <4> HIDE DEF f
      <4> QED  BY <3>3, ReadWhole
    <3>5. Len(f) < MaxBuffer
      BY <3>2, <3>3, EventsAssumption
    <3> HIDE DEF f
    <3> QED  BY <3>1, <3>3, <3>4, <3>5 DEF f
  <2> QED  BY <2>1, <2>2
<1>3. ReadEvents(file') = ReadEvents(f)
  BY <1>1, <1>2, ReadAppend
<1>4. /\ DOMAIN file' = DOMAIN f \cup {Len(f) + 1}
      /\ \A i \in DOMAIN f : file'[i] = f[i]
      /\ file'[Len(f) + 1] = Torn
  BY <1>1, <1>2, AppendEntries
<1>5. \A i \in DOMAIN file' : \/ file'[i] = Torn
                              \/ \E j \in DOMAIN file : file'[i] = file[j]
                              \/ \E j \in DOMAIN b : file'[i] = b[j]
  BY <1>2, <1>4
<1> QED  BY <1>2, <1>3, <1>5 DEF Leaves, NoSilentLoss

\* The invocation after its operation on the buffer.
LEMMA FlushedIs ==
    ASSUME NEW p \in Invocations, inv \in [Invocations -> Invocation]
    PROVE  /\ Flushed(p) \in Invocation /\ Flushed(p).at = "none"
           /\ Flushed(p).event = NoEvent /\ Flushed(p).buffer = <<>>
           /\ Flushed(p).did = inv[p].did
<1> DEFINE s == IF inv[p].event # NoEvent THEN inv[p].stage
                ELSE IF inv[p].stage = "exec" THEN "execed" ELSE "gone"
<1>1. inv[p] \in Invocation
  OBVIOUS
<1>2. s \in {"start", "work", "exec", "execed", "exit", "gone"}
  BY <1>1 DEF Invocation
<1>3. Flushed(p) = [inv[p] EXCEPT !.at = "none", !.buffer = <<>>, !.event = NoEvent, !.stage = s]
  BY DEF Flushed
<1>4. <<>> \in Seq(Event)
  BY EmptySeq
<1> HIDE DEF s
<1> QED  BY <1>1, <1>2, <1>3, <1>4 DEF Invocation

LEMMA ReleaseSound ==
    ASSUME NEW p \in Invocations, Inv, Release(p), inv[p].at \in {"push", "overwrite", "send"},
           UNCHANGED <<pipeline, completed>>,
           file' \in Seq(Entries), recorded' \in Seq(Event),
           late' \subseteq Seq(Event), received \subseteq received', received' \subseteq Event,
           dropped \subseteq dropped', dropped' \subseteq Event,
           faults' \in 0..MaxFaults, torn' \in BOOLEAN, torn => torn'
    PROVE  Sound(p) /\ Releases(p)
<1>0. TypeOK /\ inv \in [Invocations -> Invocation]
  BY DEF Inv, TypeOK, Invocation
<1>1. /\ inv' \in [Invocations -> Invocation] /\ Others(p)
      /\ inv'[p].at = "none" /\ inv'[p].event = NoEvent /\ inv'[p].buffer = <<>>
      /\ inv'[p].did = inv[p].did
  BY <1>0, FlushedIs, Replaced DEF Release
<1>2. /\ holder = p /\ holder' = Nobody /\ Nobody # p
      /\ \A q \in Invocations \ {p} : holder' = q <=> holder = q
  BY <1>0, EventsAssumption DEF Release, TypeOK
<1>3. Sound(p)
  BY <1>0, <1>1, <1>2, TypeStep DEF TypeOK
<1>4. Releases(p)
  BY <1>1 DEF Releases
<1> QED  BY <1>3, <1>4

\* The invariant follows from what a step does.
LEMMA KindsKeep ==
    ASSUME NEW p \in Invocations, Inv, Sound(p),
           Begins(p) \/ ReadBuffer(p) \/ (Releases(p) /\ Leaves(p)) \/ Cuts(p) \/ Rewrites(p)
    PROVE  Inv'
<1>1. Rest'
  BY BeginsKeeps, ReadsKeeps, ReleasesKeeps, CutsKeeps, RewritesKeeps DEF Sound
<1> QED  BY <1>1 DEF Inv, Rest, Sound

\* The types of what a release leaves alone.
LEMMA Types ==
    ASSUME Inv
    PROVE  /\ file \in Seq(Entries) /\ recorded \in Seq(Event)
           /\ late \subseteq Seq(Event) /\ received \subseteq Event /\ dropped \subseteq Event
           /\ faults \in 0..MaxFaults /\ torn \in BOOLEAN
           /\ inv \in [Invocations -> Invocation] /\ MaxFaults \in Nat
BY EventsAssumption DEF Inv, TypeOK, Invocation

LEMMA EndFlushKeeps ==
    ASSUME NEW p \in Invocations, Inv, EndFlush(p)
    PROVE  Inv'
<1>1. /\ Release(p) /\ inv[p].at \in {"push", "overwrite", "send"}
      /\ UNCHANGED <<pipeline, file, completed, late, received, faults, torn, recorded, dropped>>
  BY DEF EndFlush, counters
<1>2. Sound(p) /\ Releases(p)
  BY <1>1, Types, ReleaseSound
<1>3. Leaves(p)
  BY <1>1, KeptLeaves
<1> QED  BY <1>2, <1>3, KindsKeep

\* The first batch of a buffer.
LEMMA BatchIs ==
    ASSUME NEW p \in Invocations, Inv
    PROVE  /\ Batch(p) \in Seq(Event) /\ ToSet(Batch(p)) \subseteq Event
           /\ Len(Batch(p)) \in 0..Len(inv[p].buffer)
           /\ \A i \in 1..Len(Batch(p)) : Batch(p)[i] = inv[p].buffer[i]
<1> DEFINE b == inv[p].buffer
           n == IF Len(b) < BatchSize THEN Len(b) ELSE BatchSize
<1>1. b \in Seq(Event) /\ Len(b) \in Nat /\ n \in 0..Len(b)
  BY Types, LenProperties, EventsAssumption DEF Invocation
<1>2. Batch(p) = SubSeq(b, 1, n)
  BY DEF Batch
<1> HIDE DEF b, n
<1>3. /\ SubSeq(b, 1, n) \in Seq(Event)
      /\ Len(SubSeq(b, 1, n)) = IF 1 <= n THEN n - 1 + 1 ELSE 0
      /\ \A i \in 1..(n - 1 + 1) : SubSeq(b, 1, n)[i] = b[1 + i - 1]
  <2>1. 1 \in Int /\ n \in Int /\ \A i \in 1..n : b[i] \in Event
    BY <1>1, ElementOfSeq
  <2> QED  BY <2>1, SubSeqProperties
<1>4. Len(SubSeq(b, 1, n)) = n /\ \A i \in 1..n : SubSeq(b, 1, n)[i] = b[i]
  BY <1>1, <1>3
<1>5. ToSet(Batch(p)) \subseteq Event
  BY <1>2, <1>3, LenProperties, ElementOfSeq DEF ToSet
<1> QED  BY <1>1, <1>2, <1>3, <1>4, <1>5 DEF b

LEMMA NoAnswerKeeps ==
    ASSUME NEW p \in Invocations, Inv, NoAnswer(p)
    PROVE  Inv'
<1>1. /\ Release(p) /\ inv[p].at \in {"push", "overwrite", "send"}
      /\ UNCHANGED <<pipeline, file, completed, received, torn, recorded, dropped>>
      /\ late' \subseteq Seq(Event) /\ faults' \in 0..MaxFaults
  BY Types, BatchIs DEF NoAnswer, Fault
<1>2. Sound(p) /\ Releases(p)
  BY <1>1, Types, ReleaseSound
<1>3. Leaves(p)
  BY <1>1, KeptLeaves
<1> QED  BY <1>2, <1>3, KindsKeep

\* p changes its buffer and keeps the lock.
LEMMA HoldsSound ==
    ASSUME NEW p \in Invocations, Inv, inv[p].at \in {"push", "overwrite", "send"},
           NEW a \in {"overwrite", "send"}, NEW b \in Seq(Event),
           inv' = [inv EXCEPT ![p] = [inv[p] EXCEPT !.at = a, !.buffer = b]],
           UNCHANGED <<pipeline, completed, holder, late, torn, recorded>>,
           file' \in Seq(Entries), received' \subseteq Event, dropped' \subseteq Event,
           faults' \in 0..MaxFaults
    PROVE  /\ Sound(p)
           /\ inv'[p].at = a /\ inv'[p].buffer = b /\ inv'[p].event = inv[p].event
<1> DEFINE r == [inv[p] EXCEPT !.at = a, !.buffer = b]
<1>0. TypeOK /\ inv \in [Invocations -> Invocation] /\ inv[p] \in Invocation
  BY Types DEF Inv
<1>1. /\ r \in Invocation /\ r.at = a /\ r.buffer = b /\ r.event = inv[p].event
      /\ r.did = inv[p].did
  BY <1>0 DEF Invocation
<1> HIDE DEF r
<1>2. inv' \in [Invocations -> Invocation] /\ Others(p) /\ inv'[p] = r
  BY <1>0, <1>1, Replaced DEF r
<1>3. /\ holder = p /\ holder' = p
      /\ \A q \in Invocations \ {p} : holder' = q <=> holder = q
  BY <1>0 DEF TypeOK
<1>4. Sound(p)
  BY <1>0, <1>1, <1>2, <1>3, TypeStep, Types DEF TypeOK
<1> QED  BY <1>1, <1>2, <1>4

\* A batch leaves the buffer, and its events are accounted for.
LEMMA DrainedKeeps ==
    ASSUME NEW p \in Invocations, Inv, inv[p].at = "send", inv' = Drained(p),
           UNCHANGED <<pipeline, file, completed, holder, late, torn, recorded>>,
           received \subseteq received', received' \subseteq Event,
           dropped \subseteq dropped', dropped' \subseteq Event,
           ToSet(Batch(p)) \subseteq received' \cup dropped',
           faults' \in 0..MaxFaults
    PROVE  Inv'
<1> DEFINE b == inv[p].buffer
           n == Len(Batch(p))
           c == SubSeq(b, n + 1, Len(b))
<1>1. /\ b \in Seq(Event) /\ Len(b) \in Nat /\ DOMAIN b = 1..Len(b) /\ n \in 0..Len(b)
      /\ n + 1 \in 1..(Len(b) + 1) /\ Len(b) \in 0..Len(b)
      /\ b = ReadEvents(file) /\ inv[p].event = NoEvent
  BY Types, LenProperties, BatchIs DEF Inv, BufferRead, Phases, Invocation
<1>2. InOrder(b, recorded) /\ Len(b) < MaxBuffer
  BY <1>1 DEF Inv, Waits
<1>3. /\ c \in Seq(Event)
      /\ Len(c) = IF n + 1 <= Len(b) THEN Len(b) - (n + 1) + 1 ELSE 0
      /\ \A i \in DOMAIN c : i + (n + 1) - 1 \in DOMAIN b /\ c[i] = b[i + (n + 1) - 1]
      /\ InOrder(c, recorded)
  <2> HIDE DEF b, n
  <2> QED  BY <1>1, <1>2, InOrderPart
<1>4. inv' = [inv EXCEPT ![p] = [inv[p] EXCEPT !.at = "overwrite", !.buffer = c]]
  BY Types DEF Drained, Invocation
<1>5. Sound(p) /\ inv'[p].at = "overwrite" /\ inv'[p].buffer = c /\ inv'[p].event = inv[p].event
  <2> HIDE DEF c
  <2> QED  BY <1>3, <1>4, HoldsSound, Types
<1>6. ToSet(b) \subseteq ToSet(c) \cup ToSet(Batch(p))
  <2> SUFFICES ASSUME NEW i \in 1..Len(b)
               PROVE  b[i] \in ToSet(c) \cup ToSet(Batch(p))
    BY <1>1 DEF ToSet
  <2>1. CASE i <= n
    <3>1. i \in DOMAIN Batch(p) /\ Batch(p)[i] = b[i]
      BY <1>1, <2>1, BatchIs, LenProperties
    <3> QED  BY <3>1 DEF ToSet
  <2>2. CASE i > n
    <3> HIDE DEF b, n, c
    <3>1. i - n \in DOMAIN c
      BY <1>1, <1>3, <2>2, LenProperties
    <3>2. c[i - n] = b[(i - n) + (n + 1) - 1]
      BY <1>3, <3>1
    <3>3. (i - n) + (n + 1) - 1 = i
      BY <1>1
    <3> QED  BY <3>1, <3>2, <3>3 DEF ToSet
  <2> QED  BY <1>1, <2>1, <2>2
<1>7. Len(c) < MaxBuffer
  BY <1>1, <1>2, <1>3, EventsAssumption
<1>8. \A i \in DOMAIN c : \E j \in DOMAIN b : c[i] = b[j]
  BY <1>3
<1>9. Cuts(p)
  <2> HIDE DEF c
  <2> QED  BY <1>1, <1>3, <1>5, <1>6, <1>7, <1>8 DEF Cuts, RecordedWith
<1> QED  BY <1>5, <1>9, KindsKeep

LEMMA SendKeeps ==
    ASSUME NEW p \in Invocations, Inv, Send(p) \/ Rejected(p)
    PROVE  Inv'
<1>1. CASE Send(p)
  <2>1. /\ inv[p].at = "send" /\ inv' = Drained(p) /\ received' = received \cup ToSet(Batch(p))
        /\ UNCHANGED <<pipeline, file, completed, holder, late, torn, recorded, dropped, faults>>
    BY <1>1 DEF Send, counters
  <2> QED  BY <2>1, Types, BatchIs, DrainedKeeps
<1>2. CASE Rejected(p) /\ pipeline = "v2"
  <2>1. /\ Release(p) /\ inv[p].at \in {"push", "overwrite", "send"}
        /\ UNCHANGED <<pipeline, file, completed, late, received, torn, recorded, dropped>>
        /\ faults' \in 0..MaxFaults
    BY <1>2, Types DEF Rejected, Fault
  <2>2. Sound(p) /\ Releases(p)
    BY <2>1, Types, ReleaseSound
  <2>3. Leaves(p)
    BY <2>1, KeptLeaves
  <2> QED  BY <2>2, <2>3, KindsKeep
<1>3. CASE Rejected(p) /\ pipeline # "v2"
  <2>1. /\ inv[p].at = "send" /\ inv' = Drained(p) /\ dropped' = dropped \cup ToSet(Batch(p))
        /\ UNCHANGED <<pipeline, file, completed, holder, late, torn, recorded, received>>
        /\ faults' \in 0..MaxFaults
    BY <1>3, Types DEF Rejected, Fault
  <2> QED  BY <2>1, Types, BatchIs, DrainedKeeps
<1> QED  BY <1>1, <1>2, <1>3

\* At the limit the oldest event goes, which may be the new one.
LEMMA PushCuts ==
    ASSUME NEW p \in Invocations, Inv, Push(p),
           OverLimit(Append(inv[p].buffer, inv[p].event))
    PROVE  Inv'
<1> DEFINE b == inv[p].buffer
           e == inv[p].event
           all == Append(b, e)
           kept == SubSeq(all, Len(all) - (MaxBuffer - 2), Len(all))
<1>1. /\ inv[p].at = "push" /\ e # NoEvent /\ e \in Event
      /\ b \in Seq(Event) /\ Len(b) \in Nat /\ DOMAIN b = 1..Len(b) /\ recorded \in Seq(Event)
      /\ b = ReadEvents(file)
  BY Types, LenProperties DEF Inv, Push, Phases, Invocation, BufferRead
<1>2. /\ inv' = [inv EXCEPT ![p].at = "overwrite", ![p].buffer = kept]
      /\ dropped' = dropped \cup {all[i] : i \in 1..(Len(all) - Len(kept))}
      /\ UNCHANGED <<pipeline, file, completed, holder, late, torn, recorded, received, faults>>
  BY DEF Push, counters
<1>3. /\ all \in Seq(Event) /\ Len(all) = Len(b) + 1 /\ DOMAIN all = 1..(Len(b) + 1)
      /\ \A i \in DOMAIN b : all[i] = b[i]
      /\ all[Len(b) + 1] = e
  <2> HIDE DEF b, e
  <2> QED  BY <1>1, AppendProperties, LenProperties
<1>4. InOrder(b, recorded) /\ Len(b) < MaxBuffer /\ MaxBuffer \in Nat
      /\ (\A i \in DOMAIN b : b[i] # e) /\ (\A i \in DOMAIN recorded : recorded[i] # e)
  BY <1>1, EventsAssumption DEF Inv, Waits, Fresh
<1>5. InOrder(all, Append(recorded, e))
  <2> HIDE DEF b, e
  <2> QED  BY <1>1, <1>4, InOrderAppend
<1>6. Len(all) = MaxBuffer /\ Len(all) - (MaxBuffer - 2) = 2
  BY <1>1, <1>3, <1>4 DEF OverLimit
<1> HIDE DEF all, b, e
<1>7. kept = SubSeq(all, 2, Len(all))
  BY <1>6
<1>8. /\ kept \in Seq(Event)
      /\ Len(kept) = IF 2 <= Len(all) THEN Len(all) - 2 + 1 ELSE 0
      /\ \A i \in DOMAIN kept : i + 2 - 1 \in DOMAIN all /\ kept[i] = all[i + 2 - 1]
      /\ InOrder(kept, Append(recorded, e))
  <2>1. 2 \in 1..(Len(all) + 1) /\ Len(all) \in 0..Len(all)
    BY <1>1, <1>3
  <2> DEFINE k == SubSeq(all, 2, Len(all))
  <2>2. /\ k \in Seq(Event)
        /\ Len(k) = IF 2 <= Len(all) THEN Len(all) - 2 + 1 ELSE 0
        /\ \A i \in DOMAIN k : i + 2 - 1 \in DOMAIN all /\ k[i] = all[i + 2 - 1]
        /\ InOrder(k, Append(recorded, e))
    BY <1>3, <1>5, <2>1, InOrderPart
  <2> HIDE DEF k, kept
  <2>3. kept = k
    BY <1>7 DEF k
  <2> QED  BY <2>2, <2>3
<1> HIDE DEF kept
<1>9. Len(kept) = MaxBuffer - 1 /\ DOMAIN kept = 1..(MaxBuffer - 1)
      /\ \A i \in DOMAIN kept : i + 1 \in DOMAIN all /\ kept[i] = all[i + 1]
  BY <1>1, <1>3, <1>6, <1>8, LenProperties
<1>10. dropped' = dropped \cup {all[1]}
  <2>1. Len(all) - Len(kept) = 1
    BY <1>4, <1>6, <1>9
  <2>2. 1..1 = {1}
    OBVIOUS
  <2> QED  BY <1>2, <2>1, <2>2
<1>11. \A i \in DOMAIN all : all[i] \in ToSet(kept) \cup {all[1]}
  <2> SUFFICES ASSUME NEW i \in DOMAIN all, i # 1
               PROVE  all[i] \in ToSet(kept)
    OBVIOUS
  <2>1. i - 1 \in DOMAIN kept /\ (i - 1) + 1 = i
    BY <1>1, <1>3, <1>4, <1>6, <1>9
  <2>2. kept[i - 1] = all[i]
    BY <1>9, <2>1
  <2> QED  BY <2>1, <2>2 DEF ToSet
<1>12. \A i \in DOMAIN kept : \/ \E j \in DOMAIN b : kept[i] = b[j]
                              \/ i = Len(kept) /\ kept[i] = e
  <2> SUFFICES ASSUME NEW i \in DOMAIN kept
               PROVE  \/ \E j \in DOMAIN b : kept[i] = b[j]
                      \/ i = Len(kept) /\ kept[i] = e
    OBVIOUS
  <2>1. CASE i + 1 \in DOMAIN b
    BY <1>3, <1>9, <2>1
  <2>2. CASE i + 1 \notin DOMAIN b
    <3>1. i + 1 = Len(b) + 1 /\ i = Len(kept)
      BY <1>1, <1>3, <1>6, <1>9, <2>2
    <3> QED  BY <1>3, <1>9, <3>1
  <2> QED  BY <2>1, <2>2
<1>13. ToSet(b) \subseteq ToSet(kept) \cup dropped' /\ e \in ToSet(kept) \cup dropped'
  <2>1. \A i \in DOMAIN b : i \in DOMAIN all /\ b[i] = all[i]
    BY <1>1, <1>3
  <2>2. Len(b) + 1 \in DOMAIN all
    BY <1>1, <1>3
  <2>3. \A i \in DOMAIN b : b[i] \in ToSet(kept) \cup dropped'
    BY <1>10, <1>11, <2>1
  <2> QED  BY <1>3, <1>10, <1>11, <2>2, <2>3 DEF ToSet
<1>14. /\ Sound(p) /\ inv'[p].at = "overwrite" /\ inv'[p].buffer = kept
       /\ inv'[p].event = inv[p].event
  <2>1. inv' = [inv EXCEPT ![p] = [inv[p] EXCEPT !.at = "overwrite", !.buffer = kept]]
    BY <1>2, Types DEF Invocation
  <2>2. dropped' \subseteq Event
    <3>1. all[1] \in Event
      BY <1>1, <1>3, ElementOfSeq
    <3> QED  BY <1>10, <3>1, Types
  <2> QED  BY <1>1, <1>2, <1>8, <2>1, <2>2, HoldsSound, Types
<1>15. RecordedWith(p) = Append(recorded, e)
  BY <1>1 DEF RecordedWith, e
<1>16. Len(kept) < MaxBuffer
  BY <1>4, <1>9
<1>17. Cuts(p)
  <2>1. /\ inv[p].buffer = b /\ inv[p].event = e /\ inv[p].event # NoEvent
        /\ dropped \subseteq dropped'
    BY <1>1, <1>10 DEF b, e
  <2>2. \A i \in DOMAIN inv'[p].buffer :
           \/ \E j \in DOMAIN inv[p].buffer : inv'[p].buffer[i] = inv[p].buffer[j]
           \/ /\ inv[p].event # NoEvent /\ i = Len(inv'[p].buffer)
              /\ inv'[p].buffer[i] = inv[p].event
    BY <1>12, <1>14, <2>1
  <2>3. /\ inv'[p].buffer \in Seq(Event) /\ Len(inv'[p].buffer) < MaxBuffer
        /\ InOrder(inv'[p].buffer, RecordedWith(p))
    BY <1>8, <1>14, <1>15, <1>16
  <2>4. /\ ToSet(inv[p].buffer) \subseteq ToSet(inv'[p].buffer) \cup received' \cup dropped'
        /\ inv[p].event \in ToSet(inv'[p].buffer) \cup dropped'
    BY <1>13, <1>14, <2>1
  <2> QED  BY <1>1, <1>2, <1>14, <2>1, <2>2, <2>3, <2>4 DEF Cuts
<1> QED  BY <1>14, <1>17, KindsKeep

LEMMA PushKeeps ==
    ASSUME NEW p \in Invocations, Inv, Push(p)
    PROVE  Inv'
<1>1. CASE OverLimit(Append(inv[p].buffer, inv[p].event))
  BY <1>1, PushCuts
<1>2. CASE ~OverLimit(Append(inv[p].buffer, inv[p].event))
  <2>1. /\ inv[p].at = "push" /\ Release(p)
        /\ file' = Append(file, inv[p].event) /\ recorded' = Append(recorded, inv[p].event)
        /\ UNCHANGED <<pipeline, completed, late, torn, received, dropped, faults>>
    BY <1>2 DEF Push, counters
  <2>2. inv[p].event \in Event /\ inv[p].event \in Entries
    BY <2>1, Types DEF Inv, Phases, Invocation, Entries
  <2>3. file' \in Seq(Entries) /\ recorded' \in Seq(Event)
    BY <2>1, <2>2, Types, AppendProperties
  <2>4. Sound(p) /\ Releases(p)
    BY <2>1, <2>3, Types, ReleaseSound
  <2>5. Leaves(p)
    BY <1>2, <2>1, AppendedLeaves
  <2> QED  BY <2>4, <2>5, KindsKeep
<1> QED  BY <1>1, <1>2

LEMMA OverwriteStep ==
    ASSUME NEW p \in Invocations, Inv, Overwrite(p)
    PROVE  Inv'
<1> DEFINE b == inv[p].buffer
<1>1. /\ inv[p].at = "overwrite" /\ file' = b /\ b \in Seq(Event) /\ Len(b) \in 0..Len(b)
      /\ SubSeq(b, 1, Len(b)) = b /\ inv[p].event \in Event \cup {NoEvent}
      /\ UNCHANGED <<pipeline, completed, late, torn, received, dropped, faults>>
  BY Types, LenProperties, SubSeqFull DEF Overwrite, counters, Invocation
<1>2. file' \in Seq(Entries)
  BY <1>1, ReadWhole
<1>3. CASE inv[p].event = NoEvent
  <2>1. /\ inv' = [inv EXCEPT ![p].at = "send"] /\ UNCHANGED <<holder, recorded>>
    BY <1>3 DEF Overwrite
  <2>2. inv' = [inv EXCEPT ![p] = [inv[p] EXCEPT !.at = "send", !.buffer = b]]
    BY <2>1, Types DEF Invocation
  <2>3. /\ Sound(p) /\ inv'[p].at = "send" /\ inv'[p].buffer = b
        /\ inv'[p].event = inv[p].event
    <3> HIDE DEF b
    <3> QED  BY <1>1, <1>2, <2>1, <2>2, HoldsSound, Types
  <2>4. Rewrites(p)
    BY <1>1, <1>3, <2>1, <2>3 DEF Rewrites
  <2> QED  BY <2>3, <2>4, KindsKeep
<1>4. CASE inv[p].event # NoEvent
  <2>1. Release(p) /\ recorded' = Append(recorded, inv[p].event) /\ inv[p].event \in Event
    BY <1>1, <1>4 DEF Overwrite
  <2>2. recorded' \in Seq(Event)
    BY <2>1, Types, AppendProperties
  <2>3. Sound(p) /\ Releases(p)
    BY <1>1, <1>2, <2>1, <2>2, Types, ReleaseSound
  <2>4. Leaves(p)
    BY <1>1, <1>4, <2>1, WrittenLeaves
  <2> QED  BY <2>3, <2>4, KindsKeep
<1> QED  BY <1>3, <1>4

\* The parts of a sequence make up its entries.
LEMMA Parts ==
    ASSUME NEW b \in Seq(Event), NEW n \in 0..Len(b)
    PROVE  /\ SubSeq(b, 1, n) \in Seq(Event)
           /\ ToSet(SubSeq(b, n + 1, Len(b))) \subseteq Event
           /\ ToSet(b) \subseteq ToSet(SubSeq(b, 1, n)) \cup ToSet(SubSeq(b, n + 1, Len(b)))
<1> DEFINE c == SubSeq(b, 1, n)
           d == SubSeq(b, n + 1, Len(b))
<1>0. Len(b) \in Nat /\ DOMAIN b = 1..Len(b) /\ n \in Int /\ n + 1 \in Int
  BY LenProperties
<1>1. /\ c \in Seq(Event) /\ Len(c) = (IF 1 <= n THEN n - 1 + 1 ELSE 0)
      /\ \A i \in 1..(n - 1 + 1) : c[i] = b[1 + i - 1]
  <2>1. \A i \in 1..n : b[i] \in Event
    BY <1>0, ElementOfSeq
  <2> QED  BY <1>0, <2>1, SubSeqProperties
<1>2. /\ d \in Seq(Event) /\ Len(d) = (IF n + 1 <= Len(b) THEN Len(b) - (n + 1) + 1 ELSE 0)
      /\ \A i \in 1..(Len(b) - (n + 1) + 1) : d[i] = b[(n + 1) + i - 1]
  <2>1. \A i \in (n + 1)..Len(b) : b[i] \in Event
    BY <1>0, ElementOfSeq
  <2> QED  BY <1>0, <2>1, SubSeqProperties
<1> HIDE DEF c, d
<1>3. ToSet(d) \subseteq Event
  BY <1>2, LenProperties, ElementOfSeq DEF ToSet
<1>4. ToSet(b) \subseteq ToSet(c) \cup ToSet(d)
  <2> SUFFICES ASSUME NEW i \in 1..Len(b)
               PROVE  b[i] \in ToSet(c) \cup ToSet(d)
    BY <1>0 DEF ToSet
  <2>1. CASE i <= n
    <3>1. i \in DOMAIN c /\ c[i] = b[i]
      BY <1>0, <1>1, <2>1, LenProperties
    <3> QED  BY <3>1 DEF ToSet
  <2>2. CASE i > n
    <3>1. i - n \in DOMAIN d
      <4>1. Len(d) = Len(b) - n
        <5>1. n + 1 <= Len(b)
          BY <1>0, <2>2
        <5>2. Len(d) = Len(b) - (n + 1) + 1
          BY <1>2, <5>1
        <5> QED  BY <1>0, <5>2
      <4>2. DOMAIN d = 1..Len(d)
        BY <1>2, LenProperties
      <4> QED  BY <1>0, <2>2, <4>1, <4>2
    <3>2. i - n \in 1..(Len(b) - (n + 1) + 1) /\ (n + 1) + (i - n) - 1 = i
      BY <1>0, <2>2
    <3>3. d[i - n] = b[i]
      BY <1>2, <3>2
    <3> QED  BY <3>1, <3>3 DEF ToSet
  <2> QED  BY <1>0, <2>1, <2>2
<1> QED  BY <1>1, <1>3, <1>4 DEF c, d

LEMMA WriteFailsKeeps ==
    ASSUME NEW p \in Invocations, Inv, WriteFails(p)
    PROVE  Inv'
<1> DEFINE b == inv[p].buffer
<1>1. /\ Release(p) /\ torn' = TRUE /\ faults' \in 0..MaxFaults
      /\ inv[p].at \in {"push", "overwrite", "send"}
      /\ UNCHANGED <<pipeline, completed, late, received, recorded>>
      /\ b \in Seq(Event) /\ Len(b) \in Nat /\ Torn \in Entries
  BY Types, LenProperties DEF WriteFails, Fault, Invocation, Entries
<1>2. /\ file' \in Seq(Entries) /\ dropped' \subseteq Event /\ dropped \subseteq dropped'
      /\ \/ file' = Append(file, Torn)
         \/ /\ inv[p].at = "overwrite"
            /\ \E i \in 0..Len(b) : file' = Append(SubSeq(b, 1, i), Torn)
  <2>1. CASE file' = Append(file, Torn) /\ UNCHANGED dropped
    BY <1>1, <2>1, Types, AppendProperties
  <2>2. CASE ~(file' = Append(file, Torn) /\ UNCHANGED dropped)
    <3>1. PICK i \in 0..(Len(b) - 1) :
             /\ inv[p].at = "overwrite" /\ file' = Append(SubSeq(b, 1, i), Torn)
             /\ dropped' = dropped \cup ToSet(SubSeq(b, i + 1, Len(b)))
      BY <2>2 DEF WriteFails
    <3>2. i \in 0..Len(b)
      BY <1>1
    <3>3. SubSeq(b, 1, i) \in Seq(Entries) /\ ToSet(SubSeq(b, i + 1, Len(b))) \subseteq Event
      <4> HIDE DEF b
      <4> QED  BY <1>1, <3>2, Parts, ReadWhole
    <3>4. file' \in Seq(Entries)
      BY <1>1, <3>1, <3>3, AppendProperties
    <3> QED  BY <3>1, <3>2, <3>3, <3>4, Types
  <2> QED  BY <2>1, <2>2
<1>3. Sound(p) /\ Releases(p)
  BY <1>1, <1>2, Types, ReleaseSound
<1>4. Leaves(p)
  BY <1>1, <1>2, TornLeaves
<1> QED  BY <1>3, <1>4, KindsKeep

LEMMA CrashKeeps ==
    ASSUME NEW p \in Invocations, Inv, Crash(p)
    PROVE  Inv'
<1> DEFINE b == inv[p].buffer
           r == [Flushed(p) EXCEPT !.stage = "gone"]
<1>0. TypeOK /\ inv \in [Invocations -> Invocation]
  BY Types DEF Inv
<1>1. /\ r \in Invocation /\ r.at = "none" /\ r.event = NoEvent /\ r.buffer = <<>>
      /\ r.did = inv[p].did
  BY <1>0, FlushedIs DEF Invocation
<1>2. /\ inv' = [inv EXCEPT ![p] = r] /\ holder' = (IF holder = p THEN Nobody ELSE holder)
      /\ faults' \in 0..MaxFaults
      /\ UNCHANGED <<pipeline, completed, late, received, torn, recorded>>
      /\ b \in Seq(Event) /\ Len(b) \in Nat
  BY Types, LenProperties DEF Crash, Fault, Invocation
<1> HIDE DEF r
<1>3. inv' \in [Invocations -> Invocation] /\ Others(p) /\ inv'[p] = r
  BY <1>0, <1>1, <1>2, Replaced
<1>4. /\ file' \in Seq(Entries) /\ dropped' \subseteq Event /\ dropped \subseteq dropped'
      /\ Leaves(p) /\ (inv[p].at \in {"push", "overwrite", "send"} \/ file' = file)
  <2>1. CASE UNCHANGED <<file, dropped>>
    BY <1>2, <2>1, KeptLeaves, Types
  <2>2. CASE /\ inv[p].at = "push" /\ ~OverLimit(Append(b, inv[p].event))
             /\ file' = Append(file, inv[p].event) /\ UNCHANGED dropped
    <3>1. inv[p].event \in Entries
      BY <2>2, Types DEF Inv, Phases, Invocation, Entries
    <3>2. file' \in Seq(Entries)
      BY <2>2, <3>1, Types, AppendProperties
    <3>3. Leaves(p)
      BY <1>2, <2>2, AppendedLeaves
    <3> QED  BY <2>2, <3>2, <3>3, Types
  <2>3. CASE /\ inv[p].at = "overwrite"
             /\ \E i \in 0..Len(b) :
                  /\ file' = SubSeq(b, 1, i)
                  /\ dropped' = dropped \cup ToSet(SubSeq(b, i + 1, Len(b)))
    <3>1. PICK i \in 0..Len(b) : /\ file' = SubSeq(b, 1, i)
                                 /\ dropped' = dropped \cup ToSet(SubSeq(b, i + 1, Len(b)))
      BY <2>3
    <3>2. /\ file' \in Seq(Event) /\ ToSet(SubSeq(b, i + 1, Len(b))) \subseteq Event
          /\ ToSet(b) \subseteq ToSet(file') \cup dropped'
      <4> HIDE DEF b
      <4> QED  BY <1>2, <3>1, Parts
    <3>3. Leaves(p)
      BY <1>2, <2>3, <3>1, <3>2, WrittenLeaves
    <3> QED  BY <2>3, <3>1, <3>2, <3>3, Types, ReadWhole
  <2> QED  BY <2>1, <2>2, <2>3 DEF Crash
<1>5. /\ holder' \in Invocations \cup {Nobody} /\ holder' # p
      /\ \A q \in Invocations \ {p} : holder' = q <=> holder = q
  BY <1>0, <1>2, EventsAssumption DEF TypeOK
<1>6. Sound(p)
  BY <1>0, <1>1, <1>2, <1>3, <1>4, <1>5, TypeStep, Types DEF TypeOK
<1>7. Releases(p)
  BY <1>1, <1>2, <1>3, <1>4 DEF Releases
<1> QED  BY <1>4, <1>6, <1>7, KindsKeep

LEMMA ArriveKeeps ==
    ASSUME Inv, NEW b \in late, Arrive(b)
    PROVE  Inv'
<1>1. /\ UNCHANGED <<pipeline, file, holder, inv, completed, faults, torn, recorded, dropped>>
      /\ late' \subseteq late /\ received \subseteq received'
      /\ received' = received \cup ToSet(b)
  BY DEF Arrive, counters
<1>2. received' \subseteq Event
  BY <1>1, Types, LenProperties, ElementOfSeq DEF ToSet
<1>3. TypeOK' /\ Started' = Started
  BY <1>1, <1>2 DEF Inv, TypeOK, Started
<1>4. Phases' /\ KnownStarted' /\ Fresh' /\ Distinct' /\ BufferRead'
  BY <1>1, <1>3 DEF Inv, Phases, KnownStarted, Fresh, Distinct, BufferRead
<1>5. OverwriteKeeps' /\ Waits' /\ NoSilentLoss'
  BY <1>1 DEF Inv, OverwriteKeeps, Waits, RecordedWith, NoSilentLoss
<1> QED  BY <1>3, <1>4, <1>5 DEF Inv

-------------------------------------------------------------------------------
LEMMA InvInit == Init => Inv
<1> SUFFICES ASSUME Init PROVE Inv
  OBVIOUS
<1>1. <<>> \in Seq(Entries) /\ <<>> \in Seq(Event) /\ ReadEvents(<<>>) = <<>> /\ Len(<<>>) = 0
  BY EmptySeq, ReadWhole
<1>2. TypeOK
  <2>1. \A p \in Invocations : inv[p] = [stage |-> "start", at |-> "none", event |-> NoEvent,
                                        buffer |-> <<>>, did |-> {}]
    BY DEF Init
  <2>2. inv \in [Invocations -> Invocation]
    BY <1>1 DEF Init, Invocation
  <2>3. \A p \in Invocations : inv[p].at = "none" /\ holder # p
    BY <2>1, EventsAssumption DEF Init
  <2>4. completed \in [Invocations -> BOOLEAN] /\ faults \in 0..MaxFaults
    BY EventsAssumption DEF Init
  <2> QED  BY <1>1, <2>2, <2>3, <2>4 DEF Init, TypeOK, Invocation
<1>3. Phases /\ KnownStarted /\ Fresh /\ Distinct
  BY DEF Init, Phases, KnownStarted, Fresh, Distinct
<1>4. BufferRead /\ OverwriteKeeps /\ Waits
  BY <1>1, EventsAssumption DEF Init, BufferRead, OverwriteKeeps, Waits, InOrder
<1>5. NoSilentLoss
  BY DEF Init, NoSilentLoss, ToSet
<1> QED  BY <1>2, <1>3, <1>4, <1>5 DEF Inv

LEMMA InvNext == Inv /\ [Next]_vars => Inv'
<1> SUFFICES ASSUME Inv, [Next]_vars PROVE Inv'
  OBVIOUS
<1>1. ASSUME NEW p \in Invocations, Step(p)  PROVE Inv'
  <2>1. CASE \E k \in {"run", "detail"} : Record(p, k)
    BY <2>1, RecordBegins, KindsKeep
  <2>2. CASE Finish(p) \/ PrepareExec(p) \/ Exec(p) \/ BeginFlush(p)
    BY <2>2, OtherBegins, KindsKeep
  <2>3. CASE ReadBuffer(p)
    BY <2>3, ReadSound, KindsKeep
  <2>4. CASE Push(p)
    BY <2>4, PushKeeps
  <2>5. CASE Overwrite(p)
    BY <2>5, OverwriteStep
  <2>6. CASE WriteFails(p)
    BY <2>6, WriteFailsKeeps
  <2>7. CASE EndFlush(p)
    BY <2>7, EndFlushKeeps
  <2>8. CASE Send(p) \/ Rejected(p)
    BY <2>8, SendKeeps
  <2>9. CASE NoAnswer(p)
    BY <2>9, NoAnswerKeeps
  <2> QED  BY <1>1, <2>1, <2>2, <2>3, <2>4, <2>5, <2>6, <2>7, <2>8, <2>9 DEF Step
<1>2. ASSUME UNCHANGED vars  PROVE Inv'
  <2>1. UNCHANGED <<pipeline, file, holder, inv, completed, late, received, faults, torn,
                    recorded, dropped>>
    BY <1>2 DEF vars, counters
  <2>2. TypeOK' /\ Started' = Started
    BY <2>1 DEF Inv, TypeOK, Started
  <2>3. Phases' /\ KnownStarted' /\ Fresh' /\ Distinct' /\ BufferRead'
    BY <2>1, <2>2 DEF Inv, Phases, KnownStarted, Fresh, Distinct, BufferRead
  <2>4. OverwriteKeeps' /\ Waits' /\ NoSilentLoss'
    BY <2>1 DEF Inv, OverwriteKeeps, Waits, RecordedWith, NoSilentLoss
  <2> QED  BY <2>2, <2>3, <2>4 DEF Inv
<1> QED  BY <1>1, <1>2, CrashKeeps, ArriveKeeps DEF Next, Done

LEMMA Invariance == Spec => []Inv
BY InvInit, InvNext, PTL DEF Spec

\* An event that was recorded is delivered, waits where the next flush reads it,
\* or was given up, as long as no write has ended half-way: for any number of
\* invocations that share the buffer, whichever of them are killed.
THEOREM NothingLost == Spec => []NoSilentLoss
BY Invariance, PTL DEF Inv

\* Two positions in the history of events in the file are in the order of the file.
LEMMA InOrderPositions ==
    ASSUME NEW w, NEW r, InOrder(w, r), NEW i \in DOMAIN w, NEW j \in DOMAIN w, i < j,
           {w[i], w[j]} \subseteq ToSet(r)
    PROVE  (CHOOSE k \in DOMAIN r : r[k] = w[i]) <= (CHOOSE k \in DOMAIN r : r[k] = w[j])
<1> DEFINE a == CHOOSE k \in DOMAIN r : r[k] = w[i]
           b == CHOOSE k \in DOMAIN r : r[k] = w[j]
<1>1. (\E k \in DOMAIN r : r[k] = w[i]) /\ (\E k \in DOMAIN r : r[k] = w[j])
  BY DEF ToSet
<1>2. a \in DOMAIN r /\ r[a] = w[i] /\ b \in DOMAIN r /\ r[b] = w[j]
  BY <1>1, Zenon
<1> HIDE DEF a, b
<1>3. a <= b
  BY <1>2 DEF InOrder
<1> QED  BY <1>3 DEF a, b

\* Fewer events than MAX_BUFFER_SIZE wait, and in the order of their recording,
\* whatever is dropped, sent, torn or written again.
THEOREM InOrderAlways == Spec => []WaitingInOrder
<1>1. Inv => WaitingInOrder
  <2> SUFFICES ASSUME Inv PROVE WaitingInOrder
    OBVIOUS
  <2> DEFINE w == ReadEvents(file)
  <2>1. Len(w) < MaxBuffer /\ InOrder(w, recorded)
    BY DEF Inv, Waits
  <2> HIDE DEF w
  <2>2. ASSUME NEW i \in DOMAIN w, NEW j \in DOMAIN w, i < j,
               {w[i], w[j]} \subseteq ToSet(recorded)
        PROVE  (CHOOSE k \in DOMAIN recorded : recorded[k] = w[i])
                 <= (CHOOSE k \in DOMAIN recorded : recorded[k] = w[j])
    BY <2>1, <2>2, InOrderPositions
  <2> QED  BY <2>1, <2>2 DEF WaitingInOrder, w
<1> QED  BY <1>1, Invariance, PTL

\* A completion is recorded at most once, whichever of activate, the dispatcher
\* and an interrupt records it, and so is every other event.
THEOREM RecordedOnce == Spec => []CompletedOnce
<1>1. Inv => CompletedOnce
  <2> SUFFICES ASSUME Inv, NEW p \in Invocations
               PROVE  Cardinality({i \in DOMAIN recorded :
                          recorded[i] = [by |-> p, kind |-> "completed"]}) <= 1
    BY DEF CompletedOnce
  <2> DEFINE S == {i \in DOMAIN recorded : recorded[i] = [by |-> p, kind |-> "completed"]}
  <2>1. S = {} \/ \E i : S = {i}
    <3>1. \A i, j \in S : i = j
      BY DEF Inv, Distinct
    <3> HIDE DEF S
    <3> QED  BY <3>1
  <2> HIDE DEF S
  <2>2. Cardinality(S) = 0 \/ Cardinality(S) = 1
    BY <2>1, FS_EmptySet, FS_Singleton
  <2> QED  BY <2>2 DEF S
<1> QED  BY <1>1, Invariance, PTL

\* Every variable keeps its type, and those who work on the buffer are those
\* who hold its lock file: one invocation at most.
THEOREM EventsTypeCorrect == Spec => []TypeOK
BY Invariance, PTL DEF Inv
===============================================================================
