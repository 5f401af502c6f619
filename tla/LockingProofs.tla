---------------------------- MODULE LockingProofs ----------------------------
(***************************************************************************)
(* The lockfile is complete and every group is from one page, for any      *)
(* manifests, catalog, flakes and included environments.                   *)
(*                                                                         *)
(* Good is the inductive invariant: both properties, and the shape of the  *)
(* records.  A seed is what is left of a good lockfile after unlocking: it *)
(* may lack packages.  That a lock of any seed is good (LockIsGood) is the *)
(* core; the commands only chain locks.  RelockSame shows that a good      *)
(* lockfile locks to itself, LockPins and UpgradePins that a lock moves    *)
(* nothing that it was not asked to move.                                  *)
(***************************************************************************)
EXTENDS Locking, TLAPS

IsPackage(p) ==
    p = [kind |-> p.kind, drv |-> p.drv, page |-> p.page, group |-> p.group,
         priority |-> p.priority]

\* What the lock p of package k says agrees with manifest m.
Agrees(m, k, p) ==
    /\ IsPackage(p)
    /\ p.kind = "catalog" <=> Descriptor(m, k).kind = "catalog"
    /\ p.kind = "flake" <=> Descriptor(m, k).kind = "flake"
    /\ p.priority = Descriptor(m, k).priority
    /\ p.kind = "catalog" => p.group = GroupName(Descriptor(m, k)) /\ Allowed(m, p.drv)
    /\ p.kind \notin {"catalog", "flake"} => p = LockStorePath(m, k)

OnePage(m, packages) ==
    \A j, k \in DOMAIN packages :
        /\ packages[j].kind = "catalog" /\ packages[k].kind = "catalog"
        /\ GroupName(Descriptor(m, j)) = GroupName(Descriptor(m, k))
        => packages[j].page = packages[k].page

IsLockfile(l) ==
    l = [manifest |-> l.manifest, composer |-> l.composer, include |-> l.include,
         packages |-> l.packages]

\* The merged manifest is that of the composer and the includes it names.
Composed(l) ==
    /\ l.include = [n \in DOMAIN l.composer.include |->
                       [descriptor |-> l.composer.include[n], manifest |-> l.include[n].manifest]]
    /\ \A n \in DOMAIN l.composer.include : l.include[n].manifest # OutOfSync
    /\ \A n, o \in DOMAIN l.composer.include :
          NameOf(l.composer.include[n]) = NameOf(l.composer.include[o]) => n = o
    /\ l.manifest = MergeManifest(l.composer, l.include)

Consistent(l) ==
    /\ IsLockfile(l)
    /\ Composed(l)
    /\ DOMAIN l.packages \subseteq Wanted(l.manifest)
    /\ \A k \in DOMAIN l.packages : Agrees(l.manifest, k, l.packages[k])
    /\ OnePage(l.manifest, l.packages)

IsSeed(l) == l # NoLockfile => Consistent(l)

\* What every lock has.
IsLocked(l) ==
    /\ Consistent(l)
    /\ l.packages = [k \in Wanted(l.manifest) |-> l.packages[k]]
    /\ DOMAIN l.packages = Wanted(l.manifest)
    /\ \A k \in OfKind(l.manifest, "catalog") :
          Descriptor(l.manifest, k).systems \subseteq AvailableSystems(l.manifest)

Good(l) == l # NoLockfile => IsLocked(l)

-----------------------------------------------------------------------------
\* A wanted package is a pair of an install id and one of its systems.
LEMMA WantedPair ==
    ASSUME NEW m, NEW k \in Wanted(m)
    PROVE  /\ k = <<k[1], k[2]>>
           /\ k[2] \in SystemsOf(m, m.install[k[1]])
BY DEF Wanted

\* The descriptor a lock was made for differs in nothing that resolution uses.
LEMMA StillLockedGroup ==
    ASSUME NEW m, NEW seed, NEW k, StillLocked(m, seed, k)
    PROVE  /\ Descriptor(m, k).kind = "catalog" =>
                 GroupName(Descriptor(seed.manifest, k)) = GroupName(Descriptor(m, k))
           /\ Descriptor(m, k).kind = "flake" =>
                 Descriptor(seed.manifest, k) = Descriptor(m, k)
BY DEF StillLocked, Invalidates, GroupName

\* A package of a group that is not resolved anew is locked in the seed.
LEMMA KeptWasLocked ==
    ASSUME NEW m, NEW seed, NEW k \in OfKind(m, "catalog"),
           GroupName(Descriptor(m, k)) \notin GroupsToLock(m, seed)
    PROVE  StillLocked(m, seed, k)
BY DEF GroupsToLock, GroupsOf, FullyLocked, InGroup, OfKind

\* Every lock made for a manifest agrees with it.
LEMMA LockAgrees ==
    ASSUME NEW m, NEW seed, IsSeed(seed),
           NEW chosen \in [GroupsToLock(m, seed) -> 1..page],
           Resolvable(m, seed, chosen), NEW k \in Wanted(m)
    PROVE  Agrees(m, k, LockPackage(m, seed, chosen, k))
<1> DEFINE d == Descriptor(m, k)
           g == GroupName(d)
           p == LockPackage(m, seed, chosen, k)
<1>1. CASE d.kind = "catalog"
  <2>1. k \in OfKind(m, "catalog") /\ k \in InGroup(m, g) /\ g \in GroupsOf(m)
    BY <1>1 DEF OfKind, InGroup, GroupsOf
  <2>2. p = LockCatalog(m, seed, chosen, k)
    BY <1>1 DEF LockPackage
  <2>3. CASE g \in DOMAIN chosen
    <3>1. p = Resolved(m, k, chosen[g])
      BY <2>2, <2>3 DEF LockCatalog
    <3>2. Allowed(m, Provides(d.path, k[2], chosen[g]))
      BY <2>1, <2>3 DEF Resolvable, OnPage
    <3> QED BY <1>1, <3>1, <3>2 DEF Agrees, Resolved, IsPackage
  <2>4. CASE g \notin DOMAIN chosen
    <3>1. p = Kept(m, seed, k)
      BY <2>2, <2>4 DEF LockCatalog
    <3>2. StillLocked(m, seed, k)
      BY <2>1, <2>4, KeptWasLocked
    <3>3. Agrees(seed.manifest, k, seed.packages[k]) /\ seed.packages[k].kind = "catalog"
      BY <1>1, <3>2 DEF StillLocked, IsSeed, Consistent
    <3>4. Allowed(m, seed.packages[k].drv)
      BY <2>1, <2>4 DEF Resolvable
    <3>5. seed.packages[k].group = g
      BY <1>1, <3>2, <3>3, StillLockedGroup DEF Agrees
    <3>6. p = [kind |-> "catalog", drv |-> seed.packages[k].drv,
               page |-> seed.packages[k].page, group |-> g, priority |-> d.priority]
      BY <3>1, <3>3, <3>5 DEF Kept, Agrees, IsPackage
    <3> QED BY <1>1, <3>4, <3>6 DEF Agrees, IsPackage
  <2> QED BY <2>3, <2>4
<1>2. CASE d.kind = "flake"
  <2>1. p = LockFlake(m, seed, k)
    BY <1>2 DEF LockPackage
  <2>2. CASE FlakeLocked(m, seed, k[1])
    <3>1. StillLocked(m, seed, k)
      BY <2>2, WantedPair DEF FlakeLocked
    <3>2. Agrees(seed.manifest, k, seed.packages[k])
      BY <3>1 DEF StillLocked, IsSeed, Consistent
    <3>3. Descriptor(seed.manifest, k) = d /\ seed.packages[k].kind = "flake"
      BY <1>2, <3>1, StillLockedGroup DEF StillLocked
    <3> QED BY <1>2, <2>1, <2>2, <3>2, <3>3 DEF LockFlake, Agrees
  <2>3. CASE ~ FlakeLocked(m, seed, k[1])
    BY <1>2, <2>1, <2>3 DEF LockFlake, Agrees, IsPackage
  <2> QED BY <2>2, <2>3
<1>3. CASE d.kind \notin {"catalog", "flake"}
  BY <1>3 DEF LockPackage, LockStorePath, Agrees, IsPackage
<1> QED BY <1>1, <1>2, <1>3

\* The page of a catalog package is that of its group: the page chosen now, or
\* the one all packages of the group have in the seed.
LEMMA LockOnePage ==
    ASSUME NEW m, NEW seed, IsSeed(seed),
           NEW chosen \in [GroupsToLock(m, seed) -> 1..page],
           Resolvable(m, seed, chosen)
    PROVE  OnePage(m, [k \in Wanted(m) |-> LockPackage(m, seed, chosen, k)])
<1> DEFINE packages == [k \in Wanted(m) |-> LockPackage(m, seed, chosen, k)]
<1> SUFFICES ASSUME NEW j \in Wanted(m), NEW k \in Wanted(m),
                    packages[j].kind = "catalog", packages[k].kind = "catalog",
                    GroupName(Descriptor(m, j)) = GroupName(Descriptor(m, k))
             PROVE  packages[j].page = packages[k].page
  BY DEF OnePage
<1> DEFINE g == GroupName(Descriptor(m, k))
<1>1. j \in OfKind(m, "catalog") /\ k \in OfKind(m, "catalog")
  BY LockAgrees DEF Agrees, OfKind
<1>2. /\ packages[j] = LockCatalog(m, seed, chosen, j)
      /\ packages[k] = LockCatalog(m, seed, chosen, k)
  BY <1>1 DEF LockPackage, OfKind
<1>3. CASE g \in DOMAIN chosen
  BY <1>2, <1>3 DEF LockCatalog, Resolved
<1>4. CASE g \notin DOMAIN chosen
  <2>1. StillLocked(m, seed, j) /\ StillLocked(m, seed, k)
    BY <1>1, <1>4, KeptWasLocked
  <2>2. GroupName(Descriptor(seed.manifest, j)) = GroupName(Descriptor(seed.manifest, k))
    BY <1>1, <2>1, StillLockedGroup DEF OfKind
  <2>3. seed.packages[j].page = seed.packages[k].page
    BY <1>1, <2>1, <2>2 DEF StillLocked, IsSeed, Consistent, OnePage, OfKind
  <2>4. IsPackage(seed.packages[j]) /\ IsPackage(seed.packages[k])
    BY <2>1 DEF StillLocked, IsSeed, Consistent, Agrees
  <2>5. packages[j] = Kept(m, seed, j) /\ packages[k] = Kept(m, seed, k)
    BY <1>2, <1>4 DEF LockCatalog
  <2>6. /\ packages[j].page = seed.packages[j].page
        /\ packages[k].page = seed.packages[k].page
    BY <2>4, <2>5 DEF Kept, IsPackage
  <2> QED BY <2>3, <2>6
<1> QED BY <1>3, <1>4

\* Includes are taken over from the seed with their descriptors, or fetched.
LEMMA IncludesComposed ==
    ASSUME NEW m, NEW seed, IsSeed(seed), NEW upgrade, NEW all,
           NEW includes, includes = LockedIncludes(m, seed, upgrade, all),
           NEW n \in DOMAIN m.include
    PROVE  includes[n] = [descriptor |-> m.include[n], manifest |-> includes[n].manifest]
<1> DEFINE d == m.include[n]
           found == CHOOSE o \in LockedInclude(seed, d) : TRUE
<1>1. includes[n] = IncludeFor(seed, d, upgrade, all)
  BY DEF LockedIncludes
<1>2. CASE Fetched(seed, d, upgrade, all)
  BY <1>1, <1>2 DEF IncludeFor
<1>3. CASE ~ Fetched(seed, d, upgrade, all)
  <2>1. includes[n] = seed.include[found]
    BY <1>1, <1>3 DEF IncludeFor
  <2>2. found \in LockedInclude(seed, d) /\ Composed(seed)
    BY <1>3 DEF Fetched, IsSeed, Consistent
  <2> HIDE DEF found
  <2>3. found \in DOMAIN seed.include /\ seed.include[found].descriptor = d
    BY <2>2 DEF LockedInclude
  <2>4. seed.include[found] = [descriptor |-> seed.composer.include[found],
                               manifest |-> seed.include[found].manifest]
    BY <2>2, <2>3 DEF Composed
  <2> QED BY <2>1, <2>3, <2>4
<1> QED BY <1>2, <1>3

\* Whatever is locked from a seed is good.
LEMMA LockIsGood ==
    ASSUME NEW m, NEW seed, IsSeed(seed), NEW upgrade, NEW all,
           NEW l \in LocksUpgrading(m, seed, upgrade, all)
    PROVE  IsLocked(l)
<1> DEFINE includes == LockedIncludes(m, seed, upgrade, all)
           merged == MergeManifest(m, includes)
           packages(c) == [k \in Wanted(merged) |-> LockPackage(merged, seed, c, k)]
<1>1. PICK c \in [GroupsToLock(merged, seed) -> 1..page] :
          /\ Resolvable(merged, seed, c)
          /\ l = [manifest |-> merged, composer |-> m, include |-> includes,
                  packages |-> packages(c)]
  BY DEF LocksUpgrading
<1>4. ~ MergeFails(m, seed, upgrade, all)
  BY DEF LocksUpgrading
<1>5. /\ includes = [n \in DOMAIN m.include |->
                        [descriptor |-> m.include[n], manifest |-> includes[n].manifest]]
      /\ \A n \in DOMAIN m.include : includes[n].manifest # OutOfSync
  <2>1. DOMAIN includes = DOMAIN m.include /\ includes = [n \in DOMAIN m.include |-> includes[n]]
    BY DEF LockedIncludes
  <2>2. \A n \in DOMAIN m.include :
            includes[n] = [descriptor |-> m.include[n], manifest |-> includes[n].manifest]
    BY IncludesComposed
  <2>3. \A n \in DOMAIN m.include : includes[n] = IncludeFor(seed, m.include[n], upgrade, all)
    BY DEF LockedIncludes
  <2>4. \A n \in DOMAIN m.include : includes[n].manifest # OutOfSync
    BY <1>4, <2>3 DEF MergeFails
  <2> HIDE DEF includes
  <2> QED BY <2>1, <2>2, <2>4
<1>6. \A n, o \in DOMAIN m.include : NameOf(m.include[n]) = NameOf(m.include[o]) => n = o
  BY <1>4 DEF MergeFails
<1>7. merged = MergeManifest(m, includes)
  OBVIOUS
<1>8. \A k \in OfKind(merged, "catalog") :
          Descriptor(merged, k).systems \subseteq AvailableSystems(merged)
  BY <1>1 DEF Resolvable
<1> HIDE DEF includes, merged
<1>2. \A k \in Wanted(merged) : Agrees(merged, k, packages(c)[k])
  BY <1>1, LockAgrees
<1>3. OnePage(merged, packages(c))
  BY <1>1, LockOnePage
<1>9. Composed(l)
  BY <1>1, <1>5, <1>6, <1>7 DEF Composed
<1> QED BY <1>1, <1>2, <1>3, <1>8, <1>9 DEF IsLocked, Consistent, IsLockfile

LEMMA LocksAreGood ==
    ASSUME NEW m, NEW seed, Good(seed), NEW l \in Locks(m, seed)
    PROVE  IsLocked(l)
BY LockIsGood DEF Locks, Good, IsSeed, IsLocked

\* What is left of a good lockfile is a seed.
LEMMA UnlockIsSeed ==
    ASSUME NEW l, IsLocked(l), NEW named
    PROVE  IsSeed(Unlock(l, named))
<1> DEFINE rest == DOMAIN l.packages \ Named(l, named)
           kept == [k \in rest |-> l.packages[k]]
<1>1. IsLockfile(l)
  BY DEF IsLocked, Consistent
<1>2. Unlock(l, named) = [manifest |-> l.manifest, composer |-> l.composer,
                          include |-> l.include, packages |-> kept]
  BY <1>1 DEF Unlock, IsLockfile
<1>3. \A k \in rest : kept[k] = l.packages[k] /\ k \in DOMAIN l.packages
  OBVIOUS
<1>4. \A k \in rest : Agrees(l.manifest, k, kept[k])
  BY <1>3 DEF IsLocked, Consistent
<1>5. OnePage(l.manifest, kept)
  <2>1. OnePage(l.manifest, l.packages)
    BY DEF IsLocked, Consistent
  <2> QED BY <1>3, <2>1 DEF OnePage
<1>6. DOMAIN kept = rest
  OBVIOUS
<1>7. Composed(l)
  BY DEF IsLocked, Consistent
<1> HIDE DEF kept
<1>8. Composed(Unlock(l, named))
  BY <1>2, <1>7 DEF Composed
<1>9. DOMAIN kept \subseteq Wanted(l.manifest)
  BY <1>6 DEF IsLocked
<1> QED BY <1>2, <1>4, <1>5, <1>6, <1>8, <1>9 DEF IsSeed, Consistent, IsLockfile

\* A lockfile is its own lock.
LEMMA RelockSame ==
    ASSUME NEW l, IsLocked(l), l # NoLockfile
    PROVE  Locks(l.composer, l) = {l}
<1> DEFINE m == l.manifest
           includes == LockedIncludes(l.composer, l, {}, FALSE)
           packages(c) == [k \in Wanted(m) |-> LockPackage(m, l, c, k)]
<1>1. Composed(l) /\ IsLockfile(l)
  BY DEF IsLocked, Consistent
<1>2. ASSUME NEW n \in DOMAIN l.composer.include
      PROVE  IncludeFor(l, l.composer.include[n], {}, FALSE) = l.include[n]
  <2> DEFINE d == l.composer.include[n]
  <2>1. DOMAIN l.include = DOMAIN l.composer.include
    BY <1>1 DEF Composed
  <2>2. \A o \in DOMAIN l.include : l.include[o].descriptor = l.composer.include[o]
    BY <1>1 DEF Composed
  <2>3. LockedInclude(l, d) = {n}
    BY <1>1, <2>1, <2>2 DEF LockedInclude, Composed
  <2> QED BY <2>3 DEF IncludeFor, Fetched
<1>3. includes = l.include
  <2>1. includes = [n \in DOMAIN l.composer.include |-> l.include[n]]
    BY <1>2 DEF LockedIncludes
  <2>2. l.include = [n \in DOMAIN l.composer.include |-> l.include[n]]
    BY <1>1 DEF Composed
  <2> QED BY <2>1, <2>2
<1>4. MergeManifest(l.composer, includes) = m
  BY <1>1, <1>3 DEF Composed
<1>5. ~ MergeFails(l.composer, l, {}, FALSE)
  BY <1>1, <1>2 DEF MergeFails, Composed
<1>6. ASSUME NEW k \in Wanted(m), Descriptor(m, k).kind \in {"catalog", "flake"}
      PROVE  StillLocked(m, l, k)
  <2>1. k \in DOMAIN l.packages /\ Agrees(m, k, l.packages[k])
    BY DEF IsLocked, Consistent
  <2>2. k[1] \in DOMAIN m.install
    BY DEF Wanted
  <2>3. ~ Invalidates(Descriptor(m, k), Descriptor(m, k))
    BY <1>6 DEF Invalidates
  <2>4. l.packages[k].kind = Descriptor(m, k).kind
    BY <1>6, <2>1 DEF Agrees
  <2> QED BY <2>1, <2>2, <2>3, <2>4 DEF StillLocked
<1>7. GroupsToLock(m, l) = {}
  BY <1>6 DEF GroupsToLock, FullyLocked, InGroup, OfKind
<1>8. ASSUME NEW c \in [{} -> 1..page]
      PROVE  Resolvable(m, l, c)
  <2>1. \A k \in OfKind(m, "catalog") : Allowed(m, l.packages[k].drv)
    BY DEF IsLocked, Consistent, Agrees, OfKind
  <2> QED BY <2>1 DEF Resolvable, IsLocked, InGroup
<1>9. ASSUME NEW c \in [{} -> 1..page], NEW k \in Wanted(m)
      PROVE  LockPackage(m, l, c, k) = l.packages[k]
  <2> DEFINE p == l.packages[k]
  <2>1. Agrees(m, k, p)
    BY DEF IsLocked, Consistent
  <2>2. CASE Descriptor(m, k).kind = "catalog"
    <3>1. LockPackage(m, l, c, k) = Kept(m, l, k)
      BY <2>2 DEF LockPackage, LockCatalog
    <3> QED BY <2>1, <3>1 DEF Kept, Agrees, IsPackage
  <2>3. CASE Descriptor(m, k).kind = "flake"
    <3>1. LockPackage(m, l, c, k) = LockFlake(m, l, k)
      BY <2>3 DEF LockPackage
    <3>2. ASSUME NEW s \in SystemsOf(m, m.install[k[1]])
          PROVE  StillLocked(m, l, <<k[1], s>>)
      <4>1. <<k[1], s>> \in Wanted(m)
        BY DEF Wanted
      <4>2. Descriptor(m, <<k[1], s>>).kind = "flake"
        BY <2>3 DEF Descriptor
      <4> QED BY <1>6, <4>1, <4>2
    <3>3. FlakeLocked(m, l, k[1])
      BY <3>2 DEF FlakeLocked
    <3> QED BY <3>1, <3>3 DEF LockFlake
  <2>4. CASE Descriptor(m, k).kind \notin {"catalog", "flake"}
    <3>1. LockPackage(m, l, c, k) = LockStorePath(m, k)
      BY <2>4 DEF LockPackage
    <3> QED BY <2>1, <2>4, <3>1 DEF Agrees
  <2> QED BY <2>2, <2>3, <2>4
<1>10. \A c \in [{} -> 1..page] : packages(c) = l.packages
  BY <1>9 DEF IsLocked
<1>11. \E c \in [{} -> 1..page] : TRUE
  <2>1. [x \in {} |-> 1] \in [{} -> 1..page]
    OBVIOUS
  <2> QED BY <2>1
<1>12. Locks(l.composer, l) =
          {[manifest |-> m, composer |-> l.composer, include |-> l.include,
            packages |-> packages(c)] :
              c \in {c \in [{} -> 1..page] : Resolvable(m, l, c)}}
  BY <1>3, <1>4, <1>5, <1>7 DEF Locks, LocksUpgrading
<1> HIDE DEF packages, includes
<1>13. \A x \in Locks(l.composer, l) : x = l
  BY <1>1, <1>10, <1>12 DEF IsLockfile
<1>14. \E x : x \in Locks(l.composer, l)
  BY <1>8, <1>11, <1>12
<1> QED BY <1>13, <1>14

LEMMA InitGood == Init => Good(lockfile)
BY DEF Init, Good

LEMMA EnsuredGood ==
    ASSUME Good(lockfile), NEW l \in Ensured
    PROVE  IsLocked(l)
BY LocksAreGood DEF Ensured, UpToDate, Good

LEMMA TransactGood ==
    ASSUME NEW m, NEW seed, Good(seed), Transact(m, seed)
    PROVE  Good(lockfile')
BY LocksAreGood DEF Transact, Good

LEMMA StepGood == Good(lockfile) /\ [Next]_vars => Good(lockfile')
<1> SUFFICES ASSUME Good(lockfile), [Next]_vars
             PROVE  Good(lockfile')
  OBVIOUS
<1>1. CASE Lock
  BY <1>1, EnsuredGood DEF Lock, Good
<1>2. ASSUME NEW i \in Ids, NEW d \in Descriptors, Install(i, d)
      PROVE  Good(lockfile')
  <2>1. PICK first \in Ensured : \E seed \in Locks(manifest, first) :
            IF i \in DOMAIN manifest.install
            THEN manifest' = manifest /\ lockfile' = seed
            ELSE Transact([manifest EXCEPT !.install = (i :> d) @@ @], seed)
    BY <1>2 DEF Install
  <2>2. PICK seed \in Locks(manifest, first) :
            IF i \in DOMAIN manifest.install
            THEN manifest' = manifest /\ lockfile' = seed
            ELSE Transact([manifest EXCEPT !.install = (i :> d) @@ @], seed)
    BY <2>1
  <2>3. Good(seed)
    BY EnsuredGood, LocksAreGood DEF Good
  <2> QED BY <2>2, <2>3, TransactGood
<1>3. ASSUME NEW i \in Ids, Uninstall(i)
      PROVE  Good(lockfile')
  <2>1. PICK seed \in Locks(manifest, lockfile) :
            IF i \notin DOMAIN manifest.install
            THEN manifest' = manifest /\ lockfile' = seed
            ELSE Transact([manifest EXCEPT !.install = [j \in DOMAIN @ \ {i} |-> @[j]]], seed)
    BY <1>3 DEF Uninstall
  <2>2. Good(seed)
    BY LocksAreGood DEF Good
  <2> QED BY <2>1, <2>2, TransactGood
<1>4. ASSUME NEW m \in Manifests, Edit(m)
      PROVE  Good(lockfile')
  BY <1>4, TransactGood DEF Edit
<1>5. ASSUME NEW m \in Manifests, EditUnsafe(m)
      PROVE  Good(lockfile')
  <2>1. PICK seed \in Ensured \cup {lockfile} : lockfile' \in Locks(m, seed) \cup {seed}
    BY <1>5 DEF EditUnsafe
  <2>2. Good(seed)
    BY EnsuredGood DEF Good
  <2> QED BY <2>1, <2>2, LocksAreGood DEF Good
<1>6. ASSUME NEW named, Upgrade(named)
      PROVE  Good(lockfile')
  <2>1. PICK old \in Ensured : \E new \in Locks(manifest, Unlock(old, named)) :
            lockfile' = IF UpgradeDiff(old, new) = {} THEN old ELSE new
    BY <1>6 DEF Upgrade
  <2>2. PICK new \in Locks(manifest, Unlock(old, named)) :
            lockfile' = IF UpgradeDiff(old, new) = {} THEN old ELSE new
    BY <2>1
  <2>3. IsLocked(old)
    BY EnsuredGood
  <2>4. IsSeed(Unlock(old, named))
    BY <2>3, UnlockIsSeed
  <2>5. IsLocked(new)
    BY <2>4, LockIsGood DEF Locks
  <2> QED BY <2>2, <2>3, <2>5 DEF Good
<1>7. ASSUME NEW names, IncludeUpgrade(names)
      PROVE  Good(lockfile')
  <2>1. PICK old \in Ensured : lockfile' \in LocksUpgrading(manifest, old, names, names = {})
    BY <1>7 DEF IncludeUpgrade
  <2>2. IsSeed(old)
    BY EnsuredGood DEF IsLocked, IsSeed
  <2> QED BY <2>1, <2>2, LockIsGood DEF Good
<1>8. CASE RemoveLockfile
  BY <1>8 DEF RemoveLockfile, Good
<1>9. ASSUME NEW m \in Manifests, HandEdit(m)
      PROVE  Good(lockfile')
  BY <1>9 DEF HandEdit
<1>10. CASE PublishPage \/ FlakeMoves
  BY <1>10 DEF PublishPage, FlakeMoves
<1>11. ASSUME NEW d \in Includes, NEW m, OtherChanges(d, m)
       PROVE  Good(lockfile')
  BY <1>11 DEF OtherChanges
<1>12. CASE UNCHANGED vars
  BY <1>12 DEF vars
<1> QED
  BY <1>1, <1>2, <1>3, <1>4, <1>5, <1>6, <1>7, <1>8, <1>9, <1>10, <1>11, <1>12 DEF Next

-----------------------------------------------------------------------------
(* What a lock takes over from its seed.                                   *)

PackagesPinned(old, new, renewed) ==
    \A k \in DOMAIN old.packages \cap DOMAIN new.packages :
        \/ k \in renewed
        \/ "catalog" \notin {old.packages[k].kind, new.packages[k].kind}
        \/ Invalidates(Descriptor(old.manifest, k), Descriptor(new.manifest, k))
        \/ new.packages[k].drv = old.packages[k].drv

IncludesPinned(old, new, upgrade, all) ==
    \A n \in DOMAIN old.include, o \in DOMAIN new.include :
        old.include[n].descriptor = new.include[o].descriptor =>
            \/ all \/ NameOf(old.include[n].descriptor) \in upgrade
            \/ old.include[n].manifest = new.include[o].manifest

\* NoLockfile is the absence of manifest.lock, and no lockfile.
NoLockfileIsNone ==
    \A m, composer, include, packages :
        NoLockfile # [manifest |-> m, composer |-> composer, include |-> include,
                      packages |-> packages]

\* A package that is still locked is kept with its group, or pinned in the
\* request for it.
LEMMA LockPinsPackages ==
    ASSUME NEW m, NEW seed, Consistent(seed), seed # NoLockfile, NEW upgrade, NEW all,
           NEW l \in LocksUpgrading(m, seed, upgrade, all)
    PROVE  PackagesPinned(seed, l, {})
<1> DEFINE includes == LockedIncludes(m, seed, upgrade, all)
           merged == MergeManifest(m, includes)
           packages(c) == [k \in Wanted(merged) |-> LockPackage(merged, seed, c, k)]
<1>1. PICK c \in [GroupsToLock(merged, seed) -> 1..page] :
          /\ Resolvable(merged, seed, c)
          /\ l = [manifest |-> merged, composer |-> m, include |-> includes,
                  packages |-> packages(c)]
  BY DEF LocksUpgrading
<1> HIDE DEF includes, merged
<1> SUFFICES ASSUME NEW k \in DOMAIN seed.packages, k \in Wanted(merged),
                    "catalog" \in {seed.packages[k].kind, l.packages[k].kind},
                    ~ Invalidates(Descriptor(seed.manifest, k), Descriptor(merged, k))
             PROVE  l.packages[k].drv = seed.packages[k].drv
  BY <1>1 DEF PackagesPinned
<1> DEFINE g == GroupName(Descriptor(merged, k))
<1>2. Agrees(seed.manifest, k, seed.packages[k]) /\ k \in Wanted(seed.manifest)
  BY DEF Consistent
<1>3. l.packages[k] = LockPackage(merged, seed, c, k) /\ Agrees(merged, k, l.packages[k])
  BY <1>1, LockAgrees DEF IsSeed
<1>4. Descriptor(merged, k).kind = "catalog" /\ seed.packages[k].kind = "catalog"
  BY <1>2, <1>3 DEF Invalidates, Agrees
<1>5. k[1] \in DOMAIN seed.manifest.install
  BY <1>2 DEF Wanted
<1>6. StillLocked(merged, seed, k)
  BY <1>4, <1>5 DEF StillLocked
<1>7. l.packages[k] = LockCatalog(merged, seed, c, k)
  BY <1>3, <1>4 DEF LockPackage
<1>8. CASE g \in DOMAIN c
  <2>1. g \in GroupsOf(merged) /\ k \in InGroup(merged, g)
    BY <1>4 DEF GroupsOf, InGroup, OfKind
  <2>2. OnPage(merged, seed, k, c[g])
    BY <1>1, <1>8, <2>1 DEF Resolvable
  <2> QED BY <1>6, <1>7, <1>8, <2>2 DEF LockCatalog, Resolved, OnPage
<1>9. CASE g \notin DOMAIN c
  <2>1. l.packages[k] = Kept(merged, seed, k)
    BY <1>7, <1>9 DEF LockCatalog
  <2> QED BY <1>2, <2>1 DEF Kept, Agrees, IsPackage
<1> QED BY <1>8, <1>9

\* An include that is not to be upgraded is found in the seed, and only once.
LEMMA LockPinsIncludes ==
    ASSUME NEW m, NEW seed, Consistent(seed), seed # NoLockfile, NEW upgrade, NEW all,
           NEW l \in LocksUpgrading(m, seed, upgrade, all)
    PROVE  IncludesPinned(seed, l, upgrade, all)
<1> DEFINE includes == LockedIncludes(m, seed, upgrade, all)
<1>1. l.include = includes
  BY DEF LocksUpgrading
<1> SUFFICES ASSUME NEW n \in DOMAIN seed.include, NEW o \in DOMAIN includes,
                    seed.include[n].descriptor = includes[o].descriptor,
                    ~ all, NameOf(seed.include[n].descriptor) \notin upgrade
             PROVE  seed.include[n].manifest = includes[o].manifest
  BY <1>1 DEF IncludesPinned
<1> DEFINE d == m.include[o]
<1>2. o \in DOMAIN m.include /\ includes[o] = IncludeFor(seed, d, upgrade, all)
  BY DEF LockedIncludes
<1>3. includes[o] = [descriptor |-> d, manifest |-> includes[o].manifest]
  <2>1. IsSeed(seed) /\ includes = LockedIncludes(m, seed, upgrade, all)
    BY DEF IsSeed
  <2> HIDE DEF includes
  <2> QED BY <1>2, <2>1, IncludesComposed
<1> HIDE DEF includes
<1>4. d = seed.include[n].descriptor
  BY <1>3
<1>5. DOMAIN seed.include = DOMAIN seed.composer.include
  BY DEF Consistent, Composed
<1>6. \A p \in DOMAIN seed.include : seed.include[p].descriptor = seed.composer.include[p]
  BY DEF Consistent, Composed
<1>7. LockedInclude(seed, d) = {n}
  BY <1>4, <1>5, <1>6 DEF LockedInclude, Consistent, Composed
<1>8. ~ Fetched(seed, d, upgrade, all)
  BY <1>4, <1>7 DEF Fetched
<1> QED BY <1>2, <1>7, <1>8 DEF IncludeFor

LEMMA LockPins ==
    ASSUME NEW m, NEW seed, IsLocked(seed), seed # NoLockfile, NEW l \in Locks(m, seed)
    PROVE  PackagesPinned(seed, l, {}) /\ IncludesPinned(seed, l, {}, FALSE)
BY LockPinsPackages, LockPinsIncludes DEF Locks, IsLocked

\* A lockfile that is not written pins itself.
LEMMA SelfPins ==
    ASSUME NEW l, IsLocked(l), NEW renewed, NEW upgrade, NEW all
    PROVE  PackagesPinned(l, l, renewed) /\ IncludesPinned(l, l, upgrade, all)
<1>1. DOMAIN l.include = DOMAIN l.composer.include
  BY DEF IsLocked, Consistent, Composed
<1>2. \A n \in DOMAIN l.include : l.include[n].descriptor = l.composer.include[n]
  BY DEF IsLocked, Consistent, Composed
<1>3. IncludesPinned(l, l, upgrade, all)
  BY <1>1, <1>2 DEF IncludesPinned, IsLocked, Consistent, Composed
<1> QED BY <1>3 DEF PackagesPinned

\* An upgrade pins what it does not unlock.
LEMMA UpgradePins ==
    ASSUME NoLockfileIsNone, NEW m, NEW old, IsLocked(old), NEW named,
           NEW new \in Locks(m, Unlock(old, named))
    PROVE  PackagesPinned(old, new, Named(old, named)) /\ IncludesPinned(old, new, {}, FALSE)
<1> DEFINE seed == Unlock(old, named)
           kept == [k \in DOMAIN old.packages \ Named(old, named) |-> old.packages[k]]
<1>1. IsLockfile(old)
  BY DEF IsLocked, Consistent
<1>2. seed = [manifest |-> old.manifest, composer |-> old.composer,
              include |-> old.include, packages |-> kept]
  BY <1>1 DEF Unlock, IsLockfile
<1>3. seed # NoLockfile
  BY <1>2 DEF NoLockfileIsNone
<1>4. PackagesPinned(seed, new, {}) /\ IncludesPinned(seed, new, {}, FALSE)
  BY <1>3, UnlockIsSeed, LockPinsPackages, LockPinsIncludes DEF Locks, IsSeed
<1>5. \A k \in DOMAIN old.packages \ Named(old, named) :
          k \in DOMAIN kept /\ kept[k] = old.packages[k]
  OBVIOUS
<1> HIDE DEF seed, kept
<1>6. PackagesPinned(old, new, Named(old, named))
  BY <1>2, <1>4, <1>5 DEF PackagesPinned
<1> QED BY <1>2, <1>4, <1>6 DEF IncludesPinned

\* The two parts of PinnedStep.
PinnedFrom(renewed, upgrade, all) ==
    PackagesPinned(lockfile, lockfile', renewed) /\ IncludesPinned(lockfile, lockfile', upgrade, all)

LEMMA UnchangedPins ==
    ASSUME Good(lockfile), lockfile # NoLockfile, lockfile' = lockfile,
           NEW renewed, NEW upgrade, NEW all
    PROVE  PinnedFrom(renewed, upgrade, all)
BY SelfPins DEF PinnedFrom, Good

LEMMA LockedPins ==
    ASSUME Good(lockfile), lockfile # NoLockfile, NEW m, lockfile' \in Locks(m, lockfile)
    PROVE  PinnedFrom({}, {}, FALSE)
BY LockPins DEF PinnedFrom, Good

LEMMA TransactPins ==
    ASSUME Good(lockfile), lockfile # NoLockfile, NEW m, Transact(m, lockfile)
    PROVE  PinnedFrom({}, {}, FALSE)
BY UnchangedPins, LockedPins DEF Transact

\* The lockfile that a command finds up to date is the seed of its transaction.
LEMMA UpToDateSeeds ==
    ASSUME Good(lockfile), UpToDate
    PROVE  Ensured = {lockfile} /\ Locks(manifest, lockfile) = {lockfile}
BY RelockSame DEF Ensured, UpToDate, UserManifest, Good

LEMMA StepPins ==
    ASSUME NoLockfileIsNone, Good(lockfile), Next, NoLockfile \notin {lockfile, lockfile'},
           UpToDate \/ Lock
    PROVE  PinnedFrom(asked'.packages, asked'.includes, asked'.all)
<1> DEFINE Renewed(p, i, a) == asked'.packages = p /\ asked'.includes = i /\ asked'.all = a
<1>1. Asks(Nothing) => Renewed({}, {}, FALSE)
  BY DEF Asks, Nothing
<1>2. CASE Lock
  <2>1. lockfile' = lockfile \/ lockfile' \in Locks(manifest, lockfile)
    BY <1>2 DEF Lock, Ensured
  <2>2. PinnedFrom({}, {}, FALSE)
    BY <2>1, UnchangedPins, LockedPins
  <2> QED BY <1>1, <1>2, <2>2 DEF Lock
<1>3. CASE UpToDate
  <2>1. Ensured = {lockfile} /\ Locks(manifest, lockfile) = {lockfile}
    BY <1>3, UpToDateSeeds
  <2>2. CASE lockfile' = lockfile
    BY <2>2, UnchangedPins
  <2>3. ASSUME NEW i \in Ids, NEW d \in Descriptors, Install(i, d)
        PROVE  PinnedFrom({}, {}, FALSE) /\ Renewed({}, {}, FALSE)
    <3>1. \/ lockfile' = lockfile
          \/ Transact([manifest EXCEPT !.install = (i :> d) @@ @], lockfile)
      BY <2>1, <2>3 DEF Install
    <3> QED BY <1>1, <2>3, <3>1, UnchangedPins, TransactPins DEF Install
  <2>4. ASSUME NEW i \in Ids, Uninstall(i)
        PROVE  PinnedFrom({}, {}, FALSE) /\ Renewed({}, {}, FALSE)
    <3>1. \/ lockfile' = lockfile
          \/ Transact([manifest EXCEPT !.install = [j \in DOMAIN @ \ {i} |-> @[j]]], lockfile)
      BY <2>1, <2>4 DEF Uninstall
    <3> QED BY <1>1, <2>4, <3>1, UnchangedPins, TransactPins DEF Uninstall
  <2>5. ASSUME NEW m \in Manifests, Edit(m)
        PROVE  PinnedFrom({}, {}, FALSE) /\ Renewed({}, {}, FALSE)
    BY <1>1, <2>5, TransactPins DEF Edit
  <2>6. ASSUME NEW m \in Manifests, EditUnsafe(m)
        PROVE  PinnedFrom({}, {}, FALSE) /\ Renewed({}, {}, FALSE)
    <3>1. lockfile' = lockfile \/ lockfile' \in Locks(m, lockfile)
      BY <2>1, <2>6 DEF EditUnsafe
    <3> QED BY <1>1, <2>6, <3>1, UnchangedPins, LockedPins DEF EditUnsafe
  <2>7. ASSUME NEW named, Upgrade(named)
        PROVE  PinnedFrom(asked'.packages, asked'.includes, asked'.all)
    <3>1. PICK new \in Locks(manifest, Unlock(lockfile, named)) :
              /\ lockfile' = IF UpgradeDiff(lockfile, new) = {} THEN lockfile ELSE new
              /\ Renewed(Named(lockfile, named), {}, FALSE)
      BY <2>1, <2>7 DEF Upgrade, Asks
    <3>2. CASE lockfile' = new
      BY <3>1, <3>2, UpgradePins DEF PinnedFrom, Good
    <3> QED BY <2>2, <3>1, <3>2
  <2>8. ASSUME NEW names, IncludeUpgrade(names)
        PROVE  PinnedFrom(asked'.packages, asked'.includes, asked'.all)
    <3>1. /\ lockfile' \in LocksUpgrading(manifest, lockfile, names, names = {})
          /\ Renewed({}, names, names = {})
      BY <2>1, <2>8 DEF IncludeUpgrade, Asks
    <3> QED BY <3>1, LockPinsPackages, LockPinsIncludes DEF PinnedFrom, Good, IsLocked
  <2>9. CASE RemoveLockfile
    BY <2>9 DEF RemoveLockfile
  <2>10. ASSUME NEW m \in Manifests, HandEdit(m)
         PROVE  lockfile' = lockfile
    BY <2>10 DEF HandEdit
  <2>11. CASE PublishPage \/ FlakeMoves
    BY <2>2, <2>11 DEF PublishPage, FlakeMoves
  <2>12. ASSUME NEW d \in Includes, NEW m, OtherChanges(d, m)
         PROVE  lockfile' = lockfile
    BY <2>12 DEF OtherChanges
  <2> QED
    BY <1>2, <2>2, <2>3, <2>4, <2>5, <2>6, <2>7, <2>8, <2>9, <2>10, <2>11, <2>12 DEF Next
<1> QED BY <1>2, <1>3

-----------------------------------------------------------------------------
LEMMA GoodInvariant == Spec => []Good(lockfile)
<1>1. Good(lockfile) /\ [Next]_vars => Good(lockfile)'
  BY StepGood
<1> QED BY <1>1, InitGood, PTL DEF Spec

\* Whatever resolve_manifest keeps of a seed and resolves anew, the lockfile has
\* exactly the packages of its manifest, with the manifest's kinds, groups and
\* priorities, and nothing the manifest forbids.
THEOREM Complete == Spec => []LockfileComplete
<1>1. Good(lockfile) => LockfileComplete
  BY DEF Good, IsLocked, Consistent, Agrees, LockfileComplete
<1> QED BY <1>1, GoodInvariant, PTL

\* Locking what is up to date changes nothing: every include, every catalog
\* group and every flake is found in the lockfile, and kept.
THEOREM Relocked == Spec => []RelockStable
<1>1. Good(lockfile) => RelockStable
  BY RelockSame DEF Good, RelockStable, UpToDate, UserManifest
<1> QED BY <1>1, GoodInvariant, PTL

\* The packages of a group are always from one page of the catalog, since
\* split_fully_locked_groups keeps a group as a whole or not at all.
THEOREM OnePageEach == Spec => []GroupOnePage
<1>1. Good(lockfile) => GroupOnePage
  BY DEF Good, IsLocked, Consistent, OnePage, GroupOnePage
<1> QED BY <1>1, GoodInvariant, PTL

\* Nothing moves that was not asked to: where the lockfile is up to date, and in
\* every lock, a catalog package keeps its derivation and an include its
\* manifest unless the command renews it or the manifest invalidates it.
THEOREM PinnedAlways == NoLockfileIsNone => (Spec => Pinned)
<1> SUFFICES ASSUME NoLockfileIsNone
             PROVE  Spec => Pinned
  OBVIOUS
<1>1. Good(lockfile) /\ [Next]_vars => [PinnedStep]_vars
  <2> SUFFICES ASSUME Good(lockfile), Next, NoLockfile \notin {lockfile, lockfile'},
                      UpToDate \/ Lock
               PROVE  PinnedStep
    BY DEF PinnedStep
  <2> QED BY StepPins DEF PinnedStep, PinnedFrom, PackagesPinned, IncludesPinned
<1> QED BY <1>1, GoodInvariant, PTL DEF Spec, Pinned
=============================================================================
