------------------------------- MODULE Locking -------------------------------
(***************************************************************************)
(* The manifest of an environment, the manifests it includes and the       *)
(* lockfile made of them: CoreEnvironment's commands and LockManifest.     *)
(*                                                                         *)
(* A package is asked for on each of its systems, and a lockfile maps the  *)
(* pairs <<install id, system>> to what was found for them.  The catalog   *)
(* publishes pages; it answers for a whole package group at a time, with   *)
(* one page that has every package of the group, and with the derivations  *)
(* the request pins.  Which of these pages it takes is not promised.       *)
(* Flakes and included environments change on their own.                   *)
(*                                                                         *)
(* Left out: the version of the schema, package outputs (they take no part *)
(* in resolution: the field "priority" stands for them too) and the        *)
(* sections of the manifest that are merged and not resolved.              *)
(***************************************************************************)
EXTENDS Naturals, Sequences, FiniteSetsExt, TLC

CONSTANTS
    Ids,            \* install ids
    Systems,        \* DEFAULT_SYSTEMS_STR
    Descriptors,    \* what [install] may say of a package
    Provides(_, _, _),  \* the derivation of a path for a system on a page, or NoDerivation
    Unfree,         \* the unfree derivations
    Includes,       \* include descriptors: one for every environment to include
    NameOf(_),      \* the name of an include, here one for each descriptor
    Manifests,      \* what a user may write into manifest.toml
    OtherManifests(_),  \* the locked manifests an included environment may have
    MaxPage,        \* bounds: pages the catalog publishes, revisions of the flakes
    MaxRev,
    NoGroup,        \* pkg-group is not given
    NoDerivation,
    NoLockfile,
    OutOfSync       \* an environment whose lockfile is not up to date

Default == "toplevel"   \* DEFAULT_GROUP_NAME
Unset == {}             \* an option that is not given: systems, unfree

VARIABLES
    manifest,   \* manifest.toml
    lockfile,   \* manifest.lock
    page,       \* the newest page of the catalog
    rev,        \* the current revision of the flakes
    others,     \* the locked manifest of every environment that may be included
    asked       \* history: the packages and includes the last step was told to renew

vars == <<manifest, lockfile, page, rev, others, asked>>

-----------------------------------------------------------------------------
(* ShallowMerger: of the manifests that set a key, the last one decides.   *)

LastOf(stack, setters) == stack[Max(setters)]

MergeInstall(stack) ==
    [i \in UNION {DOMAIN stack[n].install : n \in DOMAIN stack} |->
        LastOf(stack, {n \in DOMAIN stack : i \in DOMAIN stack[n].install}).install[i]]

MergeOption(stack, option) ==
    LET setters == {n \in DOMAIN stack : stack[n][option] # Unset}
    IN  IF setters = {} THEN Unset ELSE LastOf(stack, setters)[option]

MergeAll(composer, deps) ==
    LET stack == Append(deps, composer)
    IN  [install |-> MergeInstall(stack),
         systems |-> MergeOption(stack, "systems"),
         unfree |-> MergeOption(stack, "unfree"),
         include |-> <<>>]

-----------------------------------------------------------------------------
(* Included environments.                                                  *)

UserManifest(l) == l.composer

UpToDate == lockfile # NoLockfile /\ manifest = UserManifest(lockfile)

LockedInclude(seed, d) == {n \in DOMAIN seed.include : seed.include[n].descriptor = d}

\* Mutant: every lock fetches every include.
FetchedEveryTime(seed, d, upgrade, all) == TRUE

\* An include that the seed has is fetched again only if it is to be upgraded.
Fetched(seed, d, upgrade, all) ==
    all \/ seed = NoLockfile \/ LockedInclude(seed, d) = {} \/ NameOf(d) \in upgrade

\* Names are unique in a lockfile, and so are descriptors: one at most is found.
IncludeFor(seed, d, upgrade, all) ==
    IF Fetched(seed, d, upgrade, all)
    THEN [descriptor |-> d, manifest |-> others[d]]
    ELSE seed.include[CHOOSE n \in LockedInclude(seed, d) : TRUE]

\* merge_manifest: includes in the order of the manifest; a missing or outdated
\* environment, two of one name and an unknown name to upgrade are errors.
MergeFails(m, seed, upgrade, all) ==
    LET names == {NameOf(m.include[n]) : n \in DOMAIN m.include}
    IN  \/ (all \/ upgrade # {}) /\ m.include = <<>>
        \/ \E n \in DOMAIN m.include :
              IncludeFor(seed, m.include[n], upgrade, all).manifest = OutOfSync
        \/ \E n, o \in DOMAIN m.include : n # o /\ NameOf(m.include[n]) = NameOf(m.include[o])
        \/ ~ upgrade \subseteq names

LockedIncludes(m, seed, upgrade, all) ==
    [n \in DOMAIN m.include |-> IncludeFor(seed, m.include[n], upgrade, all)]

MergeManifest(m, includes) ==
    IF m.include = <<>> THEN m
    ELSE MergeAll(m, [n \in DOMAIN includes |-> includes[n].manifest])

-----------------------------------------------------------------------------
(* Packages wanted, and what the seed lockfile has of them.                *)

GroupName(d) == IF d.group = NoGroup THEN Default ELSE d.group

AvailableSystems(m) == IF m.systems = Unset THEN Systems ELSE m.systems

SystemsOf(m, d) == IF d.systems = Unset THEN AvailableSystems(m) ELSE d.systems

Wanted(m) ==
    UNION {{i} \X SystemsOf(m, m.install[i]) : i \in DOMAIN m.install}

Descriptor(m, k) == m.install[k[1]]

OfKind(m, kind) == {k \in Wanted(m) : Descriptor(m, k).kind = kind}

GroupsOf(m) == {GroupName(Descriptor(m, k)) : k \in OfKind(m, "catalog")}

InGroup(m, g) == {k \in OfKind(m, "catalog") : GroupName(Descriptor(m, k)) = g}

\* The path of a catalog package stands for its version constraint as well.
Invalidates(d, e) ==
    CASE d.kind = "catalog" /\ e.kind = "catalog" -> d.path # e.path \/ d.group # e.group
      [] d.kind = "flake" /\ e.kind = "flake" -> d # e
      [] OTHER -> TRUE

\* make_seed_mapping, and the filter on the descriptor and the kind of lock.
StillLocked(m, seed, k) ==
    /\ seed # NoLockfile
    /\ k \in DOMAIN seed.packages
    /\ k[1] \in DOMAIN seed.manifest.install
    /\ ~ Invalidates(Descriptor(seed.manifest, k), Descriptor(m, k))
    /\ seed.packages[k].kind = Descriptor(m, k).kind

FullyLocked(m, seed, g) == \A k \in InGroup(m, g) : StillLocked(m, seed, k)

\* split_fully_locked_groups
GroupsToLock(m, seed) == {g \in GroupsOf(m) : ~ FullyLocked(m, seed, g)}

\* split_locked_flake_installables: all systems of a flake, or none.
FlakeLocked(m, seed, i) ==
    \A s \in SystemsOf(m, m.install[i]) : StillLocked(m, seed, <<i, s>>)

-----------------------------------------------------------------------------
(* resolve_manifest.  chosen[g] is the page the catalog takes for group g. *)

Resolved(m, k, at) ==
    LET d == Descriptor(m, k)
    IN  [kind |-> "catalog", drv |-> Provides(d.path, k[2], at), page |-> at,
         group |-> GroupName(d), priority |-> d.priority]

\* Mutant: the priority is that of the seed.
KeptAsIs(m, seed, k) == seed.packages[k]

\* The seed's own lock, with the priority of the manifest.
Kept(m, seed, k) == [seed.packages[k] EXCEPT !.priority = Descriptor(m, k).priority]

\* Mutant: of a group that is resolved, the packages still locked are kept.
LockCatalogSingly(m, seed, chosen, k) ==
    LET g == GroupName(Descriptor(m, k))
    IN  IF g \in DOMAIN chosen /\ ~ StillLocked(m, seed, k)
        THEN Resolved(m, k, chosen[g]) ELSE Kept(m, seed, k)

LockCatalog(m, seed, chosen, k) ==
    LET g == GroupName(Descriptor(m, k))
    IN  IF g \in DOMAIN chosen THEN Resolved(m, k, chosen[g]) ELSE Kept(m, seed, k)

\* Every descriptor has a priority here: that of the flake's meta, which the
\* locker takes when none is set, is left out.
LockFlake(m, seed, k) ==
    IF FlakeLocked(m, seed, k[1]) THEN seed.packages[k]
    ELSE [kind |-> "flake", drv |-> <<Descriptor(m, k).path, rev>>, page |-> 0,
          group |-> Default, priority |-> Descriptor(m, k).priority]

LockStorePath(m, k) ==
    [kind |-> "store", drv |-> NoDerivation, page |-> 0, group |-> Default,
     priority |-> Descriptor(m, k).priority]

LockPackage(m, seed, chosen, k) ==
    CASE Descriptor(m, k).kind = "catalog" -> LockCatalog(m, seed, chosen, k)
      [] Descriptor(m, k).kind = "flake" -> LockFlake(m, seed, k)
      [] OTHER -> LockStorePath(m, k)

\* check_packages_are_allowed: unfree packages are allowed unless forbidden.
\* Broken packages and the list of licenses are the same kind of check.
Allowed(m, drv) == m.unfree # {"no"} \/ drv \notin Unfree

\* Mutant: the derivations of the seed are not part of the request.
OnPageUnpinned(m, seed, k, at) ==
    LET drv == Provides(Descriptor(m, k).path, k[2], at)
    IN  drv # NoDerivation /\ Allowed(m, drv)

\* The catalog has package k on page "at", with the derivation that is pinned.
OnPage(m, seed, k, at) ==
    LET drv == Provides(Descriptor(m, k).path, k[2], at)
    IN  /\ drv # NoDerivation
        /\ StillLocked(m, seed, k) => drv = seed.packages[k].drv
        /\ Allowed(m, drv)

\* Neither a package for a system the manifest does not have, nor one that is
\* locked and no longer allowed, nor a group for which there is no page.
Resolvable(m, seed, chosen) ==
    /\ \A k \in OfKind(m, "catalog") : Descriptor(m, k).systems \subseteq AvailableSystems(m)
    /\ \A g \in GroupsOf(m) : \A k \in InGroup(m, g) :
          IF g \in DOMAIN chosen THEN OnPage(m, seed, k, chosen[g])
                                 ELSE Allowed(m, seed.packages[k].drv)

\* lock_manifest_with_include_upgrades: the lockfiles it may return; none if it
\* fails.  upgrade and all say which includes to fetch again.
LocksUpgrading(m, seed, upgrade, all) ==
    LET includes == LockedIncludes(m, seed, upgrade, all)
        merged == MergeManifest(m, includes)
    IN  IF MergeFails(m, seed, upgrade, all) THEN {}
        ELSE {[manifest |-> merged, composer |-> m, include |-> includes,
               packages |-> [k \in Wanted(merged) |-> LockPackage(merged, seed, chosen, k)]] :
                 chosen \in {c \in [GroupsToLock(merged, seed) -> 1..page] :
                               Resolvable(merged, seed, c)}}

Locks(m, seed) == LocksUpgrading(m, seed, {}, FALSE)

\* ensure_locked
Ensured == IF UpToDate THEN {lockfile} ELSE Locks(manifest, lockfile)

-----------------------------------------------------------------------------
(* Commands.  Each of them first brings the lockfile up to date, and then  *)
(* makes a transaction of its own; where that fails, in resolution or when *)
(* the environment is built, what was locked before it stays.              *)

Asks(what) == asked' = what

Nothing == [packages |-> {}, includes |-> {}, all |-> FALSE]

\* CoreEnvironment::lock, by any command that needs the lockfile.
Lock ==
    /\ lockfile' \in Ensured
    /\ Asks(Nothing)
    /\ UNCHANGED <<manifest, page, rev, others>>

\* transact_with_manifest, with the seed already on disk.
Transact(m, seed) ==
    \/ manifest' = m /\ lockfile' \in Locks(m, seed)
    \/ manifest' = manifest /\ lockfile' = seed

Install(i, d) ==
    /\ \E first \in Ensured : \E seed \in Locks(manifest, first) :
          IF i \in DOMAIN manifest.install
          THEN manifest' = manifest /\ lockfile' = seed
          ELSE Transact([manifest EXCEPT !.install = (i :> d) @@ @], seed)
    /\ Asks(Nothing)
    /\ UNCHANGED <<page, rev, others>>

\* A package that only an include has cannot be uninstalled.
Uninstall(i) ==
    /\ \E seed \in Locks(manifest, lockfile) :
          IF i \notin DOMAIN manifest.install
          THEN manifest' = manifest /\ lockfile' = seed
          ELSE Transact([manifest EXCEPT !.install =
                            [j \in DOMAIN @ \ {i} |-> @[j]]], seed)
    /\ Asks(Nothing)
    /\ UNCHANGED <<page, rev, others>>

Edit(m) ==
    /\ ~ (m = manifest /\ UpToDate)
    /\ Transact(m, lockfile)
    /\ Asks(Nothing)
    /\ UNCHANGED <<page, rev, others>>

\* edit_unsafe keeps the new manifest even if it cannot be locked.
EditUnsafe(m) ==
    /\ m # manifest
    /\ \E seed \in Ensured \cup {lockfile} : lockfile' \in Locks(m, seed) \cup {seed}
    /\ manifest' = m
    /\ Asks(Nothing)
    /\ UNCHANGED <<page, rev, others>>

\* ensure_valid_upgrade: ids and groups of the manifest itself, and no id that
\* shares its group with another one there.
ValidUpgrade(named) ==
    LET catalog == {i \in DOMAIN manifest.install : manifest.install[i].kind = "catalog"}
        group(i) == manifest.install[i].group
    IN  /\ named \subseteq DOMAIN manifest.install \cup {Default} \cup {group(i) : i \in catalog}
        /\ \A i \in named \cap catalog : \A j \in catalog \ {i} : group(j) # group(i)

Named(l, named) ==
    {k \in DOMAIN l.packages :
        \/ named = {} \/ k[1] \in named
        \/ l.packages[k].kind = "catalog" /\ l.packages[k].group \in named}

\* unlock_specified_packages_or_groups
Unlock(l, named) ==
    [l EXCEPT !.packages = [k \in DOMAIN @ \ Named(l, named) |-> @[k]]]

\* UpgradeResult::diff
UpgradeDiff(old, new) ==
    {k \in DOMAIN old.packages \cap DOMAIN new.packages :
        /\ NoDerivation \notin {old.packages[k].drv, new.packages[k].drv}
        /\ old.packages[k].drv # new.packages[k].drv}

\* The new lockfile is written only if a derivation changed.
Upgrade(named) ==
    /\ ValidUpgrade(named)
    /\ \E old \in Ensured : \E new \in Locks(manifest, Unlock(old, named)) :
          /\ lockfile' = IF UpgradeDiff(old, new) = {} THEN old ELSE new
          /\ Asks([packages |-> Named(old, named), includes |-> {}, all |-> FALSE])
    /\ UNCHANGED <<manifest, page, rev, others>>

\* include_upgrade; no names mean all.
IncludeUpgrade(names) ==
    /\ \E old \in Ensured : lockfile' \in LocksUpgrading(manifest, old, names, names = {})
    /\ Asks([packages |-> {}, includes |-> names, all |-> names = {}])
    /\ UNCHANGED <<manifest, page, rev, others>>

-----------------------------------------------------------------------------
(* What happens around flox.                                               *)

\* A user changes manifest.toml with an editor, or removes the lockfile.
HandEdit(m) ==
    /\ manifest' = m
    /\ Asks(Nothing)
    /\ UNCHANGED <<lockfile, page, rev, others>>

RemoveLockfile ==
    /\ lockfile' = NoLockfile
    /\ Asks(Nothing)
    /\ UNCHANGED <<manifest, page, rev, others>>

PublishPage ==
    /\ page < MaxPage
    /\ page' = page + 1
    /\ Asks(Nothing)
    /\ UNCHANGED <<manifest, lockfile, rev, others>>

FlakeMoves ==
    /\ rev < MaxRev
    /\ rev' = rev + 1
    /\ Asks(Nothing)
    /\ UNCHANGED <<manifest, lockfile, page, others>>

OtherChanges(d, m) ==
    /\ others' = [others EXCEPT ![d] = m]
    /\ Asks(Nothing)
    /\ UNCHANGED <<manifest, lockfile, page, rev>>

-----------------------------------------------------------------------------
Init ==
    /\ manifest \in Manifests
    /\ lockfile = NoLockfile
    /\ page = 1
    /\ rev = 1
    /\ others \in {o \in [Includes -> UNION {OtherManifests(d) : d \in Includes}] :
                     \A d \in Includes : o[d] \in OtherManifests(d)}
    /\ asked = Nothing

GroupNames == {GroupName(d) : d \in {e \in Descriptors : e.kind = "catalog"}}

Names == {NameOf(d) : d \in Includes}

\* Several names have the effect of all of them; none stands for everything.
AtMostOne(S) == {{}} \cup {{x} : x \in S}

Next ==
    \/ Lock
    \/ \E i \in Ids, d \in Descriptors : Install(i, d)
    \/ \E i \in Ids : Uninstall(i)
    \/ \E m \in Manifests : Edit(m) \/ EditUnsafe(m) \/ HandEdit(m)
    \/ \E named \in AtMostOne(Ids \cup GroupNames) : Upgrade(named)
    \/ \E names \in AtMostOne(Names) : IncludeUpgrade(names)
    \/ RemoveLockfile
    \/ PublishPage
    \/ FlakeMoves
    \/ \E d \in Includes : \E m \in OtherManifests(d) : OtherChanges(d, m)

Spec == Init /\ [][Next]_vars

-----------------------------------------------------------------------------
(* Properties.                                                             *)

\* Every lockfile has exactly the packages its merged manifest asks for, each
\* with the kind, the group and the priority the manifest gives it, and none
\* that the manifest forbids: whatever was kept of the seed (resolve_manifest).
LockfileComplete ==
    lockfile # NoLockfile =>
        LET m == lockfile.manifest
        IN  /\ DOMAIN lockfile.packages = Wanted(m)
            /\ \A k \in Wanted(m) :
                  LET p == lockfile.packages[k] IN
                  /\ p.kind = "catalog" <=> Descriptor(m, k).kind = "catalog"
                  /\ p.kind = "flake" <=> Descriptor(m, k).kind = "flake"
                  /\ p.priority = Descriptor(m, k).priority
                  /\ p.kind = "catalog" =>
                        p.group = GroupName(Descriptor(m, k)) /\ Allowed(m, p.drv)

\* The packages of a group always come from one page of the catalog, also when
\* they were added, moved between groups, upgraded or composed at different
\* times: a group is kept as a whole or resolved as a whole.
GroupOnePage ==
    lockfile # NoLockfile =>
        \A j, k \in DOMAIN lockfile.packages :
            /\ lockfile.packages[j].kind = "catalog" /\ lockfile.packages[k].kind = "catalog"
            /\ GroupName(Descriptor(lockfile.manifest, j)) =
                  GroupName(Descriptor(lockfile.manifest, k))
            => lockfile.packages[j].page = lockfile.packages[k].page

\* A catalog package keeps its derivation, and an include its manifest, through
\* every command that was not asked to renew it: installing, removing, editing
\* and upgrading others included.  A command that finds the manifest edited by
\* hand locks it first, and so lets go of what the edit removed.
PinnedStep ==
    NoLockfile \notin {lockfile, lockfile'} /\ (UpToDate \/ Lock) =>
        /\ \A k \in DOMAIN lockfile.packages \cap DOMAIN lockfile'.packages :
              \/ k \in asked'.packages
              \/ "catalog" \notin {lockfile.packages[k].kind, lockfile'.packages[k].kind}
              \/ Invalidates(Descriptor(lockfile.manifest, k), Descriptor(lockfile'.manifest, k))
              \/ lockfile'.packages[k].drv = lockfile.packages[k].drv
        /\ \A n \in DOMAIN lockfile.include, o \in DOMAIN lockfile'.include :
              lockfile.include[n].descriptor = lockfile'.include[o].descriptor =>
                 \/ asked'.all \/ NameOf(lockfile.include[n].descriptor) \in asked'.includes
                 \/ lockfile.include[n].manifest = lockfile'.include[o].manifest

Pinned == [][PinnedStep]_vars

\* Locking an environment that is up to date changes nothing, however the
\* catalog, the flakes and the included environments have moved on since.
RelockStable == UpToDate => Locks(manifest, lockfile) = {lockfile}

=============================================================================
