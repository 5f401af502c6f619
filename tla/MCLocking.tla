------------------------------ MODULE MCLocking ------------------------------
(***************************************************************************)
(* Locking for TLC: two packages that share a group or not, one of which   *)
(* may be a flake, and two environments to include.  The first page lacks  *)
(* q; the second has q and the p of the first; the third renews both.      *)
(***************************************************************************)
EXTENDS Locking

Catalog(path, group, priority) ==
    [path |-> path, group |-> group, priority |-> priority, kind |-> "catalog", systems |-> {}]

Flake(priority) ==
    [path |-> "f", group |-> NoGroup, priority |-> priority, kind |-> "flake", systems |-> {}]

Derivations == [p |-> <<1, 1, 2>>, q |-> <<0, 1, 2>>]

MCProvides(path, system, at) ==
    IF Derivations[path][at] = 0 THEN NoDerivation ELSE <<path, system, Derivations[path][at]>>

MCUnfree == {<<"q", "s1", 2>>}
MCNameOf(d) == d

MCDescriptors == {Catalog("p", NoGroup, 1), Catalog("q", "g", 1)}

Manifest(install, systems, unfree, include) ==
    [systems |-> systems, install |-> install, unfree |-> unfree, include |-> include]

MCManifests ==
    {Manifest(("a" :> Catalog("p", NoGroup, 1)), {"s1"}, {}, <<>>),
     Manifest(("a" :> Catalog("p", NoGroup, 2)) @@ ("b" :> Catalog("q", NoGroup, 1)), {"s1"}, {}, <<>>),
     Manifest(("a" :> Catalog("p", "g", 1)) @@ ("b" :> Catalog("q", "g", 1)), {}, {}, <<>>),
     Manifest(("a" :> Catalog("p", NoGroup, 1)), {}, {"no"}, <<"e1">>),
     Manifest(("b" :> Flake(1)), {"s1"}, {}, <<"e1", "e2">>)}

MCOtherManifests(d) ==
    IF d = "e1"
    THEN {Manifest(("b" :> Catalog("q", NoGroup, 1)), {}, {}, <<>>),
          Manifest(("b" :> Catalog("q", "g", 2)), {"s1"}, {"no"}, <<>>)}
    ELSE {Manifest(("b" :> Catalog("q", "g", 1)), {}, {"yes"}, <<>>), OutOfSync}
=============================================================================
