\* Two packages, two includes, three pages of the catalog.
CONSTANTS
    Ids = {"a", "b"}
    Systems = {"s1", "s2"}
    Descriptors <- MCDescriptors
    Provides <- MCProvides
    Unfree <- MCUnfree
    Includes = {"e1", "e2"}
    NameOf <- MCNameOf
    Manifests <- MCManifests
    OtherManifests <- MCOtherManifests
    MaxPage = 3
    MaxRev = 2
    NoGroup = NoGroup
    NoDerivation = NoDerivation
    NoLockfile = NoLockfile
    OutOfSync = OutOfSync
SPECIFICATION Spec
INVARIANTS GroupOnePage LockfileComplete RelockStable
PROPERTIES Pinned
