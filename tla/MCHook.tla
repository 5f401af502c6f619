-------------------------------- MODULE MCHook --------------------------------
(***************************************************************************)
(* AutoActivation for TLC: an environment within another one, and a remote *)
(* one.  Either the hook asks about environments nobody decided about and  *)
(* something goes wrong, or both are allowed and the user changes a        *)
(* preference.                                                             *)
(***************************************************************************)
EXTENDS AutoActivation

MCDirs == {<<"a">>, <<"a", "b">>}
MCPlaces == MCDirs \cup {<<>>}
MCInPlace == {<<"a">>, Remote}
MCInShell == {<<"a">>}

MCInit ==
    /\ Init
    /\ Top.cwd = <<>>
    /\ \A d \in Dirs : config[d] = IF ask THEN "unset" ELSE "allow"
    /\ prefs = IF ask THEN MaxPrefs ELSE 0
    /\ faults = IF ask THEN 0 ELSE MaxFaults

MCSpec == MCInit /\ [][Next]_vars
===============================================================================
