--------------------------- MODULE MCAuthentication ---------------------------
(* A TLC instance of Authentication: user ann@bob of host web, by two ports, and *)
(* user ann of a host bob@web, whose password has the same id as the first; with *)
(* secrets that are only compared for equality.                                  *)
EXTENDS Authentication, TLC

LoginTargets ==
    {<< <<"ann", "@", "bob">>, <<"web">>, "22" >>,
     << <<"ann", "@", "bob">>, <<"web">>, "2222" >>,
     << <<"ann">>, <<"bob", "@", "web">>, "22" >>}

Symmetry == Permutations(Sessions) \cup Permutations(Secrets)

==============================================================================
