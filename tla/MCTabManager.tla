----------------------------- MODULE MCTabManager -----------------------------
(* TLC instances of TabManager. Session ids are interchangeable: nothing       *)
(* compares them except for equality.                                          *)
EXTENDS TabManager, TLC

SessionSymmetry == Permutations(Sessions)

==============================================================================
