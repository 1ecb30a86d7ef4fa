---------------------------- MODULE MCTerminalPane ----------------------------
(* A TLC instance of TerminalPane: two sessions of the tab, one after or next to *)
(* the other. Session ids are only compared for equality.                        *)
EXTENDS TerminalPane, TLC

SessionSymmetry == Permutations(Sessions)

==============================================================================
