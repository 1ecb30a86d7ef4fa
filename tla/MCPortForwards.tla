---------------------------- MODULE MCPortForwards ----------------------------
(* TLC instances of PortForwards. Sessions, forwards and ports are model       *)
(* values; the liveness properties rule symmetry out, so that ports are        *)
(* interchangeable is used here: the first forward asks for the first of them. *)
EXTENDS PortForwards, TLC

CONSTANTS f1, p1

MCInit == Init /\ port[f1] = p1
MCSpec == MCInit /\ [][Next]_vars /\ Fairness

==============================================================================
