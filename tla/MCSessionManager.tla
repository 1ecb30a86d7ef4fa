--------------------------- MODULE MCSessionManager ---------------------------
(***************************************************************************)
(* SessionManager for TLC: two sessions, so that one task interleaves with *)
(* the other's ssh_connect and one dialog waits behind the other.          *)
(***************************************************************************)
EXTENDS SessionManager, TLC

Interchangeable == Permutations(Sessions)

==============================================================================
