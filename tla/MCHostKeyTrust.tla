---------------------------- MODULE MCHostKeyTrust ----------------------------
(* HostKeyTrust with a few concurrent handshakes, hosts and keys. Nothing in  *)
(* it compares the members of these sets, so each may be permuted.            *)
EXTENDS HostKeyTrust, TLC

Interchangeable == Permutations(Sessions) \cup Permutations(Hosts) \cup Permutations(Keys)
==============================================================================
