---------------------------- MODULE MCProxyPool ----------------------------
(* Small instances of ProxyPool.                                            *)
EXTENDS ProxyPool, TLC

Symmetry == Permutations(Requests) \cup Permutations(Admins)
=============================================================================
