----------------------------- MODULE MCGateway -----------------------------
(* Small instances of Gateway.                                              *)
EXTENDS Gateway, TLC

Switch(anon, direct, out) ==
    [FallbackAnon |-> anon, FallbackDirect |-> direct, outages |-> out]

\* The defaults of the configuration, and every fallback allowed.
StrictOrLax == {Switch(FALSE, FALSE, TRUE), Switch(TRUE, TRUE, TRUE)}
StrictOrLaxAnyWeather == {Switch(b, b, out) : b, out \in BOOLEAN}

Symmetry == Permutations(Requests) \cup Permutations(Proxies)
=============================================================================
