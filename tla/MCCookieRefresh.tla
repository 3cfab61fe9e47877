-------------------------- MODULE MCCookieRefresh --------------------------
(* Small instances of CookieRefresh.                                        *)
EXTENDS CookieRefresh, TLC

CONSTANTS g1, g2, sidcc

MCSymmetry == Permutations(Goroutines)
=============================================================================
