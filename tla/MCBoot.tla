------------------------------- MODULE MCBoot -------------------------------
(* Small instances of Boot.                                                  *)
EXTENDS Boot, TLC

CONSTANTS v1, v2, k1, k2
=============================================================================
