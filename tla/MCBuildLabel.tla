--------------------------- MODULE MCBuildLabel ---------------------------
(* Small instances of BuildLabel.                                          *)
EXTENDS BuildLabel

CONSTANTS g1, g2, g3, g4
=============================================================================
