--------------------------- MODULE MCDifferential ---------------------------
(* Small instances of Differential for TLC: granules of two values, hence  *)
(* registers of four.                                                      *)
EXTENDS Differential

MCGprs     == {0, 1, 20, 21, 22}
MCDumpRegs == {0, 1}
=============================================================================
