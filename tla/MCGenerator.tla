---------------------------- MODULE MCGenerator -----------------------------
(* Small instances of CoverageAudit, and so of Generator, for TLC: two writable registers beside the *)
(* three reserved ones, and a scratch buffer of two slots.                 *)
EXTENDS CoverageAudit

MCGprs     == {0, 1, 20, 21, 22}
MCDumpRegs == {0, 1}
=============================================================================
