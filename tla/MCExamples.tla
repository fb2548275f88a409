----------------------------- MODULE MCExamples -----------------------------
(* Two examples of two generators, one that does not notice a failed write  *)
(* and one that does.                                                       *)
EXTENDS Examples

MCEXAMPLES   == <<"01_forwarding_stress", "02_load_use_stress">>
MCGENERATORS == <<"cpp", "zig">>
=============================================================================
