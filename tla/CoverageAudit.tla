--------------------------- MODULE CoverageAudit ----------------------------
(***************************************************************************)
(* run.py --analyze: the coverage a generator reports, next to the hazards *)
(* the analyzer measures in the program that generator printed.  The       *)
(* emitters decide what to report before their line is appended, from the  *)
(* bookkeeping; the analyzer decides from the lines.                       *)
(***************************************************************************)
EXTENDS Generator

\* The offset that straddles a cache line is not a slot: 60 in the code.
ASSUME SplitAssumption == SplitOffset % 8 # 0

Audit == INSTANCE Analyzer WITH
  BaseReg <- ScratchPointer, LineSplitOffset <- SplitOffset

Measured(p) == Audit!CountHazards(p, prog)

\* Every coverage point reported for a program, RawChain aside, is a hazard
\* the analyzer finds in it (README, "Coverage Points").
ReportedIsMeasured ==
  \A p \in coverage \ {"RawChain"} : Measured(p) > 0

\* The two hazards that no combination of other emitters produces by accident
\* are measured only where their emitter reported them.
MeasuredIsReported ==
  \A p \in {"BranchDense", "CacheLineSplit"} : Measured(p) > 0 => p \in coverage

\* README.md:59 and analyze.py:10: RawChain is an ALU-to-ALU dependency "on
\* the ALU result path".
RawChainIsAluToAlu == "RawChain" \in coverage => Measured("RawChain") > 0
=============================================================================
