------------------------------ MODULE Analyzer ------------------------------
(***************************************************************************)
(* analyze.py: the static hazard counts of a program, taken from its text  *)
(* and independent of the coverage its emitters report.  The analyzer      *)
(* drops label lines, so that instructions on either side of a label are   *)
(* neighbours.                                                             *)
(***************************************************************************)
EXTENDS Aarch64, FiniteSets

CONSTANTS
  BaseReg,        \* x22, the base register of every generated load and store
  LineSplitOffset \* 60, the only offset counted as a cache line split

\* The lines of the program that are instructions.
ParseAsm(prog) == {n \in 1 .. Len(prog) : prog[n].op # "LABEL"}

\* insn.srcs: the registers read, the base of an access included.
Srcs(i) == Reads(i) \cup IF IsMem(i) THEN {BaseReg} ELSE {}

\* insns[i - 1]: the instruction before line n, none before the first.
Prev(prog, n) ==
  {m \in ParseAsm(prog) : m < n /\ \A k \in m + 1 .. n - 1 : k \notin ParseAsm(prog)}

\* The hazard point occurs at line n, with the instruction before it.
HazardAt(point, prog, n) ==
  LET insn == prog[n]
  IN \/ point = "BranchDense" /\ IsBranch(insn)
     \/ point = "CacheLineSplit" /\ IsMem(insn) /\ insn.arg = LineSplitOffset
     \/ \E m \in Prev(prog, n) :
          LET prev == prog[m]
          IN \/ /\ point = "RawChain"
                /\ IsAlu(prev) /\ IsAlu(insn) /\ prev.dst \in Srcs(insn)
             \/ /\ point = "LoadUseHazard"
                /\ prev.op = "LDR" /\ prev.dst \in Srcs(insn)
             \/ /\ point = "StoreToLoadFwd"
                /\ prev.op = "STR" /\ insn.op = "LDR" /\ prev.arg = insn.arg

\* count_hazards of one point.
CountHazards(point, prog) ==
  Cardinality({n \in ParseAsm(prog) : HazardAt(point, prog, n)})
=============================================================================
