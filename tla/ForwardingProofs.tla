-------------------------- MODULE ForwardingProofs --------------------------
(***************************************************************************)
(* Under forwarding_stress every ALU operation of the C++ and the Rust     *)
(* generator reads the register that the line just before it wrote, for    *)
(* any number of bootstrap MOVs but none.                                  *)
(*                                                                         *)
(* The emitter looks at last_written_ and not at the text.  The two agree  *)
(* because under this strategy every line printed since the first MOV      *)
(* writes a register, and only scalars (Chain).                            *)
(***************************************************************************)
EXTENDS GeneratorProofs

\* The line printed last wrote lastWritten, which holds a scalar.
Chain ==
  /\ Len(prog) > 0
  /\ lastWritten \in Gprs /\ kind[lastWritten] = "Scalar"
  /\ prog[Len(prog)].dst = lastWritten

Printing == (phase = "bootstrap" /\ iter > 0) \/ phase = "generate"

\* The inductive invariant, beside SafetyInv.
ChainInv ==
  /\ phase = "prologue" => iter = 0
  /\ backend # "zig" /\ strategy = "forwarding_stress" /\ Printing => Chain

\* The last line of an extended program.
LEMMA LastOfAppend ==
  ASSUME NEW S, NEW s \in Seq(S), NEW a \in S
  PROVE  LET t == s \o <<a>>
         IN Len(s) \in Nat /\ Len(t) = Len(s) + 1 /\ t[Len(t)] = a
OBVIOUS

\* A line that writes the register it marks continues the chain.
LEMMA MarkChains ==
  ASSUME BookOK, prog \in Seq(LegalLines), backend # "zig",
         NEW dst \in WritableGprs, NEW line \in LegalLines,
         MarkScalar(dst), Return(<<line>>), line.dst = dst
  PROVE  Chain' /\ prog' = prog \o <<line>>
<1>1. prog' = prog \o <<line>>
  BY DEF Return, ZigOutOfMemory
<1>2. /\ lastWritten' = dst /\ dst \in Gprs
      /\ kind'[dst] = "Scalar"
  BY DEF MarkScalar, WritableGprs, BookOK
<1>3. QED
  BY <1>1, <1>2, LastOfAppend DEF Chain

LEMMA MovImmChains ==
  ASSUME BookOK, prog \in Seq(LegalLines), backend # "zig", MovImm
  PROVE  Chain'
<1>1. PICK dst \in WritableGprs, imm \in Imms :
        MarkScalar(dst) /\ Return(<<Mov(dst, imm)>>)
  BY DEF MovImm
<1>2. Mov(dst, imm) \in LegalLines /\ Mov(dst, imm).dst = dst
  BY LegalMov DEF Mov, Insn
<1>3. QED
  BY <1>1, <1>2, MarkChains

\* With a chain to continue, ForwardingAlu neither declines nor picks another
\* source.
LEMMA ForwardingContinues ==
  ASSUME BookOK, prog \in Seq(LegalLines), backend # "zig", Chain, ForwardingAlu
  PROVE  /\ Chain'
         /\ Len(prog') = Len(prog) + 1
         /\ prog'[Len(prog')].src1 = prog[Len(prog)].dst
<1>1. lastWritten # NoReg /\ kind[lastWritten] = "Scalar" /\ lastWritten \in Gprs
  BY GprsAssumption DEF Chain, NoReg
<1>2. InitializedGprs # {}
  BY <1>1 DEF InitializedGprs
<1>3. PICK src2 \in InitializedGprs, dst \in WritableGprs, op \in AluOps :
        /\ MarkScalar(dst)
        /\ Return(<<Alu(op, dst, lastWritten, src2)>>)
  BY <1>1, <1>2 DEF ForwardingAlu
<1>4. /\ Alu(op, dst, lastWritten, src2) \in LegalLines
      /\ Alu(op, dst, lastWritten, src2).dst = dst
      /\ Alu(op, dst, lastWritten, src2).src1 = lastWritten
  BY <1>1, LegalAlu, Selectors DEF Alu, Insn
<1>5. Chain' /\ prog' = prog \o <<Alu(op, dst, lastWritten, src2)>>
  BY <1>3, <1>4, MarkChains
<1>6. QED
  BY <1>4, <1>5, LastOfAppend DEF Chain

\* The only emitters of the strategy.
LEMMA ForwardingPool ==
  ASSUME NEW slot \in Slots
  PROVE  /\ Pool("forwarding_stress")[slot] \in {"ForwardingAlu", "MovImm"}
         /\ \A s \in AllStrategies :
              Pool(s)[slot] = "ForwardingAlu" => s = "forwarding_stress"
BY DEF Pool, Slots, AllStrategies

LEMMA GenerateChains ==
  ASSUME SafetyInv, ChainInv, backend # "zig", strategy = "forwarding_stress",
         NEW slot \in Slots, Generate(slot)
  PROVE  /\ Chain'
         /\ Pool(strategy)[slot] = "ForwardingAlu" =>
              /\ Len(prog') = Len(prog) + 1
              /\ prog'[Len(prog')].src1 = prog[Len(prog)].dst
<1>1. Chain /\ BookOK /\ prog \in Seq(LegalLines)
  BY DEF Generate, ChainInv, Printing, SafetyInv
<1>2. CASE Pool(strategy)[slot] = "ForwardingAlu"
  <2>1. ForwardingAlu
    BY <1>2 DEF Generate, TryEmit
  <2>2. QED
    BY <1>1, <2>1, ForwardingContinues
<1>3. CASE Pool(strategy)[slot] = "MovImm"
  <2>1. MovImm
    BY <1>3 DEF Generate, TryEmit
  <2>2. QED
    BY <1>1, <1>3, <2>1, MovImmChains
<1>4. QED
  BY <1>2, <1>3, ForwardingPool

-----------------------------------------------------------------------------
LEMMA InitChain == Init => ChainInv
BY DEF Init, ChainInv, Printing

LEMMA NextChain == SafetyInv /\ ChainInv /\ [Next]_vars => ChainInv'
<1> SUFFICES ASSUME SafetyInv, ChainInv, [Next]_vars PROVE ChainInv'
  OBVIOUS
<1>1. (phase = "prologue" => iter = 0)'
  BY DEF ChainInv, Next, EmitPrologue, Bootstrap, BootstrapDone, Generate, Panic,
     Fallback, EmitEpilogue, vars
<1>2. ASSUME backend' # "zig", strategy' = "forwarding_stress", Printing'
      PROVE  Chain'
  <2> BookOK /\ prog \in Seq(LegalLines) /\ iter \in Nat
    BY DEF SafetyInv, ControlOK
  <2>1. CASE EmitPrologue
    BY <1>2, <2>1 DEF EmitPrologue, Printing, ChainInv
  <2>2. CASE Bootstrap
    BY <1>2, <2>2, MovImmChains DEF Bootstrap
  <2>3. CASE BootstrapDone
    BY <1>2, <2>3, GeneratorAssumption
       DEF BootstrapDone, emitterVars, stateVars, ChainInv, Printing, Chain
  <2>4. ASSUME NEW slot \in Slots, Generate(slot)
        PROVE  Chain'
    BY <1>2, <2>4, GenerateChains DEF Generate
  <2>5. ASSUME NEW slot \in Slots, Panic(slot)
        PROVE  FALSE
    BY <1>2, <2>5 DEF Panic, Printing
  <2>6. CASE Fallback
    BY <1>2, <2>6, MovImmChains DEF Fallback
  <2>7. CASE EmitEpilogue
    BY <1>2, <2>7 DEF EmitEpilogue, Printing
  <2>8. CASE UNCHANGED vars
    BY <1>2, <2>8 DEF vars, emitterVars, stateVars, ChainInv, Printing, Chain
  <2>9. QED
    BY <2>1, <2>2, <2>3, <2>4, <2>5, <2>6, <2>7, <2>8 DEF Next
<1>3. QED
  BY <1>1, <1>2 DEF ChainInv

\* A ForwardingAlu of the C++ or the Rust generator reads what the line just
\* before it wrote, in every program of any length.
THEOREM ForwardingChains == Spec => ForwardingIsBackToBack
<1>1. SafetyInv /\ ChainInv /\ [Next]_vars => [backend # "zig" => BackToBack]_vars
  <2> SUFFICES ASSUME SafetyInv, ChainInv, backend # "zig",
                      NEW slot \in Slots, Generate(slot),
                      Pool(strategy)[slot] = "ForwardingAlu"
               PROVE  /\ Len(prog') = Len(prog) + 1
                      /\ prog'[Len(prog')].src1 = prog[Len(prog)].dst
    BY DEF BackToBack
  <2>1. strategy = "forwarding_stress"
    BY ForwardingPool, GeneratorAssumption DEF SafetyInv, ControlOK
  <2>2. QED
    BY <2>1, GenerateChains
<1>2. SafetyInv /\ ChainInv /\ [Next]_vars => (SafetyInv /\ ChainInv)'
  BY NextSafety, NextChain
<1>3. Init => SafetyInv /\ ChainInv
  BY InitSafety, InitChain
<1>4. QED
  BY <1>1, <1>2, <1>3, PTL DEF Spec, ForwardingIsBackToBack
=============================================================================
