-------------------------- MODULE GeneratorProofs ---------------------------
(***************************************************************************)
(* Safety of the generator for every register file, buffer size, count,    *)
(* port and strategy, and whether or not allocations fail.                 *)
(*                                                                         *)
(* The program only ever grows by lines drawn from LegalLines, because the *)
(* bookkeeping from which every emitter picks its operands stays in order  *)
(* (BookOK): the reserved registers stay reserved, and the watermark stays *)
(* a multiple of the slot size within the buffer.                          *)
(***************************************************************************)
EXTENDS Generator, TLAPS

\* The lines an emitter may print: destination never reserved, access in bounds,
\* two source registers for an ALU operation.
LegalLines ==
  {i \in InsnOver(Gprs) :
     /\ i.dst \notin ReservedGprs
     /\ IsMem(i) => i.arg + 8 <= ScratchSize
     /\ IsAlu(i) => {i.src1, i.src2} \subseteq Gprs}

BookOK ==
  /\ kind \in [Gprs -> RegKinds]
  /\ \A r \in Gprs : kind[r] = "Reserved" <=> r \in ReservedGprs
  /\ lastWritten \in Gprs \cup {NoReg}
  /\ hasScratch \in BOOLEAN
  /\ watermark \in 0 .. ScratchSize /\ watermark % 8 = 0
  /\ labelCounter \in Nat
  /\ coverage \subseteq CovPoints

ControlOK ==
  /\ backend \in Backends
  /\ strategy \in Strategies
  /\ phase \in {"prologue", "bootstrap", "generate", "done", "panicked"}
  /\ iter \in Nat
  /\ untried \subseteq Slots
  /\ dumped \subseteq Gprs

\* The inductive invariant.
SafetyInv == BookOK /\ ControlOK /\ prog \in Seq(LegalLines)

\* What one call of try_emit may do.
EmitsLegally ==
  /\ BookOK'
  /\ \E lines \in Seq(LegalLines) : prog' = prog \o lines \/ prog' = prog

USE DEF NoReg

-----------------------------------------------------------------------------
(***************************************************************************)
(* The lines the emitters build are legal.                                 *)
(***************************************************************************)
LEMMA LegalMov ==
  ASSUME NEW dst \in WritableGprs, NEW imm \in Imms, BookOK
  PROVE  Mov(dst, imm) \in LegalLines
BY EmitterAssumption, GprsAssumption
   DEF WritableGprs, BookOK, Mov, Insn, LegalLines, InsnOver, Opcodes, IsMem,
       IsAlu, AllAluOps

LEMMA LegalAlu ==
  ASSUME NEW dst \in WritableGprs, NEW src1 \in Gprs, NEW src2 \in Gprs,
         NEW op \in AluOps, BookOK
  PROVE  Alu(op, dst, src1, src2) \in LegalLines
BY EmitterAssumption, GprsAssumption
   DEF WritableGprs, BookOK, Alu, Insn, LegalLines, InsnOver, Opcodes, IsMem,
       IsAlu, AllAluOps

LEMMA LegalLdr ==
  ASSUME NEW dst \in WritableGprs, NEW off \in Nat, off + 8 <= ScratchSize,
         BookOK
  PROVE  Ldr(dst, off) \in LegalLines
BY GprsAssumption
   DEF WritableGprs, BookOK, Ldr, Insn, LegalLines, InsnOver, Opcodes, IsMem,
       IsAlu, AllAluOps

LEMMA LegalStr ==
  ASSUME NEW src \in Gprs, NEW off \in Nat, off + 8 <= ScratchSize
  PROVE  Str(src, off) \in LegalLines
BY GprsAssumption
   DEF ReservedGprs, Str, Insn, LegalLines, InsnOver, Opcodes, IsMem,
       IsAlu, AllAluOps

LEMMA LegalBranch ==
  ASSUME NEW src \in Gprs, NEW op \in BranchOps, NEW n \in Nat
  PROVE  /\ Branch(op, src, n) \in LegalLines
         /\ Nop \in LegalLines
         /\ Label(n) \in LegalLines
BY GprsAssumption
   DEF ReservedGprs, BranchOps, Branch, Nop, Label, Insn, LegalLines, InsnOver,
       Opcodes, IsMem, IsAlu, AllAluOps

\* Operand selectors return registers; offsets below the watermark are slots.
LEMMA Selectors ==
  ASSUME BookOK
  PROVE  /\ InitializedGprs \subseteq Gprs
         /\ WritableGprs \subseteq Gprs
         /\ \A off \in StoredOffsets : off \in Nat /\ off + 8 <= ScratchSize
<1>1. InitializedGprs \subseteq Gprs /\ WritableGprs \subseteq Gprs
  BY DEF InitializedGprs, WritableGprs
<1>2. ASSUME NEW off \in StoredOffsets
      PROVE  off \in Nat /\ off + 8 <= ScratchSize
  <2>1. PICK k \in 0 .. (watermark \div 8 - 1) : off = 8 * k
    BY <1>2 DEF StoredOffsets
  <2>2. watermark \in Nat /\ watermark <= ScratchSize /\ ScratchSize \in Nat
    BY ScratchAssumption DEF BookOK
  <2>3. 8 * (watermark \div 8) <= watermark /\ watermark \div 8 \in Nat
    BY <2>2
  <2>4. QED
    BY <2>1, <2>2, <2>3
<1>3. QED
  BY <1>1, <1>2

\* There is room for one more slot when a store is allowed.
LEMMA StoreRoom ==
  ASSUME BookOK, CanStore
  PROVE  /\ watermark \in Nat /\ watermark + 8 <= ScratchSize
         /\ watermark + 8 \in 0 .. ScratchSize /\ (watermark + 8) % 8 = 0
<1>1. watermark \in Nat /\ ScratchSize \in Nat
      /\ watermark % 8 = 0 /\ ScratchSize % 8 = 0 /\ watermark < ScratchSize
  BY ScratchAssumption DEF BookOK, CanStore
<1>2. watermark + 8 <= ScratchSize /\ (watermark + 8) % 8 = 0
  BY <1>1
<1>3. QED
  BY <1>1, <1>2

\* Marking a writable register keeps the bookkeeping in order.
LEMMA MarkKeepsKinds ==
  ASSUME BookOK, NEW r \in WritableGprs, MarkScalar(r)
  PROVE  /\ kind' \in [Gprs -> RegKinds]
         /\ \A s \in Gprs : kind'[s] = "Reserved" <=> s \in ReservedGprs
         /\ lastWritten' \in Gprs \cup {NoReg}
BY DEF BookOK, WritableGprs, MarkScalar, RegKinds

LEMMA MarkPairKeepsKinds ==
  ASSUME BookOK, NEW r \in WritableGprs, NEW s \in WritableGprs, MarkScalars(r, s)
  PROVE  /\ kind' \in [Gprs -> RegKinds]
         /\ \A t \in Gprs : kind'[t] = "Reserved" <=> t \in ReservedGprs
         /\ lastWritten' \in Gprs \cup {NoReg}
BY DEF BookOK, WritableGprs, MarkScalars, RegKinds

LEMMA HitKeepsCoverage ==
  ASSUME BookOK, NEW p \in CovPoints, HitCoverage(p)
  PROVE  coverage' \subseteq CovPoints
BY DEF BookOK, HitCoverage

\* Sequences of legal lines, of the lengths the emitters return.
LEMMA LegalReturn ==
  ASSUME NEW lines \in Seq(LegalLines), Return(lines), BookOK'
  PROVE  EmitsLegally
BY DEF Return, ZigOutOfMemory, EmitsLegally

LEMMA PairOfLegal ==
  ASSUME NEW a \in LegalLines, NEW b \in LegalLines
  PROVE  <<a, b>> \in Seq(LegalLines)
OBVIOUS

LEMMA TripleOfLegal ==
  ASSUME NEW a \in LegalLines, NEW b \in LegalLines, NEW c \in LegalLines
  PROVE  <<a, b, c>> \in Seq(LegalLines)
OBVIOUS

LEMMA DeclineIsLegal ==
  ASSUME BookOK, Decline
  PROVE  EmitsLegally
<1>1. BookOK'
  BY DEF BookOK, Decline, stateVars
<1>2. prog' = prog /\ <<>> \in Seq(LegalLines)
  BY DEF Decline
<1>3. QED
  BY <1>1, <1>2 DEF EmitsLegally
-----------------------------------------------------------------------------
(***************************************************************************)
(* Each emitter emits legally.                                             *)
(***************************************************************************)
LEMMA MovImmLegal ==
  ASSUME BookOK, MovImm
  PROVE  EmitsLegally
<1>1. PICK dst \in WritableGprs, imm \in Imms :
         /\ MarkScalar(dst)
         /\ Return(<<Mov(dst, imm)>>)
         /\ UNCHANGED <<hasScratch, watermark, labelCounter, coverage>>
  BY DEF MovImm
<1>2. BookOK'
  BY <1>1, MarkKeepsKinds DEF BookOK
<1>3. <<Mov(dst, imm)>> \in Seq(LegalLines)
  BY LegalMov
<1>4. QED
  BY <1>1, <1>2, <1>3, LegalReturn

LEMMA AluRegRegLegal ==
  ASSUME BookOK, AluRegReg
  PROVE  EmitsLegally
<1>1. CASE Decline
  BY <1>1, DeclineIsLegal
<1>2. CASE ~Decline
  <2>1. PICK src1 \in InitializedGprs, src2 \in InitializedGprs,
             dst \in WritableGprs, op \in AluOps :
          /\ MarkScalar(dst)
          /\ Return(<<Alu(op, dst, src1, src2)>>)
          /\ UNCHANGED <<hasScratch, watermark, labelCounter, coverage>>
    BY <1>2 DEF AluRegReg
  <2>2. BookOK'
    BY <2>1, MarkKeepsKinds DEF BookOK
  <2>3. <<Alu(op, dst, src1, src2)>> \in Seq(LegalLines)
    BY LegalAlu, Selectors
  <2>4. QED
    BY <2>1, <2>2, <2>3, LegalReturn
<1>3. QED
  BY <1>1, <1>2

LEMMA LoadStoredSlotLegal ==
  ASSUME BookOK, LoadStoredSlot
  PROVE  EmitsLegally
<1>1. PICK dst \in WritableGprs, off \in StoredOffsets :
         /\ MarkScalar(dst)
         /\ Return(<<Ldr(dst, off)>>)
         /\ UNCHANGED <<hasScratch, watermark, labelCounter, coverage>>
  BY DEF LoadStoredSlot
<1>2. BookOK'
  BY <1>1, MarkKeepsKinds DEF BookOK
<1>3. <<Ldr(dst, off)>> \in Seq(LegalLines)
  BY LegalLdr, Selectors
<1>4. QED
  BY <1>1, <1>2, <1>3, LegalReturn

LEMMA LdrRegLegal ==
  ASSUME BookOK, LdrReg \/ RustLdrReg
  PROVE  EmitsLegally
BY LoadStoredSlotLegal, DeclineIsLegal DEF LdrReg, RustLdrReg

LEMMA StrRegLegal ==
  ASSUME BookOK, StrReg
  PROVE  EmitsLegally
<1>1. CASE Decline
  BY <1>1, DeclineIsLegal
<1>2. CASE ~Decline
  <2>1. CanStore
    BY <1>2 DEF StrReg
  <2>2. PICK src \in InitializedGprs :
          /\ AdvanceWatermark
          /\ Return(<<Str(src, watermark)>>)
          /\ UNCHANGED <<kind, lastWritten, hasScratch, labelCounter, coverage>>
    BY <1>2 DEF StrReg
  <2>3. BookOK'
    BY <2>1, <2>2, StoreRoom DEF BookOK, AdvanceWatermark
  <2>4. <<Str(src, watermark)>> \in Seq(LegalLines)
    BY <2>1, LegalStr, Selectors, StoreRoom
  <2>5. QED
    BY <2>2, <2>3, <2>4, LegalReturn
<1>3. QED
  BY <1>1, <1>2

LEMMA LoadUseLegal ==
  ASSUME BookOK, LoadUse
  PROVE  EmitsLegally
<1>1. CASE Decline
  BY <1>1, DeclineIsLegal
<1>2. CASE ~Decline
  <2>1. PICK ldrDst \in WritableGprs, aluDst \in WritableGprs,
             off \in StoredOffsets, src2 \in InitializedGprs, op \in LoadUseOps :
          /\ HitCoverage("LoadUseHazard")
          /\ MarkScalars(ldrDst, aluDst)
          /\ Return(<<Ldr(ldrDst, off), Alu(op, aluDst, ldrDst, src2)>>)
          /\ UNCHANGED <<hasScratch, watermark, labelCounter>>
    BY <1>2 DEF LoadUse
  <2>2. BookOK'
    BY <2>1, MarkPairKeepsKinds, HitKeepsCoverage DEF BookOK, CovPoints
  <2>3. Ldr(ldrDst, off) \in LegalLines
    BY LegalLdr, Selectors
  <2>4. Alu(op, aluDst, ldrDst, src2) \in LegalLines
    BY LegalAlu, Selectors DEF LoadUseOps
  <2>5. QED
    BY <2>1, <2>2, <2>3, <2>4, PairOfLegal, LegalReturn
<1>3. QED
  BY <1>1, <1>2

LEMMA ForwardingAluLegal ==
  ASSUME BookOK, ForwardingAlu
  PROVE  EmitsLegally
<1> DEFINE biased == lastWritten # NoReg /\ kind[lastWritten] = "Scalar"
<1>1. CASE Decline
  BY <1>1, DeclineIsLegal
<1>2. CASE ~Decline
  <2>1. PICK src1 \in IF biased THEN {lastWritten} ELSE InitializedGprs,
             src2 \in InitializedGprs, dst \in WritableGprs, op \in AluOps :
          /\ IF biased THEN HitCoverage("RawChain") ELSE UNCHANGED coverage
          /\ MarkScalar(dst)
          /\ Return(<<Alu(op, dst, src1, src2)>>)
          /\ UNCHANGED <<hasScratch, watermark, labelCounter>>
    BY <1>2 DEF ForwardingAlu
  <2>2. src1 \in Gprs
    BY Selectors DEF BookOK
  <2>3. coverage' \subseteq CovPoints
    BY <2>1, HitKeepsCoverage DEF BookOK, CovPoints
  <2>4. BookOK'
    BY <2>1, <2>3, MarkKeepsKinds DEF BookOK
  <2>5. <<Alu(op, dst, src1, src2)>> \in Seq(LegalLines)
    BY <2>2, LegalAlu, Selectors
  <2>6. QED
    BY <2>1, <2>4, <2>5, LegalReturn
<1>3. QED
  BY <1>1, <1>2

LEMMA StoreToLoadLegal ==
  ASSUME BookOK, StoreToLoad
  PROVE  EmitsLegally
<1>1. CASE Decline
  BY <1>1, DeclineIsLegal
<1>2. CASE ~Decline
  <2>1. CanStore
    BY <1>2 DEF StoreToLoad
  <2>2. PICK src \in InitializedGprs, dst \in WritableGprs :
          /\ HitCoverage("StoreToLoadFwd")
          /\ AdvanceWatermark
          /\ MarkScalar(dst)
          /\ Return(<<Str(src, watermark), Ldr(dst, watermark)>>)
          /\ UNCHANGED <<hasScratch, labelCounter>>
    BY <1>2 DEF StoreToLoad
  <2>3. coverage' \subseteq CovPoints
    BY <2>2, HitKeepsCoverage DEF CovPoints
  <2>4. BookOK'
    BY <2>1, <2>2, <2>3, StoreRoom, MarkKeepsKinds DEF BookOK, AdvanceWatermark
  <2>5. Str(src, watermark) \in LegalLines /\ Ldr(dst, watermark) \in LegalLines
    BY <2>1, LegalStr, LegalLdr, Selectors, StoreRoom
  <2>6. QED
    BY <2>2, <2>4, <2>5, PairOfLegal, LegalReturn
<1>3. QED
  BY <1>1, <1>2

LEMMA BranchSkipLegal ==
  ASSUME BookOK, BranchSkip
  PROVE  EmitsLegally
<1>1. CASE Decline
  BY <1>1, DeclineIsLegal
<1>2. CASE ~Decline
  <2>1. PICK src \in InitializedGprs, op \in BranchOps :
          /\ NextLabelId
          /\ HitCoverage("BranchDense")
          /\ Return(<<Branch(op, src, labelCounter), Nop, Label(labelCounter)>>)
          /\ UNCHANGED <<kind, lastWritten, hasScratch, watermark>>
    BY <1>2 DEF BranchSkip
  <2>2. BookOK'
    BY <2>1, HitKeepsCoverage DEF BookOK, NextLabelId, CovPoints
  <2>3. /\ Branch(op, src, labelCounter) \in LegalLines
        /\ Nop \in LegalLines
        /\ Label(labelCounter) \in LegalLines
    BY LegalBranch, Selectors DEF BookOK
  <2>4. QED
    BY <2>1, <2>2, <2>3, TripleOfLegal, LegalReturn
<1>3. QED
  BY <1>1, <1>2

LEMMA CacheLineSplitLegal ==
  ASSUME BookOK, CacheLineSplit
  PROVE  EmitsLegally
<1>1. CASE Decline
  BY <1>1, DeclineIsLegal
<1>2. CASE ~Decline
  <2>1. PICK src \in InitializedGprs, dst \in WritableGprs :
          /\ HitCoverage("CacheLineSplit")
          /\ MarkScalar(dst)
          /\ Return(<<Str(src, SplitOffset), Ldr(dst, SplitOffset)>>)
          /\ UNCHANGED <<hasScratch, watermark, labelCounter>>
    BY <1>2 DEF CacheLineSplit
  <2>2. coverage' \subseteq CovPoints
    BY <2>1, HitKeepsCoverage DEF CovPoints
  <2>3. BookOK'
    BY <2>1, <2>2, MarkKeepsKinds DEF BookOK
  <2>4. Str(src, SplitOffset) \in LegalLines /\ Ldr(dst, SplitOffset) \in LegalLines
    BY LegalStr, LegalLdr, Selectors, EmitterAssumption
  <2>5. QED
    BY <2>1, <2>3, <2>4, PairOfLegal, LegalReturn
<1>3. QED
  BY <1>1, <1>2

LEMMA TryEmitLegal ==
  ASSUME BookOK, NEW e, TryEmit(e)
  PROVE  EmitsLegally
BY MovImmLegal, AluRegRegLegal, LdrRegLegal, StrRegLegal, LoadUseLegal,
   ForwardingAluLegal, StoreToLoadLegal, BranchSkipLegal, CacheLineSplitLegal
   DEF TryEmit, ZigForwardingAlu

LEMMA LegalEmissionKeepsProg ==
  ASSUME prog \in Seq(LegalLines), EmitsLegally
  PROVE  BookOK' /\ prog' \in Seq(LegalLines)
<1>1. BookOK'
  BY DEF EmitsLegally
<1>2. PICK lines \in Seq(LegalLines) : prog' = prog \o lines \/ prog' = prog
  BY DEF EmitsLegally
<1>3. prog \o lines \in Seq(LegalLines)
  BY <1>2
<1>4. QED
  BY <1>1, <1>2, <1>3

-----------------------------------------------------------------------------
(***************************************************************************)
(* SafetyInv is inductive.                                                 *)
(***************************************************************************)
LEMMA InitSafety == Init => SafetyInv
<1> SUFFICES ASSUME Init PROVE SafetyInv
  OBVIOUS
<1>1. BookOK
  <2>1. /\ kind \in [Gprs -> RegKinds]
        /\ \A r \in Gprs : kind[r] = "Reserved" <=> r \in ReservedGprs
    BY DEF Init, StateInit, RegKinds
  <2>2. watermark \in 0 .. ScratchSize /\ watermark % 8 = 0
    BY ScratchAssumption DEF Init, StateInit
  <2>3. QED
    BY <2>1, <2>2 DEF Init, StateInit, BookOK
<1>2. ControlOK
  BY DEF Init, ControlOK, Slots
<1>3. prog \in Seq(LegalLines)
  BY DEF Init
<1>4. QED
  BY <1>1, <1>2, <1>3 DEF SafetyInv

LEMMA NextSafety == SafetyInv /\ [Next]_vars => SafetyInv'
<1> SUFFICES ASSUME SafetyInv, [Next]_vars PROVE SafetyInv'
  OBVIOUS
<1> USE DEF SafetyInv
<1>1. CASE EmitPrologue
  <2>1. BookOK'
    BY <1>1, ScratchAssumption DEF EmitPrologue, BookOK
  <2>2. ControlOK' /\ prog' = prog
    BY <1>1 DEF EmitPrologue, ControlOK
  <2>3. QED
    BY <2>1, <2>2
<1>2. CASE Bootstrap
  <2>1. BookOK' /\ prog' \in Seq(LegalLines)
    BY <1>2, MovImmLegal, LegalEmissionKeepsProg DEF Bootstrap
  <2>2. ControlOK'
    BY <1>2 DEF Bootstrap, ControlOK
  <2>3. QED
    BY <2>1, <2>2
<1>3. CASE BootstrapDone
  BY <1>3 DEF BootstrapDone, ControlOK, BookOK, emitterVars, stateVars
<1>4. ASSUME NEW slot \in Slots, Generate(slot)
      PROVE  SafetyInv'
  <2>1. BookOK' /\ prog' \in Seq(LegalLines)
    BY <1>4, TryEmitLegal, LegalEmissionKeepsProg DEF Generate
  <2>2. ControlOK'
    BY <1>4 DEF Generate, EndTry, ControlOK
  <2>3. QED
    BY <2>1, <2>2
<1>5. ASSUME NEW slot \in Slots, Panic(slot)
      PROVE  SafetyInv'
  BY <1>5 DEF Panic, ControlOK, BookOK, emitterVars, stateVars
<1>6. CASE Fallback
  <2>1. BookOK' /\ prog' \in Seq(LegalLines)
    BY <1>6, MovImmLegal, LegalEmissionKeepsProg DEF Fallback
  <2>2. ControlOK'
    BY <1>6 DEF Fallback, ControlOK
  <2>3. QED
    BY <2>1, <2>2
<1>7. CASE EmitEpilogue
  BY <1>7, GeneratorAssumption
     DEF EmitEpilogue, ControlOK, BookOK, emitterVars, stateVars
<1>8. CASE UNCHANGED vars
  BY <1>8 DEF vars, emitterVars, stateVars, ControlOK, BookOK
<1>9. QED
  BY <1>1, <1>2, <1>3, <1>4, <1>5, <1>6, <1>7, <1>8 DEF Next

\* The bookkeeping stays in order and every printed line is legal.
THEOREM Safety == Spec => []SafetyInv
BY InitSafety, NextSafety, PTL DEF Spec

-----------------------------------------------------------------------------
(***************************************************************************)
(* What follows for the printed program.                                   *)
(***************************************************************************)
\* Type correctness, the watermark never past the end of the buffer included.
THEOREM TypeCorrect == Spec => []TypeOK
<1>1. SafetyInv => TypeOK
  BY DEF SafetyInv, BookOK, ControlOK, TypeOK, LegalLines
<1>2. QED
  BY <1>1, Safety, PTL

\* No generated line writes x20, x21 or x22.
THEOREM ReservedNeverWritten == Spec => []ReservedUntouched
<1>1. SafetyInv => ReservedUntouched
  BY DEF SafetyInv, ReservedUntouched, LegalLines
<1>2. QED
  BY <1>1, Safety, PTL

\* No generated load or store leaves the scratch buffer.
THEOREM AccessesStayInBounds == Spec => []AccessesInBounds
<1>1. SafetyInv => AccessesInBounds
  BY DEF SafetyInv, AccessesInBounds, LegalLines
<1>2. QED
  BY <1>1, Safety, PTL
=============================================================================
