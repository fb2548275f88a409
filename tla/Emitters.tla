------------------------------ MODULE Emitters ------------------------------
(***************************************************************************)
(* The nine emitters.  An emitter is one call of try_emit: it either       *)
(* returns lines of assembly, which the main loop appends to the program,  *)
(* or declines (nullopt / None / null).  The bodies follow the C++         *)
(* sources; where a port differs it has a definition of its own            *)
(* (ZigForwardingAlu, RustLdrRegPanics, ZigOutOfMemory).                   *)
(***************************************************************************)
EXTENDS GeneratorState

CONSTANTS
  AluOps,       \* the ALU mnemonics drawn from
  Imms,         \* the immediates MOV draws from, 0..16#FFFF in the code
  SplitOffset,  \* the offset that straddles a cache line, 60 in the code
  AllocFails    \* whether the Zig emitters' allocPrint may fail

ASSUME EmitterAssumption ==
  /\ AluOps \subseteq AllAluOps
  /\ AluOps \ {"EOR", "MUL"} # {}
  /\ Imms \subseteq Nat /\ Imms # {}
  /\ SplitOffset \in Nat /\ SplitOffset + 8 <= ScratchSize
  /\ AllocFails \in BOOLEAN

VARIABLES
  backend,  \* which of the three ports is running
  prog      \* the lines printed between the prologue and the epilogue

emitterVars == <<stateVars, backend, prog>>

LoadUseOps == AluOps \ {"EOR", "MUL"}

(***************************************************************************)
(* Results of try_emit.  Zig formats its line after it has updated the     *)
(* state; an allocation failure then loses the line (catch null) but not   *)
(* the update.                                                             *)
(***************************************************************************)
ZigOutOfMemory == AllocFails /\ backend = "zig" /\ prog' = prog

Return(lines) == prog' = prog \o lines \/ ZigOutOfMemory

Decline == UNCHANGED <<stateVars, prog>>

(***************************************************************************)
(* The emitters.                                                           *)
(***************************************************************************)
MovImm ==
  \E dst \in WritableGprs, imm \in Imms :
    /\ MarkScalar(dst)
    /\ Return(<<Mov(dst, imm)>>)
    /\ UNCHANGED <<hasScratch, watermark, labelCounter, coverage>>

AluRegReg ==
  \/ InitializedGprs = {} /\ Decline
  \/ \E src1, src2 \in InitializedGprs, dst \in WritableGprs, op \in AluOps :
       /\ MarkScalar(dst)
       /\ Return(<<Alu(op, dst, src1, src2)>>)
       /\ UNCHANGED <<hasScratch, watermark, labelCounter, coverage>>

\* The load common to the C++ and Zig LdrReg and, past its guard, the Rust one.
LoadStoredSlot ==
  \E dst \in WritableGprs, off \in StoredOffsets :
    /\ MarkScalar(dst)
    /\ Return(<<Ldr(dst, off)>>)
    /\ UNCHANGED <<hasScratch, watermark, labelCounter, coverage>>

LdrReg ==
  \/ ~CanLoad /\ Decline
  \/ CanLoad /\ LoadStoredSlot

\* The Rust LdrReg has no watermark guard: below one slot it draws from the
\* empty range 0..0, which panics.
RustLdrReg ==
  \/ ~hasScratch /\ Decline
  \/ CanLoad /\ LoadStoredSlot

RustLdrRegPanics == hasScratch /\ watermark < 8

StrReg ==
  \/ ~(CanStore /\ InitializedGprs # {}) /\ Decline
  \/ /\ CanStore
     /\ \E src \in InitializedGprs :
          /\ AdvanceWatermark
          /\ Return(<<Str(src, watermark)>>)
          /\ UNCHANGED <<kind, lastWritten, hasScratch, labelCounter, coverage>>

\* Mutant: the ALU operation reads its own destination, not the loaded register.
BugLoadUse ==
  \/ ~(CanLoad /\ InitializedGprs # {}) /\ Decline
  \/ /\ CanLoad
     /\ \E ldrDst, aluDst \in WritableGprs, off \in StoredOffsets,
           src2 \in InitializedGprs, op \in LoadUseOps :
          /\ HitCoverage("LoadUseHazard")
          /\ MarkScalars(ldrDst, aluDst)
          /\ Return(<<Ldr(ldrDst, off), Alu(op, ldrDst, aluDst, src2)>>)
          /\ UNCHANGED <<hasScratch, watermark, labelCounter>>

LoadUse ==
  \/ ~(CanLoad /\ InitializedGprs # {}) /\ Decline
  \/ /\ CanLoad
     /\ \E ldrDst, aluDst \in WritableGprs, off \in StoredOffsets,
           src2 \in InitializedGprs, op \in LoadUseOps :
          /\ HitCoverage("LoadUseHazard")
          /\ MarkScalars(ldrDst, aluDst)
          /\ Return(<<Ldr(ldrDst, off), Alu(op, aluDst, ldrDst, src2)>>)
          /\ UNCHANGED <<hasScratch, watermark, labelCounter>>

\* src1 is the register written last when that is still a scalar; only then
\* is RawChain recorded.
ForwardingAlu ==
  LET biased == lastWritten # NoReg /\ kind[lastWritten] = "Scalar"
  IN \/ InitializedGprs = {} /\ Decline
     \/ \E src1 \in IF biased THEN {lastWritten} ELSE InitializedGprs,
           src2 \in InitializedGprs, dst \in WritableGprs, op \in AluOps :
          /\ IF biased THEN HitCoverage("RawChain") ELSE UNCHANGED coverage
          /\ MarkScalar(dst)
          /\ Return(<<Alu(op, dst, src1, src2)>>)
          /\ UNCHANGED <<hasScratch, watermark, labelCounter>>

\* The body of the Zig ForwardingAluEmitter is that of its LoadUseEmitter.
ZigForwardingAlu == LoadUse

StoreToLoad ==
  \/ ~(CanStore /\ InitializedGprs # {}) /\ Decline
  \/ /\ CanStore
     /\ \E src \in InitializedGprs, dst \in WritableGprs :
          /\ HitCoverage("StoreToLoadFwd")
          /\ AdvanceWatermark
          /\ MarkScalar(dst)
          /\ Return(<<Str(src, watermark), Ldr(dst, watermark)>>)
          /\ UNCHANGED <<hasScratch, labelCounter>>

BranchSkip ==
  \/ InitializedGprs = {} /\ Decline
  \/ \E src \in InitializedGprs, op \in BranchOps :
       /\ NextLabelId
       /\ HitCoverage("BranchDense")
       /\ Return(<<Branch(op, src, labelCounter), Nop, Label(labelCounter)>>)
       /\ UNCHANGED <<kind, lastWritten, hasScratch, watermark>>

CacheLineSplit ==
  \/ InitializedGprs = {} /\ Decline
  \/ \E src \in InitializedGprs, dst \in WritableGprs :
       /\ HitCoverage("CacheLineSplit")
       /\ MarkScalar(dst)
       /\ Return(<<Str(src, SplitOffset), Ldr(dst, SplitOffset)>>)
       /\ UNCHANGED <<hasScratch, watermark, labelCounter>>
=============================================================================
