--------------------------- MODULE GeneratorState ---------------------------
(***************************************************************************)
(* The legality bookkeeping every backend keeps while it prints a program  *)
(* (class GeneratorState): what is known of each register's contents, the  *)
(* register written last, how much of the scratch buffer has been stored   *)
(* to, the label counter and the coverage points hit.  Values are not      *)
(* tracked.  The random number generator is a nondeterministic choice.     *)
(***************************************************************************)
EXTENDS Aarch64

CONSTANTS
  Gprs,            \* the general purpose registers, 0..30 in the code
  ScratchReg,      \* x20, kept for system calls
  SigPointer,      \* x21, base of the signature buffer
  ScratchPointer,  \* x22, base of the scratch buffer
  ScratchSize      \* bytes in the scratch buffer, 256 in the code

ReservedGprs == {ScratchReg, SigPointer, ScratchPointer}

ASSUME GprsAssumption ==
  /\ Gprs \subseteq Nat
  /\ ReservedGprs \subseteq Gprs
  /\ Gprs \ ReservedGprs # {}

ASSUME ScratchAssumption == ScratchSize \in Nat /\ ScratchSize % 8 = 0

RegKinds  == {"Uninitialized", "Scalar", "Pointer", "Reserved"}
CovPoints == {"RawChain", "LoadUseHazard", "StoreToLoadFwd",
              "BranchDense", "CacheLineSplit"}

VARIABLES
  kind,           \* regs_[r].kind
  lastWritten,    \* last_written_, NoReg when absent
  hasScratch,     \* scratch_region_id_ is set
  watermark,      \* watermark of the scratch region: bytes stored so far
  labelCounter,   \* label_counter_
  coverage        \* coverage_hits_

stateVars == <<kind, lastWritten, hasScratch, watermark, labelCounter, coverage>>

StateInit ==
  /\ kind = [r \in Gprs |->
               IF r \in ReservedGprs THEN "Reserved" ELSE "Uninitialized"]
  /\ lastWritten = NoReg
  /\ hasScratch = FALSE
  /\ watermark = 0
  /\ labelCounter = 0
  /\ coverage = {}

(***************************************************************************)
(* Operand selectors.  Each picks uniformly among its candidates, or       *)
(* returns nothing when there is none.                                     *)
(***************************************************************************)
\* Mutant: takes any register that is not reserved for an initialized one.
BugInitializedGprs == {r \in Gprs : kind[r] # "Reserved"}

InitializedGprs == {r \in Gprs : kind[r] \in {"Scalar", "Pointer"}}

\* Mutant: forgets that x22 must stay the base of the scratch buffer.
BugWritableGprs == {r \in Gprs : kind[r] # "Reserved"} \cup {ScratchPointer}

WritableGprs == {r \in Gprs : kind[r] # "Reserved"}

\* Mutant: one slot past the watermark.
BugStoredOffsets == {8 * k : k \in 0 .. watermark \div 8}

\* The offsets a load may use: the slots below the watermark.
StoredOffsets == {8 * k : k \in 0 .. (watermark \div 8 - 1)}

CanLoad  == hasScratch /\ watermark >= 8

\* Mutant: lets a store start at the end of the buffer.
BugCanStore == hasScratch /\ watermark <= ScratchSize

CanStore == hasScratch /\ watermark < ScratchSize

(***************************************************************************)
(* Emitter feedback.                                                       *)
(***************************************************************************)
\* Mutant: remembers the first register ever written, not the last.
BugMarkScalar(r) ==
  /\ kind' = [kind EXCEPT ![r] = "Scalar"]
  /\ lastWritten' = IF lastWritten = NoReg THEN r ELSE lastWritten

MarkScalar(r) ==
  /\ kind' = [kind EXCEPT ![r] = "Scalar"]
  /\ lastWritten' = r

\* mark_scalar(r1) followed by mark_scalar(r2).
MarkScalars(r1, r2) ==
  /\ kind' = [kind EXCEPT ![r1] = "Scalar", ![r2] = "Scalar"]
  /\ lastWritten' = r2

HitCoverage(p) == coverage' = coverage \cup {p}

\* Mutant: advances as for a four-byte store.
BugAdvanceWatermark == watermark' = watermark + 4

AdvanceWatermark == watermark' = watermark + 8

\* Mutant: post-increment lost, every branch gets the same label.
BugNextLabelId == UNCHANGED labelCounter

NextLabelId == labelCounter' = labelCounter + 1
=============================================================================
