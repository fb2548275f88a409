----------------------- MODULE GeneratorLegalityProofs ----------------------
(***************************************************************************)
(* The generator implements LegalProgram as long as allocations succeed,   *)
(* and with it: no register is read and no slot loaded before it has been  *)
(* written.  That branches skip one NOP holds in any case.                 *)
(*                                                                         *)
(* An emitter picks its operands from the bookkeeping, so the bookkeeping  *)
(* has to describe the printed text: a register it takes for initialized   *)
(* is the destination of some line, a slot below the watermark is that of  *)
(* some store, and the label counter is past every label.                  *)
(***************************************************************************)
EXTENDS GeneratorProofs

WrittenIn(t, r)  == \E j \in 1 .. Len(t) : t[j].dst = r
StoredIn(t, off) == \E j \in 1 .. Len(t) : t[j].op = "STR" /\ t[j].arg = off

BooksDescribeProg ==
  /\ \A r \in InitializedGprs : WrittenIn(prog, r)
  /\ \A off \in StoredOffsets : StoredIn(prog, off)

LabelsBelowCounter ==
  \A j \in 1 .. Len(prog) : prog[j].op = "LABEL" => prog[j].arg < labelCounter

\* The inductive invariant, beside SafetyInv.
LegalityInv ==
  /\ ~AllocFails => BooksDescribeProg /\ DefBeforeUse /\ LoadsReadStored
  /\ LabelsBelowCounter
  /\ BranchesSkipOneNop

-----------------------------------------------------------------------------
(***************************************************************************)
(* What one call of try_emit does, in terms of the lines it returns.       *)
(***************************************************************************)
\* Line i of lines reads what the program or the lines before it have written.
ReadsWritten(lines, i) ==
  \A r \in Reads(lines[i]) :
    WrittenIn(prog, r) \/ \E j \in 1 .. i - 1 : lines[j].dst = r

LoadsStored(lines, i) ==
  lines[i].op = "LDR" =>
    \/ StoredIn(prog, lines[i].arg)
    \/ \E j \in 1 .. i - 1 : lines[j].op = "STR" /\ lines[j].arg = lines[i].arg

Straight(lines) ==
  \A i \in 1 .. Len(lines) : ~IsBranch(lines[i]) /\ lines[i].op # "LABEL"

Skip(op, src) == <<Branch(op, src, labelCounter), Nop, Label(labelCounter)>>

Shaped(lines) ==
  \/ Straight(lines) /\ labelCounter' = labelCounter
  \/ /\ labelCounter' = labelCounter + 1
     /\ \E op \in BranchOps, src \in Gprs : lines = Skip(op, src)

\* The update of the bookkeeping claims no more than the lines do.
Described(lines) ==
  /\ \A r \in InitializedGprs' : r \in InitializedGprs \/ WrittenIn(lines, r)
  /\ \A off \in StoredOffsets' : off \in StoredOffsets \/ StoredIn(lines, off)

Sound(lines) ==
  /\ Shaped(lines)
  /\ Described(lines)
  /\ BooksDescribeProg =>
       \A i \in 1 .. Len(lines) : ReadsWritten(lines, i) /\ LoadsStored(lines, i)

EmitsSoundly == \E lines \in Seq(LegalLines) : Return(lines) /\ Sound(lines)

-----------------------------------------------------------------------------
(***************************************************************************)
(* The bookkeeping after a call.                                           *)
(***************************************************************************)
LEMMA MarkDescribed ==
  ASSUME BookOK, NEW r \in WritableGprs, MarkScalar(r)
  PROVE  \A s \in InitializedGprs' : s \in InitializedGprs \/ s = r
BY DEF BookOK, InitializedGprs, MarkScalar, WritableGprs

LEMMA MarkPairDescribed ==
  ASSUME BookOK, NEW q \in WritableGprs, NEW r \in WritableGprs, MarkScalars(q, r)
  PROVE  \A s \in InitializedGprs' : s \in InitializedGprs \/ s \in {q, r}
BY DEF BookOK, InitializedGprs, MarkScalars, WritableGprs

LEMMA SameOffsets ==
  ASSUME UNCHANGED watermark
  PROVE  StoredOffsets' = StoredOffsets
BY DEF StoredOffsets

\* A store adds one slot, the one it stores to.
LEMMA AdvanceDescribed ==
  ASSUME BookOK, AdvanceWatermark
  PROVE  \A off \in StoredOffsets' : off \in StoredOffsets \/ off = watermark
<1>1. watermark \in Nat /\ watermark % 8 = 0 /\ watermark' = watermark + 8
  BY ScratchAssumption DEF BookOK, AdvanceWatermark
<1>2. /\ watermark' \div 8 - 1 = watermark \div 8
      /\ 8 * (watermark \div 8) = watermark
  BY <1>1
<1>3. ASSUME NEW off \in StoredOffsets'
      PROVE  off \in StoredOffsets \/ off = watermark
  <2>1. PICK k \in 0 .. (watermark' \div 8 - 1) : off = 8 * k
    BY DEF StoredOffsets
  <2>2. CASE k = watermark \div 8
    BY <1>2, <2>1, <2>2
  <2>3. CASE k # watermark \div 8
    <3>1. k \in 0 .. (watermark \div 8 - 1)
      BY <1>1, <1>2, <2>1, <2>3
    <3>2. QED
      BY <2>1, <3>1 DEF StoredOffsets
  <2>4. QED
    BY <2>2, <2>3
<1>4. QED
  BY <1>3

-----------------------------------------------------------------------------
(***************************************************************************)
(* Shapes of the lines an emitter returns.                                 *)
(***************************************************************************)
Plain(a) == ~IsBranch(a) /\ a.op # "LABEL"

\* What line a needs of the program before it.
ServedBy(a) ==
  /\ \A r \in Reads(a) : WrittenIn(prog, r)
  /\ a.op = "LDR" => StoredIn(prog, a.arg)

LEMMA OneLineSound ==
  ASSUME NEW a, Plain(a), labelCounter' = labelCounter,
         BooksDescribeProg => ServedBy(a),
         \A r \in InitializedGprs' : r \in InitializedGprs \/ a.dst = r,
         \A off \in StoredOffsets' :
           off \in StoredOffsets \/ (a.op = "STR" /\ a.arg = off)
  PROVE  Sound(<<a>>)
<1> DEFINE lines == <<a>>
<1>1. Len(lines) = 1 /\ lines[1] = a
  OBVIOUS
<1>2. Shaped(lines)
  BY <1>1 DEF Shaped, Straight, Plain
<1>3. Described(lines)
  BY <1>1 DEF Described, WrittenIn, StoredIn
<1>4. BooksDescribeProg =>
        \A i \in 1 .. Len(lines) : ReadsWritten(lines, i) /\ LoadsStored(lines, i)
  BY <1>1 DEF ReadsWritten, LoadsStored, ServedBy
<1>5. QED
  BY <1>2, <1>3, <1>4 DEF Sound

\* The second line may read what the first one writes or stores.
LEMMA TwoLinesSound ==
  ASSUME NEW a, NEW b, Plain(a), Plain(b), labelCounter' = labelCounter,
         BooksDescribeProg => ServedBy(a),
         BooksDescribeProg =>
           /\ \A r \in Reads(b) : WrittenIn(prog, r) \/ a.dst = r
           /\ b.op = "LDR" =>
                StoredIn(prog, b.arg) \/ (a.op = "STR" /\ a.arg = b.arg),
         \A r \in InitializedGprs' :
           r \in InitializedGprs \/ a.dst = r \/ b.dst = r,
         \A off \in StoredOffsets' :
           off \in StoredOffsets \/ (a.op = "STR" /\ a.arg = off)
  PROVE  Sound(<<a, b>>)
<1> DEFINE lines == <<a, b>>
<1>1. Len(lines) = 2 /\ lines[1] = a /\ lines[2] = b
  OBVIOUS
<1>2. Shaped(lines)
  BY <1>1 DEF Shaped, Straight, Plain
<1>3. Described(lines)
  BY <1>1 DEF Described, WrittenIn, StoredIn
<1>4. ASSUME BooksDescribeProg, NEW i \in 1 .. Len(lines)
      PROVE  ReadsWritten(lines, i) /\ LoadsStored(lines, i)
  <2>1. CASE i = 1
    BY <1>1, <1>4, <2>1 DEF ReadsWritten, LoadsStored, ServedBy
  <2>2. CASE i = 2
    BY <1>1, <1>4, <2>2 DEF ReadsWritten, LoadsStored
  <2>3. QED
    BY <1>1, <2>1, <2>2
<1>5. QED
  BY <1>2, <1>3, <1>4 DEF Sound

LEMMA SkipSound ==
  ASSUME BookOK, NEW src \in InitializedGprs, NEW op \in BranchOps,
         labelCounter' = labelCounter + 1,
         UNCHANGED <<kind, watermark>>
  PROVE  Sound(Skip(op, src))
<1> DEFINE lines == Skip(op, src)
<1>1. /\ Len(lines) = 3 /\ lines[1] = Branch(op, src, labelCounter)
      /\ lines[2] = Nop /\ lines[3] = Label(labelCounter)
  BY DEF Skip
<1>2. Shaped(lines)
  BY Selectors DEF Shaped
<1>3. Described(lines)
  BY DEF Described, InitializedGprs, StoredOffsets
<1>4. ASSUME BooksDescribeProg, NEW i \in 1 .. Len(lines)
      PROVE  ReadsWritten(lines, i) /\ LoadsStored(lines, i)
  <2>1. lines[i].op # "LDR" /\ Reads(lines[i]) \subseteq {src}
    BY <1>1 DEF Branch, Nop, Label, Insn, Reads, BranchOps
  <2>2. QED
    BY <1>4, <2>1 DEF ReadsWritten, LoadsStored, BooksDescribeProg
<1>5. QED
  BY <1>2, <1>3, <1>4 DEF Sound

\* The lines themselves.
LEMMA Lines ==
  ASSUME NEW d \in Gprs, NEW s1 \in Gprs, NEW s2 \in Gprs, NEW n \in Nat
  PROVE  /\ Plain(Mov(d, n)) /\ Reads(Mov(d, n)) = {}
         /\ Mov(d, n).dst = d /\ Mov(d, n).op = "MOV"
         /\ Plain(Ldr(d, n)) /\ Reads(Ldr(d, n)) = {}
         /\ Ldr(d, n).dst = d /\ Ldr(d, n).op = "LDR" /\ Ldr(d, n).arg = n
         /\ Plain(Str(s1, n)) /\ Reads(Str(s1, n)) \subseteq {s1}
         /\ Str(s1, n).op = "STR" /\ Str(s1, n).arg = n
         /\ \A op \in AllAluOps :
              /\ Plain(Alu(op, d, s1, s2)) /\ Reads(Alu(op, d, s1, s2)) \subseteq {s1, s2}
              /\ Alu(op, d, s1, s2).dst = d /\ Alu(op, d, s1, s2).op = op
BY DEF Plain, Reads, IsBranch, BranchOps, Mov, Ldr, Str, Alu, Insn, AllAluOps

\* An ALU operation on initialized registers, the only line of its emitter.
LEMMA AluSound ==
  ASSUME BookOK, NEW src1 \in InitializedGprs, NEW src2 \in InitializedGprs,
         NEW dst \in WritableGprs, NEW op \in AluOps,
         MarkScalar(dst), UNCHANGED <<watermark, labelCounter>>
  PROVE  Sound(<<Alu(op, dst, src1, src2)>>)
<1> DEFINE alu == Alu(op, dst, src1, src2)
<1>1. op \in AllAluOps /\ op # "LDR"
  BY EmitterAssumption DEF AllAluOps
<1>2. /\ Plain(alu) /\ alu.dst = dst /\ alu.op = op
      /\ Reads(alu) \subseteq {src1, src2}
  BY <1>1, EmitterAssumption, Lines, Selectors
<1>3. BooksDescribeProg => ServedBy(alu)
  BY <1>1, <1>2 DEF ServedBy, BooksDescribeProg
<1>4. \A r \in InitializedGprs' : r \in InitializedGprs \/ alu.dst = r
  BY <1>2, MarkDescribed
<1>5. StoredOffsets' = StoredOffsets
  BY SameOffsets
<1>6. QED
  BY <1>2, <1>3, <1>4, <1>5, OneLineSound

\* A store and the load of what it stored.
LEMMA StoreLoadSound ==
  ASSUME BookOK, NEW src \in InitializedGprs, NEW dst \in WritableGprs,
         NEW n \in Nat, labelCounter' = labelCounter,
         \A r \in InitializedGprs' : r \in InitializedGprs \/ r = dst,
         \A off \in StoredOffsets' : off \in StoredOffsets \/ off = n
  PROVE  Sound(<<Str(src, n), Ldr(dst, n)>>)
<1> DEFINE str == Str(src, n)
           ldr == Ldr(dst, n)
<1>1. src \in Gprs /\ dst \in Gprs
  BY Selectors
<1>2. /\ Plain(str) /\ str.op = "STR" /\ str.arg = n
      /\ BooksDescribeProg => ServedBy(str)
  BY <1>1, Lines DEF ServedBy, BooksDescribeProg
<1>3. /\ Plain(ldr) /\ ldr.dst = dst /\ ldr.arg = n
      /\ Reads(ldr) = {}
  BY <1>1, Lines
<1>4. QED
  BY <1>2, <1>3, TwoLinesSound

LEMMA DeclineIsSound ==
  ASSUME prog \in Seq(LegalLines), Decline
  PROVE  EmitsSoundly
<1> DEFINE lines == <<>>
<1>1. lines \in Seq(LegalLines) /\ Len(lines) = 0
  OBVIOUS
<1>2. Return(lines)
  BY DEF Return, Decline
<1>3. Shaped(lines) /\ Described(lines)
  BY <1>1 DEF Decline, stateVars, Shaped, Straight, Described, InitializedGprs,
     StoredOffsets
<1>4. Sound(lines)
  BY <1>1, <1>3 DEF Sound
<1>5. QED
  BY <1>1, <1>2, <1>4 DEF EmitsSoundly

-----------------------------------------------------------------------------
(***************************************************************************)
(* Each emitter emits soundly.                                             *)
(***************************************************************************)
LEMMA MovImmSound ==
  ASSUME BookOK, MovImm
  PROVE  EmitsSoundly
<1>1. PICK dst \in WritableGprs, imm \in Imms :
         /\ MarkScalar(dst)
         /\ Return(<<Mov(dst, imm)>>)
         /\ UNCHANGED <<hasScratch, watermark, labelCounter, coverage>>
  BY DEF MovImm
<1>2. imm \in Nat /\ dst \in Gprs
  BY EmitterAssumption, Selectors
<1>3. Plain(Mov(dst, imm)) /\ ServedBy(Mov(dst, imm)) /\ Mov(dst, imm).dst = dst
  BY <1>2, Lines DEF ServedBy
<1>4. Sound(<<Mov(dst, imm)>>)
  BY <1>1, <1>3, OneLineSound, MarkDescribed, SameOffsets
<1>5. QED
  BY <1>1, <1>4, LegalMov DEF EmitsSoundly

LEMMA AluRegRegSound ==
  ASSUME BookOK, prog \in Seq(LegalLines), AluRegReg
  PROVE  EmitsSoundly
<1>1. CASE Decline
  BY <1>1, DeclineIsSound
<1>2. CASE ~Decline
  <2>1. PICK src1 \in InitializedGprs, src2 \in InitializedGprs,
             dst \in WritableGprs, op \in AluOps :
          /\ MarkScalar(dst)
          /\ Return(<<Alu(op, dst, src1, src2)>>)
          /\ UNCHANGED <<hasScratch, watermark, labelCounter, coverage>>
    BY <1>2 DEF AluRegReg
  <2>2. Sound(<<Alu(op, dst, src1, src2)>>)
    BY <2>1, AluSound
  <2>3. <<Alu(op, dst, src1, src2)>> \in Seq(LegalLines)
    BY LegalAlu, Selectors
  <2>4. QED
    BY <2>1, <2>2, <2>3 DEF EmitsSoundly
<1>3. QED
  BY <1>1, <1>2

LEMMA LoadStoredSlotSound ==
  ASSUME BookOK, LoadStoredSlot
  PROVE  EmitsSoundly
<1>1. PICK dst \in WritableGprs, off \in StoredOffsets :
         /\ MarkScalar(dst)
         /\ Return(<<Ldr(dst, off)>>)
         /\ UNCHANGED <<hasScratch, watermark, labelCounter, coverage>>
  BY DEF LoadStoredSlot
<1> DEFINE ldr == Ldr(dst, off)
<1>2. off \in Nat /\ off + 8 <= ScratchSize /\ dst \in Gprs
  BY Selectors
<1>3. Plain(ldr) /\ ldr.dst = dst
      /\ (BooksDescribeProg => ServedBy(ldr))
  BY <1>2, Lines DEF ServedBy, BooksDescribeProg
<1>4. Sound(<<ldr>>)
  BY <1>1, <1>3, OneLineSound, MarkDescribed, SameOffsets
<1>5. <<ldr>> \in Seq(LegalLines)
  BY <1>2, LegalLdr
<1>6. QED
  BY <1>1, <1>4, <1>5 DEF EmitsSoundly

LEMMA LdrRegSound ==
  ASSUME BookOK, prog \in Seq(LegalLines), LdrReg \/ RustLdrReg
  PROVE  EmitsSoundly
BY LoadStoredSlotSound, DeclineIsSound DEF LdrReg, RustLdrReg

LEMMA StrRegSound ==
  ASSUME BookOK, prog \in Seq(LegalLines), StrReg
  PROVE  EmitsSoundly
<1>1. CASE Decline
  BY <1>1, DeclineIsSound
<1>2. CASE ~Decline
  <2>1. CanStore
    BY <1>2 DEF StrReg
  <2>2. PICK src \in InitializedGprs :
          /\ AdvanceWatermark
          /\ Return(<<Str(src, watermark)>>)
          /\ UNCHANGED <<kind, lastWritten, hasScratch, labelCounter, coverage>>
    BY <1>2 DEF StrReg
  <2> DEFINE str == Str(src, watermark)
  <2>3. str \in LegalLines /\ src \in Gprs /\ watermark \in Nat
    BY <2>1, LegalStr, Selectors, StoreRoom
  <2>4. /\ Plain(str) /\ str.op = "STR" /\ str.arg = watermark
        /\ BooksDescribeProg => ServedBy(str)
    BY <2>3, Lines DEF ServedBy, BooksDescribeProg
  <2>5. InitializedGprs' = InitializedGprs
    BY <2>2 DEF InitializedGprs
  <2>6. Sound(<<str>>)
    BY <2>2, <2>4, <2>5, OneLineSound, AdvanceDescribed
  <2>7. <<str>> \in Seq(LegalLines)
    BY <2>3
  <2>8. QED
    BY <2>2, <2>6, <2>7 DEF EmitsSoundly
<1>3. QED
  BY <1>1, <1>2

LEMMA LoadUseSound ==
  ASSUME BookOK, prog \in Seq(LegalLines), LoadUse
  PROVE  EmitsSoundly
<1>1. CASE Decline
  BY <1>1, DeclineIsSound
<1>2. CASE ~Decline
  <2>1. PICK ldrDst \in WritableGprs, aluDst \in WritableGprs,
             off \in StoredOffsets, src2 \in InitializedGprs, op \in LoadUseOps :
          /\ HitCoverage("LoadUseHazard")
          /\ MarkScalars(ldrDst, aluDst)
          /\ Return(<<Ldr(ldrDst, off), Alu(op, aluDst, ldrDst, src2)>>)
          /\ UNCHANGED <<hasScratch, watermark, labelCounter>>
    BY <1>2 DEF LoadUse
  <2> DEFINE ldr == Ldr(ldrDst, off)
             alu == Alu(op, aluDst, ldrDst, src2)
  <2>2. ldr \in LegalLines
    BY LegalLdr, Selectors
  <2>3. alu \in LegalLines
    BY LegalAlu, Selectors DEF LoadUseOps
  <2>4. /\ Plain(ldr) /\ ldr.dst = ldrDst /\ ldr.op = "LDR"
        /\ BooksDescribeProg => ServedBy(ldr)
    BY Lines, Selectors DEF ServedBy, BooksDescribeProg
  <2>5. op \in AllAluOps
    BY EmitterAssumption DEF LoadUseOps
  <2>6. /\ Plain(alu) /\ alu.dst = aluDst /\ alu.op = op
        /\ Reads(alu) \subseteq {ldrDst, src2}
    BY <2>5, Lines, Selectors
  <2>7. BooksDescribeProg =>
          /\ \A r \in Reads(alu) : WrittenIn(prog, r) \/ ldr.dst = r
          /\ alu.op # "LDR"
    BY <2>4, <2>5, <2>6 DEF BooksDescribeProg, AllAluOps
  <2>8. /\ \A r \in InitializedGprs' :
             r \in InitializedGprs \/ ldr.dst = r \/ alu.dst = r
        /\ StoredOffsets' = StoredOffsets
    BY <2>1, <2>4, <2>6, MarkPairDescribed, SameOffsets
  <2>9. Sound(<<ldr, alu>>)
    BY <2>1, <2>4, <2>6, <2>7, <2>8, TwoLinesSound
  <2>10. QED
    BY <2>1, <2>2, <2>3, <2>9, PairOfLegal DEF EmitsSoundly
<1>3. QED
  BY <1>1, <1>2

LEMMA ForwardingAluSound ==
  ASSUME BookOK, prog \in Seq(LegalLines), ForwardingAlu
  PROVE  EmitsSoundly
<1> DEFINE biased == lastWritten # NoReg /\ kind[lastWritten] = "Scalar"
<1>1. CASE Decline
  BY <1>1, DeclineIsSound
<1>2. CASE ~Decline
  <2>1. PICK src1 \in IF biased THEN {lastWritten} ELSE InitializedGprs,
             src2 \in InitializedGprs, dst \in WritableGprs, op \in AluOps :
          /\ IF biased THEN HitCoverage("RawChain") ELSE UNCHANGED coverage
          /\ MarkScalar(dst)
          /\ Return(<<Alu(op, dst, src1, src2)>>)
          /\ UNCHANGED <<hasScratch, watermark, labelCounter>>
    BY <1>2 DEF ForwardingAlu
  <2>2. src1 \in InitializedGprs
    BY DEF BookOK, InitializedGprs
  <2>3. Sound(<<Alu(op, dst, src1, src2)>>)
    BY <2>1, <2>2, AluSound
  <2>4. <<Alu(op, dst, src1, src2)>> \in Seq(LegalLines)
    BY <2>2, LegalAlu, Selectors
  <2>5. QED
    BY <2>1, <2>3, <2>4 DEF EmitsSoundly
<1>3. QED
  BY <1>1, <1>2

LEMMA StoreToLoadSound ==
  ASSUME BookOK, prog \in Seq(LegalLines), StoreToLoad
  PROVE  EmitsSoundly
<1>1. CASE Decline
  BY <1>1, DeclineIsSound
<1>2. CASE ~Decline
  <2>1. CanStore
    BY <1>2 DEF StoreToLoad
  <2>2. PICK src \in InitializedGprs, dst \in WritableGprs :
          /\ HitCoverage("StoreToLoadFwd")
          /\ AdvanceWatermark
          /\ MarkScalar(dst)
          /\ Return(<<Str(src, watermark), Ldr(dst, watermark)>>)
          /\ UNCHANGED <<hasScratch, labelCounter>>
    BY <1>2 DEF StoreToLoad
  <2>3. Sound(<<Str(src, watermark), Ldr(dst, watermark)>>)
    <3>1. watermark \in Nat
      BY <2>1, StoreRoom
    <3>2. \A off \in StoredOffsets' : off \in StoredOffsets \/ off = watermark
      BY <2>2, AdvanceDescribed
    <3>3. \A r \in InitializedGprs' : r \in InitializedGprs \/ r = dst
      BY <2>2, MarkDescribed
    <3>4. QED
      BY <2>2, <3>1, <3>2, <3>3, StoreLoadSound
  <2>4. Str(src, watermark) \in LegalLines /\ Ldr(dst, watermark) \in LegalLines
    BY <2>1, LegalStr, LegalLdr, Selectors, StoreRoom
  <2>5. QED
    BY <2>2, <2>3, <2>4, PairOfLegal DEF EmitsSoundly
<1>3. QED
  BY <1>1, <1>2

LEMMA BranchSkipSound ==
  ASSUME BookOK, prog \in Seq(LegalLines), BranchSkip
  PROVE  EmitsSoundly
<1>1. CASE Decline
  BY <1>1, DeclineIsSound
<1>2. CASE ~Decline
  <2>1. PICK src \in InitializedGprs, op \in BranchOps :
          /\ NextLabelId
          /\ HitCoverage("BranchDense")
          /\ Return(<<Branch(op, src, labelCounter), Nop, Label(labelCounter)>>)
          /\ UNCHANGED <<kind, lastWritten, hasScratch, watermark>>
    BY <1>2 DEF BranchSkip
  <2>2. Sound(Skip(op, src))
    BY <2>1, SkipSound DEF NextLabelId
  <2>3. /\ Branch(op, src, labelCounter) \in LegalLines
        /\ Nop \in LegalLines
        /\ Label(labelCounter) \in LegalLines
    BY LegalBranch, Selectors DEF BookOK
  <2>4. QED
    BY <2>1, <2>2, <2>3, TripleOfLegal DEF Skip, EmitsSoundly
<1>3. QED
  BY <1>1, <1>2

LEMMA CacheLineSplitSound ==
  ASSUME BookOK, prog \in Seq(LegalLines), CacheLineSplit
  PROVE  EmitsSoundly
<1>1. CASE Decline
  BY <1>1, DeclineIsSound
<1>2. CASE ~Decline
  <2>1. PICK src \in InitializedGprs, dst \in WritableGprs :
          /\ HitCoverage("CacheLineSplit")
          /\ MarkScalar(dst)
          /\ Return(<<Str(src, SplitOffset), Ldr(dst, SplitOffset)>>)
          /\ UNCHANGED <<hasScratch, watermark, labelCounter>>
    BY <1>2 DEF CacheLineSplit
  <2>2. Sound(<<Str(src, SplitOffset), Ldr(dst, SplitOffset)>>)
    <3>1. SplitOffset \in Nat /\ StoredOffsets' = StoredOffsets
      BY <2>1, SameOffsets, EmitterAssumption
    <3>2. \A r \in InitializedGprs' : r \in InitializedGprs \/ r = dst
      BY <2>1, MarkDescribed
    <3>3. QED
      BY <2>1, <3>1, <3>2, StoreLoadSound
  <2>3. Str(src, SplitOffset) \in LegalLines /\ Ldr(dst, SplitOffset) \in LegalLines
    BY LegalStr, LegalLdr, Selectors, EmitterAssumption
  <2>4. QED
    BY <2>1, <2>2, <2>3, PairOfLegal DEF EmitsSoundly
<1>3. QED
  BY <1>1, <1>2

LEMMA TryEmitSound ==
  ASSUME BookOK, prog \in Seq(LegalLines), NEW e, TryEmit(e)
  PROVE  EmitsSoundly
BY MovImmSound, AluRegRegSound, LdrRegSound, StrRegSound, LoadUseSound,
   ForwardingAluSound, StoreToLoadSound, BranchSkipSound, CacheLineSplitSound
   DEF TryEmit, ZigForwardingAlu

-----------------------------------------------------------------------------
(***************************************************************************)
(* A sound emission keeps the program legal.                               *)
(***************************************************************************)
LEMMA Positions ==
  ASSUME NEW S, NEW s \in Seq(S), NEW t \in Seq(S)
  PROVE  /\ Len(s) \in Nat /\ Len(t) \in Nat
         /\ s \o t \in Seq(S) /\ Len(s \o t) = Len(s) + Len(t)
         /\ \A i \in 1 .. Len(s) : (s \o t)[i] = s[i]
         /\ \A i \in 1 .. Len(t) : (s \o t)[Len(s) + i] = t[i]
OBVIOUS

\* A position of the extended program is an old one or a new one.
LEMMA OldOrNew ==
  ASSUME NEW m \in Nat, NEW n \in Nat, NEW i \in 1 .. m + n
  PROVE  i \in 1 .. m \/ \E k \in 1 .. n : i = m + k
<1>1. CASE i <= m
  BY <1>1
<1>2. CASE i > m
  <2>1. i - m \in 1 .. n /\ i = m + (i - m)
    BY <1>2
  <2>2. QED
    BY <2>1
<1>3. QED
  BY <1>1, <1>2

LEMMA WrittenGrows ==
  ASSUME NEW S, NEW s \in Seq(S), NEW t \in Seq(S)
  PROVE  /\ \A r : WrittenIn(s, r) \/ WrittenIn(t, r) => WrittenIn(s \o t, r)
         /\ \A n : StoredIn(s, n) \/ StoredIn(t, n) => StoredIn(s \o t, n)
<1> DEFINE u == s \o t
<1>1. \A k \in 1 .. Len(t) : Len(s) + k \in 1 .. Len(u) /\ u[Len(s) + k] = t[k]
  BY Positions
<1>2. \A k \in 1 .. Len(s) : k \in 1 .. Len(u) /\ u[k] = s[k]
  BY Positions
<1> HIDE DEF u
<1>3. /\ \A r : WrittenIn(s, r) \/ WrittenIn(t, r) => WrittenIn(u, r)
      /\ \A n : StoredIn(s, n) \/ StoredIn(t, n) => StoredIn(u, n)
  BY <1>1, <1>2 DEF WrittenIn, StoredIn
<1>4. QED
  BY <1>3 DEF u

\* The executable-after-what-precedes part of legality, line by line.
ReadsFollowWrites(t, i) ==
  /\ \A r \in Reads(t[i]) : \E j \in 1 .. i - 1 : t[j].dst = r
  /\ t[i].op = "LDR" =>
       \E j \in 1 .. i - 1 : t[j].op = "STR" /\ t[j].arg = t[i].arg

LEMMA NewLinesFollow ==
  ASSUME prog \in Seq(LegalLines), NEW lines \in Seq(LegalLines),
         NEW k \in 1 .. Len(lines),
         ReadsWritten(lines, k), LoadsStored(lines, k)
  PROVE  ReadsFollowWrites(prog \o lines, Len(prog) + k)
<1> DEFINE t == prog \o lines
           m == Len(prog)
<1>1. /\ m \in Nat /\ t[m + k] = lines[k]
      /\ \A j \in 1 .. m : j \in 1 .. m + k - 1 /\ t[j] = prog[j]
      /\ \A j \in 1 .. k - 1 : m + j \in 1 .. m + k - 1 /\ t[m + j] = lines[j]
  BY Positions
<1> HIDE DEF t, m
<1>2. ASSUME NEW r \in Reads(lines[k])
      PROVE  \E j \in 1 .. m + k - 1 : t[j].dst = r
  <2>1. CASE WrittenIn(prog, r)
    BY <1>1, <2>1 DEF WrittenIn, m
  <2>2. CASE \E j \in 1 .. k - 1 : lines[j].dst = r
    BY <1>1, <2>2
  <2>3. QED
    BY <2>1, <2>2 DEF ReadsWritten
<1>3. ASSUME lines[k].op = "LDR"
      PROVE  \E j \in 1 .. m + k - 1 : t[j].op = "STR" /\ t[j].arg = lines[k].arg
  <2>1. CASE StoredIn(prog, lines[k].arg)
    BY <1>1, <2>1 DEF StoredIn, m
  <2>2. CASE \E j \in 1 .. k - 1 : lines[j].op = "STR" /\ lines[j].arg = lines[k].arg
    BY <1>1, <2>2
  <2>3. QED
    BY <1>3, <2>1, <2>2 DEF LoadsStored
<1>4. ReadsFollowWrites(t, m + k)
  BY <1>1, <1>2, <1>3 DEF ReadsFollowWrites
<1>5. QED
  BY <1>4 DEF t, m

LEMMA OldLinesFollow ==
  ASSUME prog \in Seq(LegalLines), NEW lines \in Seq(LegalLines),
         DefBeforeUse, LoadsReadStored, NEW i \in 1 .. Len(prog)
  PROVE  ReadsFollowWrites(prog \o lines, i)
<1>1. /\ (prog \o lines)[i] = prog[i]
      /\ \A j \in 1 .. i - 1 : (prog \o lines)[j] = prog[j]
  BY Positions
<1>2. /\ \A r \in Reads(prog[i]) : \E j \in 1 .. i - 1 : prog[j].dst = r
      /\ prog[i].op = "LDR" =>
           \E j \in 1 .. i - 1 : prog[j].op = "STR" /\ prog[j].arg = prog[i].arg
  BY DEF DefBeforeUse, WrittenBefore, LoadsReadStored
<1> DEFINE t == prog \o lines
<1> HIDE DEF t
<1>3. ReadsFollowWrites(t, i)
  BY <1>1, <1>2 DEF ReadsFollowWrites, t
<1>4. QED
  BY <1>3 DEF t

LEMMA AllLinesFollow ==
  ASSUME prog \in Seq(LegalLines), NEW lines \in Seq(LegalLines),
         prog' = prog \o lines, DefBeforeUse, LoadsReadStored,
         \A k \in 1 .. Len(lines) : ReadsWritten(lines, k) /\ LoadsStored(lines, k)
  PROVE  DefBeforeUse' /\ LoadsReadStored'
<1>1. ASSUME NEW i \in 1 .. Len(prog')
      PROVE  ReadsFollowWrites(prog', i)
  <2>1. i \in 1 .. Len(prog) \/ \E k \in 1 .. Len(lines) : i = Len(prog) + k
    BY Positions, OldOrNew
  <2>2. QED
    BY <2>1, OldLinesFollow, NewLinesFollow
<1>2. QED
  BY <1>1 DEF DefBeforeUse, WrittenBefore, LoadsReadStored, ReadsFollowWrites

LEMMA BooksStayTrue ==
  ASSUME prog \in Seq(LegalLines), NEW lines \in Seq(LegalLines),
         prog' = prog \o lines, BooksDescribeProg, Described(lines)
  PROVE  BooksDescribeProg'
BY WrittenGrows DEF BooksDescribeProg, Described

\* What a skip looks like.
LEMMA SkipLines ==
  ASSUME NEW op \in BranchOps, NEW src \in Gprs
  PROVE  /\ Len(Skip(op, src)) = 3
         /\ IsBranch(Skip(op, src)[1]) /\ Skip(op, src)[1].arg = labelCounter
         /\ Skip(op, src)[1].op # "LABEL"
         /\ Skip(op, src)[2] = Nop /\ ~IsBranch(Nop) /\ Nop.op # "LABEL"
         /\ Skip(op, src)[3] = Label(labelCounter)
         /\ ~IsBranch(Label(labelCounter))
BY DEF Skip, Branch, Nop, Label, Insn, IsBranch, BranchOps

\* The only label a call can print is that of the counter.
LEMMA NewLabels ==
  ASSUME NEW lines \in Seq(LegalLines), Shaped(lines), labelCounter \in Nat,
         NEW k \in 1 .. Len(lines), lines[k].op = "LABEL"
  PROVE  k = 3 /\ lines[k].arg = labelCounter /\ labelCounter' = labelCounter + 1
<1>1. ~Straight(lines)
  BY DEF Straight
<1>2. PICK op \in BranchOps, src \in Gprs :
        lines = Skip(op, src) /\ labelCounter' = labelCounter + 1
  BY <1>1 DEF Shaped
<1>3. k \in 1 .. 3
  BY <1>2, SkipLines
<1>4. Label(labelCounter).arg = labelCounter
  BY DEF Label, Insn
<1>5. QED
  BY <1>2, <1>3, <1>4, SkipLines

\* A branch among the lines of a call is the first of a skip.
LEMMA NewBranches ==
  ASSUME NEW lines \in Seq(LegalLines), Shaped(lines),
         NEW k \in 1 .. Len(lines), IsBranch(lines[k])
  PROVE  /\ k = 1 /\ Len(lines) = 3 /\ lines[1].arg = labelCounter
         /\ lines[2] = Nop /\ lines[3] = Label(labelCounter)
         /\ lines[1].op # "LABEL" /\ lines[2].op # "LABEL"
<1>1. ~Straight(lines)
  BY DEF Straight
<1>2. PICK op \in BranchOps, src \in Gprs : lines = Skip(op, src)
  BY <1>1 DEF Shaped
<1>3. k \in 1 .. 3
  BY <1>2, SkipLines
<1>4. QED
  BY <1>2, <1>3, SkipLines

LEMMA LabelsStayBelow ==
  ASSUME prog \in Seq(LegalLines), NEW lines \in Seq(LegalLines),
         prog' = prog \o lines, Shaped(lines), labelCounter \in Nat,
         LabelsBelowCounter
  PROVE  LabelsBelowCounter'
<1>1. labelCounter' \in Nat /\ labelCounter <= labelCounter'
  BY DEF Shaped
<1>2. ASSUME NEW j \in 1 .. Len(prog'), prog'[j].op = "LABEL"
      PROVE  prog'[j].arg < labelCounter'
  <2>1. CASE j \in 1 .. Len(prog)
    <3>1. prog'[j] = prog[j] /\ prog[j] \in LegalLines
      BY <2>1, Positions
    <3>2. prog[j].arg \in Nat /\ prog[j].arg < labelCounter
      BY <1>2, <2>1, <3>1 DEF LabelsBelowCounter, LegalLines, InsnOver
    <3>3. QED
      BY <1>1, <3>1, <3>2
  <2>2. CASE \E k \in 1 .. Len(lines) : j = Len(prog) + k
    <3>1. PICK k \in 1 .. Len(lines) : j = Len(prog) + k
      BY <2>2
    <3>2. prog'[j] = lines[k]
      BY <3>1, Positions
    <3>3. QED
      BY <1>2, <3>2, NewLabels
  <2>3. QED
    BY <2>1, <2>2, Positions, OldOrNew
<1>3. QED
  BY <1>2 DEF LabelsBelowCounter

LEMMA BranchesStaySkips ==
  ASSUME prog \in Seq(LegalLines), NEW lines \in Seq(LegalLines),
         prog' = prog \o lines, Shaped(lines), labelCounter \in Nat,
         LabelsBelowCounter, BranchesSkipOneNop
  PROVE  BranchesSkipOneNop'
<1> DEFINE m == Len(prog)
           Is(t, n) == {j \in 1 .. Len(t) : t[j] = Label(n)}
<1>1. \A n : Label(n).op = "LABEL" /\ Label(n).arg = n
  BY DEF Label, Insn
<1>2. /\ m \in Nat /\ Len(lines) \in Nat /\ Len(prog') = m + Len(lines)
      /\ \A j \in 1 .. m : prog'[j] = prog[j]
      /\ \A k \in 1 .. Len(lines) : prog'[m + k] = lines[k]
  BY Positions
<1> HIDE DEF m
<1>3. ASSUME NEW j \in 1 .. Len(prog')
      PROVE  j \in 1 .. m \/ \E k \in 1 .. Len(lines) : j = m + k
  <2>1. j \in 1 .. m + Len(lines)
    BY <1>2
  <2>2. QED
    BY <1>2, <2>1, OldOrNew
<1>4. ASSUME NEW i \in 1 .. Len(prog'), IsBranch(prog'[i])
      PROVE  /\ i + 2 <= Len(prog')
             /\ prog'[i + 1] = Nop
             /\ Is(prog', prog'[i].arg) = {i + 2}
  <2>1. CASE i \in 1 .. m
    <3> DEFINE n == prog[i].arg
    <3>1. /\ i + 2 <= m /\ prog[i + 1] = Nop
          /\ Is(prog, n) = {i + 2}
      BY <1>2, <1>4, <2>1 DEF BranchesSkipOneNop, m
    <3>2. n < labelCounter
      <4>1. i + 2 \in 1 .. m /\ prog[i + 2] = Label(n)
        BY <3>1 DEF m
      <4>2. QED
        BY <1>1, <4>1 DEF LabelsBelowCounter, m
    <3>3. ASSUME NEW k \in 1 .. Len(lines), prog'[m + k] = Label(n)
          PROVE  FALSE
      <4>1. lines[k].op = "LABEL" /\ lines[k].arg = n
        BY <1>1, <1>2, <3>3
      <4>2. n = labelCounter
        BY <4>1, NewLabels
      <4>3. QED
        BY <3>2, <4>2
    <3>4. Is(prog', n) = {i + 2}
      <4>1. ASSUME NEW j \in 1 .. Len(prog'), prog'[j] = Label(n)
            PROVE  j = i + 2
        <5>1. j \in 1 .. m
          BY <1>3, <3>3, <4>1
        <5>2. j \in Is(prog, n)
          BY <1>2, <4>1, <5>1 DEF m
        <5>3. QED
          BY <3>1, <5>2
      <4>2. i + 2 \in 1 .. Len(prog') /\ prog'[i + 2] = Label(n)
        <5>1. i + 2 \in 1 .. m /\ prog[i + 2] = Label(n)
          BY <3>1 DEF m
        <5>2. QED
          BY <1>2, <5>1
      <4>3. QED
        BY <4>1, <4>2
    <3>5. QED
      BY <1>2, <2>1, <3>1, <3>4
  <2>2. CASE \E k \in 1 .. Len(lines) : i = m + k
    <3>1. PICK k \in 1 .. Len(lines) : i = m + k
      BY <2>2
    <3>2. IsBranch(lines[k])
      BY <1>2, <1>4, <3>1
    <3>3. /\ k = 1 /\ Len(lines) = 3 /\ lines[1].arg = labelCounter
          /\ lines[2] = Nop /\ lines[3] = Label(labelCounter)
          /\ lines[1].op # "LABEL" /\ lines[2].op # "LABEL"
      BY <3>2, NewBranches
    <3>4. /\ i = m + 1 /\ Len(prog') = m + 3
          /\ prog'[m + 1] = lines[1] /\ prog'[m + 2] = lines[2]
          /\ prog'[m + 3] = lines[3]
      <4>1. 1 \in 1 .. Len(lines) /\ 2 \in 1 .. Len(lines) /\ 3 \in 1 .. Len(lines)
        BY <3>3
      <4>2. QED
        BY <1>2, <3>1, <3>3, <4>1
    <3>5. ASSUME NEW j \in 1 .. m
          PROVE  prog'[j] # Label(labelCounter)
      <4>1. prog[j].op = "LABEL" => prog[j].arg < labelCounter
        BY DEF LabelsBelowCounter, m
      <4>2. QED
        BY <1>1, <1>2, <4>1
    <3>6. Is(prog', labelCounter) = {m + 3}
      <4>1. \A j \in 1 .. m + 3 : j \in 1 .. m \/ j \in {m + 1, m + 2, m + 3}
        BY <1>2
      <4>2. prog'[m + 1] # Label(labelCounter) /\ prog'[m + 2] # Label(labelCounter)
        BY <1>1, <3>3, <3>4
      <4>3. ASSUME NEW j \in 1 .. Len(prog'), prog'[j] = Label(labelCounter)
            PROVE  j = m + 3
        BY <3>4, <3>5, <4>1, <4>2, <4>3
      <4>4. m + 3 \in 1 .. Len(prog') /\ prog'[m + 3] = Label(labelCounter)
        BY <1>2, <3>3, <3>4
      <4>5. QED
        BY <4>3, <4>4
    <3>7. i + 1 = m + 2 /\ i + 2 = m + 3 /\ prog'[i].arg = labelCounter
      BY <1>2, <3>3, <3>4
    <3>8. i + 2 <= Len(prog') /\ prog'[i + 1] = Nop
      BY <1>2, <3>3, <3>4, <3>7
    <3>9. QED
      BY <3>6, <3>7, <3>8
  <2>3. QED
    BY <1>3, <2>1, <2>2
<1>5. QED
  BY <1>4 DEF BranchesSkipOneNop

-----------------------------------------------------------------------------
(***************************************************************************)
(* LegalityInv is inductive.                                               *)
(***************************************************************************)
LEMMA EmissionKeepsLegality ==
  ASSUME SafetyInv, LegalityInv, EmitsSoundly
  PROVE  LegalityInv'
<1>1. PICK lines \in Seq(LegalLines) : Return(lines) /\ Sound(lines)
  BY DEF EmitsSoundly
<1>2. prog \in Seq(LegalLines) /\ labelCounter \in Nat
  BY DEF SafetyInv, BookOK
<1>3. Shaped(lines) /\ Described(lines)
  BY <1>1 DEF Sound
<1>4. CASE prog' = prog \o lines
  <2>1. LabelsBelowCounter' /\ BranchesSkipOneNop'
    BY <1>2, <1>3, <1>4, LabelsStayBelow, BranchesStaySkips DEF LegalityInv
  <2>2. ASSUME ~AllocFails
        PROVE  BooksDescribeProg' /\ DefBeforeUse' /\ LoadsReadStored'
    <3>1. BooksDescribeProg /\ DefBeforeUse /\ LoadsReadStored
      BY <2>2 DEF LegalityInv
    <3>2. \A k \in 1 .. Len(lines) : ReadsWritten(lines, k) /\ LoadsStored(lines, k)
      BY <1>1, <3>1 DEF Sound
    <3>3. QED
      BY <1>2, <1>3, <1>4, <3>1, <3>2, AllLinesFollow, BooksStayTrue
  <2>3. QED
    BY <2>1, <2>2 DEF LegalityInv
<1>5. CASE AllocFails /\ prog' = prog
  <2>1. labelCounter' \in Nat /\ labelCounter <= labelCounter'
    BY <1>2, <1>3 DEF Shaped
  <2>2. ASSUME NEW j \in 1 .. Len(prog), prog[j].op = "LABEL"
        PROVE  prog[j].arg < labelCounter'
    <3>1. prog[j].arg < labelCounter /\ prog[j].arg \in Nat
      BY <1>2, <2>2 DEF LegalityInv, LabelsBelowCounter, LegalLines, InsnOver
    <3>2. QED
      BY <1>2, <2>1, <3>1
  <2>3. LabelsBelowCounter' /\ BranchesSkipOneNop'
    BY <1>5, <2>2 DEF LegalityInv, LabelsBelowCounter, BranchesSkipOneNop
  <2>4. QED
    BY <1>5, <2>3 DEF LegalityInv
<1>6. QED
  BY <1>1, <1>4, <1>5 DEF Return, ZigOutOfMemory

LEMMA InitLegality == Init => LegalityInv
<1> SUFFICES ASSUME Init PROVE LegalityInv
  OBVIOUS
<1>1. Len(prog) = 0 /\ InitializedGprs = {} /\ StoredOffsets = {}
  BY DEF Init, StateInit, InitializedGprs, StoredOffsets
<1>2. QED
  BY <1>1 DEF LegalityInv, BooksDescribeProg, LabelsBelowCounter,
     BranchesSkipOneNop, DefBeforeUse, LoadsReadStored

\* Steps that print nothing and claim nothing new.
LEMMA QuietKeepsLegality ==
  ASSUME LegalityInv, UNCHANGED <<kind, labelCounter, prog>>,
         StoredOffsets' \subseteq StoredOffsets
  PROVE  LegalityInv'
<1>1. LabelsBelowCounter' /\ BranchesSkipOneNop'
  BY DEF LegalityInv, LabelsBelowCounter, BranchesSkipOneNop
<1>2. ASSUME ~AllocFails
      PROVE  BooksDescribeProg' /\ DefBeforeUse' /\ LoadsReadStored'
  <2>1. BooksDescribeProg'
    BY <1>2 DEF LegalityInv, BooksDescribeProg, InitializedGprs
  <2>2. DefBeforeUse' /\ LoadsReadStored'
    BY <1>2 DEF LegalityInv, DefBeforeUse, WrittenBefore, LoadsReadStored
  <2>3. QED
    BY <2>1, <2>2
<1>3. QED
  BY <1>1, <1>2 DEF LegalityInv

LEMMA NextLegality == SafetyInv /\ LegalityInv /\ [Next]_vars => LegalityInv'
<1> SUFFICES ASSUME SafetyInv, LegalityInv, [Next]_vars PROVE LegalityInv'
  OBVIOUS
<1> BookOK /\ prog \in Seq(LegalLines)
  BY DEF SafetyInv
<1>1. CASE EmitPrologue
  <2>1. StoredOffsets' = {}
    BY <1>1 DEF EmitPrologue, StoredOffsets
  <2>2. QED
    BY <1>1, <2>1, QuietKeepsLegality DEF EmitPrologue
<1>2. CASE Bootstrap
  BY <1>2, MovImmSound, EmissionKeepsLegality DEF Bootstrap
<1>3. ASSUME NEW slot \in Slots, Generate(slot)
      PROVE  LegalityInv'
  BY <1>3, TryEmitSound, EmissionKeepsLegality DEF Generate
<1>4. CASE Fallback
  BY <1>4, MovImmSound, EmissionKeepsLegality DEF Fallback
<1>5. CASE UNCHANGED emitterVars
  BY <1>5, SameOffsets, QuietKeepsLegality DEF emitterVars, stateVars
<1>6. QED
  BY <1>1, <1>2, <1>3, <1>4, <1>5
     DEF Next, BootstrapDone, Panic, EmitEpilogue, vars

\* The bookkeeping describes the program, which is legal.
THEOREM Legality == Spec => []LegalityInv
<1>1. Init => SafetyInv /\ LegalityInv
  BY InitSafety, InitLegality
<1>2. SafetyInv /\ LegalityInv /\ [Next]_vars => (SafetyInv /\ LegalityInv)'
  BY NextSafety, NextLegality
<1>3. QED
  BY <1>1, <1>2, PTL DEF Spec

\* As long as allocations succeed, every register an instruction reads was
\* written by an earlier line.
THEOREM NothingReadUnwritten == ~AllocFails => (Spec => []DefBeforeUse)
<1> SUFFICES ASSUME ~AllocFails PROVE Spec => []DefBeforeUse
  OBVIOUS
<1>1. LegalityInv => DefBeforeUse
  BY DEF LegalityInv
<1>2. QED
  BY <1>1, Legality, PTL

\* As long as allocations succeed, every load finds a slot already stored.
THEOREM NothingLoadedUnstored == ~AllocFails => (Spec => []LoadsReadStored)
<1> SUFFICES ASSUME ~AllocFails PROVE Spec => []LoadsReadStored
  OBVIOUS
<1>1. LegalityInv => LoadsReadStored
  BY DEF LegalityInv
<1>2. QED
  BY <1>1, Legality, PTL

\* Every branch skips one NOP to a label of its own, allocation failures
\* included.
THEOREM BranchesAreSkips == Spec => []BranchesSkipOneNop
<1>1. LegalityInv => BranchesSkipOneNop
  BY DEF LegalityInv
<1>2. QED
  BY <1>1, Legality, PTL

-----------------------------------------------------------------------------
(***************************************************************************)
(* The generator implements LegalProgram: a call that returns lines is a   *)
(* step Extend, the epilogue is Finish, and everything else is a stutter.  *)
(***************************************************************************)
\* Both modules speak of the same instructions.
LEMMA SameInstructions ==
  /\ Legal!InsnOver(Gprs) = InsnOver(Gprs)
  /\ Legal!Nop = Nop /\ \A n : Legal!Label(n) = Label(n)
  /\ \A i : Legal!Reads(i) = Reads(i)
  /\ \A i : Legal!IsBranch(i) <=> IsBranch(i)
  /\ \A i : Legal!IsMem(i) <=> IsMem(i)
<1>1. Legal!NoReg = NoReg /\ Legal!Opcodes = Opcodes
  BY DEF NoReg, Legal!NoReg, Opcodes, Legal!Opcodes, AllAluOps, Legal!AllAluOps,
     BranchOps, Legal!BranchOps
<1>2. Legal!InsnOver(Gprs) = InsnOver(Gprs)
  BY <1>1 DEF InsnOver, Legal!InsnOver
<1>3. Legal!Nop = Nop /\ \A n : Legal!Label(n) = Label(n)
  BY <1>1 DEF Nop, Legal!Nop, Label, Legal!Label, Insn, Legal!Insn
<1>4. \A i : Legal!Reads(i) = Reads(i)
  BY <1>1 DEF Reads, Legal!Reads
<1>5. \A i : Legal!IsBranch(i) <=> IsBranch(i)
  BY DEF IsBranch, Legal!IsBranch, BranchOps, Legal!BranchOps
<1>6. \A i : Legal!IsMem(i) <=> IsMem(i)
  BY DEF IsMem, Legal!IsMem
<1>7. QED
  BY <1>2, <1>3, <1>4, <1>5, <1>6

LEMMA AddedLineExecutable ==
  ASSUME prog \in Seq(LegalLines), NEW lines \in Seq(LegalLines),
         prog' = prog \o lines, NEW k \in 1 .. Len(lines),
         ReadsWritten(lines, k), LoadsStored(lines, k)
  PROVE  Legal!Executable(prog', Len(prog) + k)
<1> DEFINE i == Len(prog) + k
<1>1. ReadsFollowWrites(prog', i)
  BY NewLinesFollow
<1>2. prog'[i] \in LegalLines
  BY Positions
<1> HIDE DEF i
<1>3. /\ prog'[i] \in Legal!InsnOver(Gprs)
      /\ prog'[i].dst \notin ReservedGprs
      /\ Legal!IsMem(prog'[i]) => prog'[i].arg + 8 <= ScratchSize
  BY <1>2, SameInstructions DEF LegalLines
<1>4. /\ \A r \in Legal!Reads(prog'[i]) : \E j \in 1 .. i - 1 : prog'[j].dst = r
      /\ prog'[i].op = "LDR" =>
           \E j \in 1 .. i - 1 : prog'[j].op = "STR" /\ prog'[j].arg = prog'[i].arg
  BY <1>1, SameInstructions DEF ReadsFollowWrites
<1>5. Legal!Executable(prog', i)
  BY <1>3, <1>4 DEF Legal!Executable
<1>6. QED
  BY <1>5 DEF i

LEMMA ShapedIsLegalShape ==
  ASSUME prog \in Seq(LegalLines), NEW lines \in Seq(LegalLines),
         prog' = prog \o lines, Shaped(lines), labelCounter \in Nat,
         LabelsBelowCounter
  PROVE  LET n == Len(prog)
             added == n + 1 .. Len(prog')
         IN \/ Legal!StraightLine(prog', added)
            \/ added = n + 1 .. n + 3 /\ Legal!SkipsOneNop(prog', n + 1)
<1> DEFINE n == Len(prog)
           added == n + 1 .. Len(prog')
<1>1. /\ n \in Nat /\ Len(lines) \in Nat /\ Len(prog') = n + Len(lines)
      /\ \A j \in 1 .. n : prog'[j] = prog[j]
      /\ \A k \in 1 .. Len(lines) : prog'[n + k] = lines[k]
  BY Positions
<1>2. CASE Straight(lines)
  <2>1. ASSUME NEW i \in added
        PROVE  ~Legal!IsBranch(prog'[i]) /\ prog'[i].op # "LABEL"
    <3>1. i - n \in 1 .. Len(lines) /\ i = n + (i - n)
      BY <1>1
    <3>2. PICK k \in 1 .. Len(lines) : i = n + k
      BY <3>1
    <3>3. prog'[i] = lines[k]
      BY <1>1, <3>2
    <3>4. QED
      BY <1>2, <3>3, SameInstructions DEF Straight
  <2>2. QED
    BY <2>1 DEF Legal!StraightLine
<1>3. CASE \E op \in BranchOps, src \in Gprs : lines = Skip(op, src)
  <2>1. PICK op \in BranchOps, src \in Gprs : lines = Skip(op, src)
    BY <1>3
  <2>2. /\ Len(prog') = n + 3
        /\ IsBranch(prog'[n + 1]) /\ prog'[n + 1].arg = labelCounter
        /\ prog'[n + 2] = Nop /\ prog'[n + 3] = Label(labelCounter)
    <3>1. /\ Len(lines) = 3 /\ IsBranch(lines[1]) /\ lines[1].arg = labelCounter
          /\ lines[2] = Nop /\ lines[3] = Label(labelCounter)
      BY <2>1, SkipLines
    <3>2. prog'[n + 1] = lines[1] /\ prog'[n + 2] = lines[2] /\ prog'[n + 3] = lines[3]
      BY <1>1, <3>1
    <3>3. QED
      BY <1>1, <3>1, <3>2
  <2>3. ASSUME NEW j \in 1 .. n
        PROVE  prog'[j] # Label(labelCounter)
    <3>1. prog'[j] = prog[j] /\ (prog[j].op = "LABEL" => prog[j].arg < labelCounter)
      BY <1>1 DEF LabelsBelowCounter
    <3>2. Label(labelCounter).op = "LABEL" /\ Label(labelCounter).arg = labelCounter
      BY DEF Label, Insn
    <3>3. QED
      BY <1>1, <3>1, <3>2
  <2>4. /\ Legal!Nop = Nop /\ Legal!Label(labelCounter) = Label(labelCounter)
        /\ Legal!IsBranch(prog'[n + 1])
    BY <2>2, SameInstructions
  <2>5. /\ (n + 1) + 1 = n + 2 /\ (n + 1) + 2 = n + 3 /\ (n + 1) - 1 = n
    BY <1>1
  <2>6. Legal!SkipsOneNop(prog', n + 1)
    BY <2>2, <2>3, <2>4, <2>5 DEF Legal!SkipsOneNop
  <2>7. QED
    BY <2>2, <2>6
<1>4. QED
  BY <1>2, <1>3 DEF Shaped

LEMMA EmissionExtends ==
  ASSUME ~AllocFails, SafetyInv, LegalityInv, EmitsSoundly,
         phase # "done", phase' # "done"
  PROVE  Legal!Extend \/ UNCHANGED Legal!legalVars
<1>1. PICK lines \in Seq(LegalLines) : Return(lines) /\ Sound(lines)
  BY DEF EmitsSoundly
<1>2. prog' = prog \o lines
  BY <1>1 DEF Return, ZigOutOfMemory
<1>3. /\ prog \in Seq(LegalLines) /\ labelCounter \in Nat
      /\ BooksDescribeProg /\ LabelsBelowCounter /\ Shaped(lines)
  BY <1>1 DEF SafetyInv, BookOK, LegalityInv, Sound
<1> DEFINE n == Len(prog)
           added == n + 1 .. Len(prog')
<1>4. /\ n \in Nat /\ Len(lines) \in Nat /\ Len(prog') = n + Len(lines)
      /\ \A j \in 1 .. n : prog'[j] = prog[j]
  BY <1>2, <1>3, Positions
<1>5. CASE Len(lines) = 0
  <2>1. prog' = prog
    BY <1>2, <1>3, <1>5
  <2>2. QED
    BY <2>1 DEF Legal!legalVars
<1>6. CASE Len(lines) # 0
  <2>1. added # {}
    <3>1. n + 1 \in added
      BY <1>4, <1>6
    <3>2. QED
      BY <3>1
  <2>2. ASSUME NEW i \in added
        PROVE  Legal!Executable(prog', i)
    <3>1. i - n \in 1 .. Len(lines) /\ i = n + (i - n)
      BY <1>4
    <3>2. PICK k \in 1 .. Len(lines) : i = n + k
      BY <3>1
    <3>3. ReadsWritten(lines, k) /\ LoadsStored(lines, k)
      BY <1>1, <1>3 DEF Sound
    <3>4. QED
      BY <1>2, <1>3, <3>2, <3>3, AddedLineExecutable
  <2>3. \/ Legal!StraightLine(prog', added)
        \/ added = n + 1 .. n + 3 /\ Legal!SkipsOneNop(prog', n + 1)
    BY <1>2, <1>3, ShapedIsLegalShape
  <2>4. QED
    BY <1>4, <2>1, <2>2, <2>3 DEF Legal!Extend
<1>7. QED
  BY <1>5, <1>6

LEMMA StepImplements ==
  ASSUME ~AllocFails, SafetyInv, LegalityInv, [Next]_vars
  PROVE  [Legal!Extend \/ Legal!Finish]_Legal!legalVars
<1> BookOK /\ prog \in Seq(LegalLines)
  BY DEF SafetyInv
<1>1. CASE Bootstrap
  BY <1>1, MovImmSound, EmissionExtends DEF Bootstrap
<1>2. ASSUME NEW slot \in Slots, Generate(slot)
      PROVE  Legal!Extend \/ UNCHANGED Legal!legalVars
  BY <1>2, TryEmitSound, EmissionExtends DEF Generate
<1>3. CASE Fallback
  BY <1>3, MovImmSound, EmissionExtends DEF Fallback
<1>4. CASE EmitEpilogue
  BY <1>4 DEF EmitEpilogue, emitterVars, Legal!Finish
<1>5. CASE EmitPrologue
  BY <1>5 DEF EmitPrologue, Legal!legalVars
<1>6. CASE BootstrapDone
  BY <1>6 DEF BootstrapDone, emitterVars, Legal!legalVars
<1>7. ASSUME NEW slot \in Slots, Panic(slot)
      PROVE  UNCHANGED Legal!legalVars
  BY <1>7 DEF Panic, emitterVars, Legal!legalVars
<1>8. CASE UNCHANGED vars
  BY <1>8 DEF vars, emitterVars, Legal!legalVars
<1>9. QED
  BY <1>1, <1>2, <1>3, <1>4, <1>5, <1>6, <1>7, <1>8 DEF Next

\* As long as allocations succeed, every generator implements LegalProgram.
THEOREM GeneratorImplements == ~AllocFails => (Spec => ImplementsLegalProgram)
<1> SUFFICES ASSUME ~AllocFails PROVE Spec => ImplementsLegalProgram
  OBVIOUS
<1>1. Init => Legal!LegalInit
  BY DEF Init, Legal!LegalInit
<1>2. SafetyInv /\ LegalityInv /\ [Next]_vars
        => [Legal!Extend \/ Legal!Finish]_Legal!legalVars
  BY StepImplements
<1>3. QED
  BY <1>1, <1>2, Safety, Legality, PTL
     DEF Spec, ImplementsLegalProgram, Legal!LegalSpec
=============================================================================
