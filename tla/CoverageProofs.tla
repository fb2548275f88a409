--------------------------- MODULE CoverageProofs ---------------------------
(***************************************************************************)
(* What a generator counts is in the program it prints: an instruction for *)
(* every iteration, the hazard of every coverage point it reports but      *)
(* RawChain, and no branch or line split that it does not report.          *)
(*                                                                         *)
(* The emitters report a point before their lines are appended, and the    *)
(* analyzer looks at the finished text.  The argument is therefore about   *)
(* two moments: the lines of the call that reports a point form the hazard *)
(* whatever precedes them, and lines appended later do not undo it.        *)
(***************************************************************************)
EXTENDS CoverageAudit, GeneratorLegalityProofs, FiniteSetTheorems

-----------------------------------------------------------------------------
(***************************************************************************)
(* Every iteration emits.                                                  *)
(***************************************************************************)
\* The steps of the bootstrap and of the main loop that are behind the run.
StepsBehind ==
  CASE phase = "generate" -> BootstrapCount + iter
    [] phase = "done"     -> BootstrapCount + Count
    [] OTHER              -> iter

\* The inductive invariant.
StepsCounted == phase # "panicked" => Cardinality(Instructions) >= StepsBehind

LEMMA InstructionsFinite ==
  ASSUME prog \in Seq(LegalLines)
  PROVE  IsFiniteSet(Instructions) /\ Cardinality(Instructions) \in Nat
<1>1. IsFiniteSet(1 .. Len(prog)) /\ Instructions \in SUBSET (1 .. Len(prog))
  BY FS_Interval DEF Instructions
<1>2. QED
  BY <1>1, FS_Subset, FS_CardinalityType

\* The first line of a call is never a label.
LEMMA FirstIsInstruction ==
  ASSUME NEW lines \in Seq(LegalLines), Shaped(lines), lines # <<>>
  PROVE  1 \in 1 .. Len(lines) /\ lines[1].op # "LABEL"
<1>1. 1 \in 1 .. Len(lines)
  OBVIOUS
<1>2. CASE Straight(lines)
  BY <1>1, <1>2 DEF Straight
<1>3. CASE \E op \in BranchOps, src \in Gprs : lines = Skip(op, src)
  BY <1>3, SkipLines
<1>4. QED
  BY <1>1, <1>2, <1>3 DEF Shaped

\* A call adds instructions to those there are, at least one if it adds lines.
LEMMA EmissionCounts ==
  ASSUME ~AllocFails, SafetyInv, SafetyInv', EmitsSoundly
  PROVE  /\ Cardinality(Instructions') >= Cardinality(Instructions)
         /\ prog' # prog =>
              Cardinality(Instructions') >= Cardinality(Instructions) + 1
<1>1. PICK lines \in Seq(LegalLines) : Return(lines) /\ Sound(lines)
  BY DEF EmitsSoundly
<1>2. prog' = prog \o lines /\ Shaped(lines)
  BY <1>1 DEF Return, ZigOutOfMemory, Sound
<1>3. prog \in Seq(LegalLines) /\ prog' \in Seq(LegalLines)
  BY DEF SafetyInv
<1> DEFINE n == Len(prog) + 1
<1>4. Instructions \subseteq Instructions' /\ n \notin Instructions
  BY <1>2, <1>3, Positions DEF Instructions
<1>5. /\ IsFiniteSet(Instructions) /\ IsFiniteSet(Instructions')
      /\ Cardinality(Instructions) \in Nat /\ Cardinality(Instructions') \in Nat
  <2>1. IsFiniteSet(1 .. Len(prog')) /\ Instructions' \in SUBSET (1 .. Len(prog'))
    BY <1>3, FS_Interval DEF Instructions
  <2>2. QED
    BY <1>3, <2>1, InstructionsFinite, FS_Subset, FS_CardinalityType
<1>6. ASSUME prog' # prog
      PROVE  n \in Instructions'
  <2>1. lines # <<>>
    BY <1>2, <1>3, <1>6
  <2>2. 1 \in 1 .. Len(lines) /\ lines[1].op # "LABEL"
    BY <1>2, <2>1, FirstIsInstruction
  <2>3. n \in 1 .. Len(prog') /\ prog'[n] = lines[1]
    BY <1>2, <1>3, <2>2, Positions
  <2>4. QED
    BY <2>2, <2>3 DEF Instructions
<1> HIDE DEF n
<1>7. Cardinality(Instructions') >= Cardinality(Instructions)
  BY <1>4, <1>5, FS_Subset
<1>8. ASSUME prog' # prog
      PROVE  Cardinality(Instructions') >= Cardinality(Instructions) + 1
  <2>1. Instructions \cup {n} \in SUBSET Instructions'
    BY <1>4, <1>6, <1>8
  <2>2. Cardinality(Instructions \cup {n}) = Cardinality(Instructions) + 1
    BY <1>4, <1>5, FS_AddElement
  <2>3. Cardinality(Instructions \cup {n}) <= Cardinality(Instructions')
    BY <1>5, <2>1, FS_Subset
  <2>4. QED
    BY <1>5, <2>2, <2>3
<1>9. QED
  BY <1>7, <1>8

\* The bootstrap emitter never declines.
LEMMA MovImmEmits ==
  ASSUME ~AllocFails, SafetyInv, MovImm
  PROVE  prog' # prog
<1>1. PICK a : prog' = prog \o <<a>>
  BY DEF MovImm, Return, ZigOutOfMemory
<1>2. prog \in Seq(LegalLines)
  BY DEF SafetyInv
<1>3. Len(prog') = Len(prog) + 1
  BY <1>1, <1>2
<1>4. QED
  BY <1>2, <1>3

LEMMA InitCounts == Init => StepsCounted
<1> SUFFICES ASSUME Init PROVE StepsCounted
  OBVIOUS
<1>1. Instructions = {} /\ Cardinality(Instructions) = 0
  BY FS_EmptySet DEF Init, Instructions
<1>2. StepsBehind = 0
  BY DEF Init, StepsBehind
<1>3. QED
  BY <1>1, <1>2 DEF StepsCounted

LEMMA NextCounts ==
  ASSUME ~AllocFails, SafetyInv, SafetyInv', StepsCounted, [Next]_vars
  PROVE  StepsCounted'
<1> DEFINE N == Cardinality(Instructions)
<1>1. /\ BookOK /\ prog \in Seq(LegalLines) /\ iter \in Nat
      /\ BootstrapCount \in Nat /\ Count \in Nat
  BY GeneratorAssumption DEF SafetyInv, ControlOK
<1>2. N \in Nat
  BY <1>1, InstructionsFinite
<1>3. N' \in Nat
  <2>1. IsFiniteSet(1 .. Len(prog')) /\ Instructions' \in SUBSET (1 .. Len(prog'))
    BY FS_Interval DEF Instructions, SafetyInv
  <2>2. QED
    BY <2>1, FS_Subset, FS_CardinalityType
<1>4. UNCHANGED prog => N' = N
  BY DEF Instructions
<1>5. ASSUME Bootstrap \/ Fallback
      PROVE  N' >= N + 1
  <2>1. MovImm
    BY <1>5 DEF Bootstrap, Fallback
  <2>2. EmitsSoundly /\ prog' # prog
    BY <1>1, <2>1, MovImmSound, MovImmEmits
  <2>3. QED
    BY <2>2, EmissionCounts
<1>6. ASSUME NEW slot \in Slots, Generate(slot)
      PROVE  N' >= N /\ (prog' # prog => N' >= N + 1)
  BY <1>1, <1>6, TryEmitSound, EmissionCounts DEF Generate
<1> HIDE DEF N
<1> USE DEF StepsCounted, StepsBehind
<1>7. N >= StepsBehind => StepsCounted
  BY DEF N
<1>8. phase # "panicked" => N >= StepsBehind
  BY DEF N
<1>9. N' >= StepsBehind' => StepsCounted'
  BY DEF N
<1> HIDE DEF StepsCounted
<1>10. CASE Bootstrap
  BY <1>1, <1>2, <1>3, <1>5, <1>8, <1>9, <1>10 DEF Bootstrap
<1>11. CASE BootstrapDone
  BY <1>1, <1>4, <1>8, <1>9, <1>11 DEF BootstrapDone, emitterVars
<1>12. ASSUME NEW slot \in Slots, Generate(slot)
       PROVE  StepsCounted'
  BY <1>1, <1>2, <1>3, <1>6, <1>8, <1>9, <1>12 DEF Generate, EndTry
<1>13. CASE Fallback
  BY <1>1, <1>2, <1>3, <1>5, <1>8, <1>9, <1>13 DEF Fallback
<1>14. CASE EmitEpilogue
  BY <1>1, <1>4, <1>8, <1>9, <1>14 DEF EmitEpilogue, emitterVars
<1>15. CASE EmitPrologue
  BY <1>1, <1>4, <1>8, <1>9, <1>15 DEF EmitPrologue
<1>16. ASSUME NEW slot \in Slots, Panic(slot)
       PROVE  StepsCounted'
  BY <1>16 DEF Panic, StepsCounted
<1>17. CASE UNCHANGED vars
  BY <1>4, <1>8, <1>9, <1>17 DEF vars, emitterVars, StepsCounted
<1>18. QED
  BY <1>10, <1>11, <1>12, <1>13, <1>14, <1>15, <1>16, <1>17 DEF Next

\* As long as allocations succeed, a finished program has an instruction for
\* every bootstrap step and every iteration, whatever the strategy.
THEOREM IterationsEmit == ~AllocFails => (Spec => []EveryIterationEmits)
<1> SUFFICES ASSUME ~AllocFails PROVE Spec => []EveryIterationEmits
  OBVIOUS
<1>1. Init => SafetyInv /\ StepsCounted
  BY InitSafety, InitCounts
<1>2. SafetyInv /\ StepsCounted /\ [Next]_vars => (SafetyInv /\ StepsCounted)'
  BY NextSafety, NextCounts
<1>3. SafetyInv /\ StepsCounted => EveryIterationEmits
  BY DEF StepsCounted, StepsBehind, EveryIterationEmits
<1>4. QED
  BY <1>1, <1>2, <1>3, PTL DEF Spec

-----------------------------------------------------------------------------
(***************************************************************************)
(* Coverage and the printed text.                                          *)
(***************************************************************************)
\* Line n of the text t is an instruction with the hazard p.
HazardOf(p, t, n) == n \in Audit!ParseAsm(t) /\ Audit!HazardAt(p, t, n)

\* Every point reported, RawChain aside, has its line in the program.
ReportsHaveEvidence ==
  \A p \in coverage \ {"RawChain"} :
    \E n \in 1 .. Len(prog) : HazardOf(p, prog, n)

\* A line whose hazard is its own, not that of a pair, is reported.
ReportedLine(line, points) ==
  /\ IsBranch(line) => "BranchDense" \in points
  /\ IsMem(line) /\ line.arg = SplitOffset => "CacheLineSplit" \in points

LinesReported == \A n \in 1 .. Len(prog) : ReportedLine(prog[n], coverage)

\* The inductive invariant, beside SafetyInv.
CoverageInv == (~AllocFails => ReportsHaveEvidence) /\ LinesReported

\* What a call of try_emit owes to the audit: the hazard of a point it reports
\* is in its lines, and it reports the points its lines stand for.
Evident(lines) ==
  \A p \in coverage' \ (coverage \cup {"RawChain"}) :
    \E k \in 1 .. Len(lines) : HazardOf(p, prog \o lines, Len(prog) + k)

Audited(lines) ==
  /\ coverage \subseteq coverage'
  /\ Evident(lines)
  /\ \A k \in 1 .. Len(lines) : ReportedLine(lines[k], coverage')

EmitsAudited == \E lines \in Seq(LegalLines) : Return(lines) /\ Audited(lines)

\* The analyzer speaks of the same instructions.
LEMMA SameAnalysis ==
  /\ \A t : Audit!ParseAsm(t) = {n \in 1 .. Len(t) : t[n].op # "LABEL"}
  /\ \A i : Audit!IsBranch(i) <=> IsBranch(i)
  /\ \A i : Audit!IsMem(i) <=> IsMem(i)
  /\ \A i : Reads(i) \subseteq Audit!Srcs(i)
<1>1. \A i : Audit!IsMem(i) <=> IsMem(i)
  BY DEF IsMem, Audit!IsMem
<1>2. \A i : Audit!IsBranch(i) <=> IsBranch(i)
  BY DEF IsBranch, Audit!IsBranch, BranchOps, Audit!BranchOps
<1>3. \A i : Reads(i) \subseteq Audit!Srcs(i)
  BY DEF Reads, NoReg, Audit!Reads, Audit!Srcs, Audit!NoReg
<1>4. QED
  BY <1>1, <1>2, <1>3 DEF Audit!ParseAsm

\* Lines appended do not change what precedes a line.
LEMMA HazardsStay ==
  ASSUME NEW S, NEW s \in Seq(S), NEW t \in Seq(S), NEW p, NEW n,
         HazardOf(p, s, n)
  PROVE  HazardOf(p, s \o t, n)
<1> DEFINE u == s \o t
<1>1. /\ Len(s) \in Nat /\ Len(u) \in Nat /\ Len(s) <= Len(u)
      /\ \A i \in 1 .. Len(s) : u[i] = s[i]
  BY Positions
<1>2. n \in 1 .. Len(s) /\ n \in Audit!ParseAsm(s)
  BY SameAnalysis DEF HazardOf
<1> HIDE DEF u
<1>3. \A i \in 1 .. n : i \in Audit!ParseAsm(u) <=> i \in Audit!ParseAsm(s)
  BY <1>1, <1>2, SameAnalysis
<1>4. \A i \in Audit!ParseAsm(u) \cup Audit!ParseAsm(s) : i \in Nat /\ i >= 1
  BY <1>1, SameAnalysis
<1>5. ASSUME NEW m \in Audit!Prev(s, n)
      PROVE  m \in Audit!Prev(u, n) /\ u[m] = s[m]
  <2>1. /\ m \in Audit!ParseAsm(s) /\ m < n
        /\ \A k \in m + 1 .. n - 1 : k \notin Audit!ParseAsm(s)
    BY DEF Audit!Prev
  <2>2. m \in 1 .. n /\ \A k \in m + 1 .. n - 1 : k \in 1 .. n
    BY <1>2, <1>4, <2>1
  <2>3. m \in Audit!ParseAsm(u) /\ \A k \in m + 1 .. n - 1 : k \notin Audit!ParseAsm(u)
    BY <1>3, <2>1, <2>2
  <2>4. u[m] = s[m]
    BY <1>1, <1>2, <2>2
  <2>5. QED
    BY <2>1, <2>3, <2>4 DEF Audit!Prev
<1>6. n \in Audit!ParseAsm(u) /\ u[n] = s[n]
  BY <1>1, <1>2, <1>3
<1>7. Audit!HazardAt(p, u, n)
  BY <1>5, <1>6 DEF HazardOf, Audit!HazardAt
<1>8. HazardOf(p, u, n)
  BY <1>6, <1>7 DEF HazardOf
<1>9. QED
  BY <1>8 DEF u

-----------------------------------------------------------------------------
(***************************************************************************)
(* Each emitter reports what it emits.                                     *)
(***************************************************************************)
\* A slot never straddles a cache line.
LEMMA SlotsDoNotSplit ==
  ASSUME BookOK
  PROVE  watermark # SplitOffset /\ SplitOffset \notin StoredOffsets
<1>1. watermark \in Nat /\ watermark % 8 = 0 /\ SplitOffset % 8 # 0
  BY ScratchAssumption, SplitAssumption DEF BookOK
<1>2. \A k \in Int : (8 * k) % 8 = 0
  OBVIOUS
<1>3. \A k \in 0 .. (watermark \div 8 - 1) : k \in Int
  BY <1>1
<1>4. QED
  BY <1>1, <1>2, <1>3 DEF StoredOffsets

\* A line without a hazard of its own, reporting at most RawChain.
Silent(a) == ~IsBranch(a) /\ (IsMem(a) => a.arg # SplitOffset)

QuietCoverage == coverage' \in {coverage, coverage \cup {"RawChain"}}

LEMMA SilentLine ==
  ASSUME NEW a, Silent(a), QuietCoverage
  PROVE  Audited(<<a>>)
<1>1. Len(<<a>>) = 1 /\ <<a>>[1] = a
  OBVIOUS
<1>2. Evident(<<a>>)
  BY DEF Evident, QuietCoverage
<1>3. QED
  BY <1>1, <1>2 DEF Audited, ReportedLine, Silent, QuietCoverage

\* What the lines of the emitters are to the analyzer.
LEMMA MovAudited == ASSUME NEW d, NEW n PROVE Silent(Mov(d, n))
BY DEF Silent, IsBranch, BranchOps, IsMem, Mov, Insn

LEMMA LdrAudited ==
  ASSUME NEW d, NEW n
  PROVE  /\ Ldr(d, n).op = "LDR" /\ Ldr(d, n).dst = d /\ Ldr(d, n).arg = n
         /\ ~IsBranch(Ldr(d, n)) /\ (n # SplitOffset => Silent(Ldr(d, n)))
BY DEF Silent, IsBranch, BranchOps, IsMem, Ldr, Insn

LEMMA StrAudited ==
  ASSUME NEW s, NEW n
  PROVE  /\ Str(s, n).op = "STR" /\ Str(s, n).arg = n
         /\ ~IsBranch(Str(s, n)) /\ (n # SplitOffset => Silent(Str(s, n)))
BY DEF Silent, IsBranch, BranchOps, IsMem, Str, Insn

LEMMA AluLineAudited ==
  ASSUME NEW op \in AllAluOps, NEW d, NEW s1, NEW s2
  PROVE  /\ Silent(Alu(op, d, s1, s2)) /\ Alu(op, d, s1, s2).op # "LABEL"
         /\ s1 # NoReg => s1 \in Reads(Alu(op, d, s1, s2))
BY DEF Silent, IsBranch, BranchOps, IsMem, Reads, Alu, Insn, AllAluOps

\* The pair of lines a call appends, and the line that has the hazard.
LEMMA PairHazard ==
  ASSUME NEW S, prog \in Seq(S), NEW a \in S, NEW b \in S, NEW p,
         a.op # "LABEL", b.op # "LABEL",
         \/ p = "LoadUseHazard" /\ a.op = "LDR" /\ a.dst \in Reads(b)
         \/ p = "StoreToLoadFwd" /\ a.op = "STR" /\ b.op = "LDR" /\ a.arg = b.arg
  PROVE  HazardOf(p, prog \o <<a, b>>, Len(prog) + 2)
<1> DEFINE t == prog \o <<a, b>>
           m == Len(prog) + 1
           n == Len(prog) + 2
<1>1. /\ m \in 1 .. Len(t) /\ n \in 1 .. Len(t) /\ t[m] = a /\ t[n] = b
      /\ m < n /\ m + 1 = n /\ n - 1 < n
  OBVIOUS
<1>2. m + 1 .. n - 1 = {}
  BY <1>1
<1> HIDE DEF t, m, n
<1>3. m \in Audit!ParseAsm(t) /\ n \in Audit!ParseAsm(t)
  BY <1>1, SameAnalysis
<1>4. m \in Audit!Prev(t, n)
  BY <1>1, <1>2, <1>3 DEF Audit!Prev
<1>5. p = "LoadUseHazard" => t[m].dst \in Audit!Srcs(t[n])
  BY <1>1, SameAnalysis
<1>6. Audit!HazardAt(p, t, n)
  BY <1>1, <1>4, <1>5 DEF Audit!HazardAt
<1>7. HazardOf(p, t, n)
  BY <1>3, <1>6 DEF HazardOf
<1>8. QED
  BY <1>7 DEF t, n

LEMMA DeclineAudited ==
  ASSUME prog \in Seq(LegalLines), Decline
  PROVE  EmitsAudited
<1> DEFINE lines == <<>>
<1>1. lines \in Seq(LegalLines) /\ Len(lines) = 0
  OBVIOUS
<1>2. Return(lines)
  BY DEF Return, Decline
<1>3. Audited(lines)
  BY <1>1 DEF Audited, Evident, Decline, stateVars
<1>4. QED
  BY <1>1, <1>2, <1>3 DEF EmitsAudited

LEMMA SilentLineAudited ==
  ASSUME NEW a \in LegalLines, Silent(a), QuietCoverage, Return(<<a>>)
  PROVE  EmitsAudited
<1>1. <<a>> \in Seq(LegalLines)
  OBVIOUS
<1>2. QED
  BY <1>1, SilentLine DEF EmitsAudited

LEMMA MovImmAudited ==
  ASSUME BookOK, MovImm
  PROVE  EmitsAudited
<1>1. PICK dst \in WritableGprs, imm \in Imms :
        Return(<<Mov(dst, imm)>>) /\ coverage' = coverage
  BY DEF MovImm
<1>2. Mov(dst, imm) \in LegalLines /\ Silent(Mov(dst, imm))
  BY LegalMov, MovAudited
<1>3. QED
  BY <1>1, <1>2, SilentLineAudited DEF QuietCoverage

\* The ALU operations of AluRegReg and ForwardingAlu.
LEMMA AluAudited ==
  ASSUME BookOK, QuietCoverage,
         NEW dst \in WritableGprs, NEW src1 \in InitializedGprs,
         NEW src2 \in InitializedGprs, NEW op \in AluOps,
         Return(<<Alu(op, dst, src1, src2)>>)
  PROVE  EmitsAudited
<1>1. Alu(op, dst, src1, src2) \in LegalLines
  BY LegalAlu, Selectors
<1>2. Silent(Alu(op, dst, src1, src2))
  BY AluLineAudited, EmitterAssumption
<1>3. QED
  BY <1>1, <1>2, SilentLineAudited

LEMMA AluRegRegAudited ==
  ASSUME BookOK, prog \in Seq(LegalLines), AluRegReg
  PROVE  EmitsAudited
<1>1. CASE Decline
  BY <1>1, DeclineAudited
<1>2. CASE ~Decline
  <2>1. PICK src1 \in InitializedGprs, src2 \in InitializedGprs,
             dst \in WritableGprs, op \in AluOps :
          Return(<<Alu(op, dst, src1, src2)>>) /\ coverage' = coverage
    BY <1>2 DEF AluRegReg
  <2>2. QED
    BY <2>1, AluAudited DEF QuietCoverage
<1>3. QED
  BY <1>1, <1>2

LEMMA ForwardingAluAudited ==
  ASSUME BookOK, prog \in Seq(LegalLines), ForwardingAlu
  PROVE  EmitsAudited
<1> DEFINE biased == lastWritten # NoReg /\ kind[lastWritten] = "Scalar"
<1>1. CASE Decline
  BY <1>1, DeclineAudited
<1>2. CASE ~Decline
  <2>1. PICK src1 \in IF biased THEN {lastWritten} ELSE InitializedGprs,
             src2 \in InitializedGprs, dst \in WritableGprs, op \in AluOps :
          /\ IF biased THEN HitCoverage("RawChain") ELSE UNCHANGED coverage
          /\ Return(<<Alu(op, dst, src1, src2)>>)
    BY <1>2 DEF ForwardingAlu
  <2>2. src1 \in InitializedGprs
    BY DEF BookOK, InitializedGprs
  <2>3. QuietCoverage
    BY <2>1 DEF QuietCoverage, HitCoverage
  <2>4. QED
    BY <2>1, <2>2, <2>3, AluAudited
<1>3. QED
  BY <1>1, <1>2

LEMMA LdrRegAudited ==
  ASSUME BookOK, prog \in Seq(LegalLines), LdrReg \/ RustLdrReg
  PROVE  EmitsAudited
<1>1. CASE Decline
  BY <1>1, DeclineAudited
<1>2. CASE LoadStoredSlot
  <2>1. PICK dst \in WritableGprs, off \in StoredOffsets :
          Return(<<Ldr(dst, off)>>) /\ coverage' = coverage
    BY <1>2 DEF LoadStoredSlot
  <2>2. Ldr(dst, off) \in LegalLines
    BY LegalLdr, Selectors
  <2>3. Silent(Ldr(dst, off))
    BY LdrAudited, SlotsDoNotSplit
  <2>4. QED
    BY <2>1, <2>2, <2>3, SilentLineAudited DEF QuietCoverage
<1>3. QED
  BY <1>1, <1>2 DEF LdrReg, RustLdrReg

LEMMA StrRegAudited ==
  ASSUME BookOK, prog \in Seq(LegalLines), StrReg
  PROVE  EmitsAudited
<1>1. CASE Decline
  BY <1>1, DeclineAudited
<1>2. CASE ~Decline
  <2>1. CanStore
    BY <1>2 DEF StrReg
  <2>2. PICK src \in InitializedGprs :
          Return(<<Str(src, watermark)>>) /\ coverage' = coverage
    BY <1>2 DEF StrReg
  <2>3. Str(src, watermark) \in LegalLines
    BY <2>1, LegalStr, Selectors, StoreRoom
  <2>4. Silent(Str(src, watermark))
    BY StrAudited, SlotsDoNotSplit
  <2>5. QED
    BY <2>2, <2>3, <2>4, SilentLineAudited DEF QuietCoverage
<1>3. QED
  BY <1>1, <1>2

\* A call that reports p and returns two lines, the second of which has it.
LEMMA PairAudited ==
  ASSUME prog \in Seq(LegalLines), NEW a \in LegalLines, NEW b \in LegalLines,
         Return(<<a, b>>), NEW p, HitCoverage(p),
         HazardOf(p, prog \o <<a, b>>, Len(prog) + 2),
         ReportedLine(a, coverage'), ReportedLine(b, coverage')
  PROVE  EmitsAudited
<1> DEFINE lines == <<a, b>>
<1>1. /\ lines \in Seq(LegalLines) /\ Len(lines) = 2
      /\ lines[1] = a /\ lines[2] = b
  OBVIOUS
<1> HIDE DEF lines
<1>2. Return(lines) /\ HazardOf(p, prog \o lines, Len(prog) + 2)
  BY DEF lines
<1>3. 2 \in 1 .. Len(lines) /\ \A k \in 1 .. Len(lines) : k = 1 \/ k = 2
  BY <1>1
<1>4. Evident(lines)
  BY <1>2, <1>3 DEF Evident, HitCoverage
<1>5. Audited(lines)
  BY <1>1, <1>3, <1>4 DEF Audited, HitCoverage
<1>6. QED
  BY <1>1, <1>2, <1>5 DEF EmitsAudited

LEMMA LoadUseAudited ==
  ASSUME BookOK, prog \in Seq(LegalLines), LoadUse
  PROVE  EmitsAudited
<1>1. CASE Decline
  BY <1>1, DeclineAudited
<1>2. CASE ~Decline
  <2>1. PICK ldrDst \in WritableGprs, aluDst \in WritableGprs,
             off \in StoredOffsets, src2 \in InitializedGprs, op \in LoadUseOps :
          /\ HitCoverage("LoadUseHazard")
          /\ Return(<<Ldr(ldrDst, off), Alu(op, aluDst, ldrDst, src2)>>)
    BY <1>2 DEF LoadUse
  <2> DEFINE ldr == Ldr(ldrDst, off)
             alu == Alu(op, aluDst, ldrDst, src2)
  <2>2. op \in AluOps /\ op \in AllAluOps
    BY EmitterAssumption DEF LoadUseOps
  <2>3. ldr \in LegalLines /\ alu \in LegalLines
    BY <2>2, LegalLdr, LegalAlu, Selectors
  <2>4. ldrDst # NoReg
    <3>1. ldrDst \in Nat
      BY Selectors, GprsAssumption
    <3>2. QED
      BY <3>1 DEF NoReg
  <2>5. ldr.op = "LDR" /\ ldr.dst = ldrDst /\ Silent(ldr)
    BY LdrAudited, SlotsDoNotSplit
  <2>6. /\ alu.op # "LABEL" /\ ldrDst \in Reads(alu) /\ Silent(alu)
    BY <2>2, <2>4, AluLineAudited
  <2> HIDE DEF ldr, alu
  <2>7. HazardOf("LoadUseHazard", prog \o <<ldr, alu>>, Len(prog) + 2)
    BY <2>3, <2>5, <2>6, PairHazard
  <2>8. ReportedLine(ldr, coverage') /\ ReportedLine(alu, coverage')
    BY <2>5, <2>6 DEF Silent, ReportedLine
  <2>9. Return(<<ldr, alu>>)
    BY <2>1 DEF ldr, alu
  <2>10. QED
    BY <2>1, <2>3, <2>7, <2>8, <2>9, PairAudited
<1>3. QED
  BY <1>1, <1>2

LEMMA StoreToLoadAudited ==
  ASSUME BookOK, prog \in Seq(LegalLines), StoreToLoad
  PROVE  EmitsAudited
<1>1. CASE Decline
  BY <1>1, DeclineAudited
<1>2. CASE ~Decline
  <2>1. CanStore
    BY <1>2 DEF StoreToLoad
  <2>2. PICK src \in InitializedGprs, dst \in WritableGprs :
          /\ HitCoverage("StoreToLoadFwd")
          /\ Return(<<Str(src, watermark), Ldr(dst, watermark)>>)
    BY <1>2 DEF StoreToLoad
  <2> DEFINE str == Str(src, watermark)
             ldr == Ldr(dst, watermark)
  <2>3. str \in LegalLines /\ ldr \in LegalLines
    BY <2>1, LegalStr, LegalLdr, Selectors, StoreRoom
  <2>4. /\ str.op = "STR" /\ str.arg = watermark /\ Silent(str)
        /\ ldr.op = "LDR" /\ ldr.arg = watermark /\ Silent(ldr)
    BY StrAudited, LdrAudited, SlotsDoNotSplit
  <2> HIDE DEF str, ldr
  <2>5. HazardOf("StoreToLoadFwd", prog \o <<str, ldr>>, Len(prog) + 2)
    BY <2>3, <2>4, PairHazard
  <2>6. ReportedLine(str, coverage') /\ ReportedLine(ldr, coverage')
    BY <2>4 DEF Silent, ReportedLine
  <2>7. Return(<<str, ldr>>)
    BY <2>2 DEF str, ldr
  <2>8. QED
    BY <2>2, <2>3, <2>5, <2>6, <2>7, PairAudited
<1>3. QED
  BY <1>1, <1>2

\* A line whose hazard is its own, as the first of the lines of a call.
LEMMA FirstLineHazard ==
  ASSUME prog \in Seq(LegalLines), NEW lines \in Seq(LegalLines),
         1 \in 1 .. Len(lines), NEW p,
         \/ p = "BranchDense" /\ IsBranch(lines[1])
         \/ p = "CacheLineSplit" /\ IsMem(lines[1]) /\ lines[1].arg = SplitOffset
  PROVE  HazardOf(p, prog \o lines, Len(prog) + 1)
<1> DEFINE t == prog \o lines
           n == Len(prog) + 1
<1>1. n \in 1 .. Len(t) /\ t[n] = lines[1]
  BY Positions
<1>2. lines[1].op # "LABEL"
  BY DEF IsBranch, BranchOps, IsMem
<1> HIDE DEF t, n
<1>3. n \in Audit!ParseAsm(t)
  BY <1>1, <1>2, SameAnalysis
<1>4. HazardOf(p, t, n)
  BY <1>1, <1>3, SameAnalysis DEF HazardOf, Audit!HazardAt
<1>5. QED
  BY <1>4 DEF t, n

LEMMA BranchSkipAudited ==
  ASSUME BookOK, prog \in Seq(LegalLines), BranchSkip
  PROVE  EmitsAudited
<1>1. CASE Decline
  BY <1>1, DeclineAudited
<1>2. CASE ~Decline
  <2>1. PICK src \in InitializedGprs, op \in BranchOps :
          /\ HitCoverage("BranchDense")
          /\ Return(Skip(op, src))
    BY <1>2 DEF BranchSkip, Skip
  <2> DEFINE lines == Skip(op, src)
  <2>2. /\ Branch(op, src, labelCounter) \in LegalLines
        /\ Nop \in LegalLines /\ Label(labelCounter) \in LegalLines
    BY LegalBranch, Selectors DEF BookOK
  <2>3. lines \in Seq(LegalLines)
    BY <2>2, TripleOfLegal DEF Skip
  <2>4. /\ Len(lines) = 3 /\ IsBranch(lines[1])
        /\ lines[2] = Nop /\ lines[3] = Label(labelCounter)
    BY Selectors, SkipLines
  <2> HIDE DEF lines
  <2>5. 1 \in 1 .. Len(lines) /\ \A k \in 1 .. Len(lines) : k \in {1, 2, 3}
    BY <2>4
  <2>6. HazardOf("BranchDense", prog \o lines, Len(prog) + 1)
    BY <2>3, <2>4, <2>5, FirstLineHazard
  <2>7. Evident(lines)
    BY <2>1, <2>5, <2>6 DEF Evident, HitCoverage
  <2>8. ~IsMem(lines[2]) /\ ~IsMem(lines[3]) /\ ~IsMem(lines[1])
    BY <2>4 DEF IsMem, IsBranch, BranchOps, Nop, Label, Insn
  <2>9. Audited(lines)
    BY <2>1, <2>5, <2>7, <2>8 DEF Audited, ReportedLine, HitCoverage
  <2>10. QED
    BY <2>1, <2>3, <2>9 DEF EmitsAudited, lines
<1>3. QED
  BY <1>1, <1>2

LEMMA CacheLineSplitAudited ==
  ASSUME BookOK, prog \in Seq(LegalLines), CacheLineSplit
  PROVE  EmitsAudited
<1>1. CASE Decline
  BY <1>1, DeclineAudited
<1>2. CASE ~Decline
  <2>1. PICK src \in InitializedGprs, dst \in WritableGprs :
          /\ HitCoverage("CacheLineSplit")
          /\ Return(<<Str(src, SplitOffset), Ldr(dst, SplitOffset)>>)
    BY <1>2 DEF CacheLineSplit
  <2> DEFINE str == Str(src, SplitOffset)
             ldr == Ldr(dst, SplitOffset)
             lines == <<str, ldr>>
  <2>2. str \in LegalLines /\ ldr \in LegalLines
    BY LegalStr, LegalLdr, Selectors, EmitterAssumption
  <2>3. /\ IsMem(str) /\ str.arg = SplitOffset /\ ~IsBranch(str)
        /\ ~IsBranch(ldr)
    BY StrAudited, LdrAudited DEF IsMem
  <2> HIDE DEF str, ldr
  <2>4. /\ lines \in Seq(LegalLines) /\ Len(lines) = 2
        /\ lines[1] = str /\ lines[2] = ldr
    BY <2>2
  <2>5. Return(lines)
    BY <2>1 DEF str, ldr
  <2> HIDE DEF lines
  <2>6. 1 \in 1 .. Len(lines) /\ \A k \in 1 .. Len(lines) : k \in {1, 2}
    BY <2>4
  <2>7. HazardOf("CacheLineSplit", prog \o lines, Len(prog) + 1)
    BY <2>3, <2>4, <2>6, FirstLineHazard
  <2>8. Evident(lines)
    BY <2>1, <2>6, <2>7 DEF Evident, HitCoverage
  <2>9. Audited(lines)
    BY <2>1, <2>3, <2>4, <2>6, <2>8 DEF Audited, ReportedLine, HitCoverage
  <2>10. QED
    BY <2>4, <2>5, <2>9 DEF EmitsAudited
<1>3. QED
  BY <1>1, <1>2

LEMMA TryEmitAudited ==
  ASSUME BookOK, prog \in Seq(LegalLines), NEW e, TryEmit(e)
  PROVE  EmitsAudited
BY MovImmAudited, AluRegRegAudited, LdrRegAudited, StrRegAudited, LoadUseAudited,
   ForwardingAluAudited, StoreToLoadAudited, BranchSkipAudited,
   CacheLineSplitAudited DEF TryEmit, ZigForwardingAlu

-----------------------------------------------------------------------------
(***************************************************************************)
(* CoverageInv is inductive.                                               *)
(***************************************************************************)
LEMMA EmissionKeepsCoverage ==
  ASSUME prog \in Seq(LegalLines), CoverageInv, EmitsAudited
  PROVE  CoverageInv'
<1>1. PICK lines \in Seq(LegalLines) : Return(lines) /\ Audited(lines)
  BY DEF EmitsAudited
<1>2. coverage \subseteq coverage'
  BY <1>1 DEF Audited
<1>3. CASE prog' = prog \o lines
  <2>1. ASSUME NEW n \in 1 .. Len(prog')
        PROVE  ReportedLine(prog'[n], coverage')
    <3>1. n \in 1 .. Len(prog) \/ \E k \in 1 .. Len(lines) : n = Len(prog) + k
      BY <1>3, Positions, OldOrNew
    <3>2. CASE n \in 1 .. Len(prog)
      <4>1. prog'[n] = prog[n]
        BY <1>3, <3>2, Positions
      <4>2. QED
        BY <1>2, <3>2, <4>1 DEF CoverageInv, LinesReported, ReportedLine
    <3>3. ASSUME NEW k \in 1 .. Len(lines), n = Len(prog) + k
          PROVE  ReportedLine(prog'[n], coverage')
      <4>1. prog'[n] = lines[k]
        BY <1>3, <3>3, Positions
      <4>2. QED
        BY <1>1, <4>1 DEF Audited
    <3>4. QED
      BY <3>1, <3>2, <3>3
  <2>2. ASSUME ~AllocFails, NEW p \in coverage' \ {"RawChain"}
        PROVE  \E n \in 1 .. Len(prog') : HazardOf(p, prog', n)
    <3>1. CASE p \in coverage
      <4>1. PICK n \in 1 .. Len(prog) : HazardOf(p, prog, n)
        BY <2>2, <3>1 DEF CoverageInv, ReportsHaveEvidence
      <4>2. HazardOf(p, prog', n)
        BY <1>3, <4>1, HazardsStay
      <4>3. n \in 1 .. Len(prog')
        BY <1>3, Positions
      <4>4. QED
        BY <4>2, <4>3
    <3>2. CASE p \notin coverage
      <4>1. PICK k \in 1 .. Len(lines) : HazardOf(p, prog', Len(prog) + k)
        BY <1>1, <1>3, <2>2, <3>2 DEF Audited, Evident
      <4>2. Len(prog) + k \in 1 .. Len(prog')
        BY <1>3, Positions
      <4>3. QED
        BY <4>1, <4>2
    <3>3. QED
      BY <3>1, <3>2
  <2>3. QED
    BY <2>1, <2>2 DEF CoverageInv, ReportsHaveEvidence, LinesReported
<1>4. CASE AllocFails /\ prog' = prog
  <2>1. LinesReported'
    BY <1>2, <1>4 DEF CoverageInv, LinesReported, ReportedLine
  <2>2. QED
    BY <1>4, <2>1 DEF CoverageInv
<1>5. QED
  BY <1>1, <1>3, <1>4 DEF Return, ZigOutOfMemory

LEMMA InitCoverage == Init => CoverageInv
<1> SUFFICES ASSUME Init PROVE CoverageInv
  OBVIOUS
<1>1. Len(prog) = 0 /\ coverage = {}
  BY DEF Init, StateInit
<1>2. QED
  BY <1>1 DEF CoverageInv, ReportsHaveEvidence, LinesReported

LEMMA NextCoverage == SafetyInv /\ CoverageInv /\ [Next]_vars => CoverageInv'
<1> SUFFICES ASSUME SafetyInv, CoverageInv, [Next]_vars PROVE CoverageInv'
  OBVIOUS
<1> BookOK /\ prog \in Seq(LegalLines)
  BY DEF SafetyInv
<1>1. CASE Bootstrap
  BY <1>1, MovImmAudited, EmissionKeepsCoverage DEF Bootstrap
<1>2. ASSUME NEW slot \in Slots, Generate(slot)
      PROVE  CoverageInv'
  BY <1>2, TryEmitAudited, EmissionKeepsCoverage DEF Generate
<1>3. CASE Fallback
  BY <1>3, MovImmAudited, EmissionKeepsCoverage DEF Fallback
<1>4. CASE UNCHANGED <<prog, coverage>>
  BY <1>4 DEF CoverageInv, ReportsHaveEvidence, LinesReported
<1>5. QED
  BY <1>1, <1>2, <1>3, <1>4
     DEF Next, EmitPrologue, BootstrapDone, Panic, EmitEpilogue, vars,
         emitterVars, stateVars

\* The reports and the text agree in every state.
THEOREM Coverage == Spec => []CoverageInv
<1>1. Init => SafetyInv /\ CoverageInv
  BY InitSafety, InitCoverage
<1>2. SafetyInv /\ CoverageInv /\ [Next]_vars => (SafetyInv /\ CoverageInv)'
  BY NextSafety, NextCoverage
<1>3. QED
  BY <1>1, <1>2, PTL DEF Spec

\* A count is positive when, and only when, some line has the hazard.
LEMMA CountsHazards ==
  ASSUME prog \in Seq(LegalLines), NEW p
  PROVE  Measured(p) > 0 <=> \E n \in 1 .. Len(prog) : HazardOf(p, prog, n)
<1> DEFINE H == {n \in Audit!ParseAsm(prog) : Audit!HazardAt(p, prog, n)}
<1>1. Measured(p) = Cardinality(H)
  <2>1. Audit!Cardinality(H) = Cardinality(H)
    BY DEF Audit!Cardinality, Cardinality
  <2>2. QED
    BY <2>1 DEF Measured, Audit!CountHazards
<1>2. IsFiniteSet(1 .. Len(prog)) /\ H \in SUBSET (1 .. Len(prog))
  BY FS_Interval, SameAnalysis
<1>3. \A n : n \in H <=> HazardOf(p, prog, n)
  BY DEF HazardOf
<1> HIDE DEF H
<1>4. IsFiniteSet(H) /\ Cardinality(H) \in Nat
  BY <1>2, FS_Subset, FS_CardinalityType
<1>5. Cardinality(H) = 0 <=> H = {}
  BY <1>4, FS_EmptySet
<1>6. QED
  BY <1>1, <1>2, <1>3, <1>4, <1>5

\* As long as allocations succeed, the analyzer finds in the program every
\* hazard the generator reports, RawChain aside.
THEOREM ReportsAreMeasured == ~AllocFails => (Spec => []ReportedIsMeasured)
<1> SUFFICES ASSUME ~AllocFails PROVE Spec => []ReportedIsMeasured
  OBVIOUS
<1>1. SafetyInv /\ CoverageInv => ReportedIsMeasured
  BY CountsHazards DEF SafetyInv, CoverageInv, ReportsHaveEvidence, ReportedIsMeasured
<1>2. QED
  BY <1>1, Safety, Coverage, PTL

\* A branch or a line split in the program has been reported, allocation
\* failures included.
THEOREM MeasuresAreReported == Spec => []MeasuredIsReported
<1>1. ASSUME SafetyInv, CoverageInv,
             NEW p \in {"BranchDense", "CacheLineSplit"}, Measured(p) > 0
      PROVE  p \in coverage
  <2>1. PICK n \in 1 .. Len(prog) : HazardOf(p, prog, n)
    BY <1>1, CountsHazards DEF SafetyInv
  <2>2. \/ p = "BranchDense" /\ IsBranch(prog[n])
        \/ p = "CacheLineSplit" /\ IsMem(prog[n]) /\ prog[n].arg = SplitOffset
    BY <2>1, SameAnalysis DEF HazardOf, Audit!HazardAt
  <2>3. QED
    BY <1>1, <2>2 DEF CoverageInv, LinesReported, ReportedLine
<1>2. SafetyInv /\ CoverageInv => MeasuredIsReported
  BY <1>1 DEF MeasuredIsReported
<1>3. QED
  BY <1>2, Safety, Coverage, PTL
=============================================================================
