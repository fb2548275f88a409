-------------------------- MODULE DifferentialProofs --------------------------
(***************************************************************************)
(* The differential comparison for every program a generator can print:    *)
(* without bugs the simulator is the architecture, and with bugs it        *)
(* diverges only if the program has the hazard of one of them.             *)
(*                                                                         *)
(* QEMU walks the lines of the text, the simulator a list stripped of its  *)
(* labels.  The first part is about that list: the index of a line is the  *)
(* number of instructions before it, every index below the length is that  *)
(* of one line, and what follows a line in the text is what its index      *)
(* leads to.  The second shows that a step of either is the function After *)
(* of line, registers and memory; a latch can make the simulator differ    *)
(* from it only if the line executed last and the next one form the        *)
(* hazard.  In the third, the run of QEMU is a sequence of states linked   *)
(* by After, and the simulator is at one of them, whatever its index, until*)
(* it reaches the last.  The last parts show that neither run ever goes    *)
(* back, and that the simulator implements the architecture.               *)
(***************************************************************************)
EXTENDS Differential, GeneratorLegalityProofs, FiniteSetTheorems

-----------------------------------------------------------------------------
(***************************************************************************)
(* Lines and indexes.                                                      *)
(***************************************************************************)
\* The lines of c that are instructions.
Insns(c) == {n \in 1 .. Len(c) : c[n].op # "LABEL"}

\* The instructions before line n.
Before(c, n) == {m \in 1 .. n - 1 : c[m].op # "LABEL"}

Total(c) == Sim!Index(c, Len(c) + 1)

\* The line of index k, the end of the text beyond the last one.
LineAt(c, k) ==
  IF k >= Total(c) THEN Len(c) + 1
  ELSE CHOOSE n \in 1 .. Len(c) : c[n].op # "LABEL" /\ Sim!Index(c, n) = k

LEMMA IndexCounts ==
  ASSUME NEW c, NEW n
  PROVE  Sim!Index(c, n) = Cardinality(Before(c, n))
<1>1. Sim!Index(c, n) = Sim!Cardinality(Before(c, n))
  BY DEF Sim!Index, Sim!NotLabel, Before
<1>2. Sim!Cardinality(Before(c, n)) = Cardinality(Before(c, n))
  BY DEF Sim!Cardinality, Cardinality
<1>3. QED
  BY <1>1, <1>2

LEMMA IndexStep ==
  ASSUME NEW c, NEW n \in Nat \ {0}
  PROVE  /\ IsFiniteSet(Before(c, n)) /\ Sim!Index(c, n) \in Nat
         /\ c[n].op = "LABEL" => Sim!Index(c, n + 1) = Sim!Index(c, n)
         /\ c[n].op # "LABEL" => Sim!Index(c, n + 1) = Sim!Index(c, n) + 1
<1>1. IsFiniteSet(1 .. n - 1) /\ Before(c, n) \in SUBSET (1 .. n - 1)
  BY FS_Interval DEF Before
<1>2. IsFiniteSet(Before(c, n)) /\ Cardinality(Before(c, n)) \in Nat
  BY <1>1, FS_Subset, FS_CardinalityType
<1>3. (n + 1) - 1 = n /\ n \notin Before(c, n)
  BY <1>1
<1>4. ASSUME c[n].op = "LABEL"
      PROVE  Before(c, n + 1) = Before(c, n)
  BY <1>3, <1>4 DEF Before
<1>5. ASSUME c[n].op # "LABEL"
      PROVE  Before(c, n + 1) = Before(c, n) \cup {n}
  BY <1>3, <1>5 DEF Before
<1>6. Cardinality(Before(c, n) \cup {n}) = Cardinality(Before(c, n)) + 1
  BY <1>2, <1>3, FS_AddElement
<1>7. QED
  BY <1>2, <1>4, <1>5, <1>6, IndexCounts

LEMMA FirstIndex == ASSUME NEW c PROVE Sim!Index(c, 1) = 0
<1>1. Before(c, 1) = {} /\ IsFiniteSet(Before(c, 1))
  BY IndexStep DEF Before
<1> DEFINE B == Before(c, 1)
<1> HIDE DEF B
<1>2. Cardinality(B) = 0
  BY <1>1, FS_EmptySet DEF B
<1>3. Sim!Index(c, 1) = Cardinality(B)
  BY IndexCounts DEF B
<1>4. QED
  BY <1>2, <1>3

LEMMA IndexGrows ==
  ASSUME NEW c, NEW m \in Nat \ {0}, NEW n \in Nat \ {0}, m <= n
  PROVE  Sim!Index(c, m) <= Sim!Index(c, n)
<1>1. \A j \in 1 .. m - 1 : j \in 1 .. n - 1
  OBVIOUS
<1>2. Before(c, m) \in SUBSET Before(c, n)
  BY <1>1 DEF Before
<1>3. IsFiniteSet(Before(c, n))
  BY IndexStep
<1>4. QED
  BY <1>2, <1>3, IndexCounts, FS_Subset

LEMMA InsnGrows ==
  ASSUME NEW c, NEW m \in Nat \ {0}, NEW n \in Nat \ {0}, m < n,
         c[m].op # "LABEL"
  PROVE  Sim!Index(c, m) < Sim!Index(c, n)
<1>1. Sim!Index(c, m + 1) = Sim!Index(c, m) + 1 /\ Sim!Index(c, m) \in Nat
  BY IndexStep
<1>2. Sim!Index(c, m + 1) <= Sim!Index(c, n) /\ Sim!Index(c, n) \in Nat
  BY IndexGrows, IndexStep
<1>3. QED
  BY <1>1, <1>2

LEMMA LeastElement ==
  ASSUME NEW T \in SUBSET Nat, T # {}
  PROVE  \E m \in T : \A n \in T : m <= n
<1>1. \E R : IsWellFoundedOn(R, Nat) /\ \A m, n \in Nat : <<n, m>> \in R <=> n < m
  <2>1. \A m, n \in Nat : <<n, m>> \in OpToRel(<, Nat) <=> n < m
    BY DEF OpToRel
  <2>2. QED
    BY <2>1, NatLessThanWellFounded
<1>2. PICK R : IsWellFoundedOn(R, Nat) /\ \A m, n \in Nat : <<n, m>> \in R <=> n < m
  BY <1>1
<1>3. PICK m \in T : \A n \in T : ~(<<n, m>> \in R)
  BY <1>2, WFMin
<1>4. ASSUME NEW n \in T
      PROVE  m <= n
  <2>1. m \in Nat /\ n \in Nat
    OBVIOUS
  <2>2. ~(n < m)
    BY <1>2, <1>3, <2>1, Zenon
  <2>3. QED
    BY <2>1, <2>2
<1>5. QED
  BY <1>4, Zenon

\* Every index below the length is that of one instruction.
LEMMA LineOfIndex ==
  ASSUME NEW c, Len(c) \in Nat, NEW k \in Nat, k < Total(c)
  PROVE  /\ LineAt(c, k) \in Insns(c)
         /\ Sim!Index(c, LineAt(c, k)) = k
         /\ \A n \in Insns(c) : Sim!Index(c, n) = k => n = LineAt(c, k)
<1> DEFINE T == {m \in 1 .. Len(c) + 1 : Sim!Index(c, m) > k}
           Has(n) == c[n].op # "LABEL" /\ Sim!Index(c, n) = k
<1>1. \A n \in 1 .. Len(c) + 1 : Sim!Index(c, n) \in Nat
  BY IndexStep
<1>2. Len(c) + 1 \in T /\ T \in SUBSET Nat
  BY <1>1 DEF Total
<1>3. PICK m \in T : \A n \in T : m <= n
  BY <1>2, LeastElement
<1>4. m \in 1 .. Len(c) + 1 /\ Sim!Index(c, m) > k
  OBVIOUS
<1>5. m # 1
  BY <1>4, FirstIndex
<1>6. m - 1 \in 1 .. Len(c) /\ (m - 1) + 1 = m /\ m - 1 \notin T
  BY <1>3, <1>4, <1>5
<1>7. Sim!Index(c, m - 1) <= k /\ Sim!Index(c, m - 1) \in Nat
  BY <1>1, <1>6
<1>8. Has(m - 1)
  BY <1>4, <1>6, <1>7, IndexStep
<1>9. LineAt(c, k) = CHOOSE n \in 1 .. Len(c) : Has(n)
  <2>1. ~(k >= Total(c))
    BY <1>1 DEF Total
  <2>2. QED
    BY <2>1 DEF LineAt
<1>10. ASSUME NEW x \in 1 .. Len(c), Has(x), NEW y \in 1 .. Len(c), Has(y)
       PROVE  x = y
  <2>1. ~(x < y) /\ ~(y < x)
    BY <1>1, <1>10, InsnGrows
  <2>2. QED
    BY <2>1
<1> HIDE DEF Has, T
<1>11. LineAt(c, k) \in 1 .. Len(c) /\ Has(LineAt(c, k))
  BY <1>6, <1>8, <1>9
<1>12. \A n \in 1 .. Len(c) : Has(n) => n = LineAt(c, k)
  BY <1>10, <1>11
<1>13. QED
  BY <1>11, <1>12 DEF Has, Insns

\* The end of the text, and the index of an instruction.
LEMMA LineOfEnd ==
  ASSUME NEW c, NEW k, k >= Total(c)
  PROVE  LineAt(c, k) = Len(c) + 1
BY DEF LineAt

LEMMA IndexOfInsn ==
  ASSUME NEW c, Len(c) \in Nat, NEW n \in Insns(c)
  PROVE  /\ Sim!Index(c, n) \in Nat /\ Sim!Index(c, n) < Total(c)
         /\ LineAt(c, Sim!Index(c, n)) = n
<1>1. n \in 1 .. Len(c) /\ c[n].op # "LABEL"
  BY DEF Insns
<1>2. Sim!Index(c, n) \in Nat /\ Sim!Index(c, n) < Total(c)
  BY <1>1, IndexStep, InsnGrows DEF Total
<1>3. QED
  BY <1>2, LineOfIndex

-----------------------------------------------------------------------------
(***************************************************************************)
(* Skipping labels.                                                        *)
(***************************************************************************)
\* The first line of c at or after n that is not a label, its end included.
FirstFrom(c, n, k) ==
  /\ k <= Len(c) => c[k].op # "LABEL"
  /\ \A j \in n .. k - 1 : c[j].op = "LABEL"

LEMMA OneFirst ==
  ASSUME NEW c, Len(c) \in Nat, NEW n \in 1 .. Len(c) + 1,
         NEW k \in n .. Len(c) + 1, FirstFrom(c, n, k)
  PROVE  Qemu!SkipLabels(c, n) = k
<1>1. Qemu!SkipLabels(c, n) = CHOOSE x \in n .. Len(c) + 1 : FirstFrom(c, n, x)
  BY DEF Qemu!SkipLabels, FirstFrom
<1>2. ASSUME NEW x \in n .. Len(c) + 1, FirstFrom(c, n, x)
      PROVE  x = k
  <2>1. ~(x < k)
    <3>1. ASSUME x < k
          PROVE  FALSE
      <4>1. x \in n .. k - 1 /\ x <= Len(c)
        BY <3>1
      <4>2. QED
        BY <4>1, <1>2 DEF FirstFrom
    <3>2. QED
      BY <3>1
  <2>2. ~(k < x)
    <3>1. ASSUME k < x
          PROVE  FALSE
      <4>1. k \in n .. x - 1 /\ k <= Len(c)
        BY <3>1
      <4>2. QED
        BY <4>1, <1>2 DEF FirstFrom
    <3>2. QED
      BY <3>1
  <2>3. QED
    BY <2>1, <2>2
<1> HIDE DEF FirstFrom
<1>3. QED
  BY <1>1, <1>2

\* Skipping the labels from line n on leads to the line of n's index.
LEMMA SkipIsLineAt ==
  ASSUME NEW c, Len(c) \in Nat, NEW n \in 1 .. Len(c) + 1
  PROVE  Qemu!SkipLabels(c, n) = LineAt(c, Sim!Index(c, n))
<1> DEFINE k == Sim!Index(c, n)
           m == LineAt(c, k)
<1>1. k \in Nat /\ \A x \in 1 .. Len(c) + 1 : Sim!Index(c, x) \in Nat
  BY IndexStep
<1>2. Total(c) \in Nat
  BY IndexStep DEF Total
<1>3. CASE k < Total(c)
  <2>1. m \in 1 .. Len(c) /\ c[m].op # "LABEL" /\ Sim!Index(c, m) = k
    BY <1>1, <1>3, LineOfIndex DEF Insns
  <2> HIDE DEF k, m
  <2>2. ~(m < n)
    BY <1>1, <2>1, InsnGrows DEF k
  <2>3. ASSUME NEW j \in n .. m - 1, c[j].op # "LABEL"
        PROVE  FALSE
    <3>1. j \in Nat \ {0} /\ j < m /\ n <= j /\ m \in Nat \ {0} /\ j <= Len(c)
      BY <2>1
    <3>2. Sim!Index(c, n) <= Sim!Index(c, j) /\ Sim!Index(c, j) < Sim!Index(c, m)
      BY <3>1, <2>3, IndexGrows, InsnGrows
    <3>3. QED
      BY <1>1, <2>1, <3>1, <3>2 DEF k
  <2>4. m \in n .. Len(c) + 1 /\ FirstFrom(c, n, m)
    BY <2>1, <2>2, <2>3 DEF FirstFrom
  <2>5. QED
    BY <2>4, OneFirst DEF m, k
<1>4. CASE k >= Total(c)
  <2>1. m = Len(c) + 1
    BY <1>4, LineOfEnd
  <2> HIDE DEF m
  <2>2. ASSUME NEW j \in n .. Len(c), c[j].op # "LABEL"
        PROVE  FALSE
    <3>1. j \in Nat \ {0} /\ n <= j /\ j \in Insns(c)
      BY <2>2 DEF Insns
    <3>2. k <= Sim!Index(c, j) /\ Sim!Index(c, j) < Total(c)
      BY <3>1, IndexGrows, IndexOfInsn
    <3>3. Total(c) \in Nat /\ Sim!Index(c, j) \in Nat
      BY <1>2, <3>1, IndexStep
    <3>4. QED
      BY <1>1, <1>4, <3>2, <3>3
  <2>3. m \in n .. Len(c) + 1 /\ FirstFrom(c, n, m)
    BY <2>1, <2>2 DEF FirstFrom
  <2>4. QED
    BY <2>3, OneFirst DEF m, k
<1>5. QED
  BY <1>1, <1>2, <1>3, <1>4

\* What follows the line of index k is the line of index k + 1.
LEMMA NextLine ==
  ASSUME NEW c, Len(c) \in Nat, NEW k \in Nat, k < Total(c)
  PROVE  Qemu!SkipLabels(c, LineAt(c, k) + 1) = LineAt(c, k + 1)
<1> DEFINE n == LineAt(c, k)
<1>1. n \in 1 .. Len(c) /\ c[n].op # "LABEL" /\ Sim!Index(c, n) = k
  BY LineOfIndex DEF Insns
<1> HIDE DEF n
<1>2. Sim!Index(c, n + 1) = k + 1
  BY <1>1, IndexStep
<1>3. Qemu!SkipLabels(c, n + 1) = LineAt(c, Sim!Index(c, n + 1))
  BY <1>1, SkipIsLineAt
<1>4. QED
  BY <1>2, <1>3 DEF n

-----------------------------------------------------------------------------
(***************************************************************************)
(* The operators of the instances are the same.                            *)
(***************************************************************************)
LEMMA SameBits ==
  ASSUME NEW a, NEW b
  PROVE  /\ Sim!OnBits(Sim!AndBits)[a, b] = Qemu!OnBits(Qemu!AndBits)[a, b]
         /\ Arch!OnBits(Arch!AndBits)[a, b] = Qemu!OnBits(Qemu!AndBits)[a, b]
         /\ Sim!OnBits(Sim!OrBits)[a, b] = Qemu!OnBits(Qemu!OrBits)[a, b]
         /\ Arch!OnBits(Arch!OrBits)[a, b] = Qemu!OnBits(Qemu!OrBits)[a, b]
         /\ Sim!OnBits(Sim!XorBits)[a, b] = Qemu!OnBits(Qemu!XorBits)[a, b]
         /\ Arch!OnBits(Arch!XorBits)[a, b] = Qemu!OnBits(Qemu!XorBits)[a, b]
BY DEF Sim!OnBits, Qemu!OnBits, Arch!OnBits, Sim!AndBits, Qemu!AndBits, Arch!AndBits,
       Sim!OrBits, Qemu!OrBits, Arch!OrBits, Sim!XorBits, Qemu!XorBits, Arch!XorBits

\* What run computes under its masks is what the architecture does.
LEMMA SameValues ==
  ASSUME NEW op \in AllAluOps, NEW a, NEW b
  PROVE  /\ Sim!AluValue(op, a, b) = Qemu!AluResult(op, a, b)
         /\ Arch!AluResult(op, a, b) = Qemu!AluResult(op, a, b)
BY SameBits DEF Sim!AluValue, Sim!Mask64, Qemu!AluResult, Arch!AluResult, AllAluOps

\* struct's two granules are the ones an eight-byte access touches, in the same
\* order, wherever the access begins.
LEMMA SameMemory ==
  ASSUME NEW m, NEW off \in Nat, NEW v
  PROVE  /\ Sim!UnpackFrom(m, off) = Qemu!Load(m, off)
         /\ Arch!Load(m, off) = Qemu!Load(m, off)
         /\ Sim!PackInto(m, off, v) = Qemu!Store(m, off, v)
         /\ Arch!Store(m, off, v) = Qemu!Store(m, off, v)
<1> DEFINE q == off \div 4
<1>1. q \in Int
  OBVIOUS
<1>2. Sim!UnpackFrom(m, off) = Qemu!Load(m, off)
  <2>1. Sim!UnpackFrom(m, off) = m[q + 1 - 1] + WordValues * m[q + 2 - 1]
    BY DEF Sim!UnpackFrom
  <2>2. q + 1 - 1 = q /\ q + 2 - 1 = q + 1
    BY <1>1
  <2>3. QED
    BY <2>1, <2>2 DEF Qemu!Load
<1>3. Sim!PackInto(m, off, v) = Qemu!Store(m, off, v)
  <2> DEFINE lo == v % WordValues
             hi == v \div WordValues
  <2>1. q # q + 1
    BY <1>1
  <2>2. Qemu!Store(m, off, v) =
          [g \in DOMAIN m |-> IF g = q + 1 THEN hi ELSE IF g = q THEN lo ELSE m[g]]
    BY DEF Qemu!Store
  <2>3. Sim!PackInto(m, off, v) =
          [g \in DOMAIN m |-> CASE g = q -> lo [] g = q + 1 -> hi [] OTHER -> m[g]]
    BY DEF Sim!PackInto, Sim!Pack
  <2> HIDE DEF q, lo, hi
  <2>4. QED
    BY <2>1, <2>2, <2>3
<1>4. QED
  BY <1>2, <1>3 DEF Arch!Load, Qemu!Load, Arch!Store, Qemu!Store

LEMMA SameReset ==
  /\ Sim!ZeroReg = Qemu!ZeroReg /\ Arch!ZeroReg = Qemu!ZeroReg
  /\ Sim!ZeroMem = Qemu!ZeroMem /\ Arch!ZeroMem = Qemu!ZeroMem
BY DEF Sim!ZeroReg, Qemu!ZeroReg, Arch!ZeroReg, Sim!ZeroMem, Qemu!ZeroMem,
       Arch!ZeroMem

LEMMA SameTests ==
  ASSUME NEW i, NEW v
  PROVE  /\ Sim!Taken(i, v) = Qemu!Taken(i, v) /\ Arch!Taken(i, v) = Qemu!Taken(i, v)
         /\ Sim!IsAlu(i) = IsAlu(i) /\ Qemu!IsAlu(i) = IsAlu(i) /\ Arch!IsAlu(i) = IsAlu(i)
         /\ Sim!IsBranch(i) = IsBranch(i) /\ Qemu!IsBranch(i) = IsBranch(i)
         /\ Arch!IsBranch(i) = IsBranch(i)
         /\ Audit!IsAlu(i) = IsAlu(i)
BY DEF Sim!Taken, Qemu!Taken, Arch!Taken, Sim!IsAlu, Qemu!IsAlu, Arch!IsAlu,
       Audit!IsAlu, IsAlu, Sim!AllAluOps, Qemu!AllAluOps, Arch!AllAluOps,
       Audit!AllAluOps, AllAluOps, Sim!IsBranch, Qemu!IsBranch, Arch!IsBranch,
       IsBranch, Sim!BranchOps, Qemu!BranchOps, Arch!BranchOps, BranchOps

LEMMA SameWalk ==
  ASSUME NEW c, NEW n
  PROVE  /\ Arch!SkipLabels(c, n) = Qemu!SkipLabels(c, n)
         /\ Arch!BranchTarget(c, n) = Qemu!BranchTarget(c, n)
BY DEF Arch!SkipLabels, Qemu!SkipLabels, Arch!BranchTarget, Qemu!BranchTarget,
       Arch!Label, Qemu!Label, Arch!Insn, Qemu!Insn, Arch!NoReg, Qemu!NoReg

-----------------------------------------------------------------------------
(***************************************************************************)
(* One instruction, as a function of line, registers and memory.           *)
(***************************************************************************)
NextReg(i, r, m) ==
  IF IsAlu(i)
  THEN [r EXCEPT ![i.dst] = Qemu!AluResult(i.op, r[i.src1], r[i.src2])]
  ELSE IF i.op = "MOV" THEN [r EXCEPT ![i.dst] = i.arg]
  ELSE IF i.op = "LDR" THEN [r EXCEPT ![i.dst] = Qemu!Load(m, i.arg)]
  ELSE r

NextMem(i, r, m) ==
  IF i.op = "STR" THEN Qemu!Store(m, i.arg, r[i.src1]) ELSE m

NextAt(c, n, r) ==
  IF IsBranch(c[n]) /\ Qemu!Taken(c[n], r[c[n].src1])
  THEN Qemu!BranchTarget(c, c[n].arg)
  ELSE Qemu!SkipLabels(c, n + 1)

After(c, s) ==
  <<NextAt(c, s[1], s[2]), NextReg(c[s[1]], s[2], s[3]), NextMem(c[s[1]], s[2], s[3])>>

\* A step of QEMU is After.
LEMMA QemuSteps ==
  ASSUME Qemu!MachineStep
  PROVE  at <= Len(code) /\ <<at, reg, mem>>' = After(code, <<at, reg, mem>>)
<1> DEFINE i == code[at]
<1>1. at' = NextAt(code, at, reg) /\ at <= Len(code) /\ Qemu!Execute(i)
  BY SameTests DEF Qemu!MachineStep, NextAt
<1> HIDE DEF i
<1>2. reg' = NextReg(i, reg, mem) /\ mem' = NextMem(i, reg, mem)
  <2>1. CASE /\ Qemu!IsAlu(i) /\ mem' = mem
             /\ reg' = [reg EXCEPT ![i.dst] =
                         Qemu!AluResult(i.op, reg[i.src1], reg[i.src2])]
    <3>1. IsAlu(i) /\ i.op # "STR"
      BY <2>1, SameTests DEF IsAlu, AllAluOps
    <3>2. QED
      BY <2>1, <3>1 DEF NextReg, NextMem
  <2>2. CASE i.op = "MOV" /\ reg' = [reg EXCEPT ![i.dst] = i.arg] /\ mem' = mem
    BY <2>2 DEF NextReg, NextMem, IsAlu, AllAluOps
  <2>3. CASE i.op = "LDR" /\ reg' = [reg EXCEPT ![i.dst] = Qemu!Load(mem, i.arg)] /\ mem' = mem
    BY <2>3 DEF NextReg, NextMem, IsAlu, AllAluOps
  <2>4. CASE i.op = "STR" /\ mem' = Qemu!Store(mem, i.arg, reg[i.src1]) /\ reg' = reg
    BY <2>4 DEF NextReg, NextMem, IsAlu, AllAluOps
  <2>5. CASE (Qemu!IsBranch(i) \/ i.op = "NOP") /\ reg' = reg /\ mem' = mem
    <3>1. ~IsAlu(i) /\ i.op \notin {"MOV", "LDR", "STR"}
      BY <2>5, SameTests DEF IsAlu, AllAluOps, IsBranch, BranchOps
    <3>2. QED
      BY <2>5, <3>1 DEF NextReg, NextMem
  <2>6. QED
    BY <1>1, <2>1, <2>2, <2>3, <2>4, <2>5 DEF Qemu!Execute
<1>3. QED
  BY <1>1, <1>2 DEF After, i

-----------------------------------------------------------------------------
(***************************************************************************)
(* The simulator.                                                          *)
(***************************************************************************)
\* The instruction of index pc - 1 is an op whose field f is v.
LastWas(op, f, v) ==
  \E m \in Insns(prog) :
    Sim!Index(prog, m) + 1 = pc /\ prog[m].op = op /\ prog[m][f] = v

\* A latch that is set describes the instruction executed last.
LatchesOK ==
  /\ lastLdrDst # NoReg => LastWas("LDR", "dst", lastLdrDst)
  /\ lastStrAddr # Sim!NoAddr => LastWas("STR", "arg", lastStrAddr)

SimulatorOK ==
  /\ insns = Sim!Stripped(prog) /\ labels = Sim!Places(prog)
  /\ pc \in Nat
  /\ LatchesOK

ProgOK == prog \in Seq(LegalLines) /\ BranchesSkipOneNop

LEMMA StrippedLines ==
  ASSUME NEW c, Len(c) \in Nat
  PROVE  /\ Len(Sim!Stripped(c)) = Total(c) /\ Total(c) \in Nat
         /\ \A k \in Nat : k < Total(c) => Sim!Stripped(c)[k + 1] = c[LineAt(c, k)]
<1>1. Total(c) \in Nat
  BY IndexStep DEF Total
<1>2. Sim!Stripped(c) =
        [k \in 1 .. Total(c) |->
           c[CHOOSE n \in 1 .. Len(c) : c[n].op # "LABEL" /\ Sim!Index(c, n) = k - 1]]
  BY DEF Sim!Stripped, Sim!NotLabel, Total
<1>3. Len(Sim!Stripped(c)) = Total(c)
  BY <1>1, <1>2
<1>4. ASSUME NEW k \in Nat, k < Total(c)
      PROVE  Sim!Stripped(c)[k + 1] = c[LineAt(c, k)]
  <2>1. k + 1 \in 1 .. Total(c) /\ (k + 1) - 1 = k /\ ~(k >= Total(c))
    BY <1>1, <1>4
  <2>2. QED
    BY <1>2, <2>1 DEF LineAt
<1>5. QED
  BY <1>1, <1>3, <1>4

LEMMA CurrentLine ==
  ASSUME prog \in Seq(LegalLines), insns = Sim!Stripped(prog), pc \in Nat
  PROVE  /\ LineOf(pc) = LineAt(prog, pc)
         /\ pc < Len(insns) <=> pc < Total(prog)
         /\ pc < Len(insns) => /\ LineAt(prog, pc) \in Insns(prog)
                               /\ Sim!Index(prog, LineAt(prog, pc)) = pc
                               /\ Sim!Current = prog[LineAt(prog, pc)]
                               /\ Sim!Current \in LegalLines
<1>1. Len(prog) \in Nat /\ \A n \in 1 .. Len(prog) : prog[n] \in LegalLines
  OBVIOUS
<1>2. Len(insns) = Total(prog) /\ Total(prog) \in Nat
  BY <1>1, StrippedLines
<1>3. LineOf(pc) = LineAt(prog, pc)
  BY <1>2 DEF LineOf, LineAt
<1>4. ASSUME pc < Total(prog)
      PROVE  /\ LineAt(prog, pc) \in Insns(prog)
             /\ Sim!Index(prog, LineAt(prog, pc)) = pc
             /\ Sim!Current = prog[LineAt(prog, pc)]
  BY <1>1, <1>4, StrippedLines, LineOfIndex DEF Sim!Current
<1>5. \A n \in Insns(prog) : prog[n] \in LegalLines
  BY <1>1 DEF Insns
<1>6. QED
  BY <1>2, <1>3, <1>4, <1>5

\* A hazard at one line is counted.
LEMMA HazardCounts ==
  ASSUME prog \in Seq(LegalLines), NEW n \in Insns(prog), NEW point,
         Audit!HazardAt(point, prog, n)
  PROVE  Audit!CountHazards(point, prog) > 0
<1> DEFINE H == {k \in Insns(prog) : Audit!HazardAt(point, prog, k)}
<1>1. Audit!ParseAsm(prog) = Insns(prog)
  BY DEF Audit!ParseAsm, Insns
<1>2. Audit!CountHazards(point, prog) = Cardinality(H)
  <2>1. Audit!CountHazards(point, prog) = Audit!Cardinality(H)
    BY <1>1 DEF Audit!CountHazards
  <2>2. Audit!Cardinality(H) = Cardinality(H)
    BY DEF Audit!Cardinality, Cardinality
  <2>3. QED
    BY <2>1, <2>2
<1>3. IsFiniteSet(1 .. Len(prog))
  BY FS_Interval
<1>4. H \in SUBSET (1 .. Len(prog))
  BY DEF Insns
<1>5. n \in H
  OBVIOUS
<1> HIDE DEF H
<1>6. IsFiniteSet(H) /\ Cardinality(H) \in Nat
  BY <1>3, <1>4, FS_Subset, FS_CardinalityType
<1>7. Cardinality(H) # 0
  BY <1>5, <1>6, FS_EmptySet
<1>8. QED
  BY <1>2, <1>6, <1>7

\* The instruction of the index before is the one the analyzer looks at.
LEMMA LastIsPrev ==
  ASSUME prog \in Seq(LegalLines), NEW m \in Insns(prog), NEW n \in Insns(prog),
         Sim!Index(prog, m) + 1 = Sim!Index(prog, n)
  PROVE  m \in Audit!Prev(prog, n)
<1>1. \A k \in Insns(prog) : k \in Nat \ {0} /\ prog[k].op # "LABEL" /\ Sim!Index(prog, k) \in Nat
  BY IndexStep DEF Insns
<1>2. m < n
  BY <1>1, IndexGrows
<1>3. ASSUME NEW k \in m + 1 .. n - 1, k \in Insns(prog)
      PROVE  FALSE
  <2>1. m < k /\ k < n
    BY <1>1
  <2>2. Sim!Index(prog, m) < Sim!Index(prog, k)
    BY <1>1, <1>3, <2>1, InsnGrows
  <2>3. Sim!Index(prog, k) < Sim!Index(prog, n)
    BY <1>1, <1>3, <2>1, InsnGrows
  <2>4. /\ Sim!Index(prog, m) \in Nat /\ Sim!Index(prog, k) \in Nat
        /\ Sim!Index(prog, n) \in Nat
    BY <1>1, <1>3
  <2>5. QED
    BY <2>2, <2>3, <2>4
<1>4. QED
  BY <1>2, <1>3 DEF Audit!Prev, Audit!ParseAsm, Insns

\* The label a branch names stands two lines further on.
LEMMA DefinedBehind ==
  ASSUME ProgOK, NEW n \in 1 .. Len(prog), IsBranch(prog[n])
  PROVE  /\ n + 2 \in 1 .. Len(prog)
         /\ Qemu!BranchTarget(prog, prog[n].arg) = Qemu!SkipLabels(prog, n + 2)
         /\ Sim!Places(prog)[prog[n].arg] = Sim!Index(prog, n + 2)
<1> DEFINE l == prog[n].arg
           D(x) == prog[x] = Label(l)
           d == CHOOSE x \in 1 .. Len(prog) : D(x)
<1>1. {j \in 1 .. Len(prog) : D(j)} = {n + 2}
  BY DEF ProgOK, BranchesSkipOneNop
<1>2. n + 2 \in 1 .. Len(prog) /\ D(n + 2) /\ \A x \in 1 .. Len(prog) : D(x) => x = n + 2
  BY <1>1
<1>3. d = n + 2
  <2> HIDE DEF D
  <2>1. QED
    BY <1>2
<1>4. Qemu!Label(l) = Label(l) /\ Sim!Label(l) = Label(l)
  BY DEF Qemu!Label, Sim!Label, Label, Qemu!Insn, Sim!Insn, Insn, Qemu!NoReg,
         Sim!NoReg, NoReg
<1>5. l \in Sim!LabelNumbers(prog)
  <2>1. prog[n + 2].op = "LABEL" /\ prog[n + 2].arg = l
    BY <1>2 DEF Label, Insn
  <2> HIDE DEF l
  <2>2. QED
    BY <1>2, <2>1 DEF Sim!LabelNumbers, Sim!NotLabel
<1>6. Sim!Places(prog)[l] = Sim!Index(prog, d)
  BY <1>4, <1>5 DEF Sim!Places
<1>7. Qemu!BranchTarget(prog, l) = Qemu!SkipLabels(prog, d)
  BY <1>4 DEF Qemu!BranchTarget
<1> HIDE DEF d, D, l
<1>8. QED
  BY <1>2, <1>3, <1>6, <1>7 DEF l

\* A branch is taken to the same place in the text and in the stripped list.
LEMMA SameTarget ==
  ASSUME ProgOK, NEW n \in 1 .. Len(prog), IsBranch(prog[n])
  PROVE  /\ Sim!Places(prog)[prog[n].arg] \in Nat
         /\ Qemu!BranchTarget(prog, prog[n].arg) =
              LineAt(prog, Sim!Places(prog)[prog[n].arg])
<1>1. /\ n + 2 \in 1 .. Len(prog) + 1 /\ Len(prog) \in Nat
      /\ Qemu!BranchTarget(prog, prog[n].arg) = Qemu!SkipLabels(prog, n + 2)
      /\ Sim!Places(prog)[prog[n].arg] = Sim!Index(prog, n + 2)
  BY DefinedBehind DEF ProgOK
<1>2. /\ Sim!Index(prog, n + 2) \in Nat
      /\ Qemu!SkipLabels(prog, n + 2) = LineAt(prog, Sim!Index(prog, n + 2))
  BY <1>1, IndexStep, SkipIsLineAt
<1>3. QED
  BY <1>1, <1>2

\* No bug is on whose hazard the program has.
Harmless ==
  /\ ~("load_use" \in bugs /\ Audit!CountHazards("LoadUseHazard", prog) > 0)
  /\ ~("store_to_load" \in bugs /\ Audit!CountHazards("StoreToLoadFwd", prog) > 0)

LEMMA OperandFresh ==
  ASSUME ProgOK, SimulatorOK, Harmless, pc < Len(insns), IsAlu(Sim!Current),
         NEW r \in {Sim!Current.src1, Sim!Current.src2}
  PROVE  Sim!Operand(r) = regs[r]
<1> SUFFICES ASSUME "load_use" \in bugs, lastLdrDst = r
             PROVE  FALSE
  BY DEF Sim!Operand
<1> DEFINE n == LineAt(prog, pc)
<1>1. /\ prog \in Seq(LegalLines) /\ n \in Insns(prog) /\ Sim!Index(prog, n) = pc
      /\ Sim!Current = prog[n] /\ Sim!Current \in LegalLines
  BY CurrentLine DEF ProgOK, SimulatorOK
<1> HIDE DEF n
<1>2. r \in Gprs /\ r # NoReg
  BY <1>1, GprsAssumption DEF LegalLines, NoReg
<1>3. PICK m \in Insns(prog) : /\ Sim!Index(prog, m) + 1 = pc
                               /\ prog[m].op = "LDR" /\ prog[m].dst = r
  BY <1>2 DEF SimulatorOK, LatchesOK, LastWas
<1>4. m \in Audit!Prev(prog, n)
  BY <1>1, <1>3, LastIsPrev
<1>5. r \in Audit!Srcs(prog[n])
  BY <1>1, <1>2 DEF Audit!Srcs, Audit!Reads, Audit!NoReg, NoReg
<1>6. Audit!HazardAt("LoadUseHazard", prog, n)
  BY <1>3, <1>4, <1>5 DEF Audit!HazardAt
<1>7. QED
  BY <1>1, <1>6, HazardCounts DEF Harmless

LEMMA LoadFresh ==
  ASSUME ProgOK, SimulatorOK, Harmless, pc < Len(insns), Sim!Current.op = "LDR"
  PROVE  ~("store_to_load" \in bugs /\ lastStrAddr = Sim!Current.arg)
<1> SUFFICES ASSUME "store_to_load" \in bugs, lastStrAddr = Sim!Current.arg
             PROVE  FALSE
  OBVIOUS
<1> DEFINE n == LineAt(prog, pc)
<1>1. /\ prog \in Seq(LegalLines) /\ n \in Insns(prog) /\ Sim!Index(prog, n) = pc
      /\ Sim!Current = prog[n] /\ Sim!Current \in LegalLines
  BY CurrentLine DEF ProgOK, SimulatorOK
<1> HIDE DEF n
<1>2. lastStrAddr # Sim!NoAddr
  BY <1>1 DEF LegalLines, InsnOver, Sim!NoAddr
<1>3. PICK m \in Insns(prog) : /\ Sim!Index(prog, m) + 1 = pc
                               /\ prog[m].op = "STR" /\ prog[m].arg = lastStrAddr
  BY <1>2 DEF SimulatorOK, LatchesOK, LastWas
<1>4. m \in Audit!Prev(prog, n)
  BY <1>1, <1>3, LastIsPrev
<1>5. Audit!HazardAt("StoreToLoadFwd", prog, n)
  BY <1>1, <1>3, <1>4 DEF Audit!HazardAt
<1>6. QED
  BY <1>1, <1>5, HazardCounts DEF Harmless

\* A step of the simulator leads to the next line, and leaves the latches
\* describing the instruction it executed.
LEMMA SimMoves ==
  ASSUME ProgOK, SimulatorOK, Sim!IssStep, prog' = prog
  PROVE  SimulatorOK' /\ LineAt(prog, pc') = NextAt(prog, LineAt(prog, pc), regs)
<1> DEFINE n == LineAt(prog, pc)
           i == Sim!Current
<1>1. /\ prog \in Seq(LegalLines) /\ n \in Insns(prog) /\ Sim!Index(prog, n) = pc
      /\ i = prog[n] /\ i \in LegalLines /\ pc \in Nat /\ pc < Total(prog)
  BY CurrentLine DEF ProgOK, SimulatorOK, Sim!IssStep
<1> HIDE DEF n, i
<1>2. n \in 1 .. Len(prog) /\ Len(prog) \in Nat
  BY <1>1 DEF Insns
<1>3. pc' \in Nat /\ LineAt(prog, pc') = NextAt(prog, n, regs)
  <2>1. CASE IsBranch(i) /\ Qemu!Taken(i, regs[i.src1])
    <3>1. pc' = labels[i.arg]
      BY <2>1, SameTests DEF Sim!IssStep, Sim!IssAlu, Sim!IssLdr, Sim!IssStr, Sim!IssMov,
         Sim!IssBranch, Sim!IssNop, i, IsAlu, AllAluOps, IsBranch, BranchOps
    <3>2. /\ labels[i.arg] \in Nat
          /\ Qemu!BranchTarget(prog, i.arg) = LineAt(prog, labels[i.arg])
      BY <1>1, <1>2, <2>1, SameTarget DEF SimulatorOK
    <3>3. QED
      BY <1>1, <2>1, <3>1, <3>2 DEF NextAt
  <2>2. CASE ~(IsBranch(i) /\ Qemu!Taken(i, regs[i.src1]))
    <3>1. pc' = pc + 1
      BY <2>2, SameTests DEF Sim!IssStep, Sim!IssAlu, Sim!IssLdr, Sim!IssStr, Sim!IssMov,
         Sim!IssBranch, Sim!IssNop, Sim!Advance, i
    <3>2. Qemu!SkipLabels(prog, n + 1) = LineAt(prog, pc + 1)
      BY <1>1, <1>2, NextLine DEF n
    <3>3. QED
      BY <1>1, <2>2, <3>1, <3>2 DEF NextAt
  <2>3. QED
    BY <2>1, <2>2
<1>4. insns' = insns /\ labels' = labels
  BY DEF Sim!IssStep
<1>5. LatchesOK'
  <2>1. CASE Sim!IssLdr
    <3>1. /\ lastLdrDst' = prog[n].dst /\ lastStrAddr' = Sim!NoAddr /\ pc' = pc + 1
          /\ prog[n].op = "LDR"
      BY <1>1, <2>1 DEF Sim!IssLdr, Sim!Advance, i
    <3>2. LastWas("LDR", "dst", lastLdrDst)'
      BY <1>1, <3>1 DEF LastWas, Insns, Sim!Index
    <3>3. QED
      BY <3>1, <3>2 DEF LatchesOK, Sim!NoAddr
  <2>2. CASE Sim!IssStr
    <3>1. /\ lastStrAddr' = prog[n].arg /\ lastLdrDst' = NoReg /\ pc' = pc + 1
          /\ prog[n].op = "STR"
      BY <1>1, <2>2 DEF Sim!IssStr, Sim!Advance, i, Sim!NoReg, NoReg
    <3>2. LastWas("STR", "arg", lastStrAddr)'
      BY <1>1, <3>1 DEF LastWas, Insns, Sim!Index
    <3>3. QED
      BY <3>1, <3>2 DEF LatchesOK, NoReg
  <2>3. CASE Sim!ClearLatches
    BY <2>3 DEF Sim!ClearLatches, LatchesOK, Sim!NoReg, NoReg, Sim!NoAddr
  <2>4. QED
    BY <2>1, <2>2, <2>3 DEF Sim!IssStep, Sim!IssAlu, Sim!IssMov, Sim!IssBranch, Sim!IssNop
<1>6. insns' = Sim!Stripped(prog)' /\ labels' = Sim!Places(prog)'
  BY <1>4 DEF SimulatorOK, Sim!Stripped, Sim!Places, Sim!Index, Sim!LabelNumbers
<1>7. QED
  BY <1>3, <1>5, <1>6 DEF SimulatorOK, n

\* A step that no stale value disturbs is After.
LEMMA SimSteps ==
  ASSUME ProgOK, SimulatorOK, Harmless, Sim!IssStep, prog' = prog
  PROVE  /\ LineAt(prog, pc) <= Len(prog)
         /\ <<LineAt(prog, pc), regs, scratch>>' = After(prog, <<LineAt(prog, pc), regs, scratch>>)
<1> DEFINE n == LineAt(prog, pc)
           i == Sim!Current
<1>1. n \in Insns(prog) /\ i = prog[n] /\ pc < Len(insns)
  BY CurrentLine DEF ProgOK, SimulatorOK, Sim!IssStep
<1>2. LineAt(prog, pc)' = NextAt(prog, n, regs)
  <2>1. LineAt(prog, pc)' = LineAt(prog, pc')
    BY DEF LineAt, Total, Sim!Index
  <2>2. QED
    BY <2>1, SimMoves
<1>3. regs' = NextReg(i, regs, scratch) /\ scratch' = NextMem(i, regs, scratch)
  <2>1. CASE Sim!IssAlu
    <3>1. IsAlu(i) /\ i.op # "STR"
      BY <2>1, SameTests DEF Sim!IssAlu, IsAlu, AllAluOps
    <3>2. Sim!Operand(i.src1) = regs[i.src1] /\ Sim!Operand(i.src2) = regs[i.src2]
      BY <1>1, <3>1, OperandFresh
    <3>3. /\ regs' = [regs EXCEPT ![i.dst] = Qemu!AluResult(i.op, regs[i.src1], regs[i.src2])]
          /\ scratch' = scratch
      BY <2>1, <3>1, <3>2, SameValues DEF Sim!IssAlu, IsAlu
    <3> HIDE DEF i
    <3>4. QED
      BY <3>1, <3>3 DEF NextReg, NextMem
  <2>0. i.arg \in Nat
    BY <1>1 DEF ProgOK, Insns, LegalLines, InsnOver
  <2>2. CASE Sim!IssLdr
    <3>1. i.op = "LDR"
      BY <2>2 DEF Sim!IssLdr
    <3>2. /\ regs' = [regs EXCEPT ![i.dst] = Qemu!Load(scratch, i.arg)]
          /\ scratch' = scratch
      BY <1>1, <2>0, <2>2, <3>1, LoadFresh, SameMemory DEF Sim!IssLdr
    <3> HIDE DEF i
    <3>3. QED
      BY <3>1, <3>2 DEF NextReg, NextMem, IsAlu, AllAluOps
  <2>3. CASE Sim!IssStr
    <3>1. /\ i.op = "STR" /\ regs' = regs
          /\ scratch' = Qemu!Store(scratch, i.arg, regs[i.src1])
      BY <2>0, <2>3, SameMemory DEF Sim!IssStr
    <3> HIDE DEF i
    <3>2. QED
      BY <3>1 DEF NextReg, NextMem, IsAlu, AllAluOps
  <2>4. CASE Sim!IssMov
    <3>1. /\ i.op = "MOV" /\ scratch' = scratch
          /\ regs' = [regs EXCEPT ![i.dst] = i.arg]
      BY <2>4 DEF Sim!IssMov
    <3> HIDE DEF i
    <3>2. QED
      BY <3>1 DEF NextReg, NextMem, IsAlu, AllAluOps
  <2>5. CASE Sim!IssBranch \/ Sim!IssNop
    <3>1. (IsBranch(i) \/ i.op = "NOP") /\ regs' = regs /\ scratch' = scratch
      BY <2>5, SameTests DEF Sim!IssBranch, Sim!IssNop
    <3>2. ~IsAlu(i) /\ i.op \notin {"MOV", "LDR", "STR"}
      BY <3>1 DEF IsAlu, AllAluOps, IsBranch, BranchOps
    <3> HIDE DEF i
    <3>3. QED
      BY <3>1, <3>2 DEF NextReg, NextMem
  <2>6. QED
    BY <2>1, <2>2, <2>3, <2>4, <2>5 DEF Sim!IssStep
<1> HIDE DEF i, n
<1>4. n <= Len(prog)
  BY <1>1 DEF Insns
<1>5. QED
  BY <1>1, <1>2, <1>3, <1>4 DEF After, n

-----------------------------------------------------------------------------
(***************************************************************************)
(* The two runs.                                                           *)
(***************************************************************************)
Start(c) == <<Qemu!SkipLabels(c, 1), Qemu!ZeroReg, Qemu!ZeroMem>>

\* t holds the first k + 1 states of the run of c.
Trace(c, t, k) ==
  /\ t[0] = Start(c)
  /\ \A j \in 0 .. k - 1 : t[j][1] <= Len(c) /\ t[j + 1] = After(c, t[j])

\* QEMU is at the last of them, and the simulator at one of them.
Agree(t, k) ==
  /\ Trace(prog, t, k) /\ t[k] = <<at, reg, mem>>
  /\ Loaded => at > Len(prog)
  /\ Loaded /\ Harmless =>
       \E i \in 0 .. k : t[i] = <<LineAt(prog, pc), regs, scratch>>

RunsAgree == \E k \in Nat : \E t : Agree(t, k)

GeneratorOK ==
  /\ SafetyInv /\ LegalityInv
  /\ phase = "done" => dumped = DumpRegs

Reset ==
  /\ pc = 0 /\ regs = Sim!ZeroReg /\ scratch = Sim!ZeroMem
  /\ lastLdrDst = NoReg /\ lastStrAddr = Sim!NoAddr

StageOK ==
  /\ stage \in {"generate", "qemu", "iss", "compared"}
  /\ stage = "generate" => reg = Qemu!ZeroReg /\ mem = Qemu!ZeroMem
  /\ stage # "generate" => phase = "done" /\ code = prog /\ RunsAgree
  /\ ~Loaded => Reset
  /\ Loaded => SimulatorOK /\ golden = [x \in DumpRegs |-> reg[x]]

\* The inductive invariant.
DiffInv ==
  /\ GeneratorOK /\ StageOK
  /\ exposed => stage = "compared" /\ ~Harmless

LEMMA TraceGrows ==
  ASSUME NEW c, NEW t, NEW k \in Nat, Trace(c, t, k), t[k][1] <= Len(c)
  PROVE  \E u : Trace(c, u, k + 1) /\ u[k + 1] = After(c, t[k])
<1> DEFINE s == After(c, t[k])
           u == [j \in 0 .. k + 1 |-> IF j <= k THEN t[j] ELSE s]
<1> HIDE DEF s
<1>1. u[k + 1] = s /\ \A j \in 0 .. k : u[j] = t[j]
  OBVIOUS
<1> HIDE DEF u
<1>2. u[0] = Start(c)
  BY <1>1 DEF Trace
<1>3. ASSUME NEW j \in 0 .. k
      PROVE  u[j][1] <= Len(c) /\ u[j + 1] = After(c, u[j])
  <2>1. CASE j = k
    BY <1>1, <2>1 DEF s
  <2>2. CASE j # k
    <3>1. j \in 0 .. k - 1 /\ j + 1 \in 0 .. k
      BY <2>2
    <3>2. u[j] = t[j] /\ u[j + 1] = t[j + 1]
      BY <1>1, <3>1
    <3>3. QED
      BY <3>1, <3>2 DEF Trace
  <2>3. QED
    BY <2>1, <2>2
<1>4. Trace(c, u, k + 1)
  BY <1>2, <1>3 DEF Trace
<1>5. QED
  BY <1>1, <1>4 DEF s

LEMMA GeneratorKept == GeneratorOK /\ [DiffNext]_diffVars => GeneratorOK'
<1> SUFFICES ASSUME GeneratorOK, [DiffNext]_diffVars
             PROVE  GeneratorOK'
  OBVIOUS
<1>1. [Next]_vars
  BY DEF DiffNext, RunGenerator, StartQemu, RunQemu, RecordAndStartIss, RunIss,
         Compare, diffVars
<1>2. SafetyInv' /\ LegalityInv'
  BY <1>1, NextSafety, NextLegality DEF GeneratorOK
<1>3. (phase = "done" => dumped = DumpRegs)'
  <2>1. CASE Next
    BY <2>1 DEF Next, EmitPrologue, Bootstrap, BootstrapDone, Generate, Panic,
            Fallback, EmitEpilogue
  <2>2. CASE UNCHANGED vars
    BY <2>2 DEF vars, GeneratorOK
  <2>3. QED
    BY <1>1, <2>1, <2>2
<1>4. QED
  BY <1>2, <1>3 DEF GeneratorOK

LEMMA ProgIsOK == GeneratorOK => ProgOK /\ Len(prog) \in Nat
BY DEF GeneratorOK, SafetyInv, LegalityInv, ProgOK

LEMMA LineIsNat ==
  ASSUME NEW c, Len(c) \in Nat, NEW k \in Nat
  PROVE  LineAt(c, k) \in Nat
<1>1. Total(c) \in Nat
  BY IndexStep DEF Total
<1>2. CASE k < Total(c)
  BY <1>2, LineOfIndex DEF Insns
<1>3. CASE k >= Total(c)
  BY <1>3, LineOfEnd
<1>4. QED
  BY <1>1, <1>2, <1>3

\* Both runs start at the same place.
LEMMA FirstLine ==
  ASSUME NEW c, Len(c) \in Nat
  PROVE  LineAt(c, 0) = Qemu!SkipLabels(c, 1)
BY SkipIsLineAt, FirstIndex

LEMMA InitDiff == DiffInit => DiffInv
<1> SUFFICES ASSUME DiffInit
             PROVE  DiffInv
  OBVIOUS
<1>1. GeneratorOK
  BY InitSafety, InitLegality DEF DiffInit, GeneratorOK, Init
<1>2. stage = "generate" /\ exposed = FALSE /\ ~Loaded
  BY DEF DiffInit, Loaded
<1>3. reg = Qemu!ZeroReg /\ mem = Qemu!ZeroMem
  BY DEF DiffInit, Qemu!MachineInit
<1>4. Reset
  BY DEF DiffInit, Sim!IssInit, Reset, Sim!NoReg, NoReg
<1>5. QED
  BY <1>1, <1>2, <1>3, <1>4 DEF DiffInv, StageOK

\* What each stage leaves alone keeps its part of the invariant.
LEMMA SimUntouched ==
  ASSUME UNCHANGED <<prog, simVars>>
  PROVE  /\ Reset' <=> Reset
         /\ SimulatorOK' <=> SimulatorOK
         /\ Harmless' <=> Harmless
<1>1. /\ bugs' = bugs /\ insns' = insns /\ labels' = labels /\ pc' = pc /\ regs' = regs
      /\ scratch' = scratch /\ lastLdrDst' = lastLdrDst /\ lastStrAddr' = lastStrAddr
      /\ prog' = prog
  BY DEF simVars
<1>2. Reset' <=> Reset
  BY <1>1 DEF Reset
<1>3. SimulatorOK' <=> SimulatorOK
  BY <1>1 DEF SimulatorOK, LatchesOK, LastWas
<1>4. Harmless' <=> Harmless
  BY <1>1 DEF Harmless
<1>5. QED
  BY <1>2, <1>3, <1>4

LEMMA GenerateKeeps ==
  ASSUME DiffInv, RunGenerator
  PROVE  StageOK' /\ ~exposed'
<1>1. /\ stage = "generate" /\ stage' = stage /\ reg' = reg /\ mem' = mem
      /\ exposed' = exposed
  BY DEF RunGenerator, qemuVars
<1>2. Reset'
  BY <1>1 DEF DiffInv, StageOK, Loaded, RunGenerator, simVars, Reset
<1>3. QED
  BY <1>1, <1>2 DEF DiffInv, StageOK, Loaded

LEMMA StartQemuKeeps ==
  ASSUME DiffInv, StartQemu
  PROVE  StageOK' /\ ~exposed'
<1>1. /\ stage = "generate" /\ stage' = "qemu" /\ phase' = "done" /\ code' = prog
      /\ prog' = prog /\ exposed' = exposed /\ UNCHANGED simVars
      /\ at' = Qemu!SkipLabels(code', 1) /\ reg' = reg /\ mem' = mem
  BY DEF StartQemu, vars, emitterVars, Qemu!MachineLoad
<1>2. ~Loaded' /\ ~Loaded /\ Reset'
  BY <1>1, SimUntouched DEF DiffInv, StageOK, Loaded
<1>3. RunsAgree'
  <2>1. \E t : t[0] = Start(prog)
    <3>1. [j \in {0} |-> Start(prog)][0] = Start(prog)
      OBVIOUS
    <3>2. QED
      BY <3>1
  <2> PICK t : t[0] = Start(prog)
    BY <2>1
  <2>2. Trace(prog, t, 0)
    BY DEF Trace
  <2>3. Trace(prog, t, 0)' /\ t[0] = <<at, reg, mem>>'
    BY <1>1, <2>2 DEF DiffInv, StageOK, Start
  <2>4. QED
    BY <1>2, <2>3, 0 \in Nat DEF RunsAgree, Agree
<1>4. QED
  BY <1>1, <1>2, <1>3 DEF DiffInv, StageOK, Loaded

LEMMA RunQemuKeeps ==
  ASSUME DiffInv, RunQemu
  PROVE  StageOK' /\ ~exposed'
<1>1. /\ stage = "qemu" /\ stage' = stage /\ phase' = phase /\ code' = code
      /\ prog' = prog /\ exposed' = exposed /\ UNCHANGED simVars /\ code = prog
  BY DEF RunQemu, vars, emitterVars, Qemu!MachineStep, DiffInv, StageOK
<1>2. ~Loaded' /\ ~Loaded /\ Reset'
  BY <1>1, SimUntouched DEF DiffInv, StageOK, Loaded
<1>3. RunsAgree'
  <2>1. PICK k \in Nat : \E t : Trace(prog, t, k) /\ t[k] = <<at, reg, mem>>
    BY <1>1 DEF DiffInv, StageOK, RunsAgree, Agree
  <2>2. PICK t : Trace(prog, t, k) /\ t[k] = <<at, reg, mem>>
    BY <2>1
  <2>3. at <= Len(prog) /\ <<at, reg, mem>>' = After(prog, t[k])
    BY <1>1, <2>2, QemuSteps DEF RunQemu
  <2>4. t[k][1] <= Len(prog)
    BY <2>2, <2>3
  <2>5. PICK u : Trace(prog, u, k + 1) /\ u[k + 1] = After(prog, t[k])
    BY <2>2, <2>4, TraceGrows
  <2>6. Trace(prog, u, k + 1)' /\ u[k + 1] = <<at, reg, mem>>' /\ k + 1 \in Nat
    BY <1>1, <2>3, <2>5
  <2>7. QED
    BY <1>2, <2>6 DEF RunsAgree, Agree
<1>4. QED
  BY <1>1, <1>2, <1>3 DEF DiffInv, StageOK, Loaded

LEMMA RecordKeeps ==
  ASSUME DiffInv, RecordAndStartIss
  PROVE  StageOK' /\ ~exposed'
<1>1. /\ stage = "qemu" /\ stage' = "iss" /\ phase = "done" /\ phase' = phase
      /\ code = prog /\ code' = code /\ prog' = prog /\ exposed' = exposed
      /\ at' = at /\ reg' = reg /\ mem' = mem /\ at > Len(prog)
      /\ dumped = DumpRegs /\ RunsAgree /\ Reset /\ ~exposed
  BY DEF RecordAndStartIss, vars, emitterVars, qemuVars, Qemu!Halted, DiffInv, StageOK,
         GeneratorOK, Loaded
<1>2. /\ insns' = Sim!Stripped(prog) /\ labels' = Sim!Places(prog)
      /\ UNCHANGED <<bugs, pc, regs, scratch, lastLdrDst, lastStrAddr>>
  BY DEF RecordAndStartIss, Sim!LoadAsm, Sim!latches
<1>3. SimulatorOK'
  BY <1>1, <1>2 DEF Reset, SimulatorOK, LatchesOK
<1>4. golden' = [x \in DumpRegs |-> reg'[x]]
  BY <1>1 DEF RecordAndStartIss, QemuSignature
<1>5. RunsAgree'
  <2>1. PICK k \in Nat : \E t : Trace(prog, t, k) /\ t[k] = <<at, reg, mem>>
    BY <1>1 DEF RunsAgree, Agree
  <2>2. PICK t : Trace(prog, t, k) /\ t[k] = <<at, reg, mem>>
    BY <2>1
  <2>3. <<LineAt(prog, pc), regs, scratch>> = Start(prog)
    <3>1. LineAt(prog, 0) = Qemu!SkipLabels(prog, 1)
      BY ProgIsOK, FirstLine DEF DiffInv
    <3>2. QED
      BY <1>1, <3>1, SameReset DEF Reset, Start
  <2>4. t[0] = <<LineAt(prog, pc), regs, scratch>>
    BY <2>2, <2>3 DEF Trace
  <2>5. /\ Trace(prog, t, k)' /\ t[k] = <<at, reg, mem>>' /\ at' > Len(prog')
        /\ t[0] = <<LineAt(prog, pc), regs, scratch>>' /\ 0 \in 0 .. k
    BY <1>1, <1>2, <2>2, <2>4
  <2>6. QED
    BY <2>5 DEF RunsAgree, Agree
<1>6. QED
  BY <1>1, <1>3, <1>4, <1>5 DEF StageOK, Loaded

LEMMA RunIssKeeps ==
  ASSUME DiffInv, RunIss
  PROVE  StageOK' /\ ~exposed'
<1>1. /\ stage = "iss" /\ stage' = stage /\ phase = "done" /\ phase' = phase
      /\ code = prog /\ code' = code /\ prog' = prog /\ exposed' = exposed /\ ~exposed
      /\ at' = at /\ reg' = reg /\ mem' = mem /\ golden' = golden
      /\ RunsAgree /\ SimulatorOK /\ Loaded /\ golden = [x \in DumpRegs |-> reg[x]]
  BY DEF RunIss, vars, emitterVars, qemuVars, DiffInv, StageOK, Loaded
<1>2. ProgOK /\ Sim!IssStep /\ bugs' = bugs
  BY ProgIsOK DEF DiffInv, RunIss, Sim!IssStep
<1>3. SimulatorOK'
  BY <1>1, <1>2, SimMoves
<1>4. RunsAgree'
  <2>1. PICK k \in Nat : \E t : Agree(t, k)
    BY <1>1 DEF RunsAgree
  <2> PICK t : Agree(t, k)
    BY <2>1
  <2>2. /\ Trace(prog, t, k) /\ t[k] = <<at, reg, mem>> /\ at > Len(prog)
        /\ Harmless => \E i \in 0 .. k : t[i] = <<LineAt(prog, pc), regs, scratch>>
    BY <1>1 DEF Agree
  <2>3. ASSUME Harmless
        PROVE  \E i \in 0 .. k : t[i] = <<LineAt(prog, pc), regs, scratch>>'
    <3>1. PICK i \in 0 .. k : t[i] = <<LineAt(prog, pc), regs, scratch>>
      BY <2>2, <2>3
    <3>2. /\ LineAt(prog, pc) <= Len(prog)
          /\ <<LineAt(prog, pc), regs, scratch>>' = After(prog, t[i])
      BY <1>1, <1>2, <2>3, <3>1, SimSteps
    <3>3. i # k
      <4>1. LineAt(prog, pc) \in Nat /\ Len(prog) \in Nat
        BY <1>1, ProgIsOK, LineIsNat DEF DiffInv, SimulatorOK
      <4>2. t[i][1] # t[k][1]
        BY <2>2, <3>1, <3>2, <4>1
      <4>3. QED
        BY <4>2
    <3>4. i \in 0 .. k - 1 /\ i + 1 \in 0 .. k
      BY <3>3
    <3>5. t[i + 1] = After(prog, t[i])
      BY <2>2, <3>4 DEF Trace
    <3>6. QED
      BY <3>2, <3>4, <3>5
  <2>4. Harmless' => Harmless
    BY <1>1, <1>2 DEF Harmless
  <2>5. Trace(prog, t, k)' /\ t[k] = <<at, reg, mem>>' /\ at' > Len(prog')
    BY <1>1, <2>2
  <2>6. QED
    BY <2>3, <2>4, <2>5 DEF RunsAgree, Agree
<1>5. QED
  BY <1>1, <1>3, <1>4 DEF StageOK, Loaded

LEMMA CompareKeeps ==
  ASSUME DiffInv, Compare
  PROVE  StageOK' /\ (exposed' => stage' = "compared" /\ ~Harmless')
<1>1. /\ stage = "iss" /\ stage' = "compared" /\ phase = "done" /\ phase' = phase
      /\ code = prog /\ code' = code /\ prog' = prog
      /\ at' = at /\ reg' = reg /\ mem' = mem /\ golden' = golden
      /\ RunsAgree /\ SimulatorOK /\ Loaded /\ golden = [x \in DumpRegs |-> reg[x]]
      /\ UNCHANGED simVars /\ pc >= Len(insns) /\ exposed' = (IssSignature # golden)
  BY DEF Compare, vars, emitterVars, qemuVars, DiffInv, StageOK, Loaded
<1>2. SimulatorOK' /\ (Harmless' <=> Harmless)
  BY <1>1, SimUntouched
<1>3. RunsAgree'
  <2>1. pc' = pc /\ regs' = regs /\ scratch' = scratch
    BY <1>1 DEF simVars
  <2>2. PICK k \in Nat : \E t : Agree(t, k)
    BY <1>1 DEF RunsAgree
  <2> PICK t : Agree(t, k)
    BY <2>2
  <2>3. /\ Trace(prog, t, k) /\ t[k] = <<at, reg, mem>> /\ at > Len(prog)
        /\ Harmless => \E i \in 0 .. k : t[i] = <<LineAt(prog, pc), regs, scratch>>
    BY <1>1 DEF Agree
  <2>4. /\ Trace(prog, t, k)' /\ t[k] = <<at, reg, mem>>' /\ at' > Len(prog')
        /\ Harmless' => \E i \in 0 .. k : t[i] = <<LineAt(prog, pc), regs, scratch>>'
    BY <1>1, <1>2, <2>1, <2>3
  <2>5. QED
    BY <2>4 DEF RunsAgree, Agree
<1>4. ASSUME Harmless
      PROVE  IssSignature = golden
  <2>1. PICK k \in Nat : \E t : Agree(t, k)
    BY <1>1 DEF RunsAgree
  <2> PICK t : Agree(t, k)
    BY <2>1
  <2>2. /\ Trace(prog, t, k) /\ t[k] = <<at, reg, mem>>
        /\ \E i \in 0 .. k : t[i] = <<LineAt(prog, pc), regs, scratch>>
    BY <1>1, <1>4 DEF Agree
  <2>3. PICK i \in 0 .. k : t[i] = <<LineAt(prog, pc), regs, scratch>>
    BY <2>2
  <2>4. LineAt(prog, pc) = Len(prog) + 1 /\ Len(prog) \in Nat
    <3>1. ProgOK /\ Len(prog) \in Nat
      BY ProgIsOK DEF DiffInv
    <3>2. Len(insns) = Total(prog)
      BY <1>1, <3>1, StrippedLines DEF SimulatorOK
    <3>3. QED
      BY <1>1, <3>1, <3>2, LineOfEnd
  <2>5. i = k
    <3>1. ASSUME i \in 0 .. k - 1
          PROVE  FALSE
      BY <2>2, <2>3, <2>4, <3>1 DEF Trace
    <3>2. QED
      BY <3>1
  <2>6. regs = reg
    BY <2>2, <2>3, <2>5
  <2>7. QED
    BY <1>1, <2>6 DEF IssSignature
<1>5. StageOK'
  BY <1>1, <1>2, <1>3 DEF StageOK, Loaded
<1>6. exposed' => ~Harmless
  BY <1>1, <1>4
<1>7. QED
  BY <1>1, <1>2, <1>5, <1>6

LEMMA StutterKeeps ==
  ASSUME DiffInv, UNCHANGED diffVars
  PROVE  StageOK' /\ (exposed' => stage' = "compared" /\ ~Harmless')
<1>1. /\ UNCHANGED <<prog, simVars>> /\ stage' = stage /\ phase' = phase /\ code' = code
      /\ at' = at /\ reg' = reg /\ mem' = mem /\ golden' = golden /\ exposed' = exposed
  BY DEF diffVars, vars, emitterVars, qemuVars
<1>2. (SimulatorOK' <=> SimulatorOK) /\ (Harmless' <=> Harmless) /\ (Reset' <=> Reset)
  BY <1>1, SimUntouched
<1>3. Loaded' <=> Loaded
  BY <1>1 DEF Loaded
<1>4. RunsAgree' <=> RunsAgree
  BY <1>1, <1>2, <1>3 DEF RunsAgree, Agree, simVars
<1>5. QED
  BY <1>1, <1>2, <1>3, <1>4 DEF DiffInv, StageOK

LEMMA NextDiff == DiffInv /\ [DiffNext]_diffVars => DiffInv'
<1> SUFFICES ASSUME DiffInv, [DiffNext]_diffVars
             PROVE  DiffInv'
  OBVIOUS
<1>1. GeneratorOK'
  BY GeneratorKept DEF DiffInv
<1>2. StageOK' /\ (exposed' => stage' = "compared" /\ ~Harmless')
  BY GenerateKeeps, StartQemuKeeps, RunQemuKeeps, RecordKeeps, RunIssKeeps,
     CompareKeeps, StutterKeeps DEF DiffNext
<1>3. QED
  BY <1>1, <1>2 DEF DiffInv

\* Throughout run_one the two runs agree as long as no bug is on whose hazard
\* the program has: the simulator is at a state QEMU was in, and at the last
\* one when the signatures are compared.
THEOREM RunsStayTogether == DiffSpec => []DiffInv
<1>1. DiffInit => DiffInv
  BY InitDiff
<1>2. DiffInv /\ [DiffNext]_diffVars => DiffInv'
  BY NextDiff
<1>3. QED
  BY <1>1, <1>2, PTL DEF DiffSpec

\* A divergence of --bug needs the hazard that --analyze counts.
THEOREM ExposureIsExplained == DiffSpec => []ExposedNeedsHazard
<1>1. DiffInv => ExposedNeedsHazard
  BY DEF DiffInv, ExposedNeedsHazard, Harmless
<1>2. QED
  BY <1>1, RunsStayTogether, PTL

\* Without bugs the simulator's signature is the golden.
THEOREM CleanIssAgrees == DiffSpec => []CleanIssMatchesQemu
<1>1. DiffInv => CleanIssMatchesQemu
  BY DEF DiffInv, CleanIssMatchesQemu, Harmless
<1>2. QED
  BY <1>1, RunsStayTogether, PTL

-----------------------------------------------------------------------------
(***************************************************************************)
(* Both runs only move forward.                                            *)
(***************************************************************************)
LEMMA SkipGoesOn ==
  ASSUME NEW c, Len(c) \in Nat, NEW n \in 1 .. Len(c) + 1
  PROVE  Qemu!SkipLabels(c, n) \in Nat /\ n <= Qemu!SkipLabels(c, n)
<1> DEFINE k == Sim!Index(c, n)
           m == LineAt(c, k)
<1>1. Qemu!SkipLabels(c, n) = m /\ k \in Nat /\ Total(c) \in Nat
  BY SkipIsLineAt, IndexStep DEF Total
<1>2. CASE k < Total(c)
  <2>1. m \in 1 .. Len(c) /\ c[m].op # "LABEL" /\ Sim!Index(c, m) = k
    BY <1>1, <1>2, LineOfIndex DEF Insns
  <2> HIDE DEF k, m
  <2>2. ~(m < n)
    BY <1>1, <2>1, InsnGrows DEF k
  <2>3. QED
    BY <1>1, <2>1, <2>2
<1>3. CASE k >= Total(c)
  <2>1. m = Len(c) + 1
    BY <1>3, LineOfEnd
  <2>2. QED
    BY <1>1, <2>1
<1>4. QED
  BY <1>1, <1>2, <1>3


\* QEMU is at a line of the text or at its end.
LinesCount == at \in Nat \ {0}

LEMMA QemuForward ==
  ASSUME DiffInv, RunQemu, LinesCount
  PROVE  at < at' /\ LinesCount'
<1>1. /\ prog \in Seq(LegalLines) /\ Len(prog) \in Nat /\ ProgOK /\ code = prog
  BY ProgIsOK DEF DiffInv, StageOK, RunQemu, ProgOK
<1>2. at \in 1 .. Len(prog)
  BY <1>1 DEF RunQemu, Qemu!MachineStep, LinesCount
<1>3. CASE IsBranch(prog[at]) /\ at' = Qemu!BranchTarget(prog, prog[at].arg)
  <2>1. at + 2 \in 1 .. Len(prog) /\ at' = Qemu!SkipLabels(prog, at + 2)
    BY <1>1, <1>2, <1>3, DefinedBehind
  <2>2. at' \in Nat /\ at + 2 <= at'
    BY <1>1, <2>1, SkipGoesOn
  <2>3. QED
    BY <1>2, <2>2 DEF LinesCount
<1>4. CASE at' = Qemu!SkipLabels(prog, at + 1)
  <2>1. at' \in Nat /\ at + 1 <= at'
    BY <1>1, <1>2, <1>4, SkipGoesOn
  <2>2. QED
    BY <1>2, <2>1 DEF LinesCount
<1>5. \/ IsBranch(prog[at]) /\ at' = Qemu!BranchTarget(prog, prog[at].arg)
      \/ at' = Qemu!SkipLabels(prog, at + 1)
  BY <1>1, SameTests DEF RunQemu, Qemu!MachineStep
<1>6. QED
  BY <1>3, <1>4, <1>5

LEMMA SimForward ==
  ASSUME DiffInv, RunIss
  PROVE  pc < pc' /\ pc' <= Len(insns)
<1> DEFINE n == LineAt(prog, pc)
           i == Sim!Current
<1>1. SimulatorOK /\ ProgOK /\ Sim!IssStep /\ Len(prog) \in Nat
  BY ProgIsOK DEF DiffInv, StageOK, RunIss, Loaded
<1>2. /\ n \in Insns(prog) /\ Sim!Index(prog, n) = pc /\ i = prog[n] /\ pc \in Nat
      /\ pc < Len(insns)
  BY <1>1, CurrentLine DEF ProgOK, SimulatorOK, Sim!IssStep
<1>3. Len(insns) = Total(prog) /\ Total(prog) \in Nat
  BY <1>1, StrippedLines DEF SimulatorOK
<1> HIDE DEF n, i
<1>4. n \in 1 .. Len(prog) /\ prog[n].op # "LABEL"
  BY <1>2 DEF Insns
<1>5. CASE IsBranch(i) /\ pc' = labels[i.arg]
  <2>1. n + 2 \in 1 .. Len(prog) /\ pc' = Sim!Index(prog, n + 2)
    BY <1>1, <1>2, <1>4, <1>5, DefinedBehind DEF SimulatorOK
  <2>2. Sim!Index(prog, n) < Sim!Index(prog, n + 2)
    BY <1>4, <2>1, InsnGrows
  <2>3. Sim!Index(prog, n + 2) <= Total(prog)
    BY <1>1, <2>1, IndexGrows DEF Total
  <2>4. QED
    BY <1>2, <1>3, <2>1, <2>2, <2>3
<1>6. CASE pc' = pc + 1
  BY <1>2, <1>3, <1>6
<1>7. (IsBranch(i) /\ pc' = labels[i.arg]) \/ pc' = pc + 1
  BY <1>1, SameTests DEF Sim!IssStep, Sim!IssAlu, Sim!IssLdr, Sim!IssStr, Sim!IssMov,
     Sim!IssBranch, Sim!IssNop, Sim!Advance, i
<1>8. QED
  BY <1>5, <1>6, <1>7

LEMMA InitCount == DiffInit => LinesCount
BY DEF DiffInit, Qemu!MachineInit, LinesCount

LEMMA NextCount == DiffInv /\ LinesCount /\ [DiffNext]_diffVars => LinesCount'
<1> SUFFICES ASSUME DiffInv, LinesCount, [DiffNext]_diffVars
             PROVE  LinesCount'
  OBVIOUS
<1>1. CASE StartQemu
  <2>1. at' = Qemu!SkipLabels(prog, 1) /\ Len(prog) \in Nat
    BY <1>1, ProgIsOK DEF DiffInv, StartQemu, Qemu!MachineLoad
  <2>2. at' \in Nat /\ 1 <= at'
    BY <2>1, SkipGoesOn
  <2>3. QED
    BY <2>2 DEF LinesCount
<1>2. CASE RunQemu
  BY <1>2, QemuForward
<1>3. CASE RunGenerator \/ RecordAndStartIss \/ RunIss \/ Compare \/ UNCHANGED diffVars
  <2>1. at' = at
    BY <1>3 DEF RunGenerator, RecordAndStartIss, RunIss, Compare, diffVars, qemuVars
  <2>2. QED
    BY <2>1 DEF LinesCount
<1>4. QED
  BY <1>1, <1>2, <1>3 DEF DiffNext

\* No run ever goes back, and the simulator stays within its list.
THEOREM RunsMoveForward == DiffSpec => OnlyForward
<1>1. DiffInit => DiffInv /\ LinesCount
  BY InitDiff, InitCount
<1>2. DiffInv /\ LinesCount /\ [DiffNext]_diffVars => (DiffInv /\ LinesCount)'
  BY NextDiff, NextCount
<1>3. DiffInv /\ LinesCount =>
        /\ RunQemu => at < at'
        /\ RunIss => pc < pc' /\ pc' <= Len(insns)
  BY QemuForward, SimForward
<1>4. QED
  BY <1>1, <1>2, <1>3, PTL DEF DiffSpec, OnlyForward

-----------------------------------------------------------------------------
(***************************************************************************)
(* Without bugs the simulator implements Machine.                          *)
(***************************************************************************)
\* What stands for the variables of Machine.
ArchCode == IF Loaded /\ bugs = {} THEN prog ELSE <<>>
ArchAt   == IF Loaded /\ bugs = {} THEN LineOf(pc) ELSE 1
ArchReg  == IF bugs = {} THEN regs ELSE Sim!ZeroReg
ArchMem  == IF bugs = {} THEN scratch ELSE Sim!ZeroMem

LEMMA BugsStay == [DiffNext]_diffVars => bugs' = bugs
BY DEF DiffNext, RunGenerator, StartQemu, RunQemu, RecordAndStartIss, RunIss, Compare,
       diffVars, simVars, Sim!LoadAsm, Sim!IssStep

LEMMA LineOfNext ==
  ASSUME DiffInv, DiffInv', prog' = prog, Loaded'
  PROVE  LineOf(pc)' = LineAt(prog, pc')
<1>1. insns' = Sim!Stripped(prog) /\ Len(prog) \in Nat
  BY ProgIsOK DEF DiffInv, StageOK, SimulatorOK
<1>2. Len(insns') = Total(prog)
  BY <1>1, StrippedLines
<1>3. QED
  BY <1>2 DEF LineOf, LineAt

LEMMA LineOfNow == ASSUME DiffInv, Loaded PROVE LineOf(pc) = LineAt(prog, pc)
BY ProgIsOK, CurrentLine DEF DiffInv, StageOK, SimulatorOK, ProgOK

\* Loading the text is MachineLoad.
LEMMA RecordIsLoad ==
  ASSUME DiffInv, DiffInv', RecordAndStartIss, bugs = {}
  PROVE  Arch!MachineLoad
<1>1. /\ ~Loaded /\ Loaded' /\ bugs' = {} /\ prog' = prog /\ pc' = 0
      /\ regs' = regs /\ scratch' = scratch
  BY BugsStay DEF RecordAndStartIss, Loaded, vars, emitterVars, Sim!LoadAsm, DiffInv,
     StageOK, Reset
<1>2. ArchCode = <<>> /\ ArchCode' = prog /\ ArchReg' = ArchReg /\ ArchMem' = ArchMem
  BY <1>1 DEF ArchCode, ArchReg, ArchMem
<1>3. ArchAt' = Arch!SkipLabels(prog, 1)
  BY <1>1, LineOfNext, ProgIsOK, FirstLine, SameWalk DEF ArchAt, DiffInv
<1>4. prog \in Seq(Arch!InsnOver(Gprs))
  <2>1. Arch!InsnOver(Gprs) = InsnOver(Gprs)
    BY DEF Arch!InsnOver, InsnOver, Arch!Opcodes, Opcodes, Arch!AllAluOps, AllAluOps,
           Arch!BranchOps, BranchOps, Arch!NoReg, NoReg
  <2>2. \A i \in LegalLines : i \in InsnOver(Gprs)
    BY DEF LegalLines
  <2>3. prog \in Seq(LegalLines)
    BY ProgIsOK DEF DiffInv, ProgOK
  <2> HIDE DEF LegalLines, InsnOver
  <2>4. QED
    BY <2>1, <2>2, <2>3
<1>5. QED
  BY <1>2, <1>3, <1>4 DEF Arch!MachineLoad, ArchCode, ArchAt, ArchReg, ArchMem

\* An instruction of the simulator is one of the architecture.
LEMMA RunIsStep ==
  ASSUME DiffInv, DiffInv', RunIss, bugs = {}
  PROVE  Arch!MachineStep
<1> DEFINE n == LineAt(prog, pc)
           i == prog[n]
<1>1. /\ Loaded /\ Loaded' /\ bugs' = {} /\ prog' = prog /\ Sim!IssStep
      /\ SimulatorOK /\ ProgOK /\ Harmless
  <2>1. bugs' = {}
    BY DEF RunIss, Sim!IssStep
  <2>2. Loaded /\ Loaded' /\ prog' = prog /\ Sim!IssStep
    BY DEF RunIss, Loaded, vars, emitterVars
  <2>3. SimulatorOK /\ ProgOK /\ Harmless
    BY <2>2, ProgIsOK DEF DiffInv, StageOK, Harmless
  <2>4. QED
    BY <2>1, <2>2, <2>3
<1>2. /\ ArchCode = prog /\ ArchCode' = prog /\ ArchAt = n /\ ArchAt' = LineAt(prog, pc)'
      /\ ArchReg = regs /\ ArchReg' = regs' /\ ArchMem = scratch /\ ArchMem' = scratch'
  BY <1>1, LineOfNow, LineOfNext DEF ArchCode, ArchAt, ArchReg, ArchMem
<1>3. /\ n <= Len(prog) /\ n \in Insns(prog)
      /\ LineAt(prog, pc)' = NextAt(prog, n, regs)
      /\ regs' = NextReg(i, regs, scratch) /\ scratch' = NextMem(i, regs, scratch)
  <2>1. n \in Insns(prog)
    BY <1>1, CurrentLine DEF ProgOK, SimulatorOK, Sim!IssStep
  <2>2. QED
    BY <1>1, <2>1, SimSteps DEF After
<1>4. i \in InsnOver(Gprs) /\ i.op # "LABEL"
  BY <1>1, <1>3 DEF ProgOK, Insns, LegalLines
<1> HIDE DEF n, i
<1>5. ArchAt' = IF Arch!IsBranch(i) /\ Arch!Taken(i, regs[i.src1])
                THEN Arch!BranchTarget(prog, i.arg)
                ELSE Arch!SkipLabels(prog, n + 1)
  BY <1>2, <1>3, SameTests, SameWalk DEF NextAt, i
<1>6. Arch!Execute(i)
  <2>1. CASE IsAlu(i)
    <3>1. i.op # "STR"
      BY <2>1 DEF IsAlu, AllAluOps
    <3>2. /\ Arch!IsAlu(i) /\ ArchMem' = ArchMem
          /\ ArchReg' = [ArchReg EXCEPT ![i.dst] =
                           Arch!AluResult(i.op, ArchReg[i.src1], ArchReg[i.src2])]
      BY <1>2, <1>3, <2>1, <3>1, SameTests, SameValues DEF NextReg, NextMem, IsAlu
    <3>3. QED
      BY <3>2 DEF Arch!Execute, ArchReg, ArchMem
  <2>2. CASE i.op = "MOV"
    <3>1. ArchMem' = ArchMem /\ ArchReg' = [ArchReg EXCEPT ![i.dst] = i.arg]
      BY <1>2, <1>3, <2>2 DEF NextReg, NextMem, IsAlu, AllAluOps
    <3>2. QED
      BY <2>2, <3>1 DEF Arch!Execute, ArchReg, ArchMem
  <2>0. i.arg \in Nat
    BY <1>4 DEF InsnOver
  <2>3. CASE i.op = "LDR"
    <3>1. ArchMem' = ArchMem /\ ArchReg' = [ArchReg EXCEPT ![i.dst] = Arch!Load(ArchMem, i.arg)]
      BY <1>2, <1>3, <2>0, <2>3, SameMemory DEF NextReg, NextMem, IsAlu, AllAluOps
    <3>2. QED
      BY <2>3, <3>1 DEF Arch!Execute, ArchReg, ArchMem
  <2>4. CASE i.op = "STR"
    <3>1. ArchReg' = ArchReg /\ ArchMem' = Arch!Store(ArchMem, i.arg, ArchReg[i.src1])
      BY <1>2, <1>3, <2>0, <2>4, SameMemory DEF NextReg, NextMem, IsAlu, AllAluOps
    <3>2. QED
      BY <2>4, <3>1 DEF Arch!Execute, ArchReg, ArchMem
  <2>5. CASE IsBranch(i) \/ i.op = "NOP"
    <3>1. ~IsAlu(i) /\ i.op \notin {"MOV", "LDR", "STR"}
      BY <2>5 DEF IsAlu, AllAluOps, IsBranch, BranchOps
    <3>2. ArchReg' = ArchReg /\ ArchMem' = ArchMem
      BY <1>2, <1>3, <3>1 DEF NextReg, NextMem
    <3>3. Arch!IsBranch(i) \/ i.op = "NOP"
      BY <2>5, SameTests
    <3>4. QED
      BY <3>2, <3>3 DEF Arch!Execute, ArchReg, ArchMem
  <2>6. IsAlu(i) \/ IsBranch(i) \/ i.op \in {"MOV", "LDR", "STR", "NOP"}
    BY <1>4 DEF InsnOver, Opcodes, IsAlu, IsBranch
  <2>7. QED
    BY <2>1, <2>2, <2>3, <2>4, <2>5, <2>6
<1>7. ArchCode[ArchAt] = i /\ ArchAt <= Len(ArchCode) /\ ArchCode' = ArchCode
  BY <1>2, <1>3 DEF i
<1>8. QED
  BY <1>2, <1>5, <1>6, <1>7 DEF Arch!MachineStep, ArchCode, ArchAt, ArchReg, ArchMem

LEMMA ArchUntouched ==
  ASSUME DiffInv, DiffInv', bugs' = bugs,
         Loaded' = Loaded, UNCHANGED <<regs, scratch>>,
         Loaded => UNCHANGED <<prog, pc>>
  PROVE  UNCHANGED Arch!machineVars
<1>1. ArchCode' = ArchCode /\ ArchReg' = ArchReg /\ ArchMem' = ArchMem
  BY SameReset DEF ArchCode, ArchReg, ArchMem, Sim!ZeroReg, Sim!ZeroMem
<1>2. ArchAt' = ArchAt
  BY LineOfNow, LineOfNext DEF ArchAt
<1>3. QED
  BY <1>1, <1>2 DEF Arch!machineVars, ArchCode, ArchAt, ArchReg, ArchMem

LEMMA DiffStepImplements ==
  DiffInv /\ DiffInv' /\ [DiffNext]_diffVars => [Arch!MachineNext]_(Arch!machineVars)
<1> SUFFICES ASSUME DiffInv, DiffInv', [DiffNext]_diffVars
             PROVE  Arch!MachineNext \/ UNCHANGED Arch!machineVars
  OBVIOUS
<1>1. bugs' = bugs
  BY BugsStay
<1>2. CASE bugs # {}
  <2>1. UNCHANGED Arch!machineVars
    BY <1>1, <1>2, SameReset DEF Arch!machineVars, Sim!ZeroReg, Sim!ZeroMem
  <2>2. QED
    BY <2>1
<1>3. CASE bugs = {} /\ RecordAndStartIss
  BY <1>3, RecordIsLoad DEF Arch!MachineNext
<1>4. CASE bugs = {} /\ RunIss
  BY <1>4, RunIsStep DEF Arch!MachineNext
<1>5. CASE RunGenerator \/ StartQemu \/ RunQemu \/ Compare \/ UNCHANGED diffVars
  <2>1. Loaded' = Loaded /\ UNCHANGED <<regs, scratch, pc>>
    BY <1>5 DEF RunGenerator, StartQemu, RunQemu, Compare, diffVars, simVars, Loaded
  <2>2. Loaded => prog' = prog
    BY <1>5 DEF RunGenerator, StartQemu, RunQemu, Compare, diffVars, vars, emitterVars,
                Loaded
  <2>3. QED
    BY <1>1, <2>1, <2>2, ArchUntouched
<1>6. \/ RunGenerator \/ StartQemu \/ RunQemu \/ Compare \/ UNCHANGED diffVars
      \/ RecordAndStartIss \/ RunIss
  BY DEF DiffNext
<1>7. QED
  BY <1>2, <1>3, <1>4, <1>5, <1>6, Zenon

\* With no bug on, every step of the simulator is one of the architecture.
THEOREM IssImplementsMachine == DiffSpec => CleanIssImplementsMachine
<1>1. DiffInit => Arch!MachineInit
  BY SameReset DEF DiffInit, Sim!IssInit, Arch!MachineInit, Loaded
<1>2. DiffInv /\ DiffInv' /\ [DiffNext]_diffVars => [Arch!MachineNext]_(Arch!machineVars)
  BY DiffStepImplements
<1>3. QED
  BY <1>1, <1>2, RunsStayTogether, PTL
     DEF DiffSpec, CleanIssImplementsMachine, Arch!MachineSpec
===============================================================================
