------------------------------ MODULE Machine -------------------------------
(***************************************************************************)
(* What the architecture promises for the generated subset: the processor  *)
(* qemu-aarch64 stands for, and the specification the simulator is meant   *)
(* to implement when no bug is switched on.  It executes the text of a     *)
(* program line by line; a label line is no instruction.                   *)
(***************************************************************************)
EXTENDS Datapath

VARIABLES
  code,  \* the program text, label lines included; empty before it is loaded
  at,    \* position in code of the instruction to execute next
  reg,
  mem

machineVars == <<code, at, reg, mem>>

\* The first line of c at or after position n that is not a label.
SkipLabels(c, n) ==
  CHOOSE k \in n .. Len(c) + 1 :
    /\ k <= Len(c) => c[k].op # "LABEL"
    /\ \A j \in n .. k - 1 : c[j].op = "LABEL"

\* The instruction a branch to label n leads to.
BranchTarget(c, n) == SkipLabels(c, CHOOSE k \in 1 .. Len(c) : c[k] = Label(n))

\* Memory is little-endian: the granule at the lower address is the low half.
Load(m, off) == m[off \div 4] + Word * m[off \div 4 + 1]

Store(m, off, v) ==
  [m EXCEPT ![off \div 4] = v % Word, ![off \div 4 + 1] = v \div Word]

\* Two's complement, truncated to a register's width.
AluResult(op, a, b) ==
  CASE op = "ADD" -> (a + b) % (Word * Word)
    [] op = "SUB" -> (a - b) % (Word * Word)
    [] op = "MUL" -> (a * b) % (Word * Word)
    [] op = "AND" -> OnBits(AndBits)[a, b]
    [] op = "ORR" -> OnBits(OrBits)[a, b]
    [] op = "EOR" -> OnBits(XorBits)[a, b]

MachineInit == code = <<>> /\ at = 1 /\ reg = ZeroReg /\ mem = ZeroMem

\* A fresh process finds its registers and its .space data zero.
MachineLoad ==
  /\ code = <<>>
  /\ code' \in Seq(InsnOver(Regs))
  /\ at' = SkipLabels(code', 1)
  /\ UNCHANGED <<reg, mem>>

Execute(i) ==
  \/ /\ IsAlu(i)
     /\ reg' = [reg EXCEPT ![i.dst] = AluResult(i.op, reg[i.src1], reg[i.src2])]
     /\ UNCHANGED mem
  \/ i.op = "MOV" /\ reg' = [reg EXCEPT ![i.dst] = i.arg] /\ UNCHANGED mem
  \/ i.op = "LDR" /\ reg' = [reg EXCEPT ![i.dst] = Load(mem, i.arg)] /\ UNCHANGED mem
  \/ i.op = "STR" /\ mem' = Store(mem, i.arg, reg[i.src1]) /\ UNCHANGED reg
  \/ IsBranch(i) /\ UNCHANGED <<reg, mem>>
  \/ i.op = "NOP" /\ UNCHANGED <<reg, mem>>

MachineStep ==
  /\ at <= Len(code)
  /\ Execute(code[at])
  /\ at' = IF IsBranch(code[at]) /\ Taken(code[at], reg[code[at].src1])
           THEN BranchTarget(code, code[at].arg)
           ELSE SkipLabels(code, at + 1)
  /\ UNCHANGED code

MachineNext == MachineLoad \/ MachineStep

MachineSpec == MachineInit /\ [][MachineNext]_machineVars

Halted == code # <<>> /\ at > Len(code)
=============================================================================
