------------------------------ MODULE Aarch64 ------------------------------
(***************************************************************************)
(* The AArch64 subset the stimulus generators print, one record per line   *)
(* of assembly.  Every record has the same fields, so that a program is a  *)
(* sequence of records: the destination register, up to two source         *)
(* registers (NoReg where there is none) and one number, which is the      *)
(* immediate of a MOV, the byte offset from x22 of an LDR or STR and the   *)
(* label number of a branch or of a label.                                 *)
(***************************************************************************)
EXTENDS Integers, Sequences

NoReg == -1

AllAluOps == {"ADD", "SUB", "AND", "ORR", "EOR", "MUL"}
BranchOps == {"CBZ", "CBNZ"}
Opcodes   == AllAluOps \cup BranchOps \cup {"MOV", "LDR", "STR", "NOP", "LABEL"}

Insn(op, dst, src1, src2, arg) ==
  [op |-> op, dst |-> dst, src1 |-> src1, src2 |-> src2, arg |-> arg]

Mov(dst, imm)           == Insn("MOV", dst, NoReg, NoReg, imm)
Alu(op, dst, src1, src2) == Insn(op, dst, src1, src2, 0)
Ldr(dst, off)           == Insn("LDR", dst, NoReg, NoReg, off)
Str(src, off)           == Insn("STR", NoReg, src, NoReg, off)
Branch(op, src, n)      == Insn(op, NoReg, src, NoReg, n)
Nop                     == Insn("NOP", NoReg, NoReg, NoReg, 0)
Label(n)                == Insn("LABEL", NoReg, NoReg, NoReg, n)

IsAlu(i)    == i.op \in AllAluOps
IsBranch(i) == i.op \in BranchOps
IsMem(i)    == i.op \in {"LDR", "STR"}

\* The registers an instruction reads (the base x22 of a load or store aside).
Reads(i) == {i.src1, i.src2} \ {NoReg}

\* All instructions over the registers regs.
InsnOver(regs) ==
  [op   : Opcodes,
   dst  : regs \cup {NoReg},
   src1 : regs \cup {NoReg},
   src2 : regs \cup {NoReg},
   arg  : Nat]
=============================================================================
