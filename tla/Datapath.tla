------------------------------ MODULE Datapath ------------------------------
(***************************************************************************)
(* Values.  Scratch memory is a row of four-byte granules, so that the     *)
(* access at offset 60 overlaps two eight-byte slots; a register holds the *)
(* values of two granules.  A granule has Word values, 2^32 in the code.   *)
(* How an access or an operation turns values into values is said twice,   *)
(* in Machine for the architecture and in Iss for the simulator; they      *)
(* share the tables of the bitwise operations.                             *)
(***************************************************************************)
EXTENDS Aarch64

CONSTANTS
  Regs,     \* the registers
  MemSize,  \* bytes of scratch memory
  Word      \* values of a granule, a power of two

ZeroReg == [r \in Regs |-> 0]
ZeroMem == [g \in 0 .. (MemSize \div 4 - 1) |-> 0]

\* A table of bits applied to every bit of two numbers.
OnBits(table) ==
  LET f[x \in Nat, y \in Nat] ==
        IF x = 0 /\ y = 0 THEN 0
        ELSE 2 * f[x \div 2, y \div 2] + table[x % 2, y % 2]
  IN f

AndBits == [p, q \in 0 .. 1 |-> p * q]
OrBits  == [p, q \in 0 .. 1 |-> p + q - p * q]
XorBits == [p, q \in 0 .. 1 |-> (p + q) % 2]

Taken(i, v) == IF i.op = "CBZ" THEN v = 0 ELSE v # 0
=============================================================================
