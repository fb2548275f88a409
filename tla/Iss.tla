-------------------------------- MODULE Iss ---------------------------------
(***************************************************************************)
(* iss.py: the simulator with switchable bugs.  load_asm strips the label  *)
(* lines and keeps each label's index in the stripped list; run executes   *)
(* that list with a zero-based pc and, for the bugs, remembers for one     *)
(* instruction the register just loaded with its former value and the slot *)
(* just stored to with its former contents.  MOV between registers, which  *)
(* run accepts, is never generated.                                        *)
(***************************************************************************)
EXTENDS Datapath, FiniteSets

VARIABLES
  bugs,        \* the bugs switched on, a subset of load_use and store_to_load
  insns,       \* the stripped program
  labels,      \* label number -> index in insns
  pc,
  regs,
  scratch,
  lastLdrDst,  \* destination of the load just executed, NoReg otherwise
  preLdrVal,   \* what it held before that load
  lastStrAddr, \* offset of the store just executed, NoAddr otherwise
  preStrVal    \* what was there before that store

latches == <<lastLdrDst, preLdrVal, lastStrAddr, preStrVal>>
issVars == <<bugs, insns, labels, pc, regs, scratch, latches>>

NoAddr == -1

IssInit(chosenBugs) ==
  /\ bugs = chosenBugs
  /\ insns = <<>> /\ labels = <<>> /\ pc = 0
  /\ regs = ZeroReg /\ scratch = ZeroMem
  /\ lastLdrDst = NoReg /\ preLdrVal = 0
  /\ lastStrAddr = NoAddr /\ preStrVal = 0

NotLabel(i) == i.op # "LABEL"

\* The index in the stripped list of line n of the text, a label's being that
\* of whatever follows it.
Index(text, n) == Cardinality({m \in 1 .. n - 1 : NotLabel(text[m])})

\* The lines appended to insns.
Stripped(text) ==
  [k \in 1 .. Index(text, Len(text) + 1) |->
     text[CHOOSE n \in 1 .. Len(text) : NotLabel(text[n]) /\ Index(text, n) = k - 1]]

LabelNumbers(text) ==
  {text[n].arg : n \in {m \in 1 .. Len(text) : ~NotLabel(text[m])}}

\* Mutant: places every label before anything has been appended to the list,
\* as the first load_asm of the file (overridden by the second) would.
BugPlaces(text) == [l \in LabelNumbers(text) |-> 0]

\* labels[name] = len(insns), every name being that of one line.
Places(text) ==
  [l \in LabelNumbers(text) |->
     Index(text, CHOOSE n \in 1 .. Len(text) : text[n] = Label(l))]

LoadAsm(text) ==
  /\ insns' = Stripped(text)
  /\ labels' = Places(text)
  /\ UNCHANGED <<bugs, pc, regs, scratch, latches>>

\* Mutant: '>Q', the high half at the lower address.
BugPack(v) == <<v \div Word, v % Word>>

\* struct's '<Q': the granules of a value, the low half first.
Pack(v) == <<v % Word, v \div Word>>

UnpackFrom(m, off) ==
  LET b == [k \in 1 .. 2 |-> m[off \div 4 + k - 1]] IN b[1] + Word * b[2]

\* The bytearray with the two granules from off on replaced.
PackInto(m, off, v) ==
  LET b == Pack(v)
  IN [g \in DOMAIN m |-> CASE g = off \div 4     -> b[1]
                           [] g = off \div 4 + 1 -> b[2]
                           [] OTHER -> m[g]]

\* v & MASK64, of Python's unbounded integers.
Mask64(v) == v % (Word * Word)

AluValue(op, v1, v2) ==
  CASE op = "ADD" -> Mask64(v1 + v2)
    [] op = "SUB" -> Mask64(v1 - v2)
    [] op = "AND" -> OnBits(AndBits)[v1, v2]
    [] op = "ORR" -> OnBits(OrBits)[v1, v2]
    [] op = "EOR" -> OnBits(XorBits)[v1, v2]
    [] OTHER -> Mask64(v1 * v2)

Current == insns[pc + 1]

Advance == pc' = pc + 1

\* Mutant: the bug reads its stale value whether or not it is switched on.
BugOperand(r) == IF lastLdrDst = r THEN preLdrVal ELSE regs[r]

\* An ALU operand: under the load_use bug, a register loaded by the
\* instruction just before reads as it did before that load.
Operand(r) ==
  IF "load_use" \in bugs /\ lastLdrDst = r THEN preLdrVal ELSE regs[r]

\* Mutant: latches the load for longer than the next instruction.
BugClearLatches == UNCHANGED lastLdrDst /\ lastStrAddr' = NoAddr

\* Every instruction begins by taking both latches.
ClearLatches == lastLdrDst' = NoReg /\ lastStrAddr' = NoAddr

IssAlu ==
  /\ IsAlu(Current)
  /\ regs' = [regs EXCEPT ![Current.dst] =
                AluValue(Current.op, Operand(Current.src1), Operand(Current.src2))]
  /\ ClearLatches /\ Advance
  /\ UNCHANGED <<scratch, preLdrVal, preStrVal>>

IssLdr ==
  /\ Current.op = "LDR"
  /\ regs' = [regs EXCEPT ![Current.dst] =
                IF "store_to_load" \in bugs /\ lastStrAddr = Current.arg
                THEN preStrVal ELSE UnpackFrom(scratch, Current.arg)]
  /\ preLdrVal' = regs[Current.dst]
  /\ lastLdrDst' = Current.dst /\ lastStrAddr' = NoAddr
  /\ Advance
  /\ UNCHANGED <<scratch, preStrVal>>

IssStr ==
  /\ Current.op = "STR"
  /\ preStrVal' = UnpackFrom(scratch, Current.arg)
  /\ lastStrAddr' = Current.arg /\ lastLdrDst' = NoReg
  /\ scratch' = PackInto(scratch, Current.arg, regs[Current.src1])
  /\ Advance
  /\ UNCHANGED <<regs, preLdrVal>>

IssMov ==
  /\ Current.op = "MOV"
  /\ regs' = [regs EXCEPT ![Current.dst] = Current.arg]
  /\ ClearLatches /\ Advance
  /\ UNCHANGED <<scratch, preLdrVal, preStrVal>>

IssBranch ==
  /\ IsBranch(Current)
  /\ pc' = IF Taken(Current, regs[Current.src1]) THEN labels[Current.arg] ELSE pc + 1
  /\ ClearLatches
  /\ UNCHANGED <<regs, scratch, preLdrVal, preStrVal>>

IssNop ==
  /\ Current.op = "NOP"
  /\ ClearLatches /\ Advance
  /\ UNCHANGED <<regs, scratch, preLdrVal, preStrVal>>

\* One turn of run's while loop.
IssStep ==
  /\ pc < Len(insns)
  /\ IssAlu \/ IssLdr \/ IssStr \/ IssMov \/ IssBranch \/ IssNop
  /\ UNCHANGED <<bugs, insns, labels>>
=============================================================================
