---------------------------- MODULE Differential ----------------------------
(***************************************************************************)
(* run.py --bug: a program is generated, run under QEMU, its signature     *)
(* recorded as the golden, then run by the simulator with some bugs on and *)
(* the two signatures compared.  The stages follow each other as in        *)
(* run_one; golden and simulator see the same program.                     *)
(***************************************************************************)
EXTENDS Generator

CONSTANTS
  WordValues,  \* values of a four-byte granule
  BugSets      \* the sets of bugs tried

ASSUME DifferentialAssumption ==
  /\ WordValues \in Nat \ {0}
  /\ BugSets \subseteq SUBSET {"load_use", "store_to_load"}
  /\ Imms \subseteq 0 .. (WordValues * WordValues - 1)
  /\ ScratchSize % 4 = 0 /\ SplitOffset % 4 = 0

VARIABLES
  stage,   \* where run_one is
  golden,  \* the recorded signature, <<>> before it is recorded
  exposed, \* run_iss's verdict
  code, at, reg, mem,
  bugs, insns, labels, pc, regs, scratch,
  lastLdrDst, preLdrVal, lastStrAddr, preStrVal

Qemu == INSTANCE Machine WITH
  Regs <- Gprs, MemSize <- ScratchSize, Word <- WordValues

Sim == INSTANCE Iss WITH
  Regs <- Gprs, MemSize <- ScratchSize, Word <- WordValues

qemuVars == <<code, at, reg, mem>>
simVars  == <<bugs, insns, labels, pc, regs, scratch,
              lastLdrDst, preLdrVal, lastStrAddr, preStrVal>>
diffVars == <<vars, stage, golden, exposed, qemuVars, simVars>>

\* What the printed epilogue stores of QEMU's registers.
QemuSignature == [x \in dumped |-> reg[x]]

\* What the simulator returns of its own, by a count it has for itself.
IssSignature == [x \in DumpRegs |-> regs[x]]

DiffInit ==
  /\ Init
  /\ stage = "generate" /\ golden = <<>> /\ exposed = FALSE
  /\ Qemu!MachineInit
  /\ \E b \in BugSets : Sim!IssInit(b)

RunGenerator ==
  /\ stage = "generate"
  /\ Next
  /\ UNCHANGED <<stage, golden, exposed, qemuVars, simVars>>

\* generate, assemble and link have succeeded.
StartQemu ==
  /\ stage = "generate" /\ phase = "done"
  /\ stage' = "qemu"
  /\ code' = prog
  /\ Qemu!MachineLoad
  /\ UNCHANGED <<vars, golden, exposed, simVars>>

RunQemu ==
  /\ stage = "qemu"
  /\ Qemu!MachineStep
  /\ UNCHANGED <<vars, stage, golden, exposed, simVars>>

\* verify_or_record finds no golden and records this signature; with bugs to
\* try, run_iss starts the simulator on the same text.
RecordAndStartIss ==
  /\ stage = "qemu" /\ Qemu!Halted
  /\ golden' = QemuSignature
  /\ stage' = "iss"
  /\ Sim!LoadAsm(prog)
  /\ UNCHANGED <<vars, exposed, qemuVars>>

RunIss ==
  /\ stage = "iss"
  /\ Sim!IssStep
  /\ UNCHANGED <<vars, stage, golden, exposed, qemuVars>>

Compare ==
  /\ stage = "iss" /\ pc >= Len(insns)
  /\ stage' = "compared"
  /\ exposed' = (IssSignature # golden)
  /\ UNCHANGED <<vars, golden, qemuVars, simVars>>

DiffNext ==
  \/ RunGenerator \/ StartQemu \/ RunQemu \/ RecordAndStartIss
  \/ RunIss \/ Compare

DiffSpec == DiffInit /\ [][DiffNext]_diffVars

\* Each stage is one process that runs until it ends.
DiffFairSpec == DiffSpec /\ WF_diffVars(DiffNext)

-----------------------------------------------------------------------------
Audit == INSTANCE Analyzer WITH
  BaseReg <- ScratchPointer, LineSplitOffset <- SplitOffset

\* The simulator with no bug on agrees with QEMU, so that a divergence is
\* always the work of a bug (iss.py, "Compare --golden").
CleanIssMatchesQemu == stage = "compared" /\ bugs = {} => ~exposed

\* A bug is exposed only by a program in which the static analyzer counts the
\* hazard that bug is about: what --bug finds, --analyze can explain.
ExposedNeedsHazard ==
  exposed =>
    \/ "load_use" \in bugs /\ Audit!CountHazards("LoadUseHazard", prog) > 0
    \/ "store_to_load" \in bugs /\ Audit!CountHazards("StoreToLoadFwd", prog) > 0

\* Neither run ever goes back, and the simulator never leaves its list but at
\* the end: a taken branch lands behind itself, in the text and in the list
\* whose labels load_asm renumbers.  This is why both come to an end.
OnlyForward ==
  [][ /\ RunQemu => at < at'
      /\ RunIss => pc < pc' /\ pc' <= Len(insns) ]_diffVars

\* The simulator's run comes to an end: no branch of a generated program
\* leads backwards.
IssTerminates == stage = "iss" ~> stage = "compared"

\* Line of the program text that index k of the stripped list stands for.
LineOf(k) ==
  IF k >= Len(insns) THEN Len(prog) + 1
  ELSE CHOOSE n \in 1 .. Len(prog) :
         prog[n].op # "LABEL" /\ Sim!Index(prog, n) = k

Loaded == stage \in {"iss", "compared"}

\* A simulator with a bug on stands for a processor that is never started.
Arch == INSTANCE Machine WITH
  Regs <- Gprs, MemSize <- ScratchSize, Word <- WordValues,
  code <- IF Loaded /\ bugs = {} THEN prog ELSE <<>>,
  at   <- IF Loaded /\ bugs = {} THEN LineOf(pc) ELSE 1,
  reg  <- IF bugs = {} THEN regs ELSE Sim!ZeroReg,
  mem  <- IF bugs = {} THEN scratch ELSE Sim!ZeroMem

\* With no bug on, the simulator implements the architecture, instruction by
\* instruction.
CleanIssImplementsMachine == Arch!MachineSpec
=============================================================================
