----------------------------- MODULE Generator ------------------------------
(***************************************************************************)
(* One run of a stimulus generator: prologue, bootstrap MOVs, then Count   *)
(* iterations of the main loop, then the epilogue.  Each iteration         *)
(* shuffles the pool of four emitters and tries them in that order until   *)
(* one returns a line; when all decline, the bootstrap emitter is tried.   *)
(* The shuffled order is explored by letting every emitter not yet tried   *)
(* in this iteration be the next one.                                      *)
(***************************************************************************)
EXTENDS Emitters, FiniteSets

CONSTANTS
  Backends,        \* the ports explored, a subset of cpp, rust and zig
  Strategies,      \* the strategies explored
  BootstrapCount,  \* 10 in the code
  Count,           \* --count
  DumpRegs         \* the registers the epilogue stores, x0..x9 in the code

AllStrategies == {"random", "forwarding_stress", "load_use_stress",
                  "store_to_load_forwarding", "branch_dense", "cache_line_split"}

ASSUME GeneratorAssumption ==
  /\ Backends \subseteq {"cpp", "rust", "zig"}
  /\ Strategies \subseteq AllStrategies
  /\ BootstrapCount \in Nat \ {0} /\ Count \in Nat
  /\ DumpRegs \subseteq Gprs

VARIABLES
  strategy,
  phase,    \* where main is
  iter,     \* the loop counter i of the bootstrap and of the main loop
  untried,  \* positions of the pool not yet tried in this iteration
  dumped    \* the registers the printed epilogue stores

vars == <<emitterVars, strategy, phase, iter, untried, dumped>>

Slots == 1 .. 4

Pool(s) ==
  CASE s = "forwarding_stress" ->
         <<"ForwardingAlu", "ForwardingAlu", "ForwardingAlu", "MovImm">>
    [] s = "load_use_stress" ->
         <<"LoadUse", "LoadUse", "StrReg", "MovImm">>
    [] s = "store_to_load_forwarding" ->
         <<"StoreToLoad", "StoreToLoad", "MovImm", "AluRegReg">>
    [] s = "branch_dense" ->
         <<"BranchSkip", "BranchSkip", "BranchSkip", "MovImm">>
    [] s = "cache_line_split" ->
         <<"CacheLineSplit", "CacheLineSplit", "CacheLineSplit", "MovImm">>
    [] OTHER ->
         <<"MovImm", "AluRegReg", "LdrReg", "StrReg">>

Init ==
  /\ StateInit
  /\ backend \in Backends
  /\ strategy \in Strategies
  /\ prog = <<>>
  /\ phase = "prologue"
  /\ iter = 0
  /\ untried = Slots
  /\ dumped = {}

\* add_region(256, x22) and set_scratch_region.
EmitPrologue ==
  /\ phase = "prologue"
  /\ phase' = "bootstrap"
  /\ hasScratch' = TRUE
  /\ watermark' = 0
  /\ UNCHANGED <<kind, lastWritten, labelCounter, coverage, backend, prog,
                 strategy, iter, untried, dumped>>

Bootstrap ==
  /\ phase = "bootstrap" /\ iter < BootstrapCount
  /\ MovImm
  /\ iter' = iter + 1
  /\ UNCHANGED <<backend, strategy, phase, untried, dumped>>

BootstrapDone ==
  /\ phase = "bootstrap" /\ iter = BootstrapCount
  /\ phase' = "generate"
  /\ iter' = 0
  /\ UNCHANGED <<emitterVars, strategy, untried, dumped>>

\* The call through the Emitter interface.
TryEmit(e) ==
  \/ e = "MovImm" /\ MovImm
  \/ e = "AluRegReg" /\ AluRegReg
  \/ e = "LdrReg" /\ backend # "rust" /\ LdrReg
  \/ e = "LdrReg" /\ backend = "rust" /\ RustLdrReg
  \/ e = "StrReg" /\ StrReg
  \/ e = "LoadUse" /\ LoadUse
  \/ e = "ForwardingAlu" /\ backend # "zig" /\ ForwardingAlu
  \/ e = "ForwardingAlu" /\ backend = "zig" /\ ZigForwardingAlu
  \/ e = "StoreToLoad" /\ StoreToLoad
  \/ e = "BranchSkip" /\ BranchSkip
  \/ e = "CacheLineSplit" /\ CacheLineSplit

\* Mutant: an emitter that declines still uses up the iteration.
BugEndTry(slot) == iter' = iter + 1 /\ untried' = Slots

\* A line ends the iteration; nothing returned leaves the next emitter to try.
EndTry(slot) ==
  IF prog' # prog
  THEN /\ iter' = iter + 1
       /\ untried' = Slots
  ELSE /\ untried' = untried \ {slot}
       /\ UNCHANGED iter

Generate(slot) ==
  /\ phase = "generate" /\ iter < Count
  /\ slot \in untried
  /\ TryEmit(Pool(strategy)[slot])
  /\ EndTry(slot)
  /\ UNCHANGED <<backend, strategy, phase, dumped>>

Panic(slot) ==
  /\ phase = "generate" /\ iter < Count
  /\ slot \in untried
  /\ backend = "rust" /\ Pool(strategy)[slot] = "LdrReg" /\ RustLdrRegPanics
  /\ phase' = "panicked"
  /\ UNCHANGED <<emitterVars, strategy, iter, untried, dumped>>

\* Mutant: retries the bootstrap emitter until it returns a line.
BugFallback ==
  /\ phase = "generate" /\ iter < Count
  /\ untried = {}
  /\ MovImm
  /\ iter' = IF prog' # prog THEN iter + 1 ELSE iter
  /\ untried' = IF prog' # prog THEN Slots ELSE {}
  /\ UNCHANGED <<backend, strategy, phase, dumped>>

Fallback ==
  /\ phase = "generate" /\ iter < Count
  /\ untried = {}
  /\ MovImm
  /\ iter' = iter + 1
  /\ untried' = Slots
  /\ UNCHANGED <<backend, strategy, phase, dumped>>

EmitEpilogue ==
  /\ phase = "generate" /\ iter = Count
  /\ phase' = "done"
  /\ dumped' = DumpRegs
  /\ UNCHANGED <<emitterVars, strategy, iter, untried>>

Next ==
  \/ EmitPrologue
  \/ Bootstrap
  \/ BootstrapDone
  \/ \E slot \in Slots : Generate(slot) \/ Panic(slot)
  \/ Fallback
  \/ EmitEpilogue

Spec == Init /\ [][Next]_vars

\* The generator is one thread that runs until it exits.
FairSpec == Spec /\ WF_vars(Next)

-----------------------------------------------------------------------------
(***************************************************************************)
(* Properties.  The state machine exists to keep the printed program       *)
(* legal, so they speak of the program itself and not of the bookkeeping.  *)
(***************************************************************************)
\* Every variable has its type.
TypeOK ==
  /\ kind \in [Gprs -> RegKinds]
  /\ lastWritten \in Gprs \cup {NoReg}
  /\ hasScratch \in BOOLEAN
  /\ watermark \in 0 .. ScratchSize
  /\ labelCounter \in Nat
  /\ coverage \subseteq CovPoints
  /\ backend \in Backends
  /\ strategy \in Strategies
  /\ prog \in Seq(InsnOver(Gprs))
  /\ phase \in {"prologue", "bootstrap", "generate", "done", "panicked"}
  /\ iter \in Nat
  /\ untried \subseteq Slots
  /\ dumped \subseteq Gprs

\* Register r is written by one of the first n lines of the program.
WrittenBefore(r, n) == \E j \in 1 .. n : prog[j].dst = r

\* Every register an instruction reads was written by an earlier line
\* (RegKind::Uninitialized, "not safe to read").
DefBeforeUse ==
  \A i \in 1 .. Len(prog) : \A r \in Reads(prog[i]) : WrittenBefore(r, i - 1)

\* No generated line writes x20, x21 or x22: the base registers keep the
\* addresses the prologue put there.
ReservedUntouched == \A i \in 1 .. Len(prog) : prog[i].dst \notin ReservedGprs

\* Every load and store stays inside the scratch buffer.
AccessesInBounds ==
  \A i \in 1 .. Len(prog) : IsMem(prog[i]) => prog[i].arg + 8 <= ScratchSize

\* Every load reads a slot that an earlier store of the program has filled.
LoadsReadStored ==
  \A i \in 1 .. Len(prog) :
    prog[i].op = "LDR" =>
      \E j \in 1 .. i - 1 : prog[j].op = "STR" /\ prog[j].arg = prog[i].arg

\* A branch skips exactly one NOP, forward, to a label that no other line
\* defines.
BranchesSkipOneNop ==
  \A i \in 1 .. Len(prog) : IsBranch(prog[i]) =>
    /\ i + 2 <= Len(prog)
    /\ prog[i + 1] = Nop
    /\ {j \in 1 .. Len(prog) : prog[j] = Label(prog[i].arg)} = {i + 2}

\* The instructions of the program, without the lines that only define a label.
Instructions == {n \in 1 .. Len(prog) : prog[n].op # "LABEL"}

\* A finished program has at least one instruction for every bootstrap step
\* and every iteration: no iteration ends empty-handed.
EveryIterationEmits ==
  phase = "done" => Cardinality(Instructions) >= BootstrapCount + Count

\* The generator reaches its epilogue instead of aborting half-way through
\* the program.
NeverPanics == phase # "panicked"

BackToBack ==
  \A slot \in Slots :
    Generate(slot) /\ Pool(strategy)[slot] = "ForwardingAlu" =>
      /\ Len(prog') = Len(prog) + 1
      /\ prog'[Len(prog')].src1 = prog[Len(prog)].dst

\* A ForwardingAlu that is tried by the C++ or the Rust port appends an
\* instruction whose first source is the register the line just before wrote.
ForwardingIsBackToBack == [][backend # "zig" => BackToBack]_vars

Legal == INSTANCE LegalProgram WITH
  Reserved <- ReservedGprs, MemSize <- ScratchSize,
  text <- prog, complete <- (phase = "done")

\* Every port, under every strategy, implements LegalProgram: what is printed
\* is never taken back, an iteration adds only lines that are safe where they
\* stand, and the program is closed once the epilogue is printed.
ImplementsLegalProgram == Legal!LegalSpec

\* The generator exits.
Termination == <>(phase \in {"done", "panicked"})

(***************************************************************************)
(* What comments and documents say, and the code does not do.              *)
(***************************************************************************)
\* README.md:59 promises the chain of every port.
ZigForwardingIsBackToBack == [][backend = "zig" => BackToBack]_vars
=============================================================================
