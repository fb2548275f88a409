------------------------------ MODULE Examples ------------------------------
(***************************************************************************)
(* gen_examples.py: fills examples/<example>/<generator>/ with test.S,     *)
(* golden.bin and golden.txt, one pair of example and generator after the  *)
(* other, over what earlier runs left there.  Each pair is generated,      *)
(* assembled, linked and run in an empty directory of its own; only then   *)
(* are its three files written, in this order and in place.                *)
(*                                                                         *)
(* The seed of an example is fixed, so a text is named by its pair and by  *)
(* the build of the generators; object, ELF, signature and golden by the   *)
(* text they come from.                                                    *)
(***************************************************************************)
EXTENDS Integers, Sequences, FiniteSets, Files

CONSTANTS
  EXAMPLES,    \* the examples, in order
  GENERATORS,  \* the generators, in order
  Builds,      \* builds of the generators, one of which a run finds
  MaxRuns,     \* bound: how often the script is started
  Crashes,     \* the script may be killed
  StagesFail,  \* a command may exit with a nonzero status
  WritesFail   \* a write may fail, in a child or in the script itself

ASSUME ExamplesAssumption ==
  /\ EXAMPLES \in Seq(STRING) /\ GENERATORS \in Seq({"cpp", "rust", "zig"})
  /\ MaxRuns \in Nat
  /\ {Crashes, StagesFail, WritesFail} \subseteq BOOLEAN

\* The pairs in the order the two loops of main visit them, and the generator
\* of the n-th.
Pairs == 1 .. Len(EXAMPLES) * Len(GENERATORS)
GeneratorOf(n) == GENERATORS[((n - 1) % Len(GENERATORS)) + 1]

Text(n, build) == <<n, build>>
Contents == {Absent, Short} \cup (Pairs \X Builds)

VARIABLES
  dest,   \* per pair, its directory under examples/
  work,   \* the temporary directory of the pair at hand
  stage,  \* where main is
  at,     \* the pair at hand
  build,  \* the build of the generators this run found
  runs,   \* how often the script was started
  exit    \* its exit status, -1 before it has one

vars == <<dest, work, stage, at, build, runs, exit>>

Empty == [text |-> Absent, obj |-> Absent, elf |-> Absent, sig |-> Absent]

Same(c) == [asm |-> c, bin |-> c, txt |-> c]

\* The repository comes with the examples of some build; a new one has none.
Init ==
  /\ \/ dest = [n \in Pairs |-> Same(Absent)]
     \/ \E b \in Builds : dest = [n \in Pairs |-> Same(Text(n, b))]
  /\ work = Empty
  /\ stage = "idle"
  /\ at = 0 /\ runs = 0 /\ exit = -1
  /\ build \in Builds

Ended == stage \in {"idle", "exited", "killed"}

GoTo(s) == stage' = s /\ UNCHANGED <<at, build, runs, exit>>

\* sys.exit(1) and an exception end main alike.
Fail == stage' = "exited" /\ exit' = 1 /\ UNCHANGED <<at, build, runs>>

Killed == Crashes /\ GoTo("killed")

-----------------------------------------------------------------------------
\* All three binaries are looked for before anything is done.
Start ==
  /\ Ended /\ runs < MaxRuns
  /\ runs' = runs + 1
  /\ build' \in Builds
  /\ \/ stage' = "next" /\ at' = 0 /\ exit' = -1
     \/ stage' = "exited" /\ exit' = 1 /\ UNCHANGED at
  /\ UNCHANGED <<dest, work>>

\* Mutant: all pairs share one temporary directory.
BugNextPair ==
  /\ stage = "next" /\ at + 1 \in Pairs
  /\ at' = at + 1
  /\ stage' = "generate"
  /\ UNCHANGED <<dest, work, build, runs, exit>>

\* Mutant: does not stop at the last pair.
BugVisitNext ==
  /\ stage = "next"
  /\ at' = at + 1
  /\ work' = Empty
  /\ stage' = "generate"
  /\ UNCHANGED <<dest, build, runs, exit>>

NextPair ==
  /\ stage = "next" /\ at + 1 \in Pairs
  /\ at' = at + 1
  /\ work' = Empty
  /\ stage' = "generate"
  /\ UNCHANGED <<dest, build, runs, exit>>

Done ==
  /\ stage = "next" /\ at + 1 \notin Pairs
  /\ stage' = "exited" /\ exit' = 0
  /\ UNCHANGED <<dest, work, at, build, runs>>

\* What a command leaves in the temporary directory when it exits 0: the
\* generator may not notice that its text was cut short; a program cut short
\* dies, and one that is whole exits 0 whether or not it could open and write
\* signature.bin.
Outcomes(cmd) ==
  CASE cmd = "generate" ->
         {[work EXCEPT !.text = Text(at, build)]}
           \cup {[work EXCEPT !.text = Short] :
                   w \in {"unnoticed"} \cap (IF WritesFail THEN OnWriteError[GeneratorOf(at)] ELSE {})}
    [] cmd = "assemble" -> {[work EXCEPT !.obj = work.text]}
    [] cmd = "link" -> {[work EXCEPT !.elf = work.obj]}
    [] cmd = "qemu" ->
         IF work.elf = Short THEN {}
         ELSE {[work EXCEPT !.sig = work.elf]}
                \cup IF WritesFail THEN {work, [work EXCEPT !.sig = Short]} ELSE {}

After == [generate |-> "assemble", assemble |-> "link", link |-> "qemu", qemu |-> "signature"]

\* run_cmd: any nonzero exit status ends the script.
RunCmd ==
  /\ stage \in DOMAIN After
  /\ \/ work' \in Outcomes(stage) /\ GoTo(After[stage])
     \/ (StagesFail \/ WritesFail \/ Outcomes(stage) = {}) /\ Fail /\ UNCHANGED work
  /\ UNCHANGED dest

ReadSignature ==
  /\ stage = "signature"
  /\ IF work.sig = Absent THEN Fail ELSE GoTo("asm")
  /\ UNCHANGED <<dest, work>>

\* A file of the pair is replaced in place.  A write that fails raises, and a
\* script killed inside a write leaves the file cut short as well.
Write(file, contents, next) ==
  /\ \/ dest' = [dest EXCEPT ![at][file] = contents] /\ GoTo(next)
     \/ /\ dest' = [dest EXCEPT ![at][file] = Short]
        /\ (WritesFail /\ Fail) \/ Killed
  /\ UNCHANGED work

\* Mutant: the golden is written before the text it belongs to.
BugWriteAsm == stage = "asm" /\ Write("bin", work.sig, "bin")

WriteAsm == stage = "asm" /\ Write("asm", work.text, "bin")

WriteBin == stage = "bin" /\ Write("bin", work.sig, "txt")

\* Mutant: a signature too short to print is skipped.
BugWriteTxt ==
  /\ stage = "txt"
  /\ IF work.sig = Short THEN GoTo("next") /\ UNCHANGED <<dest, work>>
     ELSE Write("txt", work.sig, "next")

\* golden_txt unpacks the registers before golden.txt is opened, which raises
\* when the signature was cut short.
WriteTxt ==
  /\ stage = "txt"
  /\ IF work.sig = Short THEN Fail /\ UNCHANGED <<dest, work>>
     ELSE Write("txt", work.sig, "next")

\* A directory that cannot be made, or a file that cannot be opened, raises
\* before anything is changed.
Raise == ~Ended /\ WritesFail /\ Fail /\ UNCHANGED <<dest, work>>

Kill == ~Ended /\ Killed /\ UNCHANGED <<dest, work>>

Next ==
  \/ Start \/ NextPair \/ Done \/ RunCmd \/ ReadSignature
  \/ WriteAsm \/ WriteBin \/ WriteTxt \/ Raise \/ Kill

Spec == Init /\ [][Next]_vars

-----------------------------------------------------------------------------
\* Types.
TypeOK ==
  /\ dest \in [Pairs -> [asm : Contents, bin : Contents, txt : Contents]]
  /\ work \in [text : Contents, obj : Contents, elf : Contents, sig : Contents]
  /\ stage \in {"idle", "next", "exited", "killed", "signature", "asm", "bin", "txt"} \cup DOMAIN After
  /\ at \in Pairs \cup {0}
  /\ build \in Builds /\ runs \in 0 .. MaxRuns /\ exit \in {-1, 0, 1}

\* When the script exits 0, every example of every generator consists of the
\* text of this run's build and of that very text's golden, whatever runs that
\* were killed or failed left there, and although neither the generators nor
\* the programs they print report every write that fails.
CleanExitMeansComplete ==
  exit = 0 => \A n \in Pairs : dest[n] = Same(Text(n, build))

\* golden.bin only ever becomes the signature of the test.S beside it, and
\* golden.txt only the text of that golden.bin; or they are cut short.
GoldenFollowsText ==
  [][\A n \in Pairs :
       /\ dest'[n].bin # dest[n].bin => dest'[n].bin \in {Short, dest[n].asm}
       /\ dest'[n].txt # dest[n].txt => dest'[n].txt \in {Short, dest[n].bin}]_vars

\* The examples whose three files do not belong together, or are cut short.
Torn == {n \in Pairs : \A c \in Contents \ {Short} : dest[n] # Same(c)}

\* A run that fails or is killed spoils the example at hand and no other.
EachRunTearsOne == Cardinality(Torn) <= runs
=============================================================================
