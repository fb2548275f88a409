---------------------------- MODULE Orchestrator ----------------------------
(***************************************************************************)
(* run.py: processes that take tests through generate, assemble, link,     *)
(* QEMU, golden and simulator, and the files they leave to each other.     *)
(*                                                                         *)
(* A file holds a whole program (or what was derived from one), or was cut *)
(* short, or is absent.  A program is named by what determines it, and its *)
(* object, ELF and signature by the same name: different programs are      *)
(* taken to have different signatures.                                     *)
(***************************************************************************)
EXTENDS Integers, Sequences, Files

CONSTANTS
  Procs,       \* the run.py processes
  TestsOf,     \* the tests <<generator, seed, strategy>> each of them may run
  Counts,      \* the values of --count they are started with
  Batch,       \* --batch
  MaxStarts,   \* bound: how often a process is started
  Bugs,        \* whether a process is started with --bug
  Crashes,     \* a process may be killed between and inside stages
  StagesFail,  \* a child process may fail with a nonzero exit status, or the
               \* generator may not have been built
  WritesFail   \* a write may fail: in the generator, in the program under test
               \* or in run.py itself

Tests == UNION {TestsOf[p] : p \in Procs}

ASSUME OrchestratorAssumption ==
  /\ Batch \in Nat /\ MaxStarts \in Nat /\ Counts \subseteq Nat
  /\ Bugs \subseteq BOOLEAN
  /\ {Crashes, StagesFail, WritesFail} \subseteq BOOLEAN
  /\ Tests \subseteq {"cpp", "rust", "zig"} \X Nat \X STRING

Program(t, n) == <<t, n>>
Contents == {Absent, Short} \cup {Program(t, n) : t \in Tests, n \in Counts}

\* tests/<generator>/<seed>_<strategy>, with test.S, test.o, test.elf and
\* signature.bin in it.
TestDir(t) == t

\* Mutant: one golden directory for all backends.
BugGoldenPath(t) == <<t[2], t[3]>>

\* tests/golden/<generator>/<seed>_<strategy>.bin
GoldenPath(t) == t

VARIABLES
  text, obj, elf, sig,  \* per test directory
  golden,               \* per golden path
  proc                  \* per process, what run_one and main hold

files == <<text, obj, elf, sig, golden>>
vars  == <<files, proc>>

NoTest == <<>>

\* What main starts from: no test in hand, nothing verified.  Three fields are
\* history variables, which no action reads: lost, the tests of this run whose
\* program could not write its signature and exited 0; triggered, whether the
\* program set off the simulator's bug; broken, whether the simulator failed by
\* itself.
Idle == [stage |-> "idle", starts |-> 0, count |-> 0, backend |-> "none", bug |-> FALSE,
         test |-> NoTest,
         left |-> 0, allOk |-> TRUE, ran |-> {}, lost |-> {}, sigData |-> Absent,
         ok |-> FALSE, exposed |-> FALSE, triggered |-> FALSE, broken |-> FALSE,
         exit |-> -1]

Init ==
  LET dirs == {TestDir(t) : t \in Tests}
  IN /\ text = [d \in dirs |-> Absent]
     /\ obj  = [d \in dirs |-> Absent]
     /\ elf  = [d \in dirs |-> Absent]
     /\ sig  = [d \in dirs |-> Absent]
     /\ golden = [g \in {GoldenPath(t) : t \in Tests} |-> Absent]
     /\ proc = [p \in Procs |-> Idle]

Dir(p)  == TestDir(proc[p].test)
Gold(p) == GoldenPath(proc[p].test)
Mine(p) == Program(proc[p].test, proc[p].count)

At(p, s)   == proc[p].stage = s
GoTo(p, s) == proc' = [proc EXCEPT ![p].stage = s]

\* The epilogue goes on to exit(0) whatever openat and write returned.
LoseSignature(p) ==
  proc' = [proc EXCEPT ![p].stage = "signature", ![p].lost = @ \cup {proc[p].test}]

\* sys.exit(1) or an exception, out of main: the rest of a batch is not run.
Abort(p) == proc' = [proc EXCEPT ![p].stage = "exited", ![p].exit = 1]

ChildFails(p) == StagesFail /\ Abort(p) /\ UNCHANGED files

-----------------------------------------------------------------------------
\* What main knows after its arguments.
Begun(p, n, b, backend) ==
  [Idle EXCEPT !.stage = "next", !.starts = proc[p].starts + 1,
               !.count = n, !.backend = backend, !.bug = b, !.left = Batch]

\* main ends at once when the binary of its backend is missing.
Start(p) ==
  /\ At(p, "idle") \/ At(p, "exited") \/ At(p, "killed")
  /\ proc[p].starts < MaxStarts
  /\ \E n \in Counts, b \in Bugs, t \in TestsOf[p] :
       LET main == Begun(p, n, b, t[1])
       IN \/ proc' = [proc EXCEPT ![p] = main]
          \/ /\ StagesFail
             /\ proc' = [proc EXCEPT ![p] = [main EXCEPT !.stage = "exited", !.exit = 1]]
  /\ UNCHANGED files

\* Mutant: one test too many.
BugNextTest(p) ==
  /\ At(p, "next")
  /\ \E t \in {u \in TestsOf[p] : u[1] = proc[p].backend} :
       proc' = [proc EXCEPT ![p].stage = "generate", ![p].test = t, ![p].left = @ - 1]
  /\ UNCHANGED files

NextTest(p) ==
  /\ At(p, "next") /\ proc[p].left > 0
  /\ \E t \in {u \in TestsOf[p] : u[1] = proc[p].backend} :
       proc' = [proc EXCEPT ![p].stage = "generate", ![p].test = t,
                            ![p].left = @ - 1, ![p].exposed = FALSE,
                            ![p].triggered = FALSE, ![p].broken = FALSE]
  /\ UNCHANGED files

\* The generator opens its output, which empties it, and then writes it.
GenerateOpen(p) ==
  /\ At(p, "generate")
  /\ \/ /\ text' = [text EXCEPT ![Dir(p)] = Short]
        /\ GoTo(p, "generating")
        /\ UNCHANGED <<obj, elf, sig, golden>>
     \/ ChildFails(p)

GenerateWrite(p) ==
  /\ At(p, "generating")
  /\ \/ /\ text' = [text EXCEPT ![Dir(p)] = Mine(p)]
        /\ GoTo(p, "assemble")
        /\ UNCHANGED <<obj, elf, sig, golden>>
     \/ /\ WritesFail /\ "unnoticed" \in OnWriteError[proc[p].backend]
        /\ GoTo(p, "assemble")
        /\ UNCHANGED files
     \/ /\ WritesFail /\ "exit" \in OnWriteError[proc[p].backend]
        /\ Abort(p)
        /\ UNCHANGED files
     \/ ChildFails(p)

\* Mutant: the exit status of the assembler is not looked at.
BugAssemble(p) ==
  /\ At(p, "assemble")
  /\ GoTo(p, "link")
  /\ obj' \in {obj, [obj EXCEPT ![Dir(p)] = text[Dir(p)]]}
  /\ UNCHANGED <<text, elf, sig, golden>>

\* Both tools replace their output by what they made of their input; a text
\* cut at the end of a line is accepted.
Assemble(p) ==
  /\ At(p, "assemble")
  /\ \/ /\ text[Dir(p)] # Absent
        /\ obj' = [obj EXCEPT ![Dir(p)] = text[Dir(p)]]
        /\ GoTo(p, "link")
        /\ UNCHANGED <<text, elf, sig, golden>>
     \/ text[Dir(p)] = Short /\ Abort(p) /\ UNCHANGED files
     \/ ChildFails(p)

Link(p) ==
  /\ At(p, "link")
  /\ \/ /\ elf' = [elf EXCEPT ![Dir(p)] = obj[Dir(p)]]
        /\ GoTo(p, "qemu")
        /\ UNCHANGED <<text, obj, sig, golden>>
     \/ ChildFails(p)

\* The program under test opens signature.bin with O_TRUNC, writes it and
\* exits 0 whether or not that worked; a program cut short has no epilogue and
\* dies.
QemuOpen(p) ==
  /\ At(p, "qemu")
  /\ \/ /\ elf[Dir(p)] # Short
        /\ sig' = [sig EXCEPT ![Dir(p)] = Short]
        /\ GoTo(p, "running")
        /\ UNCHANGED <<text, obj, elf, golden>>
     \/ /\ elf[Dir(p)] # Short /\ WritesFail
        /\ LoseSignature(p)
        /\ UNCHANGED files
     \/ elf[Dir(p)] = Short /\ Abort(p) /\ UNCHANGED files
     \/ ChildFails(p)

QemuWrite(p) ==
  /\ At(p, "running")
  /\ \/ /\ sig' = [sig EXCEPT ![Dir(p)] = elf[Dir(p)]]
        /\ GoTo(p, "signature")
        /\ UNCHANGED <<text, obj, elf, golden>>
     \/ WritesFail /\ LoseSignature(p) /\ UNCHANGED files
     \/ ChildFails(p)

\* Mutant: the signature read for the test before is compared again.
BugReadSignature(p) ==
  /\ At(p, "signature")
  /\ IF sig[Dir(p)] = Absent
     THEN Abort(p)
     ELSE proc' = [proc EXCEPT ![p].stage = "golden",
                               ![p].sigData = IF @ = Absent THEN sig[Dir(p)] ELSE @]
  /\ UNCHANGED files

ReadSignature(p) ==
  /\ At(p, "signature")
  /\ IF sig[Dir(p)] = Absent
     THEN Abort(p)
     ELSE proc' = [proc EXCEPT ![p].stage = "golden", ![p].sigData = sig[Dir(p)]]
  /\ UNCHANGED files

\* No golden yet.  The test and the copy are separate steps: another process
\* may come between them.
FindNoGolden(p) ==
  /\ At(p, "golden") /\ golden[Gold(p)] = Absent
  /\ GoTo(p, "record")
  /\ UNCHANGED files

\* copy2 empties or creates the golden and then fills it from signature.bin;
\* the exception of one that cannot leaves the golden as it is at that moment.
CopyOpen(p) ==
  /\ At(p, "record")
  /\ \/ /\ golden' = [golden EXCEPT ![Gold(p)] = Short]
        /\ GoTo(p, "copying")
        /\ UNCHANGED <<text, obj, elf, sig>>
     \/ WritesFail /\ Abort(p) /\ UNCHANGED files

CopyWrite(p) ==
  /\ At(p, "copying")
  /\ \/ /\ golden' = [golden EXCEPT ![Gold(p)] = sig[Dir(p)]]
        /\ proc' = [proc EXCEPT ![p].stage = "iss", ![p].ok = TRUE]
        /\ UNCHANGED <<text, obj, elf, sig>>
     \/ WritesFail /\ Abort(p) /\ UNCHANGED files

\* Mutant: a signature that differs replaces the golden.
BugCompareGolden(p) ==
  /\ At(p, "golden") /\ golden[Gold(p)] # Absent
  /\ proc' = [proc EXCEPT ![p].stage = "iss", ![p].ok = TRUE]
  /\ golden' = [golden EXCEPT ![Gold(p)] = proc[p].sigData]
  /\ UNCHANGED <<text, obj, elf, sig>>

CompareGolden(p) ==
  /\ At(p, "golden") /\ golden[Gold(p)] # Absent
  /\ proc' = [proc EXCEPT ![p].stage = "iss",
                          ![p].ok = (proc[p].sigData = golden[Gold(p)])]
  /\ UNCHANGED files

\* The simulator runs test.S and is compared with the golden.  It diverges
\* when the program triggers the bug, when the golden is another program's or
\* cut short, and exits nonzero too when it fails.
RunIss(p) ==
  /\ At(p, "iss")
  /\ IF ~proc[p].bug \/ golden[Gold(p)] = Absent
     THEN GoTo(p, "tested")
     ELSE \E hit \in BOOLEAN, broken \in {FALSE, StagesFail} :
          proc' = [proc EXCEPT
                     ![p].stage = "tested", ![p].triggered = hit, ![p].broken = broken,
                     ![p].exposed = hit \/ broken \/ golden[Gold(p)] # text[Dir(p)]]
  /\ UNCHANGED files

\* Mutant: the verdict of the last test alone decides.
BugTestDone(p) ==
  /\ At(p, "tested")
  /\ proc' = [proc EXCEPT ![p].stage = "next", ![p].allOk = proc[p].ok,
                          ![p].ran = @ \cup {proc[p].test}]
  /\ UNCHANGED files

\* Mutant: a test that fails is run again.
BugRetry(p) ==
  /\ At(p, "tested")
  /\ proc' = [proc EXCEPT ![p].stage = IF proc[p].ok THEN "next" ELSE "generate"]
  /\ UNCHANGED files

TestDone(p) ==
  /\ At(p, "tested")
  /\ proc' = [proc EXCEPT ![p].stage = "next", ![p].allOk = @ /\ proc[p].ok,
                          ![p].ran = @ \cup {proc[p].test}]
  /\ UNCHANGED files

Exit(p) ==
  /\ At(p, "next") /\ proc[p].left = 0
  /\ proc' = [proc EXCEPT ![p].stage = "exited",
                          ![p].exit = IF proc[p].allOk THEN 0 ELSE 1]
  /\ UNCHANGED files

Kill(p) ==
  /\ Crashes
  /\ proc[p].stage \notin {"idle", "exited", "killed"}
  /\ GoTo(p, "killed")
  /\ UNCHANGED files

Work(p) ==
  \/ NextTest(p)
  \/ GenerateOpen(p) \/ GenerateWrite(p)
  \/ Assemble(p) \/ Link(p)
  \/ QemuOpen(p) \/ QemuWrite(p)
  \/ ReadSignature(p) \/ FindNoGolden(p) \/ CopyOpen(p) \/ CopyWrite(p) \/ CompareGolden(p)
  \/ RunIss(p) \/ TestDone(p) \/ Exit(p)

Next == \E p \in Procs : Start(p) \/ Work(p) \/ Kill(p)

Spec == Init /\ [][Next]_vars

\* A started process runs until it ends, whatever the others do.
FairSpec == Spec /\ \A p \in Procs : WF_vars(Work(p))

-----------------------------------------------------------------------------
Ended  == {"exited", "killed"}
Stages == {"idle", "next", "generate", "generating", "assemble", "link", "qemu",
           "running", "signature", "golden", "record", "copying", "iss",
           "tested"} \cup Ended

ProcRecords ==
  [stage : Stages, starts : Nat, count : {0} \cup Counts,
   backend : {"none", "cpp", "rust", "zig"}, bug : BOOLEAN, test : {NoTest} \cup Tests,
   left : 0 .. Batch, allOk : BOOLEAN, ran : SUBSET Tests, lost : SUBSET Tests,
   sigData : Contents, ok : BOOLEAN, exposed : BOOLEAN, triggered : BOOLEAN,
   broken : BOOLEAN, exit : {-1, 0, 1}]

\* Types: every file holds a program's contents, is cut short or is absent, and
\* a batch never runs more tests than it was asked for.
TypeOK ==
  /\ text \in [Tests -> Contents] /\ obj \in [Tests -> Contents]
  /\ elf \in [Tests -> Contents] /\ sig \in [Tests -> Contents]
  /\ golden \in [{GoldenPath(t) : t \in Tests} -> Contents]
  /\ proc \in [Procs -> ProcRecords]

Verified(p) == proc[p].stage \in {"iss", "tested"}

\* The one way to a stale PASS is a signature write that failed unnoticed: when
\* verify_or_record returns True for a test whose program did write its
\* signature in this run, the golden is the signature of the very program this
\* run generated, whatever earlier runs left behind, and whatever else crashed
\* or failed, the generator's own unnoticed write failures included.  For a
\* test in lost nothing is claimed: there a PASS may compare, or record, the
\* signature of an earlier run.
PassMeansSame ==
  \A p \in Procs : Verified(p) /\ proc[p].ok /\ proc[p].test \notin proc[p].lost
                     => golden[Gold(p)] = Mine(p)

\* No program fails against its own golden: when verify_or_record returns False
\* for a test whose program wrote its signature in this run, the golden is
\* another count's or was cut short while it was recorded.
FailMeansDiffers ==
  \A p \in Procs : Verified(p) /\ ~proc[p].ok /\ proc[p].test \notin proc[p].lost
                     => golden[Gold(p)] # Mine(p)

\* After a PASS of a program that wrote its signature, what run_iss reports as
\* exposed is a bug this program triggered, or a simulator that failed by
\* itself: text and golden are still those of one program.  After a FAIL nothing
\* is claimed, for run_iss is called all the same.
ExposedAfterPass ==
  \A p \in Procs : At(p, "tested") /\ proc[p].ok /\ proc[p].test \notin proc[p].lost
                     /\ proc[p].exposed => proc[p].triggered \/ proc[p].broken

\* Exit status 0 of main means that every test of the batch, except those whose
\* program could not write its signature and did not say so, has a golden that
\* is its own signature.
CleanExitMeansVerified ==
  \A p \in Procs : proc[p].exit = 0 =>
    \A t \in proc[p].ran \ proc[p].lost : golden[GoldenPath(t)] = Program(t, proc[p].count)

\* verify_or_record never changes a golden that was once complete.
GoldenNeverReplaced ==
  [][\A t \in Tests : golden[GoldenPath(t)] \notin {Absent, Short}
       => golden'[GoldenPath(t)] = golden[GoldenPath(t)]]_vars

\* main ends for every started process: no stage of run_one waits for a file.
EveryRunEnds ==
  \A p \in Procs : proc[p].stage \notin Ended \cup {"idle"} ~> proc[p].stage \in Ended

\* A backend that generates the same text for the same test passes: the golden
\* it is compared with in verify_or_record was recorded from that text.
NoFalseFailure ==
  \A p \in Procs : Verified(p) => proc[p].ok

\* What run_iss reports as exposed is a program that triggered the bug.
ExposedIsTriggered ==
  \A p \in Procs : proc[p].exposed => proc[p].triggered

\* verify_or_record never takes the signature another program wrote in an
\* earlier run for this run's, which may be whole or cut short: a signature that
\* was not written ends the run instead.
SignatureIsThisRuns ==
  \A p \in Procs : At(p, "golden") => proc[p].sigData \in {Mine(p), Short}
=============================================================================
