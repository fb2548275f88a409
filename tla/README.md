# A verification of arm-stim-gen

`arm-stim-gen` prints random AArch64 programs that are meant to be *legal*
(deterministic, in bounds, terminating) and to contain particular pipeline
hazards. It assembles and runs them under QEMU, stores the signature of each as
a golden, and compares a deliberately buggy simulator with that golden. Nothing
in the repository tests the legality of the programs or the soundness of the
comparison; this directory models both in TLA+, checks them with TLC on small
instances and proves the most important parts with TLAPS for all of them.

Paths below are relative to the repository, which the modules call `src/`.

## 1. Inventory

| Component | State | Operations | What is hard | What makes it correct |
|---|---|---|---|---|
| Generator state (`generator/src/state.*`, `rust-generator/src/state.rs`, `zig-generator/src/state.zig`) | kind of every register, register written last, scratch region and its watermark, label counter, coverage set, RNG | pickers, `mark_*`, `advance_watermark`, `next_label_id`, `hit_coverage` | it must describe text that is already printed; long sequences of marks; the watermark at its limit | every picked operand is safe for the program printed so far |
| Emitters (`generator/src/emitters/*` and the two ports) | none of their own | `try_emit`: decline, or return lines and update the state | state updated before the line exists (Zig allocation failure); missing guards in a port; a body copied from another emitter | a line is returned exactly when the state allows it, and the update describes the line |
| Main loop, prologue, epilogue (`main.cpp`, `main.rs`, `main.zig`, `prologue.*`) | pool, loop counter, output stream | bootstrap, shuffle and try, fallback, dump | all emitters declining, an abort half-way | a finished program has a line for every iteration |
| Analyzer (`scripts/analyze.py`) | none | `parse_asm`, `count_hazards` | neighbours across a label | agrees with what the emitters report |
| Simulator (`scripts/iss.py`) | registers, scratch bytes, pc, two one-instruction latches | `load_asm`, `run`, `diff` | stale latches, label indexes in a stripped list, overlapping accesses | without bugs it is the architecture; with bugs it diverges only at the hazard |
| Orchestrator (`scripts/run.py`) | files: `test.S`, object, ELF, `signature.bin`, golden | `run_one`, `verify_or_record`, batch | stale files, crashes between stages, concurrent runs, goldens named without the count | a PASS means this program still has its recorded signature |
| Assembler, linker, QEMU | external | | | |
| Example driver (`scripts/gen_examples.py`) | `examples/<example>/<generator>/` with `test.S`, `golden.bin`, `golden.txt`; a temporary directory per pair | generate, assemble, link, run, replace the three files | files replaced in place over those of earlier runs, kills and failures in between, writes nobody reports | exit status 0 means every example is this build's, whole, and beside its own golden |
| Chart driver (`scripts/gen_chart.py`) | one `test.S` that every call writes to, sums, the matrix | measure, normalize, plot | a failing call leaves a stale text; rows over different numbers of tests; empty columns | a row averages over the texts of its own strategy; normalization keeps the order |
| Build files, CI | none | | | not modelled |

A backend is one thread: `main` owns the state and hands it to one emitter at a
time, each of which reads it, updates it and returns text. The text is read by
the analyzer, by the assembler and by the simulator; QEMU's signature becomes
the golden the simulator is compared with. The only shared state between
processes is files.

## 2. Modules

| Module | Models | Uses |
|---|---|---|
| `Aarch64` | one record per printed line: opcode, destination, sources, number | |
| `GeneratorState` | `class GeneratorState`: variables `kind`, `lastWritten`, `hasScratch`, `watermark`, `labelCounter`, `coverage`; pickers are sets, `mark_*` and the rest are actions | `Aarch64` |
| `Emitters` | the nine `try_emit` functions as actions over that state and `prog`, the text printed so far; `RustLdrReg`, `RustLdrRegPanics`, `ZigForwardingAlu` and `ZigOutOfMemory` are where a port differs | `GeneratorState` |
| `Generator` | `main`: prologue, bootstrap, main loop, epilogue; the properties of the printed program | `Emitters` |
| `LegalProgram` | the abstract specification of a generator: a text that only grows, by lines that are safe where they stand, until it is complete | `Aarch64` |
| `GeneratorProofs` | TLAPS proofs: types, reserved registers, bounds | `Generator` |
| `GeneratorLegalityProofs` | TLAPS proofs: nothing read unwritten, nothing loaded unstored, branches are skips, and that `Generator` implements `LegalProgram` | `GeneratorProofs` |
| `ForwardingProofs` | TLAPS proof: a `ForwardingAlu` chains to the line before it | `GeneratorProofs` |
| `Analyzer` | `parse_asm` and `count_hazards` | `Aarch64` |
| `CoverageAudit` | `--analyze`: reported against measured | `Generator`, `Analyzer` |
| `CoverageProofs` | TLAPS proofs: a line per iteration, reported against measured | `CoverageAudit`, `GeneratorLegalityProofs` |
| `Datapath` | what memory and registers hold: values, the granules of the scratch region, bitwise operations by their tables; no arithmetic and no access | `Aarch64` |
| `Machine` | what the architecture promises of the generated subset (external: QEMU), its loads, stores and arithmetic over numbers; the abstract specification of the simulator | `Datapath` |
| `Iss` | `load_asm` and `run` of the simulator, its `pack` and `unpack` byte by byte and its masked arithmetic | `Datapath` |
| `Differential` | `run_one` with `--bug`: generate, QEMU, golden, simulator, comparison | `Generator`, `Machine`, `Iss`, `Analyzer` |
| `DifferentialProofs` | TLAPS proofs: the simulator against QEMU and against `Machine` | `Differential`, `GeneratorLegalityProofs` |
| `Files` | what a file may hold besides all of what was meant for it; what each port does about a write that fails | |
| `Orchestrator` | `run.py`: processes that take tests through the stages of `run_one`, and the files they leave each other | `Files` |
| `OrchestratorProofs` | TLAPS proofs about `Orchestrator` | `Orchestrator` |
| `Examples` | `gen_examples.py` over the examples that earlier runs left | `Files` |
| `ExamplesProofs` | TLAPS proofs about `Examples` | `Examples` |
| `Chart` | `gen_chart.py`: `measure_hazard_matrix` and the normalization of `make_chart` | |
| `ChartProofs` | TLAPS proofs about `Chart` | `Chart` |
| `MC...` | constants for TLC | |

Correspondence. `prog` is the text between prologue and epilogue, so properties
are about the program and never about the bookkeeping alone. A `try_emit` that
returns `nullopt` before it changed anything is `Decline`; the RNG is replaced by
existential choice. The shuffle at the head of an iteration is explored lazily:
`untried` holds the positions of the pool not tried yet in this iteration, any of
which may be next, which gives every order without a state for each. Strings are
abstracted to records; the regular expressions of `analyze.py` and `iss.py`
become the fields of those records.

`Orchestrator` has one action per stage of `run_one`, two where a file is emptied
before it is filled, so that a crash or another process can come in between. A
program is named by what determines it (backend, seed, strategy, count) and its
object, ELF and signature by the same name: two programs are taken to have
different signatures. A file is such a name, cut short, or absent. Every stage may
end the process (`sys.exit(1)`) and a process may be killed anywhere. A write can
fail unnoticed where the code does not look: in the program under test, whose
epilogue ignores `openat` and `write`, and in a generator as its port has it
(`OnWriteError`: C++ tests no write, Rust ignores errors of the last buffer, Zig
notices all). The writes of `run.py` itself raise: the copy of a golden may end the
run with the golden opened and not filled. A missing generator binary ends `main`
before the first test (`Start`). `lost` is a history variable: the tests of
this run whose program could not write its signature and exited 0 all the same
(`LoseSignature`). So are, for the test in hand, `triggered` and `broken`: what the
exit status of the simulator came from.

`Examples` has one action per command (`RunCmd`), one for the signature test and one
per file written. What a command leaves when it exits 0 is a set (`Outcomes`): the
C++ generator and the program under test exit 0 after a write that failed. A text
is named by its pair of example and generator and by the build of the generators,
which may change between runs; the seeds are fixed in the script. `Raise` is any
Python exception before a file is touched, a write that fails leaves the file cut
short and ends the script, and it may be killed anywhere, inside a write too.
`Chart` abstracts a text to the number of hits `count_hazards` finds of each hazard,
keeps averages as a sum and a divisor, and has one history variable, `made`: the
texts of the calls under each strategy that exited with 0. The C++ generator exits
with 0 after a failed write too, so some of them may be cut short: neither
`gen_chart.py` nor the model can tell, and the text counts as what it holds.

`LegalProgram` is refined by `Generator` under the mapping `text <- prog`,
`complete <- (phase = "done")`. A `Machine` step is implemented by each step of the
simulator; where a bug is on, the abstract machine is one that is never started.

The operators whose names begin with `Bug` are plausible bugs in the definition
that follows them. Nothing uses them; `PROJECT.json` pairs each with the property
that notices it.

## 3. What is checked

| Run | Question | Result |
|---|---|---|
| `generator` | are the programs of all ports under all strategies legal? | holds: no read of an unwritten register (`DefBeforeUse`), no write to x20-x22 (`ReservedUntouched`), accesses in bounds (`AccessesInBounds`) and of filled slots (`LoadsReadStored`), each branch over one NOP to its own label (`BranchesSkipOneNop`); every addition to the text keeps it executable as it stands (`ImplementsLegalProgram`); a line per iteration (`EveryIterationEmits`); a C++ or Rust `ForwardingAlu` reads the line before it (`ForwardingIsBackToBack`); every reported coverage point but `RawChain` is measured by the analyzer (`ReportedIsMeasured`), branches and line splits are measured only when reported (`MeasuredIsReported`) |
| `out_of_memory` | what is left of that in Zig when allocations fail after the state was updated? | writes, bounds and labels stay right and the program ends (`Termination`); `DefBeforeUse` and `LoadsReadStored` do not survive and are not claimed |
| `differential` | can `--bug` raise a false alarm? | no: without bugs the simulator implements `Machine` under a mapping from indexes of the stripped list to lines of the text (`CleanIssImplementsMachine`) and its signature is QEMU's (`CleanIssMatchesQemu`); a divergence needs a bug on and its hazard in the program (`ExposedNeedsHazard`); neither run ever goes back or leaves its program (`OnlyForward`), and the simulator ends (`IssTerminates`) |
| `orchestrator` | what is a verdict worth, whatever crashed, failed, had another count or was left behind? | one thing spoils a PASS: a signature that this test's own program could not write in this run without anybody noticing (run `stale_signature` shows it happen). Every other PASS has the signature of this run's program as its golden (`PassMeansSame`), and behind exit status 0 every other test of the batch has (`CleanExitMeansVerified`); a FAIL of such a test means that the golden is not its own: another count's, or cut short (`FailMeansDiffers`); after a PASS, what counts as exposed is a bug the program triggered or a simulator that failed by itself (`ExposedAfterPass`); a complete golden is never replaced (`GoldenNeverReplaced`); every run ends (`EveryRunEnds`) |
| `two_backends` | do backends that run the same seed and strategy side by side disturb each other? | no, while nothing fails and all runs have one count: no FAIL at all (`NoFalseFailure`), no bug exposed that the program does not trigger (`ExposedIsTriggered`) |
| `examples` | what do interrupted and failing runs of `gen_examples.py` leave? | exit status 0 means every example is this build's text with that text's golden, whatever was there before (`CleanExitMeansComplete`); a golden is only ever written beside its own text (`GoldenFollowsText`); a run that does not finish spoils at most one example (`EachRunTearsOne`), with no mark on it but the contents: a text of the new build beside the golden of the old one |
| `chart` | are the averages of the chart those of the texts? | yes, of those whose call under the row's own strategy exited with 0 (`RowIsAverageOfOwnTexts`); the heat map keeps their order and reaches 1 in every column that is not empty (`NormalizedKeepsOrder`) |

Disagreements found, each a run in which TLC produces the behaviour:

| Run | Disagreement |
|---|---|
| `zig_forwarding` | the Zig `ForwardingAlu` is a copy of `LoadUse` and never emits under `forwarding_stress`; `examples/01_forwarding_stress/zig/test.S` contains nothing but MOVs |
| `rust_panic` | the Rust `LdrReg` panics when tried before the first store |
| `raw_chain` | `RawChain` is reported for a MOV followed by an ALU operation, which README and analyzer do not call a chain |
| `rerun_count` | goldens are named without the count, which decides the program as much as the seed: a rerun with another count fails |
| `stale_signature` | a program that cannot open `signature.bin` exits 0, and the one a program of another count left there in an earlier run is taken for its own |

What this means for a user of `run.py`: nothing repairs a golden. One that a killed or
failed copy has cut short fails every later run of its test until it is deleted, and
one recorded under another count fails every run of a different count;
`FailMeansDiffers` says that there is no other reason for a FAIL of a program that
wrote its signature. After a FAIL the simulator is started all the same and reports as
exposed whatever differs from that golden, and its own crash counts as exposed at any
time (`ExposedAfterPass` claims nothing for either). The chart passes over calls that
fail, so that its rows need not average over `N_TESTS` texts each, as the caption says.

The epilogue stores x0 to x9 whatever was written to them, so a signature holds
registers the bookkeeping calls "not safe to read". Golden and simulator agree on
them because the loader leaves zeros there and the simulator starts from zeros;
`CleanIssMatchesQemu` is checked with such registers in the signature.

Bounds. Two writable registers beside the three reserved ones: an instruction
reads at most two registers, so two are enough for every pattern of equal and
different operands. A scratch buffer of two slots (16 bytes for 256) makes the
buffer empty, partly full, exactly full and refused within the iterations
explored; the split offset is 4 for 60, which overlaps both slots. One bootstrap
MOV for ten leaves a register uninitialized, the case the pickers exist for. Two
to four iterations (`Count`) let any emitter meet the state left by any sequence
of up to three others. In `differential` a granule of four bytes has two values
and a register four, which is the smallest datapath with a carry between the two
halves of a slot. In `orchestrator` one process is started
twice with a batch of two, over two counts and three tests: the first start can
leave every kind of debris the model has (a text cut short, an object, ELF or
signature of another count, a golden cut short) and the second meets it. In
`examples` there are two examples of two generators, one port that does not
notice a failed write and one that does, two builds and three starts: enough for a
run to be killed in the first or the second generator of an example, a second to
fail over what it left, and a third to get past both. In `chart` two strategies of
three tests let a failure come before, between and after two texts, and leave rows
over zero to three texts. In
`two_backends` two processes of one count are each started twice with batches of
two. The runs of the second table switch on only what their disagreement needs
(a second count, failing writes), so that TLC's shortest behaviour is the one
described. All bounds are constants of the cfg files. `MaxStarts`, `MaxRuns` and `MaxHits` are
the only bounds the code does not have; its loops are bounded by `Count`, `Batch`
and `N_TESTS` themselves.

Fairness. The generator's `FairSpec` and `DiffFairSpec` ask weak fairness of the
whole next-state relation: each is a single thread that runs until it exits and
waits for nobody. The orchestrator's `FairSpec` asks it of each process separately
(`Work(p)`): the child processes it waits for end by themselves, and starting and
killing are never required. No action is favoured. Deadlock checking is off
because the programs end.

## 4. What is proved

`GeneratorProofs` proves for every register file, buffer size, `Count`, strategy
and port, with and without allocation failures:

* `TypeCorrect`: `Spec => []TypeOK`, in which `watermark \in 0 .. ScratchSize`;
* `ReservedNeverWritten`: `Spec => []ReservedUntouched`;
* `AccessesStayInBounds`: `Spec => []AccessesInBounds`.

None of the three is inductive. The invariant that is, `SafetyInv`, adds what
the emitters rely on: a register is of kind `Reserved` exactly when it is one of
the three, and the watermark is a multiple of eight within the buffer (`BookOK`).
`watermark < size` then leaves room for eight bytes because the size is a
multiple of eight too, which is the step that fails for a buffer of another size.
The program part of the invariant is `prog \in Seq(LegalLines)`, so that each
emitter needs one lemma: the lines it returns are legal and `BookOK` survives.
`NextSafety` has one step per action and `Safety` combines them.

`GeneratorLegalityProofs` proves, for the same constants:

* `NothingReadUnwritten`: `~AllocFails => (Spec => []DefBeforeUse)`;
* `NothingLoadedUnstored`: `~AllocFails => (Spec => []LoadsReadStored)`;
* `BranchesAreSkips`: `Spec => []BranchesSkipOneNop`, allocation failures included;
* `GeneratorImplements`: `~AllocFails => (Spec => ImplementsLegalProgram)`.

What the three invariants lack is that the bookkeeping describes the text:
`LegalityInv` says that a register of kind `Scalar` has been written by some line,
that every offset below the watermark has been stored to, that the labels of the
text are below the counter, and what each line needs of the lines before it. Its core is a
lemma per emitter (`MovImmSound` ... `CacheLineSplitSound`): the lines it returns
have one of a few shapes, read only what the bookkeeping claims, and leave
bookkeeping that claims nothing more than text and lines hold. The first two
theorems and the refinement are false with `AllocFails`: an emitter of the Zig port
marks a register or moves the watermark, and then loses the line that was to write
it. Labels are never claimed, only skipped, so `BranchesAreSkips` needs no such
condition. The refinement adds that an iteration's lines are either straight or a
whole skip (`EmissionExtends`).

`CoverageProofs` proves of the generator and its audit:

* `IterationsEmit`: `~AllocFails => (Spec => []EveryIterationEmits)`;
* `ReportsAreMeasured`: `~AllocFails => (Spec => []ReportedIsMeasured)`;
* `MeasuresAreReported`: `Spec => []MeasuredIsReported`.

The first counts: the instructions of the text are at least as many as the steps
taken so far (`StepsCounted`); every text an emitter returns has an instruction in
it. For the other two, `CoverageInv` says where the evidence is: every point
reported has a line, or a line and the one before it, that shows the hazard, and
appending lines does not undo it, because what precedes a line never changes; and
every branch or line split of the text has been reported by the emitter that printed
it. The second part needs `SplitAssumption`: slots are handed out at multiples of
eight, so only an offset that is none (60 in the code) tells a split from a plain
access. The first two are false with `AllocFails`, where Zig reports a point and
loses the line.

`ForwardingProofs` proves `ForwardingChains`: `Spec => ForwardingIsBackToBack`, from
the invariant that under `forwarding_stress`, from the first bootstrap MOV on, the
register of `lastWritten` holds a scalar and is the destination of the last line of
the text (`ChainInv`): every emitter of that pool returns one line, and marks what it
writes. This is where at least one bootstrap MOV is needed.

Assumptions: registers are naturals that include the three reserved ones and at
least one other (`GprsAssumption`), the buffer size is a multiple of eight
(`ScratchAssumption`, 256 in the code), the split access fits
(`EmitterAssumption`, 60 + 8 <= 256), the dumped registers exist and there is at
least one bootstrap MOV (`GeneratorAssumption`; ten in the code). `CoverageProofs`
adds `SplitAssumption`; `DifferentialAssumption` (offsets are multiples of a granule,
immediates fit a register) is what makes the instances of TLC meaningful, no proof
needs it.

`OrchestratorProofs` proves, for any number of processes, any tests, counts and
batches, and with every kind of failure and crash, provided that no two processes
share a test (`Disjoint`):

* `OrchestratorTypeCorrect`: `Spec => []TypeOK`;
* `StalePassNeedsLostSignature`: `Spec => []PassMeansSame`;
* `FailsDiffer`: `Spec => []FailMeansDiffers`;
* `ExposuresAfterPass`: `Spec => []ExposedAfterPass`;
* `CompleteGoldenStays`: `Spec => GoldenNeverReplaced`;
* `CleanExitIsVerified`: `Spec => []CleanExitMeansVerified`.

All but the type theorem and `CompleteGoldenStays` speak of tests outside `lost`. A test in `lost` may pass on
the signature of an earlier run, and the run may then exit 0: that is what
`stale_signature` shows, and the theorems say that it is the only way.

The argument has two parts. A process writes the files of the test in its hands
only (`Local`), so others cannot disturb it (`OthersKeepStage`). And each stage
hands this run's program on to the next (`StageOK`): after `generate` the text is
this run's or cut short, after `assemble` the object is, and so on up to QEMU, which
a short program does not survive; from QEMU on the text is known to be whole, and
afterwards the signature is this run's unless the test is in `lost`. It holds because a stage that fails ends the run, and it is what
`PassMeansSame` lacks to be inductive. The last two of these theorems add that a
golden is opened for writing only while it is absent (`GoldenStep`), and what has
been verified since the process was started (`RanOK`). `Disjoint` is needed: two
runs of one test truncate each other's files, and one may compare its signature with
a golden that the other is still filling.

With no failures, no crashes and one count (`Quiet`) it also proves

* `NoTestFails`: `Spec => []NoFalseFailure`;
* `ExposuresAreReal`: `Spec => []ExposedIsTriggered`,

for any number of processes that do not share tests, of which `two_backends` checks
two. The text of a test is then this run's until the simulator has read it, and a
golden is absent, complete, or being copied by the process itself (`QuietOK`). None
of the conditions can be dropped: another count (run `rerun_count`), a copy cut short
by a crash or a failing write, or a second process on the same test makes a program
fail that should pass, and a crash of the simulator counts as exposed. What is left
without them is `FailMeansDiffers` and `ExposedAfterPass`.

Its assumption on the constants (`OrchestratorAssumption`) gives them their types.

`DifferentialProofs` proves, for every program any port can print, any register file
and granule, allocation failures included:

* `ExposureIsExplained`: `DiffSpec => []ExposedNeedsHazard`;
* `CleanIssAgrees`: `DiffSpec => []CleanIssMatchesQemu`;
* `IssImplementsMachine`: `DiffSpec => CleanIssImplementsMachine`;
* `RunsMoveForward`: `DiffSpec => OnlyForward`, what is left of `IssTerminates` for
  the prover: both positions only grow and are bounded by the text.

QEMU runs to its end before the simulator starts, so an invariant has to relate a
state of one to a state the other was in long ago. `DiffInv` therefore says that a
sequence of states exists, linked by the function `After` (one instruction, on line,
registers and memory), that begins at the reset state and ends where QEMU is
(`Trace`); and that the simulator, unless the program has the hazard of a bug that is
on (`Harmless`), is at one of them. QEMU ends beyond the last line, and so does the
simulator, which is therefore at the last state when it is compared. That each moves by `After` rests on two things. The list
without labels: the index of a line is the number of instructions before it, each
index belongs to one line, and skipping labels in the text is adding one to the index
(`SkipIsLineAt`); a taken branch reaches the same line in both, since the label it names
exists (`BranchesSkipOneNop`). And the latches: one that is set describes the
instruction executed last (`LatchesOK`), so a stale operand or slot needs the two
neighbouring lines the analyzer counts (`OperandFresh`, `LoadFresh`). Registers and
memory need no invariant of their own. What an instruction computes is stated twice:
`Machine` loads and stores a value as its number and the granules it covers, `Iss`
packs and unpacks it piece by piece as `iss.py` does with `struct` and masks every
result. `SameMemory` and `SameValues` prove the two equal, for every offset, the
overlapping one included, and for every operand. Only the tables of the bitwise
operations (`OnBits`) are shared: two recursive definitions over the bits could be
shown equal by induction over data alone, which is out of the prover's reach.

`ExamplesProofs` proves, for any number of examples, generators, builds and runs and
with every kind of failure:

* `ExamplesTypes`: `Spec => []TypeOK`;
* `CleanExitIsComplete`: `Spec => []CleanExitMeansComplete`;
* `GoldensFollow`: `Spec => GoldenFollowsText`;
* `TearsAreBounded`: `Spec => []EachRunTearsOne`.

The invariant `ExamplesInv` follows what gets through each command: the text in the
temporary directory is this run's or cut short (`WorkOK`), a program cut short does
not get past QEMU, so that what is copied is whole but for the signature, whose
shortness `golden_txt` notices before the last file is written; the pairs before the
one at hand are complete (`DoneOK`). `TearsOK` counts: the pairs torn by earlier
runs, and the one at hand. The assumption `ExamplesAssumption` gives the constants
their types.

`ChartProofs` proves, for any strategies, hazards, hits and number of tests:

* `RowsAverageOwnTexts`: `Spec => []RowIsAverageOfOwnTexts`;
* `HeatMapKeepsOrder`: `Spec => []NormalizedKeepsOrder`.

A sum over a sequence would be an induction over data, which the prover does not do.
`SumsTo` states it as the existence of a running total instead, which a step of
`measure_hazard_matrix` extends by one term (`SumsOK`); the lemma `OneSum` adds that
there is only one such total, by the least place where two would differ. The same trick gives
the maximum of a column: `LeaderOK` carries along the largest of the rows filled so
far, so that the value the heat map divides by is attained and bounds all others.

Only model-checked: `Termination`, `IssTerminates` and `EveryRunEnds`, since liveness
under fairness is beyond the prover. Every safety invariant, action property and
refinement that a passing run checks is also a theorem, for the constants and under
the conditions named above; `NoFalseFailure` and `ExposedIsTriggered` under `Quiet`,
and everything about `Orchestrator` for processes that do not share tests.

## 5. Plan

Done: the generator and its abstract specification, its audit, the differential
comparison, the orchestrator, the example and chart drivers, and the theorems of
section 4. What could follow:

1. Two processes that run one and the same test. `NoFalseFailure` and
   `GoldenNeverReplaced` are lost, since each finds no golden and then truncates what
   the other recorded; which of the other properties survive is open, and the code
   promises nothing there.
2. The command lines of the three ports, which take different counts: C++ keeps 32
   bits of what `stoul` accepts.

Not modelled and why: argument parsing and output formatting (no property
depends on them), the RNG and seeds (choice covers every seed), the fixed text
of prologue and epilogue beyond the registers they read and store and the region they
register, MOV between registers in the simulator (never generated), the first
`load_asm` of the simulator (overridden by the second), plotting and the right panel
of the chart (its numbers are literals), the rewriting of the signature path in the
examples (text only), the inside of assembler and linker (external; that they may fail
is in `Orchestrator` and `Examples`), `mark_pointer`, `mark_reserved`,
`mark_uninitialized` and `pick_pointer_gpr` (nothing calls them), printed reports
of the orchestrator, build files and continuous integration (configuration).
