------------------------- MODULE OrchestratorProofs -------------------------
(***************************************************************************)
(* Why a PASS is stale only after a signature write that failed unnoticed, *)
(* for any number of run.py processes that do not share tests, any counts, *)
(* any failures and any crashes.                                           *)
(*                                                                         *)
(* A process touches the files of the test in its hands only, so the       *)
(* others cannot disturb what it has established; and each stage hands     *)
(* this run's program on to the next, because a stage that fails ends the  *)
(* run (StageOK).                                                          *)
(***************************************************************************)
EXTENDS Orchestrator, TLAPS

\* The processes do not share tests.
Disjoint == \A p, q \in Procs : p # q => TestsOf[p] \cap TestsOf[q] = {}

Between == {"idle", "next"} \cup Ended

\* From here on the program is known to be whole.
Executed == {"running", "signature", "golden", "record", "copying", "iss", "tested"}

\* What process p knows of its test and of that test's files, stage by stage.
StageOK(p) ==
  /\ proc[p].stage # "idle" => proc[p].count \in Counts
  /\ proc[p].stage \notin Between => proc[p].test \in TestsOf[p]
  /\ At(p, "record") => golden[Gold(p)] = Absent
  /\ At(p, "copying") => golden[Gold(p)] = Short
  /\ At(p, "assemble") => text[Dir(p)] \in {Mine(p), Short}
  /\ At(p, "link") => obj[Dir(p)] \in {Mine(p), Short} /\ obj[Dir(p)] = text[Dir(p)]
  /\ At(p, "qemu") => elf[Dir(p)] \in {Mine(p), Short} /\ elf[Dir(p)] = text[Dir(p)]
  /\ At(p, "generating") => text[Dir(p)] = Short
  /\ At(p, "running") => elf[Dir(p)] = Mine(p)
  /\ proc[p].stage \in Executed => text[Dir(p)] = Mine(p)
  /\ proc[p].stage \notin Between \cup {"tested"} => ~proc[p].exposed
  /\ proc[p].test \notin proc[p].lost =>
       /\ proc[p].stage \in {"signature", "record", "copying"} => sig[Dir(p)] = Mine(p)
       /\ At(p, "golden") => proc[p].sigData = Mine(p) /\ sig[Dir(p)] = Mine(p)
       /\ Verified(p) /\ proc[p].ok => golden[Gold(p)] = Mine(p)
       /\ Verified(p) /\ ~proc[p].ok => golden[Gold(p)] # Mine(p)
       /\ At(p, "tested") /\ proc[p].ok /\ proc[p].exposed
            => proc[p].triggered \/ proc[p].broken

\* The inductive invariant.
OrchestratorInv == TypeOK /\ \A p \in Procs : StageOK(p)

\* What process p has verified since it was started.
RanOK(p) ==
  /\ proc[p].ran \subseteq TestsOf[p]
  /\ proc[p].exit # -1 => At(p, "exited")
  /\ proc[p].exit = 0 => proc[p].allOk
  /\ proc[p].allOk =>
       \A t \in proc[p].ran \ proc[p].lost : golden[t] = Program(t, proc[p].count)

BatchInv == \A p \in Procs : RanOK(p)

\* What a step of process p leaves alone: the other processes, and the files of
\* every test but the one in its hands.
Local(p) ==
  /\ \A q \in Procs \ {p} : proc'[q] = proc[q]
  /\ \A t \in Tests \ {proc[p].test} :
       /\ text'[t] = text[t] /\ obj'[t] = obj[t] /\ elf'[t] = elf[t]
       /\ sig'[t] = sig[t] /\ golden'[t] = golden[t]

\* What has to be shown of a step of p.
StepOK(p) ==
  /\ TypeOK' /\ StageOK(p)' /\ Local(p)
  /\ proc[p].test \in TestsOf[p] \/ UNCHANGED files

USE DEF TestDir, GoldenPath, Dir, Gold, At

-----------------------------------------------------------------------------
LEMMA TestsOfProcs == \A p \in Procs : TestsOf[p] \subseteq Tests
BY DEF Tests

LEMMA MineIsContents ==
  ASSUME NEW p \in Procs, proc[p].test \in Tests, proc[p].count \in Counts
  PROVE  Mine(p) \in Contents
BY DEF Mine, Contents

LEMMA GoldenType == TypeOK => golden \in [Tests -> Contents]
<1>1. {GoldenPath(t) : t \in Tests} = Tests
  OBVIOUS
<1>2. QED
  BY <1>1 DEF TypeOK

LEMMA ProcType == OrchestratorInv => \A p \in Procs : proc[p] \in ProcRecords
BY DEF OrchestratorInv, TypeOK

\* A record with some fields replaced by values of their types is a record.
LEMMA RecordUpdates ==
  ASSUME NEW x \in ProcRecords, NEW s \in Stages, NEW b \in BOOLEAN
  PROVE  /\ [x EXCEPT !.stage = s] \in ProcRecords
         /\ [x EXCEPT !.stage = s, !.ok = b] \in ProcRecords
         /\ \A e \in {-1, 0, 1} : [x EXCEPT !.stage = s, !.exit = e] \in ProcRecords
         /\ \A c \in Contents : [x EXCEPT !.stage = s, !.sigData = c] \in ProcRecords
         /\ \A c, d \in BOOLEAN :
              [x EXCEPT !.stage = s, !.triggered = b, !.broken = d, !.exposed = c]
                \in ProcRecords
         /\ \A R \in SUBSET Tests :
              [x EXCEPT !.stage = s, !.allOk = b, !.ran = R] \in ProcRecords
         /\ \A R \in SUBSET Tests : [x EXCEPT !.stage = s, !.lost = R] \in ProcRecords
         /\ \A t \in {NoTest} \cup Tests, n \in 0 .. Batch :
              [x EXCEPT !.stage = s, !.test = t, !.left = n, !.exposed = b,
                        !.triggered = b, !.broken = b] \in ProcRecords
<1>1. /\ [x EXCEPT !.stage = s] \in ProcRecords
      /\ [x EXCEPT !.stage = s, !.ok = b] \in ProcRecords
  BY DEF ProcRecords
<1>2. ASSUME NEW e \in {-1, 0, 1}
      PROVE  [x EXCEPT !.stage = s, !.exit = e] \in ProcRecords
  BY DEF ProcRecords
<1>3. ASSUME NEW c \in Contents
      PROVE  [x EXCEPT !.stage = s, !.sigData = c] \in ProcRecords
  BY DEF ProcRecords
<1>4. ASSUME NEW c \in BOOLEAN, NEW d \in BOOLEAN
      PROVE  [x EXCEPT !.stage = s, !.triggered = b, !.broken = d, !.exposed = c]
               \in ProcRecords
  BY DEF ProcRecords
<1>5. ASSUME NEW R \in SUBSET Tests
      PROVE  [x EXCEPT !.stage = s, !.allOk = b, !.ran = R] \in ProcRecords
  BY DEF ProcRecords
<1>6. ASSUME NEW t \in {NoTest} \cup Tests, NEW n \in 0 .. Batch
      PROVE  [x EXCEPT !.stage = s, !.test = t, !.left = n, !.exposed = b,
                       !.triggered = b, !.broken = b] \in ProcRecords
  BY DEF ProcRecords
<1>7. ASSUME NEW R \in SUBSET Tests
      PROVE  [x EXCEPT !.stage = s, !.lost = R] \in ProcRecords
  BY DEF ProcRecords
<1>8. QED
  BY <1>1, <1>2, <1>3, <1>4, <1>5, <1>6, <1>7

\* One process leaves the others what they have established.
LEMMA OthersKeepStage ==
  ASSUME Disjoint, OrchestratorInv, NEW p \in Procs, NEW q \in Procs \ {p}, Local(p),
         proc[p].test \in TestsOf[p] \/ UNCHANGED files
  PROVE  StageOK(q)'
<1>1. proc'[q] = proc[q] /\ StageOK(q)
  BY DEF Local, OrchestratorInv
<1>2. CASE proc[q].stage \in Between
  BY <1>1, <1>2 DEF StageOK, Between, Ended, Executed, Verified
<1>3. CASE proc[q].stage \notin Between
  <2>1. proc[q].test \in TestsOf[q] /\ proc[q].test \in Tests
    BY <1>1, <1>3, TestsOfProcs DEF StageOK
  <2>2. CASE UNCHANGED files
    BY <1>1, <2>2 DEF files, StageOK, Verified, Mine
  <2>3. CASE proc[p].test \in TestsOf[p]
    <3>1. proc[q].test \in Tests \ {proc[p].test}
      BY <2>1, <2>3 DEF Disjoint
    <3>2. QED
      BY <1>1, <3>1 DEF Local, StageOK, Verified, Mine
  <2>4. QED
    BY <2>2, <2>3
<1>4. QED
  BY <1>2, <1>3
-----------------------------------------------------------------------------
(***************************************************************************)
(* Steps that change no file.                                              *)
(***************************************************************************)
LEMMA NoFileChanged ==
  ASSUME OrchestratorInv, NEW p \in Procs, UNCHANGED files,
         NEW r \in ProcRecords, proc' = [proc EXCEPT ![p] = r], StageOK(p)'
  PROVE  StepOK(p)
BY DEF OrchestratorInv, StepOK, TypeOK, Local, files

\* What main starts from, or ends with when there is no generator.
Fresh(r) ==
  /\ r \in ProcRecords /\ r.count \in Counts
  /\ r.ran = {} /\ r.lost = {} /\ ~r.exposed
  /\ \/ r.stage = "next" /\ r.exit = -1
     \/ r.stage = "exited" /\ r.exit = 1 /\ StagesFail

LEMMA StartsFresh ==
  ASSUME OrchestratorInv, NEW p \in Procs, Start(p)
  PROVE  \E r : Fresh(r) /\ proc' = [proc EXCEPT ![p] = r]
<1>1. PICK n \in Counts, b \in Bugs, t \in TestsOf[p] :
        \/ proc' = [proc EXCEPT ![p] = Begun(p, n, b, t[1])]
        \/ /\ StagesFail
           /\ proc' = [proc EXCEPT ![p] =
                         [Begun(p, n, b, t[1]) EXCEPT !.stage = "exited", !.exit = 1]]
  BY DEF Start
<1> DEFINE main == Begun(p, n, b, t[1])
           gone == [main EXCEPT !.stage = "exited", !.exit = 1]
<1>2. main \in ProcRecords
  <2>1. proc[p].starts + 1 \in Nat
    BY ProcType DEF ProcRecords
  <2>2. t[1] \in {"cpp", "rust", "zig"} /\ b \in BOOLEAN /\ Batch \in Nat
    BY OrchestratorAssumption, TestsOfProcs
  <2>3. Idle \in ProcRecords
    BY <2>2 DEF Idle, ProcRecords, Stages, Contents, Absent
  <2>4. /\ "next" \in Stages /\ n \in {0} \cup Counts /\ Batch \in 0 .. Batch
        /\ t[1] \in {"none", "cpp", "rust", "zig"}
    BY <2>2 DEF Stages
  <2>5. QED
    BY <2>1, <2>2, <2>3, <2>4 DEF Begun, ProcRecords
<1>3. /\ main.stage = "next" /\ main.exit = -1 /\ main.count = n
      /\ main.ran = {} /\ main.lost = {} /\ ~main.exposed
  BY DEF Begun, Idle
<1>4. gone \in ProcRecords
  <2> HIDE DEF main
  <2>1. "exited" \in Stages
    BY DEF Stages, Ended
  <2>2. QED
    BY <1>2, <2>1, RecordUpdates
<1>5. /\ gone.stage = "exited" /\ gone.exit = 1 /\ gone.count = n
      /\ gone.ran = {} /\ gone.lost = {} /\ ~gone.exposed
  <2> HIDE DEF main
  <2>1. QED
    BY <1>2, <1>3 DEF ProcRecords
<1>6. CASE proc' = [proc EXCEPT ![p] = main]
  <2>1. Fresh(main)
    BY <1>2, <1>3 DEF Fresh
  <2>2. QED
    BY <1>6, <2>1
<1>7. CASE StagesFail /\ proc' = [proc EXCEPT ![p] = gone]
  <2>1. Fresh(gone)
    BY <1>4, <1>5, <1>7 DEF Fresh
  <2>2. QED
    BY <1>7, <2>1
<1>8. QED
  BY <1>1, <1>6, <1>7

LEMMA StartOK ==
  ASSUME OrchestratorInv, NEW p \in Procs, Start(p)
  PROVE  StepOK(p)
<1>1. PICK r : Fresh(r) /\ proc' = [proc EXCEPT ![p] = r]
  BY StartsFresh
<1>2. StageOK(p)'
  BY <1>1 DEF Fresh, StageOK, Between, Ended, Executed, Verified, OrchestratorInv, TypeOK
<1>3. QED
  BY <1>1, <1>2, NoFileChanged DEF Start, Fresh

LEMMA NextTestOK ==
  ASSUME OrchestratorInv, NEW p \in Procs, NextTest(p)
  PROVE  StepOK(p)
<1>1. PICK t \in TestsOf[p] :
        proc' = [proc EXCEPT ![p].stage = "generate", ![p].test = t,
                             ![p].left = @ - 1, ![p].exposed = FALSE,
                             ![p].triggered = FALSE, ![p].broken = FALSE]
  BY DEF NextTest
<1> DEFINE r == [proc[p] EXCEPT !.stage = "generate", !.test = t, !.left = @ - 1,
                                !.exposed = FALSE, !.triggered = FALSE,
                                !.broken = FALSE]
<1>2. r \in ProcRecords
  <2>1. "generate" \in Stages /\ t \in {NoTest} \cup Tests
    BY TestsOfProcs DEF Stages
  <2>2. proc[p].left - 1 \in 0 .. Batch
    BY OrchestratorAssumption, ProcType DEF NextTest, ProcRecords
  <2>3. QED
    BY <2>1, <2>2, ProcType, RecordUpdates
<1>3. proc' = [proc EXCEPT ![p] = r]
  BY <1>1 DEF OrchestratorInv, TypeOK, ProcRecords
<1>4. StageOK(p)'
  BY <1>1 DEF StageOK, Between, Ended, Executed, Verified, OrchestratorInv, TypeOK, NextTest, ProcRecords
<1>5. QED
  BY <1>2, <1>3, <1>4, NoFileChanged DEF NextTest

LEMMA AbortOK ==
  ASSUME OrchestratorInv, NEW p \in Procs, Abort(p), UNCHANGED files,
         proc[p].stage \notin Between
  PROVE  StepOK(p)
<1> DEFINE r == [proc[p] EXCEPT !.stage = "exited", !.exit = 1]
<1>1. r \in ProcRecords
  <2>1. "exited" \in Stages
    BY DEF Stages, Ended
  <2>2. QED
    BY <2>1, ProcType, RecordUpdates
<1>2. proc' = [proc EXCEPT ![p] = r]
  BY DEF Abort, OrchestratorInv, TypeOK, ProcRecords
<1>3. StageOK(p)'
  BY <1>2 DEF StageOK, Between, Ended, Executed, Verified, OrchestratorInv, TypeOK, ProcRecords
<1>4. QED
  BY <1>1, <1>2, <1>3, NoFileChanged

LEMMA LoseSignatureOK ==
  ASSUME OrchestratorInv, NEW p \in Procs, LoseSignature(p), UNCHANGED files,
         proc[p].stage \in {"qemu", "running"}, text[Dir(p)] = Mine(p)
  PROVE  StepOK(p)
<1> DEFINE r == [proc[p] EXCEPT !.stage = "signature", !.lost = @ \cup {proc[p].test}]
<1>1. proc[p].lost \cup {proc[p].test} \in SUBSET Tests
  BY TestsOfProcs, ProcType DEF OrchestratorInv, StageOK, Between, Ended, ProcRecords
<1>2. r \in ProcRecords
  <2>1. "signature" \in Stages
    BY DEF Stages
  <2>2. QED
    BY <1>1, <2>1, ProcType, RecordUpdates
<1>3. proc' = [proc EXCEPT ![p] = r]
  BY DEF LoseSignature, OrchestratorInv, TypeOK, ProcRecords
<1>4. /\ proc'[p].stage = "signature" /\ proc'[p].test \in proc'[p].lost
      /\ proc'[p].test = proc[p].test /\ proc'[p].count = proc[p].count
      /\ proc'[p].exposed = proc[p].exposed
  BY <1>3, ProcType DEF OrchestratorInv, TypeOK, ProcRecords
<1>5. StageOK(p)'
  BY <1>4 DEF StageOK, Between, Ended, Executed, Verified, Mine, files, OrchestratorInv
<1>6. QED
  BY <1>2, <1>3, <1>5, NoFileChanged

LEMMA GoToOK ==
  ASSUME OrchestratorInv, NEW p \in Procs, NEW s \in Stages, GoTo(p, s)
  PROVE  \E r \in ProcRecords : r = [proc[p] EXCEPT !.stage = s]
                               /\ proc' = [proc EXCEPT ![p] = r]
<1>1. [proc[p] EXCEPT !.stage = s] \in ProcRecords
  BY ProcType, RecordUpdates
<1>2. QED
  BY <1>1 DEF GoTo, OrchestratorInv, TypeOK, ProcRecords

LEMMA ChildFailsOK ==
  ASSUME OrchestratorInv, NEW p \in Procs, ChildFails(p), proc[p].stage \notin Between
  PROVE  StepOK(p)
BY AbortOK DEF ChildFails

LEMMA FindNoGoldenOK ==
  ASSUME OrchestratorInv, NEW p \in Procs, FindNoGolden(p)
  PROVE  StepOK(p)
<1>1. PICK r \in ProcRecords : /\ r = [proc[p] EXCEPT !.stage = "record"]
                               /\ proc' = [proc EXCEPT ![p] = r]
  BY GoToOK DEF FindNoGolden, Stages
<1>2. StageOK(p)'
  BY <1>1 DEF FindNoGolden, files, StageOK, Between, Ended, Executed, Verified, Mine,
              OrchestratorInv, TypeOK, ProcRecords
<1>3. QED
  BY <1>1, <1>2, NoFileChanged DEF FindNoGolden

LEMMA CompareGoldenOK ==
  ASSUME OrchestratorInv, NEW p \in Procs, CompareGolden(p)
  PROVE  StepOK(p)
<1> DEFINE same == proc[p].sigData = golden[Gold(p)]
           r == [proc[p] EXCEPT !.stage = "iss", !.ok = same]
<1>1. same \in BOOLEAN
  OBVIOUS
<1>2. r \in ProcRecords
  <2> HIDE DEF same
  <2>1. "iss" \in Stages
    BY DEF Stages
  <2>2. QED
    BY <1>1, <2>1, ProcType, RecordUpdates
<1>3. proc' = [proc EXCEPT ![p] = r]
  BY DEF CompareGolden, OrchestratorInv, TypeOK, ProcRecords
<1>4. /\ proc'[p].stage = "iss" /\ proc'[p].ok = same
      /\ proc'[p].test = proc[p].test /\ proc'[p].count = proc[p].count
      /\ proc'[p].lost = proc[p].lost /\ proc'[p].exposed = proc[p].exposed
  <2> HIDE DEF same
  <2>1. QED
    BY <1>3, ProcType DEF OrchestratorInv, TypeOK, ProcRecords
<1>5. StageOK(p)'
  <2>1. StageOK(p) /\ At(p, "golden") /\ UNCHANGED <<text, golden>>
    BY DEF CompareGolden, files, OrchestratorInv
  <2>2. QED
    BY <1>4, <2>1 DEF StageOK, Between, Ended, Executed, Verified, Mine
<1>6. QED
  BY <1>2, <1>3, <1>5, NoFileChanged DEF CompareGolden

LEMMA ReadSignatureOK ==
  ASSUME OrchestratorInv, NEW p \in Procs, ReadSignature(p)
  PROVE  StepOK(p)
<1>1. CASE sig[Dir(p)] = Absent
  BY <1>1, AbortOK DEF ReadSignature, Between, Ended
<1>2. CASE sig[Dir(p)] # Absent
  <2> DEFINE r == [proc[p] EXCEPT !.stage = "golden", !.sigData = sig[Dir(p)]]
  <2>1. proc[p].test \in Tests
    BY TestsOfProcs DEF ReadSignature, OrchestratorInv, StageOK, Between, Ended
  <2>2. sig[Dir(p)] \in Contents
    BY <2>1 DEF OrchestratorInv, TypeOK
  <2>3. r \in ProcRecords
    <3>1. "golden" \in Stages
      BY DEF Stages
    <3>2. QED
      BY <2>2, <3>1, ProcType, RecordUpdates
  <2>4. proc' = [proc EXCEPT ![p] = r]
    BY <1>2 DEF ReadSignature, OrchestratorInv, TypeOK, ProcRecords
  <2>5. StageOK(p)'
    BY <2>4 DEF ReadSignature, files, StageOK, Between, Ended, Executed, Verified, Mine,
                OrchestratorInv, TypeOK, ProcRecords
  <2>6. QED
    BY <2>3, <2>4, <2>5, NoFileChanged DEF ReadSignature
<1>3. QED
  BY <1>1, <1>2

LEMMA RunIssOK ==
  ASSUME OrchestratorInv, NEW p \in Procs, RunIss(p)
  PROVE  StepOK(p)
<1>1. CASE GoTo(p, "tested")
  <2>1. PICK r \in ProcRecords : /\ r = [proc[p] EXCEPT !.stage = "tested"]
                                 /\ proc' = [proc EXCEPT ![p] = r]
    BY <1>1, GoToOK DEF Stages
  <2>2. StageOK(p)'
    BY <2>1 DEF RunIss, files, StageOK, Between, Ended, Executed, Verified, Mine,
                OrchestratorInv, TypeOK, ProcRecords
  <2>3. QED
    BY <2>1, <2>2, NoFileChanged DEF RunIss
<1>2. CASE \E hit \in BOOLEAN, broken \in {FALSE, StagesFail} :
             proc' = [proc EXCEPT
                        ![p].stage = "tested", ![p].triggered = hit, ![p].broken = broken,
                        ![p].exposed = hit \/ broken \/ golden[Gold(p)] # text[Dir(p)]]
  <2>0. PICK hit \in BOOLEAN, broken \in {FALSE, StagesFail} :
             proc' = [proc EXCEPT
                        ![p].stage = "tested", ![p].triggered = hit, ![p].broken = broken,
                        ![p].exposed = hit \/ broken \/ golden[Gold(p)] # text[Dir(p)]]
    BY <1>2
  <2> DEFINE e == hit \/ broken \/ golden[Gold(p)] # text[Dir(p)]
             r == [proc[p] EXCEPT !.stage = "tested", !.triggered = hit,
                                  !.broken = broken, !.exposed = e]
  <2>1. e \in BOOLEAN /\ broken \in BOOLEAN
    BY OrchestratorAssumption
  <2>2. r \in ProcRecords
    <3> HIDE DEF e
    <3>1. "tested" \in Stages
      BY DEF Stages
    <3>2. QED
      BY <2>1, <3>1, ProcType, RecordUpdates
  <2>3. proc' = [proc EXCEPT ![p] = r]
    BY <2>0 DEF OrchestratorInv, TypeOK, ProcRecords
  <2>4. /\ proc'[p].stage = "tested" /\ proc'[p].ok = proc[p].ok
        /\ proc'[p].test = proc[p].test /\ proc'[p].count = proc[p].count
        /\ proc'[p].lost = proc[p].lost
        /\ proc'[p].exposed = e /\ proc'[p].triggered = hit /\ proc'[p].broken = broken
    <3> HIDE DEF e
    <3>1. QED
      BY <2>3, ProcType DEF OrchestratorInv, TypeOK, ProcRecords
  <2>5. StageOK(p)'
    <3>1. StageOK(p) /\ At(p, "iss") /\ UNCHANGED <<text, golden>>
      BY DEF RunIss, files, OrchestratorInv
    <3>2. proc[p].test \notin proc[p].lost /\ proc[p].ok /\ e => hit \/ broken
      BY <3>1 DEF StageOK, Executed, Verified
    <3>3. QED
      <4> HIDE DEF e
      <4>1. QED
        BY <2>4, <3>1, <3>2 DEF StageOK, Between, Ended, Executed, Verified, Mine
  <2>6. QED
    BY <2>2, <2>3, <2>5, NoFileChanged DEF RunIss
<1>3. QED
  BY <1>1, <1>2 DEF RunIss

LEMMA TestDoneOK ==
  ASSUME OrchestratorInv, NEW p \in Procs, TestDone(p)
  PROVE  StepOK(p)
<1> DEFINE both == proc[p].allOk /\ proc[p].ok
           r == [proc[p] EXCEPT !.stage = "next", !.allOk = both, !.ran = @ \cup {proc[p].test}]
<1>1. both \in BOOLEAN
  OBVIOUS
<1>2. proc[p].test \in Tests
  BY TestsOfProcs
     DEF TestDone, OrchestratorInv, StageOK, Between, Ended
<1>3. r \in ProcRecords
  <2> HIDE DEF both
  <2>1. "next" \in Stages
    BY DEF Stages
  <2>2. proc[p].ran \cup {proc[p].test} \in SUBSET Tests
    BY <1>2, ProcType DEF ProcRecords
  <2>3. QED
    BY <1>1, <2>1, <2>2, ProcType, RecordUpdates
<1>4. proc' = [proc EXCEPT ![p] = r]
  BY DEF TestDone, OrchestratorInv, TypeOK, ProcRecords
<1>5. StageOK(p)'
  BY <1>4 DEF TestDone, StageOK, Between, Ended, Executed, Verified,
              OrchestratorInv, TypeOK, ProcRecords
<1>6. QED
  BY <1>3, <1>4, <1>5, NoFileChanged DEF TestDone

LEMMA ExitOK ==
  ASSUME OrchestratorInv, NEW p \in Procs, Exit(p)
  PROVE  StepOK(p)
<1> DEFINE status == IF proc[p].allOk THEN 0 ELSE 1
           r == [proc[p] EXCEPT !.stage = "exited", !.exit = status]
<1>1. r \in ProcRecords
  <2>1. status \in {-1, 0, 1} /\ "exited" \in Stages
    BY DEF Stages, Ended
  <2> HIDE DEF status
  <2>2. QED
    BY <2>1, ProcType, RecordUpdates
<1>2. proc' = [proc EXCEPT ![p] = r]
  BY DEF Exit, OrchestratorInv, TypeOK, ProcRecords
<1>3. StageOK(p)'
  BY <1>2 DEF Exit, StageOK, Between, Ended, Executed, Verified,
              OrchestratorInv, TypeOK, ProcRecords
<1>4. QED
  BY <1>1, <1>2, <1>3, NoFileChanged DEF Exit

LEMMA KillOK ==
  ASSUME OrchestratorInv, NEW p \in Procs, Kill(p)
  PROVE  StepOK(p)
<1>1. PICK r \in ProcRecords : /\ r = [proc[p] EXCEPT !.stage = "killed"]
                               /\ proc' = [proc EXCEPT ![p] = r]
  BY GoToOK DEF Kill, Stages, Ended
<1>2. StageOK(p)'
  BY <1>1 DEF Kill, StageOK, Between, Ended, Executed, Verified,
              OrchestratorInv, TypeOK, ProcRecords
<1>3. QED
  BY <1>1, <1>2, NoFileChanged DEF Kill

-----------------------------------------------------------------------------
(***************************************************************************)
(* Steps that write a file of the test in hand.                            *)
(***************************************************************************)
LEMMA TestInHand ==
  ASSUME OrchestratorInv, NEW p \in Procs, proc[p].stage \notin Between
  PROVE  /\ proc[p].test \in TestsOf[p] /\ proc[p].test \in Tests
         /\ proc[p].count \in Counts /\ Mine(p) \in Contents
<1>1. proc[p].test \in TestsOf[p] /\ proc[p].count \in Counts
  BY DEF OrchestratorInv, StageOK, Between
<1>2. proc[p].test \in Tests
  BY <1>1, TestsOfProcs
<1>3. QED
  BY <1>1, <1>2, MineIsContents

LEMMA FileChanged ==
  ASSUME OrchestratorInv, NEW p \in Procs, proc[p].stage \notin Between,
         NEW c \in Contents,
         text' \in {text, [text EXCEPT ![Dir(p)] = c]},
         obj' \in {obj, [obj EXCEPT ![Dir(p)] = c]},
         elf' \in {elf, [elf EXCEPT ![Dir(p)] = c]},
         sig' \in {sig, [sig EXCEPT ![Dir(p)] = c]},
         golden' \in {golden, [golden EXCEPT ![Gold(p)] = c]},
         NEW r \in ProcRecords, proc' = [proc EXCEPT ![p] = r], StageOK(p)'
  PROVE  StepOK(p)
<1>1. proc[p].test \in TestsOf[p] /\ proc[p].test \in Tests
  BY TestInHand
<1>2. golden \in [Tests -> Contents] /\ {GoldenPath(t) : t \in Tests} = Tests
  <2>1. {GoldenPath(t) : t \in Tests} = Tests
    OBVIOUS
  <2>2. QED
    BY <2>1, GoldenType DEF OrchestratorInv
<1>3. proc' \in [Procs -> ProcRecords]
  BY DEF OrchestratorInv, TypeOK
<1>4. /\ text' \in [Tests -> Contents] /\ obj' \in [Tests -> Contents]
      /\ elf' \in [Tests -> Contents] /\ sig' \in [Tests -> Contents]
  BY <1>1 DEF OrchestratorInv, TypeOK
<1>5. golden' \in [Tests -> Contents]
  BY <1>1, <1>2
<1>6. TypeOK'
  BY <1>2, <1>3, <1>4, <1>5 DEF TypeOK
<1>7. Local(p)
  BY <1>1, <1>2 DEF Local, OrchestratorInv, TypeOK
<1>8. QED
  BY <1>1, <1>6, <1>7 DEF StepOK

LEMMA GenerateOpenOK ==
  ASSUME OrchestratorInv, NEW p \in Procs, GenerateOpen(p)
  PROVE  StepOK(p)
<1>1. proc[p].stage \notin Between
  BY DEF GenerateOpen, Between, Ended
<1>2. CASE ChildFails(p)
  BY <1>1, <1>2, ChildFailsOK
<1>3. CASE GoTo(p, "generating") /\ ~ChildFails(p)
  <2>1. PICK r \in ProcRecords : /\ r = [proc[p] EXCEPT !.stage = "generating"]
                                 /\ proc' = [proc EXCEPT ![p] = r]
    BY <1>3, GoToOK DEF Stages
  <2>2. text'[Dir(p)] = Short
    BY <1>1, <1>3, TestInHand DEF GenerateOpen, OrchestratorInv, TypeOK
  <2>3. StageOK(p)'
    BY <1>1, <2>1, <2>2 DEF GenerateOpen, StageOK, Between, Ended, Executed, Verified,
                            OrchestratorInv, TypeOK, ProcRecords
  <2>4. Short \in Contents
    BY DEF Contents
  <2>5. QED
    BY <1>1, <1>3, <2>1, <2>3, <2>4, FileChanged DEF GenerateOpen
<1>4. QED
  BY <1>2, <1>3 DEF GenerateOpen

LEMMA GenerateWriteOK ==
  ASSUME OrchestratorInv, NEW p \in Procs, GenerateWrite(p)
  PROVE  StepOK(p)
<1>1. proc[p].stage \notin Between
  BY DEF GenerateWrite, Between, Ended
<1>2. CASE ChildFails(p)
  BY <1>1, <1>2, ChildFailsOK
<1>3. CASE Abort(p) /\ UNCHANGED files
  BY <1>1, <1>3, AbortOK
<1>4. CASE GoTo(p, "assemble") /\ UNCHANGED files
  <2>1. PICK r \in ProcRecords : /\ r = [proc[p] EXCEPT !.stage = "assemble"]
                                 /\ proc' = [proc EXCEPT ![p] = r]
    BY <1>4, GoToOK DEF Stages
  <2>2. text[Dir(p)] = Short /\ UNCHANGED text
    BY <1>4 DEF GenerateWrite, files, OrchestratorInv, StageOK
  <2>3. StageOK(p)'
    BY <1>1, <2>1, <2>2 DEF GenerateWrite, StageOK, Between, Ended, Executed, Verified,
                            Mine, OrchestratorInv, TypeOK, ProcRecords
  <2>4. QED
    BY <1>4, <2>1, <2>3, NoFileChanged
<1>5. CASE /\ text' = [text EXCEPT ![Dir(p)] = Mine(p)]
           /\ GoTo(p, "assemble")
           /\ UNCHANGED <<obj, elf, sig, golden>>
  <2>1. PICK r \in ProcRecords : /\ r = [proc[p] EXCEPT !.stage = "assemble"]
                                 /\ proc' = [proc EXCEPT ![p] = r]
    BY <1>5, GoToOK DEF Stages
  <2>2. text'[Dir(p)] = Mine(p)
    BY <1>1, <1>5, TestInHand DEF OrchestratorInv, TypeOK
  <2>3. StageOK(p)'
    BY <1>1, <2>1, <2>2 DEF GenerateWrite, StageOK, Between, Ended, Executed, Verified,
                            Mine, OrchestratorInv, TypeOK, ProcRecords
  <2>4. QED
    BY <1>1, <1>5, <2>1, <2>3, TestInHand, FileChanged
<1>6. QED
  BY <1>2, <1>3, <1>4, <1>5 DEF GenerateWrite

LEMMA AssembleOK ==
  ASSUME OrchestratorInv, NEW p \in Procs, Assemble(p)
  PROVE  StepOK(p)
<1>1. proc[p].stage \notin Between
  BY DEF Assemble, Between, Ended
<1>2. CASE ChildFails(p)
  BY <1>1, <1>2, ChildFailsOK
<1>3. CASE Abort(p) /\ UNCHANGED files
  BY <1>1, <1>3, AbortOK
<1>4. CASE /\ obj' = [obj EXCEPT ![Dir(p)] = text[Dir(p)]]
           /\ GoTo(p, "link")
           /\ UNCHANGED <<text, elf, sig, golden>>
  <2>1. PICK r \in ProcRecords : /\ r = [proc[p] EXCEPT !.stage = "link"]
                                 /\ proc' = [proc EXCEPT ![p] = r]
    BY <1>4, GoToOK DEF Stages
  <2>2. obj'[Dir(p)] = text[Dir(p)] /\ text[Dir(p)] \in Contents
    BY <1>1, <1>4, TestInHand DEF OrchestratorInv, TypeOK
  <2>3. StageOK(p)'
    BY <1>1, <1>4, <2>1, <2>2 DEF Assemble, StageOK, Between, Ended, Executed, Verified, Mine,
                            OrchestratorInv, TypeOK, ProcRecords
  <2>4. QED
    BY <1>1, <1>4, <2>1, <2>2, <2>3, FileChanged
<1>5. QED
  BY <1>2, <1>3, <1>4 DEF Assemble

LEMMA LinkOK ==
  ASSUME OrchestratorInv, NEW p \in Procs, Link(p)
  PROVE  StepOK(p)
<1>1. proc[p].stage \notin Between
  BY DEF Link, Between, Ended
<1>2. CASE ChildFails(p)
  BY <1>1, <1>2, ChildFailsOK
<1>3. CASE /\ elf' = [elf EXCEPT ![Dir(p)] = obj[Dir(p)]]
           /\ GoTo(p, "qemu")
           /\ UNCHANGED <<text, obj, sig, golden>>
  <2>1. PICK r \in ProcRecords : /\ r = [proc[p] EXCEPT !.stage = "qemu"]
                                 /\ proc' = [proc EXCEPT ![p] = r]
    BY <1>3, GoToOK DEF Stages
  <2>2. elf'[Dir(p)] = obj[Dir(p)] /\ obj[Dir(p)] \in Contents
    BY <1>1, <1>3, TestInHand DEF OrchestratorInv, TypeOK
  <2>3. StageOK(p)'
    BY <1>1, <1>3, <2>1, <2>2 DEF Link, StageOK, Between, Ended, Executed, Verified, Mine,
                            OrchestratorInv, TypeOK, ProcRecords
  <2>4. QED
    BY <1>1, <1>3, <2>1, <2>2, <2>3, FileChanged
<1>4. QED
  BY <1>2, <1>3 DEF Link

LEMMA QemuOpenOK ==
  ASSUME OrchestratorInv, NEW p \in Procs, QemuOpen(p)
  PROVE  StepOK(p)
<1>1. proc[p].stage \notin Between
  BY DEF QemuOpen, Between, Ended
<1>2. CASE ChildFails(p)
  BY <1>1, <1>2, ChildFailsOK
<1>3. CASE Abort(p) /\ UNCHANGED files
  BY <1>1, <1>3, AbortOK
<1>4. CASE LoseSignature(p) /\ UNCHANGED files /\ elf[Dir(p)] # Short
  BY <1>4, LoseSignatureOK DEF QemuOpen, OrchestratorInv, StageOK
<1>5. CASE /\ elf[Dir(p)] # Short
           /\ sig' = [sig EXCEPT ![Dir(p)] = Short]
           /\ GoTo(p, "running")
           /\ UNCHANGED <<text, obj, elf, golden>>
  <2>1. PICK r \in ProcRecords : /\ r = [proc[p] EXCEPT !.stage = "running"]
                                 /\ proc' = [proc EXCEPT ![p] = r]
    BY <1>5, GoToOK DEF Stages
  <2>2. StageOK(p)'
    BY <1>1, <1>5, <2>1 DEF QemuOpen, StageOK, Between, Ended, Executed, Verified, Mine,
                            OrchestratorInv, TypeOK, ProcRecords
  <2>3. Short \in Contents
    BY DEF Contents
  <2>4. QED
    BY <1>1, <1>5, <2>1, <2>2, <2>3, FileChanged
<1>6. QED
  BY <1>2, <1>3, <1>4, <1>5 DEF QemuOpen

LEMMA QemuWriteOK ==
  ASSUME OrchestratorInv, NEW p \in Procs, QemuWrite(p)
  PROVE  StepOK(p)
<1>1. proc[p].stage \notin Between
  BY DEF QemuWrite, Between, Ended
<1>2. CASE ChildFails(p)
  BY <1>1, <1>2, ChildFailsOK
<1>3. CASE LoseSignature(p) /\ UNCHANGED files
  BY <1>3, LoseSignatureOK DEF QemuWrite, OrchestratorInv, StageOK, Executed
<1>4. CASE /\ sig' = [sig EXCEPT ![Dir(p)] = elf[Dir(p)]]
           /\ GoTo(p, "signature")
           /\ UNCHANGED <<text, obj, elf, golden>>
  <2>1. PICK r \in ProcRecords : /\ r = [proc[p] EXCEPT !.stage = "signature"]
                                 /\ proc' = [proc EXCEPT ![p] = r]
    BY <1>4, GoToOK DEF Stages
  <2>2. sig'[Dir(p)] = elf[Dir(p)] /\ elf[Dir(p)] \in Contents
    BY <1>1, <1>4, TestInHand DEF OrchestratorInv, TypeOK
  <2>3. StageOK(p)'
    BY <1>1, <1>4, <2>1, <2>2 DEF QemuWrite, StageOK, Between, Ended, Executed, Verified, Mine,
                            OrchestratorInv, TypeOK, ProcRecords
  <2>4. QED
    BY <1>1, <1>4, <2>1, <2>2, <2>3, FileChanged
<1>5. QED
  BY <1>2, <1>3, <1>4 DEF QemuWrite

LEMMA CopyOpenOK ==
  ASSUME OrchestratorInv, NEW p \in Procs, CopyOpen(p)
  PROVE  StepOK(p)
<1>1. proc[p].stage \notin Between
  BY DEF CopyOpen, Between, Ended
<1>2. CASE Abort(p) /\ UNCHANGED files
  BY <1>1, <1>2, AbortOK
<1>3. CASE /\ golden' = [golden EXCEPT ![Gold(p)] = Short]
           /\ GoTo(p, "copying")
           /\ UNCHANGED <<text, obj, elf, sig>>
  <2>1. PICK r \in ProcRecords : /\ r = [proc[p] EXCEPT !.stage = "copying"]
                                 /\ proc' = [proc EXCEPT ![p] = r]
    BY <1>3, GoToOK DEF Stages
  <2>2. golden'[Gold(p)] = Short
    BY <1>1, <1>3, TestInHand, GoldenType DEF OrchestratorInv
  <2>3. StageOK(p)'
    BY <1>1, <1>3, <2>1, <2>2 DEF CopyOpen, StageOK, Between, Ended, Executed, Verified, Mine,
                                  OrchestratorInv, TypeOK, ProcRecords
  <2>4. Short \in Contents
    BY DEF Contents
  <2>5. QED
    BY <1>1, <1>3, <2>1, <2>3, <2>4, FileChanged
<1>4. QED
  BY <1>2, <1>3 DEF CopyOpen

LEMMA CopyWriteOK ==
  ASSUME OrchestratorInv, NEW p \in Procs, CopyWrite(p)
  PROVE  StepOK(p)
<1>1. proc[p].stage \notin Between
  BY DEF CopyWrite, Between, Ended
<1>2. CASE Abort(p) /\ UNCHANGED files
  BY <1>1, <1>2, AbortOK
<1>3. CASE /\ golden' = [golden EXCEPT ![Gold(p)] = sig[Dir(p)]]
           /\ proc' = [proc EXCEPT ![p].stage = "iss", ![p].ok = TRUE]
           /\ UNCHANGED <<text, obj, elf, sig>>
  <2> DEFINE r == [proc[p] EXCEPT !.stage = "iss", !.ok = TRUE]
  <2>1. r \in ProcRecords
    <3>1. "iss" \in Stages
      BY DEF Stages
    <3>2. QED
      BY <3>1, ProcType, RecordUpdates
  <2>2. proc' = [proc EXCEPT ![p] = r]
    BY <1>3 DEF OrchestratorInv, TypeOK, ProcRecords
  <2>3. golden'[Gold(p)] = sig[Dir(p)] /\ sig[Dir(p)] \in Contents
    BY <1>1, <1>3, TestInHand, GoldenType DEF OrchestratorInv, TypeOK
  <2>4. StageOK(p)'
    BY <1>1, <1>3, <2>2, <2>3 DEF CopyWrite, StageOK, Between, Ended, Executed, Verified, Mine,
                                  OrchestratorInv, TypeOK, ProcRecords
  <2>5. QED
    BY <1>1, <1>3, <2>1, <2>2, <2>3, <2>4, FileChanged
<1>4. QED
  BY <1>2, <1>3 DEF CopyWrite

-----------------------------------------------------------------------------
(***************************************************************************)
(* The invariant, and what a PASS means.                                   *)
(***************************************************************************)
LEMMA InitInv == Init => OrchestratorInv
<1> SUFFICES ASSUME Init PROVE OrchestratorInv
  OBVIOUS
<1>1. {TestDir(t) : t \in Tests} = Tests /\ Absent \in Contents
  BY DEF Contents, Absent
<1>2. Idle \in ProcRecords
  BY OrchestratorAssumption DEF Idle, ProcRecords, Stages, Contents, Absent
<1>3. TypeOK
  BY <1>1, <1>2 DEF Init, TypeOK
<1>4. ASSUME NEW p \in Procs PROVE StageOK(p)
  BY <1>4 DEF Init, Idle, StageOK, Between, Executed, Verified
<1>5. QED
  BY <1>3, <1>4 DEF OrchestratorInv

LEMMA EveryStepOK ==
  ASSUME OrchestratorInv, NEW p \in Procs, Start(p) \/ Work(p) \/ Kill(p)
  PROVE  StepOK(p)
BY StartOK, NextTestOK, GenerateOpenOK, GenerateWriteOK, AssembleOK, LinkOK, QemuOpenOK,
   QemuWriteOK, ReadSignatureOK, FindNoGoldenOK, CopyOpenOK, CopyWriteOK, CompareGoldenOK,
   RunIssOK, TestDoneOK, ExitOK, KillOK DEF Work

LEMMA NextInv ==
  ASSUME Disjoint, OrchestratorInv, [Next]_vars
  PROVE  OrchestratorInv'
<1>1. CASE Next
  <2>1. PICK p \in Procs : StepOK(p)
    BY <1>1, EveryStepOK DEF Next
  <2>2. ASSUME NEW q \in Procs PROVE StageOK(q)'
    BY <2>1, OthersKeepStage DEF StepOK
  <2>3. QED
    BY <2>1, <2>2 DEF StepOK, OrchestratorInv
<1>2. CASE UNCHANGED vars
  BY <1>2 DEF vars, files, OrchestratorInv, TypeOK, StageOK, Verified, Mine
<1>3. QED
  BY <1>1, <1>2

\* The invariant of run_one, for processes that do not share tests.
THEOREM StagesInOrder ==
  ASSUME Disjoint
  PROVE  Spec => []OrchestratorInv
BY InitInv, NextInv, PTL DEF Spec

\* Type correctness of every file and of every process.
THEOREM OrchestratorTypeCorrect ==
  ASSUME Disjoint
  PROVE  Spec => []TypeOK
<1>1. OrchestratorInv => TypeOK
  BY DEF OrchestratorInv
<1>2. QED
  BY <1>1, StagesInOrder, PTL

\* When verify_or_record returns True for a test whose program wrote its
\* signature in this run, the golden is the signature of the program this run
\* generated, however earlier runs ended.  The unnoticed failure of that one
\* write is the only way to a stale PASS.
THEOREM StalePassNeedsLostSignature ==
  ASSUME Disjoint
  PROVE  Spec => []PassMeansSame
<1>1. OrchestratorInv => PassMeansSame
  BY DEF OrchestratorInv, StageOK, PassMeansSame
<1>2. QED
  BY <1>1, StagesInOrder, PTL

\* Nor does it return False for such a test while the golden is that signature.
THEOREM FailsDiffer ==
  ASSUME Disjoint
  PROVE  Spec => []FailMeansDiffers
<1>1. OrchestratorInv => FailMeansDiffers
  BY DEF OrchestratorInv, StageOK, FailMeansDiffers
<1>2. QED
  BY <1>1, StagesInOrder, PTL

\* After a True for such a test run_iss reports a bug only for a program that
\* triggers it, unless the simulator fails by itself.
THEOREM ExposuresAfterPass ==
  ASSUME Disjoint
  PROVE  Spec => []ExposedAfterPass
<1>1. OrchestratorInv => ExposedAfterPass
  BY DEF OrchestratorInv, StageOK, ExposedAfterPass, Verified
<1>2. QED
  BY <1>1, StagesInOrder, PTL

-----------------------------------------------------------------------------
(***************************************************************************)
(* A complete golden stays, and exit status 0 covers the whole batch.      *)
(***************************************************************************)
\* What a step of p does to the golden files.
GoldenStep(p) ==
  \/ UNCHANGED golden
  \/ /\ proc[p].stage \in {"record", "copying"}
     /\ golden[Gold(p)] \in {Absent, Short}
     /\ \A t \in Tests \ {Gold(p)} : golden'[t] = golden[t]

LEMMA EveryGoldenStep ==
  ASSUME OrchestratorInv, NEW p \in Procs, Start(p) \/ Work(p) \/ Kill(p)
  PROVE  GoldenStep(p)
<1>1. CASE CopyOpen(p)
  BY <1>1, GoldenType DEF CopyOpen, files, GoldenStep, OrchestratorInv, StageOK
<1>2. CASE CopyWrite(p)
  BY <1>2, GoldenType DEF CopyWrite, files, GoldenStep, OrchestratorInv, StageOK
<1>3. CASE Start(p) \/ NextTest(p) \/ ReadSignature(p) \/ FindNoGolden(p)
           \/ CompareGolden(p) \/ RunIss(p) \/ TestDone(p) \/ Exit(p) \/ Kill(p)
  <2>1. UNCHANGED files
    BY <1>3 DEF Start, NextTest, ReadSignature, FindNoGolden, CompareGolden, RunIss,
                TestDone, Exit, Kill
  <2>2. QED
    BY <2>1 DEF files, GoldenStep
<1>4. CASE GenerateOpen(p) \/ GenerateWrite(p) \/ Assemble(p)
  <2>1. UNCHANGED golden
    BY <1>4 DEF GenerateOpen, GenerateWrite, Assemble, ChildFails, files
  <2>2. QED
    BY <2>1 DEF GoldenStep
<1>5. CASE Link(p) \/ QemuOpen(p) \/ QemuWrite(p)
  <2>1. UNCHANGED golden
    BY <1>5 DEF Link, QemuOpen, QemuWrite, ChildFails, files
  <2>2. QED
    BY <2>1 DEF GoldenStep
<1>6. QED
  BY <1>1, <1>2, <1>3, <1>4, <1>5 DEF Work

\* verify_or_record never changes a golden that is complete.
THEOREM CompleteGoldenStays ==
  ASSUME Disjoint
  PROVE  Spec => GoldenNeverReplaced
<1>1. ASSUME OrchestratorInv, [Next]_vars, NEW t \in Tests,
             golden[GoldenPath(t)] \notin {Absent, Short}
      PROVE  golden'[GoldenPath(t)] = golden[GoldenPath(t)]
  <2>1. CASE UNCHANGED vars
    BY <2>1 DEF vars, files
  <2>2. CASE Next
    <3>1. PICK p \in Procs : GoldenStep(p)
      BY <1>1, <2>2, EveryGoldenStep DEF Next
    <3>2. QED
      BY <1>1, <3>1 DEF GoldenStep
  <2>3. QED
    BY <1>1, <2>1, <2>2
<1>2. OrchestratorInv /\ [Next]_vars =>
        [\A t \in Tests : golden[GoldenPath(t)] \notin {Absent, Short}
           => golden'[GoldenPath(t)] = golden[GoldenPath(t)]]_vars
  BY <1>1
<1>3. QED
  BY <1>2, StagesInOrder, PTL DEF Spec, GoldenNeverReplaced

\* What a step of p does to what main remembers of the batch.
Forgets(p)  ==
  /\ proc'[p].ran = {} /\ proc'[p].exit # 0
  /\ proc'[p].exit # -1 => proc'[p].stage = "exited"
Remembers(p) ==
  /\ ~At(p, "exited")
  /\ proc'[p].ran = proc[p].ran /\ proc'[p].allOk = proc[p].allOk
  /\ proc'[p].count = proc[p].count
  /\ proc[p].lost \subseteq proc'[p].lost
  /\ \/ proc'[p].exit = proc[p].exit
     \/ proc'[p].stage = "exited" /\ (proc'[p].exit = 0 => proc[p].allOk)
CountsTest(p) ==
  /\ At(p, "tested") /\ UNCHANGED golden
  /\ proc'[p].ran = proc[p].ran \cup {proc[p].test}
  /\ proc'[p].allOk = (proc[p].allOk /\ proc[p].ok)
  /\ proc'[p].count = proc[p].count /\ proc'[p].lost = proc[p].lost
  /\ proc'[p].exit = proc[p].exit

LEMMA EveryBatchStep ==
  ASSUME OrchestratorInv, NEW p \in Procs, Start(p) \/ Work(p) \/ Kill(p)
  PROVE  Forgets(p) \/ Remembers(p) \/ CountsTest(p)
<1> USE DEF OrchestratorInv, TypeOK, ProcRecords
<1>1. CASE Start(p)
  <2>1. proc \in [Procs -> ProcRecords]
    OBVIOUS
  <2> HIDE DEF OrchestratorInv, TypeOK, ProcRecords
  <2>2. PICK r : Fresh(r) /\ proc' = [proc EXCEPT ![p] = r]
    BY <1>1, StartsFresh
  <2>3. QED
    BY <2>1, <2>2 DEF Forgets, Fresh
<1>2. CASE TestDone(p)
  <2> DEFINE both == proc[p].allOk /\ proc[p].ok
  <2>1. At(p, "tested") /\ UNCHANGED golden
        /\ proc' = [proc EXCEPT ![p].stage = "next", ![p].allOk = both,
                                ![p].ran = @ \cup {proc[p].test}]
    BY <1>2 DEF TestDone, files
  <2> HIDE DEF both
  <2>2. /\ proc'[p].ran = proc[p].ran \cup {proc[p].test} /\ proc'[p].allOk = both
        /\ proc'[p].count = proc[p].count /\ proc'[p].lost = proc[p].lost
        /\ proc'[p].exit = proc[p].exit
    BY <2>1
  <2>3. QED
    BY <2>1, <2>2 DEF CountsTest, both
<1>3. ASSUME NEW s \in Stages, GoTo(p, s) \/ LoseSignature(p), ~At(p, "exited")
      PROVE  Remembers(p)
  <2>1. CASE GoTo(p, s)
    BY <1>3, <2>1 DEF GoTo, Remembers
  <2>2. CASE LoseSignature(p)
    BY <1>3, <2>2 DEF LoseSignature, Remembers
  <2>3. QED
    BY <1>3, <2>1, <2>2
<1>4. ASSUME Abort(p), ~At(p, "exited")
      PROVE  Remembers(p)
  BY <1>4 DEF Abort, Remembers
<1>5. CASE GenerateOpen(p) \/ GenerateWrite(p) \/ Assemble(p) \/ Link(p)
  BY <1>3, <1>4, <1>5 DEF GenerateOpen, GenerateWrite, Assemble, Link, ChildFails, Stages
<1>6. CASE QemuOpen(p) \/ QemuWrite(p) \/ FindNoGolden(p) \/ CopyOpen(p) \/ Kill(p)
  BY <1>3, <1>4, <1>6
     DEF QemuOpen, QemuWrite, FindNoGolden, CopyOpen, Kill, ChildFails, Stages, Ended
<1>7. CASE ReadSignature(p)
  BY <1>4, <1>7 DEF ReadSignature, Remembers
<1>8. CASE CopyWrite(p) \/ CompareGolden(p) \/ NextTest(p)
  <2>1. CASE CopyWrite(p)
    BY <1>4, <2>1 DEF CopyWrite, Remembers
  <2>2. CASE CompareGolden(p)
    BY <2>2 DEF CompareGolden, Remembers
  <2>3. CASE NextTest(p)
    BY <2>3 DEF NextTest, Remembers
  <2>4. QED
    BY <1>8, <2>1, <2>2, <2>3
<1>9. CASE RunIss(p)
  <2>1. CASE GoTo(p, "tested")
    BY <1>3, <1>9, <2>1 DEF RunIss, Stages
  <2>2. CASE \E hit \in BOOLEAN, broken \in {FALSE, StagesFail} :
               proc' = [proc EXCEPT
                          ![p].stage = "tested", ![p].triggered = hit,
                          ![p].broken = broken,
                          ![p].exposed = hit \/ broken \/ golden[Gold(p)] # text[Dir(p)]]
    <3>1. PICK e : \E hit, broken :
                     proc' = [proc EXCEPT ![p].stage = "tested", ![p].triggered = hit,
                                          ![p].broken = broken, ![p].exposed = e]
      BY <2>2
    <3>2. PICK hit, broken :
            proc' = [proc EXCEPT ![p].stage = "tested", ![p].triggered = hit,
                                 ![p].broken = broken, ![p].exposed = e]
      BY <3>1
    <3>3. At(p, "iss") /\ proc \in [Procs -> ProcRecords]
      BY <1>9 DEF RunIss
    <3>4. /\ proc'[p].ran = proc[p].ran /\ proc'[p].allOk = proc[p].allOk
          /\ proc'[p].count = proc[p].count /\ proc'[p].lost = proc[p].lost
          /\ proc'[p].exit = proc[p].exit
      BY <3>2, <3>3
    <3>5. Remembers(p)
      BY <3>3, <3>4 DEF Remembers
    <3>6. QED
      BY <3>5
  <2>3. QED
    BY <1>9, <2>1, <2>2 DEF RunIss
<1>11. CASE Exit(p)
  <2>1. proc'[p].exit = 0 => proc[p].allOk
    BY <1>11 DEF Exit
  <2>2. QED
    BY <1>11, <2>1 DEF Exit, Remembers
<1>10. QED
  BY <1>1, <1>2, <1>5, <1>6, <1>7, <1>8, <1>9, <1>11 DEF Work

LEMMA NextBatch ==
  ASSUME Disjoint, OrchestratorInv, BatchInv, [Next]_vars
  PROVE  BatchInv'
<1>1. CASE UNCHANGED vars
  BY <1>1 DEF vars, files, BatchInv, RanOK
<1>2. ASSUME NEW p \in Procs, Start(p) \/ Work(p) \/ Kill(p), NEW q \in Procs
      PROVE  RanOK(q)'
  <2>1. GoldenStep(p) /\ StepOK(p)
    BY <1>2, EveryGoldenStep, EveryStepOK
  <2>2. RanOK(p) /\ RanOK(q)
    BY DEF BatchInv
  <2>3. CASE q # p
    <3>1. proc'[q] = proc[q]
      BY <2>1, <2>3 DEF StepOK, Local
    <3>2. \A t \in proc[q].ran : golden'[t] = golden[t]
      <4>1. proc[p].test \in TestsOf[p] \/ UNCHANGED golden
        BY <2>1 DEF StepOK, files
      <4>2. proc[q].ran \subseteq Tests
        BY <2>2, TestsOfProcs DEF RanOK
      <4>3. QED
        BY <2>1, <2>2, <2>3, <4>1, <4>2 DEF StepOK, Local, RanOK, Disjoint
    <3>3. QED
      BY <2>2, <3>1, <3>2 DEF RanOK
  <2>4. CASE q = p
    <3>1. CASE Forgets(p)
      BY <3>1, <2>4 DEF Forgets, RanOK
    <3>2. CASE CountsTest(p)
      <4>1. StageOK(p) /\ proc[p].test \in TestsOf[p]
        BY <3>2, TestInHand DEF CountsTest, OrchestratorInv, Between, Ended
      <4>2. proc[p].ok /\ proc[p].test \notin proc[p].lost
              => golden[proc[p].test] = Program(proc[p].test, proc[p].count)
        BY <3>2, <4>1 DEF CountsTest, StageOK, Verified, Mine
      <4>3. proc'[p].allOk => proc[p].allOk /\ proc[p].ok
        BY <3>2 DEF CountsTest
      <4>4. proc'[p].allOk =>
              \A t \in proc'[p].ran \ proc'[p].lost : golden'[t] = Program(t, proc'[p].count)
        BY <2>2, <3>2, <4>2, <4>3 DEF CountsTest, RanOK
      <4>5. proc'[p].exit = -1
        BY <2>2, <3>2 DEF CountsTest, RanOK
      <4>6. QED
        BY <2>2, <2>4, <3>2, <4>1, <4>4, <4>5 DEF CountsTest, RanOK
    <3>3. CASE Remembers(p)
      <4>1. ASSUME NEW t \in proc[p].ran, golden[t] = Program(t, proc[p].count)
            PROVE  golden'[t] = golden[t]
        <5>1. golden[t] \notin {Absent, Short}
          BY <4>1 DEF Program, Absent, Short
        <5>2. t \in Tests
          BY <2>2, TestsOfProcs DEF RanOK
        <5>3. QED
          BY <2>1, <5>1, <5>2 DEF GoldenStep
      <4>2. proc'[p].exit # -1 => proc'[p].stage = "exited"
        BY <2>2, <3>3 DEF Remembers, RanOK
      <4>3. proc'[p].exit = 0 => proc'[p].allOk
        BY <2>2, <3>3 DEF Remembers, RanOK
      <4>4. QED
        BY <2>2, <2>4, <3>3, <4>1, <4>2, <4>3 DEF Remembers, RanOK
    <3>4. QED
      BY <1>2, <3>1, <3>2, <3>3, EveryBatchStep
  <2>5. QED
    BY <2>3, <2>4
<1>3. QED
  BY <1>1, <1>2 DEF Next, BatchInv

\* Exit status 0 of main: every test of the batch whose program wrote its
\* signature has that signature as its golden.
THEOREM CleanExitIsVerified ==
  ASSUME Disjoint
  PROVE  Spec => []CleanExitMeansVerified
<1>1. Init => BatchInv
  <2>1. Idle.ran = {} /\ Idle.exit = -1 /\ Idle.allOk
    BY DEF Idle
  <2>2. Init => \A p \in Procs : proc[p] = Idle
    BY DEF Init
  <2>3. QED
    BY <2>1, <2>2 DEF BatchInv, RanOK
<1>2. BatchInv => CleanExitMeansVerified
  BY DEF BatchInv, RanOK, CleanExitMeansVerified
<1>3. QED
  BY <1>1, <1>2, NextBatch, StagesInOrder, PTL DEF Spec

-----------------------------------------------------------------------------
(***************************************************************************)
(* While nothing fails and every run has the same count, no test fails and *)
(* no bug is reported that a program does not trigger.                     *)
(***************************************************************************)
Quiet == /\ ~Crashes /\ ~StagesFail /\ ~WritesFail
         /\ \A m, n \in Counts : m = n

WithText == {"assemble", "link", "qemu", "running", "signature", "golden", "record",
             "copying", "iss"}

Recorded(t) == {Absent} \cup {Program(t, n) : n \in Counts}

\* The text in hand is this run's, and the only golden of p's tests that may be
\* cut short is the one p is copying.
QuietOK(p) ==
  /\ proc[p].lost = {}
  /\ Verified(p) => proc[p].ok
  /\ proc[p].exposed => proc[p].triggered
  /\ proc[p].stage \in WithText => text[Dir(p)] = Mine(p)
  /\ \A t \in TestsOf[p] :
       golden[t] \in Recorded(t) \/ (At(p, "copying") /\ t = proc[p].test)

QuietInv == \A p \in Procs : QuietOK(p)

\* A step of p that changes no golden and only moves on.
LEMMA MovingOn ==
  ASSUME OrchestratorInv, NEW p \in Procs, QuietOK(p), ~At(p, "copying"),
         NEW s \in Stages, s # "copying", GoTo(p, s), UNCHANGED golden,
         s \in WithText => text'[Dir(p)] = Mine(p),
         s \in {"iss", "tested"} => proc[p].ok
  PROVE  QuietOK(p)'
BY DEF GoTo, QuietOK, Verified, Mine, OrchestratorInv, TypeOK, ProcRecords, Recorded

LEMMA AbortIsQuiet ==
  ASSUME OrchestratorInv, NEW p \in Procs, QuietOK(p), ~At(p, "copying"),
         Abort(p), UNCHANGED golden
  PROVE  QuietOK(p)'
BY DEF Abort, QuietOK, Verified, WithText, OrchestratorInv, TypeOK, ProcRecords, Recorded

LEMMA OwnStepsAreQuiet ==
  ASSUME Quiet, OrchestratorInv, NEW p \in Procs, QuietOK(p),
         Start(p) \/ Work(p) \/ Kill(p)
  PROVE  QuietOK(p)'
<1>1. CASE Start(p)
  <2>1. /\ proc'[p].stage = "next" /\ proc'[p].lost = {}
        /\ proc'[p].exposed = FALSE /\ UNCHANGED golden /\ ~At(p, "copying")
    <3>1. PICK r : Fresh(r) /\ proc' = [proc EXCEPT ![p] = r]
      BY <1>1, StartsFresh
    <3>2. r.exposed = FALSE
      BY <3>1 DEF Fresh, ProcRecords
    <3>3. QED
      BY <1>1, <3>1, <3>2 DEF Start, Fresh, files, Quiet, OrchestratorInv, TypeOK
  <2>2. QED
    BY <2>1 DEF QuietOK, Verified, WithText, Recorded
<1>2. CASE NextTest(p)
  <2>1. /\ proc'[p].lost = proc[p].lost /\ proc'[p].stage = "generate"
        /\ proc'[p].exposed = FALSE /\ UNCHANGED golden /\ ~At(p, "copying")
    BY <1>2 DEF NextTest, files, OrchestratorInv, TypeOK, ProcRecords
  <2>2. QED
    BY <2>1 DEF QuietOK, Verified, WithText, Recorded
<1>3. CASE GenerateOpen(p)
  BY <1>3, MovingOn DEF GenerateOpen, ChildFails, Quiet, Stages, WithText
<1>4. CASE GenerateWrite(p)
  <2>1. text'[Dir(p)] = Mine(p) /\ UNCHANGED golden /\ GoTo(p, "assemble")
    BY <1>4, TestInHand
       DEF GenerateWrite, ChildFails, Quiet, OrchestratorInv, TypeOK, Between, Ended
  <2>2. QED
    BY <1>4, <2>1, MovingOn DEF GenerateWrite, Stages
<1>5. CASE Assemble(p)
  <2>1. UNCHANGED golden /\ UNCHANGED text /\ ~At(p, "copying")
        /\ (GoTo(p, "link") \/ Abort(p)) /\ text[Dir(p)] = Mine(p)
    BY <1>5 DEF Assemble, ChildFails, Quiet, files, QuietOK, WithText
  <2>2. QED
    BY <2>1, MovingOn, AbortIsQuiet DEF Stages
<1>6. CASE Link(p)
  <2>1. UNCHANGED golden /\ UNCHANGED text /\ ~At(p, "copying")
        /\ GoTo(p, "qemu") /\ text[Dir(p)] = Mine(p)
    BY <1>6 DEF Link, ChildFails, Quiet, QuietOK, WithText
  <2>2. QED
    BY <2>1, MovingOn DEF Stages
<1>7. CASE QemuOpen(p)
  <2>1. UNCHANGED golden /\ UNCHANGED text /\ ~At(p, "copying")
        /\ (GoTo(p, "running") \/ Abort(p)) /\ text[Dir(p)] = Mine(p)
    BY <1>7 DEF QemuOpen, ChildFails, Quiet, files, QuietOK, WithText
  <2>2. QED
    BY <2>1, MovingOn, AbortIsQuiet DEF Stages
<1>8. CASE QemuWrite(p)
  <2>1. UNCHANGED golden /\ UNCHANGED text /\ ~At(p, "copying")
        /\ GoTo(p, "signature") /\ text[Dir(p)] = Mine(p)
    BY <1>8 DEF QemuWrite, ChildFails, Quiet, QuietOK, WithText
  <2>2. QED
    BY <2>1, MovingOn DEF Stages
<1>9. CASE ReadSignature(p)
  <2>1. UNCHANGED golden /\ UNCHANGED text /\ ~At(p, "copying") /\ text[Dir(p)] = Mine(p)
    BY <1>9 DEF ReadSignature, files, QuietOK, WithText
  <2>2. CASE Abort(p)
    BY <2>1, <2>2, AbortIsQuiet
  <2>3. CASE proc' = [proc EXCEPT ![p].stage = "golden", ![p].sigData = sig[Dir(p)]]
    BY <2>1, <2>3
       DEF QuietOK, Verified, Mine, Recorded, OrchestratorInv, TypeOK, ProcRecords
  <2>4. QED
    BY <1>9, <2>2, <2>3 DEF ReadSignature
<1>10. CASE FindNoGolden(p)
  <2>1. UNCHANGED golden /\ UNCHANGED text /\ ~At(p, "copying")
        /\ GoTo(p, "record") /\ text[Dir(p)] = Mine(p)
    BY <1>10 DEF FindNoGolden, files, QuietOK, WithText
  <2>2. QED
    BY <2>1, MovingOn DEF Stages
<1>11. CASE CopyOpen(p)
  <2>0. /\ At(p, "record") /\ GoTo(p, "copying")
        /\ golden' = [golden EXCEPT ![Gold(p)] = Short] /\ UNCHANGED text
    BY <1>11 DEF CopyOpen, Quiet
  <2>1. /\ proc'[p].stage = "copying" /\ proc'[p].test = proc[p].test
        /\ proc'[p].count = proc[p].count /\ proc'[p].lost = proc[p].lost
        /\ proc'[p].exposed = proc[p].exposed /\ proc'[p].triggered = proc[p].triggered
        /\ UNCHANGED text /\ text[Dir(p)] = Mine(p) /\ ~At(p, "copying")
    BY <2>0 DEF GoTo, QuietOK, WithText, OrchestratorInv, TypeOK, ProcRecords
  <2>2. \A t \in TestsOf[p] : t # proc[p].test => golden'[t] = golden[t]
    BY <2>0, TestsOfProcs, GoldenType DEF OrchestratorInv
  <2>3. QED
    BY <2>1, <2>2 DEF QuietOK, Verified, Mine, Recorded
<1>12. CASE CopyWrite(p)
  <2>0. /\ At(p, "copying") /\ golden' = [golden EXCEPT ![Gold(p)] = sig[Dir(p)]]
        /\ proc' = [proc EXCEPT ![p].stage = "iss", ![p].ok = TRUE] /\ UNCHANGED text
    BY <1>12 DEF CopyWrite, Quiet
  <2>1. /\ proc'[p].stage = "iss" /\ proc'[p].test = proc[p].test
        /\ proc'[p].count = proc[p].count /\ proc'[p].lost = proc[p].lost
        /\ proc'[p].exposed = proc[p].exposed /\ proc'[p].triggered = proc[p].triggered
        /\ proc'[p].ok /\ UNCHANGED text /\ text[Dir(p)] = Mine(p)
    BY <2>0 DEF QuietOK, WithText, OrchestratorInv, TypeOK, ProcRecords
  <2>2. \A t \in TestsOf[p] : t # proc[p].test => golden'[t] = golden[t]
    BY <2>0, TestsOfProcs, GoldenType DEF OrchestratorInv
  <2>3. golden'[proc[p].test] \in Recorded(proc[p].test)
    <3>1. /\ proc[p].test \in Tests /\ proc[p].count \in Counts /\ sig[Dir(p)] = Mine(p)
          /\ golden' = [golden EXCEPT ![Gold(p)] = sig[Dir(p)]]
      BY <2>0, TestInHand
         DEF OrchestratorInv, StageOK, QuietOK, Between, Ended
    <3>2. QED
      BY <3>1, GoldenType DEF Mine, Recorded, OrchestratorInv
  <2>4. QED
    BY <2>1, <2>2, <2>3 DEF QuietOK, Verified, Mine, Recorded
<1>13. CASE CompareGolden(p)
  <2>1. /\ At(p, "golden") /\ golden[Gold(p)] # Absent /\ UNCHANGED <<text, golden>>
        /\ proc[p].sigData = Mine(p) /\ text[Dir(p)] = Mine(p)
        /\ proc[p].test \in TestsOf[p] /\ proc[p].count \in Counts
    BY <1>13, TestInHand
       DEF CompareGolden, files, OrchestratorInv, StageOK, QuietOK, WithText, Between, Ended
  <2>2. golden[Gold(p)] = Mine(p)
    BY <2>1 DEF QuietOK, Recorded, Quiet, Mine
  <2>3. proc' = [proc EXCEPT ![p].stage = "iss", ![p].ok = TRUE]
    BY <1>13, <2>1, <2>2 DEF CompareGolden
  <2>4. QED
    BY <2>1, <2>3
       DEF QuietOK, Verified, Mine, Recorded, OrchestratorInv, TypeOK, ProcRecords
<1>14. CASE RunIss(p)
  <2>1. /\ At(p, "iss") /\ UNCHANGED <<text, golden>> /\ proc[p].ok
        /\ text[Dir(p)] = Mine(p) /\ golden[Gold(p)] = Mine(p)
    BY <1>14
       DEF RunIss, files, OrchestratorInv, StageOK, QuietOK, Verified, WithText
  <2>2. CASE GoTo(p, "tested")
    BY <2>1, <2>2, MovingOn DEF Stages, WithText
  <2>3. CASE \E hit \in BOOLEAN, broken \in {FALSE, StagesFail} :
               proc' = [proc EXCEPT
                          ![p].stage = "tested", ![p].triggered = hit,
                          ![p].broken = broken,
                          ![p].exposed = hit \/ broken \/ golden[Gold(p)] # text[Dir(p)]]
    <3>1. PICK hit \in BOOLEAN :
            proc' = [proc EXCEPT ![p].stage = "tested", ![p].triggered = hit,
                                 ![p].broken = FALSE, ![p].exposed = hit]
      <4>1. PICK hit \in BOOLEAN, broken \in {FALSE, StagesFail} :
              proc' = [proc EXCEPT
                         ![p].stage = "tested", ![p].triggered = hit,
                         ![p].broken = broken,
                          ![p].exposed = hit \/ broken \/ golden[Gold(p)] # text[Dir(p)]]
        BY <2>3
      <4>2. (hit \/ broken \/ golden[Gold(p)] # text[Dir(p)]) = hit /\ broken = FALSE
        <5>1. golden[Gold(p)] = text[Dir(p)]
          BY <2>1
        <5>2. ~StagesFail /\ StagesFail \in BOOLEAN
          BY OrchestratorAssumption DEF Quiet
        <5>3. broken = FALSE
          BY <5>2, Zenon
        <5>4. QED
          BY <5>1, <5>3, Zenon
      <4>3. QED
        BY <4>1, <4>2, Zenon
    <3>2. /\ proc'[p].stage = "tested" /\ proc'[p].ok = proc[p].ok
          /\ proc'[p].exposed = proc'[p].triggered /\ proc'[p].lost = proc[p].lost
      BY <3>1 DEF OrchestratorInv, TypeOK, ProcRecords
    <3>3. QED
      BY <2>1, <3>2 DEF QuietOK, Verified, WithText, Recorded
  <2>4. QED
    BY <1>14, <2>2, <2>3 DEF RunIss
<1>15. CASE TestDone(p)
  <2>1. /\ proc'[p].stage = "next" /\ proc'[p].lost = proc[p].lost
        /\ proc'[p].exposed = proc[p].exposed /\ proc'[p].triggered = proc[p].triggered
        /\ ~At(p, "copying") /\ UNCHANGED golden
    BY <1>15 DEF TestDone, files, OrchestratorInv, TypeOK, ProcRecords
  <2>2. QED
    BY <2>1 DEF QuietOK, Verified, WithText, Recorded
<1>16. CASE Exit(p)
  <2>1. /\ proc'[p].stage = "exited" /\ proc'[p].lost = proc[p].lost
        /\ proc'[p].exposed = proc[p].exposed /\ proc'[p].triggered = proc[p].triggered
        /\ ~At(p, "copying") /\ UNCHANGED golden
    BY <1>16 DEF Exit, files, OrchestratorInv, TypeOK, ProcRecords
  <2>2. QED
    BY <2>1 DEF QuietOK, Verified, WithText, Recorded
<1>17. CASE Kill(p)
  BY <1>17 DEF Kill, Quiet
<1>18. QED
  BY <1>1, <1>2, <1>3, <1>4, <1>5, <1>6, <1>7, <1>8, <1>9, <1>10, <1>11, <1>12, <1>13,
     <1>14, <1>15, <1>16, <1>17 DEF Work

LEMMA OthersStayQuiet ==
  ASSUME Disjoint, OrchestratorInv, NEW p \in Procs, NEW q \in Procs \ {p}, StepOK(p),
         QuietOK(q)
  PROVE  QuietOK(q)'
<1>1. proc'[q] = proc[q] /\ StageOK(q) /\ TestsOf[q] \subseteq Tests
  BY TestsOfProcs DEF StepOK, Local, OrchestratorInv
<1>2. \A t \in TestsOf[q] : golden'[t] = golden[t] /\ text'[t] = text[t]
  BY <1>1 DEF StepOK, Local, files, Disjoint
<1>3. proc[q].stage \in WithText => proc[q].test \in TestsOf[q]
  BY <1>1 DEF StageOK, WithText, Between, Ended
<1>4. QED
  BY <1>1, <1>2, <1>3 DEF QuietOK, Verified, Mine, Recorded

LEMMA StaysQuiet ==
  ASSUME Disjoint, Quiet
  PROVE  Spec => []QuietInv
<1>1. Init => QuietInv
  <2>1. Idle.lost = {} /\ Idle.stage = "idle" /\ ~Idle.exposed
    BY DEF Idle
  <2>2. {GoldenPath(t) : t \in Tests} = Tests
    OBVIOUS
  <2>3. QED
    BY <2>1, <2>2, TestsOfProcs DEF Init, QuietInv, QuietOK, Verified, WithText, Recorded
<1>2. OrchestratorInv /\ QuietInv /\ [Next]_vars => QuietInv'
  <2> SUFFICES ASSUME OrchestratorInv, QuietInv, [Next]_vars PROVE QuietInv'
    OBVIOUS
  <2>1. CASE UNCHANGED vars
    BY <2>1 DEF vars, files, QuietInv, QuietOK, Verified, Mine, Recorded
  <2>2. CASE Next
    <3>1. PICK p \in Procs : Start(p) \/ Work(p) \/ Kill(p)
      BY <2>2 DEF Next
    <3>2. ASSUME NEW q \in Procs PROVE QuietOK(q)'
      BY <3>1, EveryStepOK, OwnStepsAreQuiet, OthersStayQuiet DEF QuietInv
    <3>3. QED
      BY <3>2 DEF QuietInv
  <2>3. QED
    BY <2>1, <2>2
<1>3. QED
  BY <1>1, <1>2, StagesInOrder, PTL DEF Spec

\* Processes that do not share tests never fail each other's tests.
THEOREM NoTestFails ==
  ASSUME Disjoint, Quiet
  PROVE  Spec => []NoFalseFailure
<1>1. QuietInv => NoFalseFailure
  BY DEF QuietInv, QuietOK, NoFalseFailure
<1>2. QED
  BY <1>1, StaysQuiet, PTL

\* Nor does a bug appear in a program that does not trigger it.
THEOREM ExposuresAreReal ==
  ASSUME Disjoint, Quiet
  PROVE  Spec => []ExposedIsTriggered
<1>1. QuietInv => ExposedIsTriggered
  BY DEF QuietInv, QuietOK, ExposedIsTriggered
<1>2. QED
  BY <1>1, StaysQuiet, PTL
=============================================================================
