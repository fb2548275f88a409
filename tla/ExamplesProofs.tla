--------------------------- MODULE ExamplesProofs ---------------------------
(***************************************************************************)
(* gen_examples.py for any number of examples, generators and runs, with   *)
(* every kind of failure.                                                  *)
(*                                                                         *)
(* A pair is worked on in an empty directory of its own, so whatever gets  *)
(* through to a stage comes from this run's generator (WorkOK); a program  *)
(* cut short does not get past QEMU.  The pairs before the one at hand are *)
(* complete, because nothing but a complete pair leads to the next         *)
(* (DoneOK).                                                               *)
(***************************************************************************)
EXTENDS Examples, FiniteSetTheorems, TLAPS

Copying == {"asm", "bin", "txt"}
Working == DOMAIN After \cup {"signature"} \cup Copying

\* The text this run's generator prints for the pair at hand.
This == Text(at, build)

WorkOK ==
  /\ stage = "assemble" => work.text \in {This, Short}
  /\ stage = "link" => work.text \in {This, Short} /\ work.obj = work.text
  /\ stage = "qemu" => /\ work.text \in {This, Short} /\ work.elf = work.text
                       /\ work.sig = Absent
  /\ stage = "generate" => work = Empty
  /\ stage \in {"assemble", "link"} => work.sig = Absent
  /\ stage = "signature" => work.text = This /\ work.sig \in {This, Short, Absent}
  /\ stage \in Copying => work.text = This /\ work.sig \in {This, Short}

\* The files already written of the pair at hand.
CopyOK ==
  /\ stage \in {"bin", "txt"} => dest[at].asm = This
  /\ stage = "txt" => dest[at].bin = work.sig

Complete(n) == dest[n] = Same(Text(n, build))

DoneOK ==
  /\ stage \in Working => \A n \in Pairs : n < at => Complete(n)
  /\ stage = "next" => \A n \in Pairs : n <= at => Complete(n)

ExitOK ==
  /\ exit # -1 => stage = "exited"
  /\ exit = 0 => \A n \in Pairs : Complete(n)

\* The inductive invariant.
ExamplesInv ==
  /\ TypeOK
  /\ stage \in Working => at \in Pairs
  /\ WorkOK /\ CopyOK /\ DoneOK /\ ExitOK

LEMMA Commands ==
  /\ DOMAIN After = {"generate", "assemble", "link", "qemu"}
  /\ After.generate = "assemble" /\ After.assemble = "link"
  /\ After.link = "qemu" /\ After.qemu = "signature"
BY DEF After

LEMMA PairsAreNumbers ==
  /\ Pairs \subseteq Nat \ {0}
  /\ \A n \in Pairs \cup {0} : n + 1 \notin Pairs => \A m \in Pairs : m <= n
<1>1. Len(EXAMPLES) \in Nat /\ Len(GENERATORS) \in Nat
  BY ExamplesAssumption
<1>2. Len(EXAMPLES) * Len(GENERATORS) \in Int
  BY <1>1
<1>3. QED
  BY <1>2 DEF Pairs

LEMMA ThisIsContents ==
  ASSUME TypeOK, at \in Pairs
  PROVE  This \in Contents /\ Absent \in Contents /\ Short \in Contents
BY DEF TypeOK, This, Text, Contents, Absent, Short

\* The three kinds of contents differ.
LEMMA Different == This # Short /\ This # Absent /\ Absent # Short
BY DEF This, Text, Absent, Short

WorkRecords == [text : Contents, obj : Contents, elf : Contents, sig : Contents]

-----------------------------------------------------------------------------
(***************************************************************************)
(* ExamplesInv is inductive.                                               *)
(***************************************************************************)
LEMMA InitExamples == Init => ExamplesInv
<1> SUFFICES ASSUME Init PROVE ExamplesInv
  OBVIOUS
<1>1. Absent \in Contents /\ \A n \in Pairs, b \in Builds : Text(n, b) \in Contents
  BY DEF Contents, Text, Absent
<1>2. TypeOK
  BY <1>1, ExamplesAssumption DEF Init, TypeOK, Same, Empty
<1>3. stage \notin Working /\ stage # "next" /\ exit = -1
  BY Commands DEF Init, Working, Copying
<1>4. QED
  BY <1>2, <1>3, Commands
     DEF ExamplesInv, WorkOK, CopyOK, DoneOK, ExitOK, Working, Copying, Init

\* A run that ends without exit status 0.
LEMMA EndKeeps ==
  ASSUME ExamplesInv, UNCHANGED <<at, build, runs>>,
         dest' \in [Pairs -> [asm : Contents, bin : Contents, txt : Contents]],
         work' \in WorkRecords,
         \/ stage' = "exited" /\ exit' = 1
         \/ stage' = "killed" /\ exit' = exit /\ stage # "exited"
  PROVE  ExamplesInv'
<1>1. TypeOK'
  BY DEF ExamplesInv, TypeOK, WorkRecords
<1>2. stage' \notin Working /\ stage' # "next" /\ exit' # 0
  BY Commands DEF Working, Copying, ExamplesInv, ExitOK
<1>3. exit' # -1 => stage' = "exited"
  BY DEF ExamplesInv, ExitOK
<1>4. QED
  BY <1>1, <1>2, <1>3, Commands
     DEF ExamplesInv, WorkOK, CopyOK, DoneOK, ExitOK, Working, Copying

LEMMA StartKeeps ==
  ASSUME ExamplesInv, Start
  PROVE  ExamplesInv'
<1>1. runs' \in 0 .. MaxRuns
  BY ExamplesAssumption DEF Start, ExamplesInv, TypeOK
<1>2. CASE stage' = "next" /\ at' = 0 /\ exit' = -1
  <2>1. TypeOK'
    BY <1>1, <1>2 DEF Start, ExamplesInv, TypeOK
  <2>2. stage' \notin Working
    BY <1>2, Commands DEF Working, Copying
  <2>3. DoneOK' /\ ExitOK'
    BY <1>2, <2>2, PairsAreNumbers DEF DoneOK, ExitOK
  <2>4. QED
    BY <1>2, <2>1, <2>2, <2>3 DEF ExamplesInv, WorkOK, CopyOK, Copying
<1>3. CASE stage' = "exited" /\ exit' = 1 /\ UNCHANGED at
  <2>1. TypeOK'
    BY <1>1, <1>3 DEF Start, ExamplesInv, TypeOK
  <2>2. stage' \notin Working
    BY <1>3, Commands DEF Working, Copying
  <2>3. QED
    BY <1>3, <2>1, <2>2
       DEF ExamplesInv, WorkOK, CopyOK, Copying, DoneOK, ExitOK
<1>4. QED
  BY <1>2, <1>3 DEF Start

LEMMA NextPairKeeps ==
  ASSUME ExamplesInv, NextPair
  PROVE  ExamplesInv'
<1>1. /\ stage = "next" /\ stage' = "generate" /\ at' = at + 1 /\ at' \in Pairs
      /\ work' = Empty /\ UNCHANGED <<dest, build, runs, exit>>
  BY DEF NextPair
<1>2. TypeOK'
  BY <1>1, Commands DEF ExamplesInv, TypeOK, Empty, Contents
<1>3. DoneOK'
  <2>1. ASSUME NEW n \in Pairs, n < at + 1
        PROVE  Complete(n)
    <3>1. n <= at
      BY <2>1, PairsAreNumbers DEF ExamplesInv, TypeOK
    <3>2. QED
      BY <1>1, <3>1 DEF ExamplesInv, DoneOK
  <2>2. QED
    BY <1>1, <2>1 DEF DoneOK, Complete
<1>4. ExitOK'
  BY <1>1 DEF ExamplesInv, ExitOK
<1>5. WorkOK' /\ CopyOK'
  BY <1>1 DEF WorkOK, CopyOK, Copying
<1>6. QED
  BY <1>1, <1>2, <1>3, <1>4, <1>5 DEF ExamplesInv

LEMMA DoneKeeps ==
  ASSUME ExamplesInv, Done
  PROVE  ExamplesInv'
<1>1. /\ stage = "next" /\ stage' = "exited" /\ exit' = 0 /\ at + 1 \notin Pairs
      /\ UNCHANGED <<dest, work, at, build, runs>>
  BY DEF Done
<1>2. TypeOK' /\ stage' \notin Working
  BY <1>1, Commands DEF ExamplesInv, TypeOK, Working, Copying
<1>3. \A n \in Pairs : n <= at
  BY <1>1, PairsAreNumbers DEF ExamplesInv, TypeOK
<1>4. ExitOK'
  BY <1>1, <1>3 DEF ExamplesInv, DoneOK, ExitOK, Complete
<1>5. WorkOK' /\ CopyOK' /\ DoneOK'
  BY <1>1, <1>2 DEF WorkOK, CopyOK, Copying, DoneOK
<1>6. QED
  BY <1>1, <1>2, <1>4, <1>5 DEF ExamplesInv

\* What each command leaves, given what it found.
LEMMA OutcomesOK ==
  ASSUME ExamplesInv, stage \in DOMAIN After, work' \in Outcomes(stage)
  PROVE  /\ work' \in WorkRecords
         /\ stage = "generate" => work'.text \in {This, Short} /\ work'.sig = Absent
         /\ stage = "assemble" => /\ work'.text \in {This, Short} /\ work'.sig = Absent
                                  /\ work'.obj = work'.text
         /\ stage = "link" => /\ work'.text \in {This, Short} /\ work'.sig = Absent
                              /\ work'.elf = work'.text
         /\ stage = "qemu" => work'.text = This /\ work'.sig \in {This, Short, Absent}
<1>1. /\ work \in WorkRecords /\ at \in Pairs /\ WorkOK
      /\ stage \in {"generate", "assemble", "link", "qemu"}
  BY Commands DEF ExamplesInv, TypeOK, WorkRecords, Working
<1>2. This \in Contents /\ Short \in Contents /\ Absent \in Contents
  BY <1>1, ThisIsContents DEF ExamplesInv
<1>3. CASE stage = "generate"
  <2>1. work = Empty
    BY <1>1, <1>3 DEF WorkOK
  <2>2. work' \in {[work EXCEPT !.text = This], [work EXCEPT !.text = Short]}
    BY <1>3 DEF Outcomes, This
  <2>3. QED
    BY <1>1, <1>2, <1>3, <2>1, <2>2 DEF Empty, WorkRecords
<1>4. CASE stage = "assemble"
  <2>1. work' = [work EXCEPT !.obj = work.text]
    BY <1>4 DEF Outcomes
  <2>2. QED
    BY <1>1, <1>4, <2>1 DEF WorkOK, WorkRecords
<1>5. CASE stage = "link"
  <2>1. work' = [work EXCEPT !.elf = work.obj]
    BY <1>5 DEF Outcomes
  <2>2. QED
    BY <1>1, <1>5, <2>1 DEF WorkOK, WorkRecords
<1>6. CASE stage = "qemu"
  <2>1. work.elf # Short
    BY <1>6 DEF Outcomes
  <2>2. work.text = This /\ work.elf = This /\ work.sig = Absent
    BY <1>1, <1>6, <2>1 DEF WorkOK
  <2>3. work' \in {[work EXCEPT !.sig = This], work, [work EXCEPT !.sig = Short]}
    BY <1>6, <2>1, <2>2 DEF Outcomes
  <2>4. QED
    BY <1>1, <1>2, <1>6, <2>2, <2>3 DEF WorkRecords
<1>7. QED
  BY <1>1, <1>3, <1>4, <1>5, <1>6

LEMMA RunCmdKeeps ==
  ASSUME ExamplesInv, RunCmd
  PROVE  ExamplesInv'
<1>1. CASE work' \in Outcomes(stage) /\ GoTo(After[stage])
  <2>1. /\ stage \in {"generate", "assemble", "link", "qemu"}
        /\ stage' = After[stage] /\ UNCHANGED <<dest, at, build, runs, exit>>
    BY <1>1, Commands DEF RunCmd, GoTo
  <2>2. /\ work' \in WorkRecords
        /\ stage = "generate" => work'.text \in {This, Short} /\ work'.sig = Absent
        /\ stage = "assemble" => /\ work'.text \in {This, Short} /\ work'.sig = Absent
                                 /\ work'.obj = work'.text
        /\ stage = "link" => /\ work'.text \in {This, Short} /\ work'.sig = Absent
                             /\ work'.elf = work'.text
        /\ stage = "qemu" => work'.text = This /\ work'.sig \in {This, Short, Absent}
    BY <1>1, <2>1, OutcomesOK, Commands
  <2>3. stage' \in {"assemble", "link", "qemu", "signature"} /\ This' = This
    BY <2>1, Commands DEF This, Text
  <2>4. TypeOK'
    BY <2>1, <2>2, <2>3, Commands DEF ExamplesInv, TypeOK, WorkRecords
  <2>5. WorkOK'
    BY <2>1, <2>2, <2>3, Commands DEF WorkOK, Copying
  <2>6. stage \in Working /\ stage' \in Working
    BY <2>1, <2>3, Commands DEF Working
  <2>7. DoneOK' /\ ExitOK'
    BY <2>1, <2>3, <2>6 DEF ExamplesInv, DoneOK, ExitOK, Complete
  <2>8. CopyOK'
    BY <2>3 DEF CopyOK
  <2>9. QED
    BY <2>1, <2>4, <2>5, <2>6, <2>7, <2>8 DEF ExamplesInv
<1>2. CASE Fail /\ UNCHANGED work
  BY <1>2, EndKeeps DEF RunCmd, Fail, ExamplesInv, TypeOK, WorkRecords
<1>3. QED
  BY <1>1, <1>2 DEF RunCmd

LEMMA ReadSignatureKeeps ==
  ASSUME ExamplesInv, ReadSignature
  PROVE  ExamplesInv'
<1>1. stage = "signature" /\ UNCHANGED <<dest, work>>
  BY DEF ReadSignature
<1>2. CASE work.sig = Absent
  BY <1>1, <1>2, EndKeeps DEF ReadSignature, Fail, ExamplesInv, TypeOK, WorkRecords
<1>3. CASE work.sig # Absent
  <2>1. stage' = "asm" /\ UNCHANGED <<at, build, runs, exit>>
    BY <1>3 DEF ReadSignature, GoTo
  <2>2. stage \in Working /\ stage' \in Working
    BY <1>1, <2>1 DEF Working, Copying
  <2>3. TypeOK'
    BY <1>1, <2>1 DEF ExamplesInv, TypeOK
  <2>4. WorkOK'
    BY <1>1, <1>3, <2>1 DEF ExamplesInv, WorkOK, Copying, This, Text
  <2>5. QED
    BY <1>1, <2>1, <2>2, <2>3, <2>4
       DEF ExamplesInv, CopyOK, DoneOK, ExitOK, Complete
<1>4. QED
  BY <1>2, <1>3

\* One file of the pair at hand is replaced.
LEMMA WriteTypes ==
  ASSUME ExamplesInv, stage \in Copying, NEW file \in {"asm", "bin", "txt"},
         NEW c \in Contents, dest' = [dest EXCEPT ![at][file] = c]
  PROVE  /\ dest' \in [Pairs -> [asm : Contents, bin : Contents, txt : Contents]]
         /\ \A n \in Pairs : n # at => dest'[n] = dest[n]
         /\ at \in Pairs /\ dest'[at] = [dest[at] EXCEPT ![file] = c]
<1>1. at \in Pairs
  BY DEF ExamplesInv, Working
<1>2. QED
  BY <1>1 DEF ExamplesInv, TypeOK

LEMMA FailedWriteKeeps ==
  ASSUME ExamplesInv, stage \in Copying, NEW file \in {"asm", "bin", "txt"},
         dest' = [dest EXCEPT ![at][file] = Short], Fail \/ Killed,
         UNCHANGED work
  PROVE  ExamplesInv'
<1>1. Short \in Contents
  BY DEF Contents
<1>2. work' \in WorkRecords /\ stage # "exited"
  BY DEF ExamplesInv, TypeOK, WorkRecords, Copying
<1>3. QED
  BY <1>1, <1>2, WriteTypes, EndKeeps DEF Fail, Killed, GoTo

\* What a write that succeeds keeps, whichever file it replaces.
LEMMA CopyStep ==
  ASSUME ExamplesInv, stage \in Copying, NEW file \in {"asm", "bin", "txt"},
         NEW c \in Contents, dest' = [dest EXCEPT ![at][file] = c],
         UNCHANGED work, NEW next \in {"bin", "txt", "next"}, GoTo(next)
  PROVE  /\ TypeOK' /\ ExitOK' /\ WorkOK'
         /\ \A n \in Pairs : n < at => Complete(n)'
         /\ at \in Pairs /\ dest'[at] = [dest[at] EXCEPT ![file] = c]
         /\ dest[at] \in [asm : Contents, bin : Contents, txt : Contents]
         /\ UNCHANGED <<at, build>> /\ stage' = next
<1>1. stage' = next /\ UNCHANGED <<at, build, runs, exit>> /\ exit = -1
  BY DEF GoTo, ExamplesInv, ExitOK, Copying
<1>2. /\ dest' \in [Pairs -> [asm : Contents, bin : Contents, txt : Contents]]
      /\ \A n \in Pairs : n # at => dest'[n] = dest[n]
      /\ at \in Pairs /\ dest'[at] = [dest[at] EXCEPT ![file] = c]
  BY WriteTypes
<1>3. TypeOK'
  BY <1>1, <1>2 DEF ExamplesInv, TypeOK
<1>4. ExitOK'
  BY <1>1 DEF ExitOK
<1>5. WorkOK'
  BY <1>1 DEF ExamplesInv, WorkOK, Copying, This, Text
<1>6. ASSUME NEW n \in Pairs, n < at
      PROVE  Complete(n)'
  <2>1. Complete(n) /\ n # at
    BY <1>2, <1>6, PairsAreNumbers DEF ExamplesInv, DoneOK, Working
  <2>2. QED
    BY <1>1, <1>2, <2>1 DEF Complete
<1>7. QED
  BY <1>1, <1>2, <1>3, <1>4, <1>5, <1>6 DEF ExamplesInv, TypeOK

LEMMA WriteAsmKeeps ==
  ASSUME ExamplesInv, WriteAsm
  PROVE  ExamplesInv'
<1>1. stage = "asm" /\ stage \in Copying /\ work.text = This /\ This \in Contents
  BY ThisIsContents DEF WriteAsm, Copying, ExamplesInv, WorkOK, Working
<1>2. CASE dest' = [dest EXCEPT ![at]["asm"] = work.text] /\ GoTo("bin")
  <2>1. UNCHANGED work
    BY DEF WriteAsm, Write
  <2>2. /\ TypeOK' /\ ExitOK' /\ WorkOK'
        /\ \A n \in Pairs : n < at => Complete(n)'
        /\ at \in Pairs /\ dest'[at] = [dest[at] EXCEPT !["asm"] = This]
        /\ dest[at] \in [asm : Contents, bin : Contents, txt : Contents]
        /\ UNCHANGED <<at, build>> /\ stage' = "bin"
    BY <1>1, <1>2, <2>1, CopyStep
  <2>3. dest'[at].asm = This
    BY <2>2
  <2>4. CopyOK' /\ DoneOK'
    BY <2>2, <2>3 DEF CopyOK, DoneOK, This, Text
  <2>5. QED
    BY <2>2, <2>4 DEF ExamplesInv
<1>3. CASE dest' = [dest EXCEPT ![at]["asm"] = Short] /\ (Fail \/ Killed)
  BY <1>1, <1>3, FailedWriteKeeps DEF WriteAsm, Write
<1>4. QED
  BY <1>2, <1>3 DEF WriteAsm, Write

LEMMA WriteBinKeeps ==
  ASSUME ExamplesInv, WriteBin
  PROVE  ExamplesInv'
<1>1. /\ stage = "bin" /\ stage \in Copying /\ dest[at].asm = This
      /\ work.sig \in Contents
  BY DEF WriteBin, Copying, ExamplesInv, CopyOK, TypeOK
<1>2. CASE dest' = [dest EXCEPT ![at]["bin"] = work.sig] /\ GoTo("txt")
  <2>1. UNCHANGED work
    BY DEF WriteBin, Write
  <2>2. /\ TypeOK' /\ ExitOK' /\ WorkOK'
        /\ \A n \in Pairs : n < at => Complete(n)'
        /\ at \in Pairs /\ dest'[at] = [dest[at] EXCEPT !["bin"] = work.sig]
        /\ dest[at] \in [asm : Contents, bin : Contents, txt : Contents]
        /\ UNCHANGED <<at, build>> /\ stage' = "txt"
    BY <1>1, <1>2, <2>1, CopyStep
  <2>3. dest'[at].asm = This /\ dest'[at].bin = work.sig
    BY <1>1, <2>2
  <2>4. CopyOK' /\ DoneOK'
    BY <2>1, <2>2, <2>3 DEF CopyOK, DoneOK, This, Text
  <2>5. QED
    BY <2>2, <2>4 DEF ExamplesInv
<1>3. CASE dest' = [dest EXCEPT ![at]["bin"] = Short] /\ (Fail \/ Killed)
  BY <1>1, <1>3, FailedWriteKeeps DEF WriteBin, Write
<1>4. QED
  BY <1>2, <1>3 DEF WriteBin, Write

LEMMA WriteTxtKeeps ==
  ASSUME ExamplesInv, WriteTxt
  PROVE  ExamplesInv'
<1>1. /\ stage = "txt" /\ stage \in Copying /\ work.sig \in {This, Short}
      /\ dest[at].asm = This /\ dest[at].bin = work.sig /\ work.sig \in Contents
      /\ work \in WorkRecords
  BY DEF WriteTxt, Copying, ExamplesInv, CopyOK, WorkOK, TypeOK, WorkRecords
<1>2. CASE work.sig = Short
  BY <1>1, <1>2, EndKeeps DEF WriteTxt, Fail, ExamplesInv, TypeOK
<1>3. CASE work.sig # Short /\ dest' = [dest EXCEPT ![at]["txt"] = work.sig] /\ GoTo("next")
  <2>1. UNCHANGED work /\ work.sig = This
    BY <1>1, <1>3 DEF WriteTxt, Write
  <2>2. /\ TypeOK' /\ ExitOK' /\ WorkOK'
        /\ \A n \in Pairs : n < at => Complete(n)'
        /\ at \in Pairs /\ dest'[at] = [dest[at] EXCEPT !["txt"] = work.sig]
        /\ dest[at] \in [asm : Contents, bin : Contents, txt : Contents]
        /\ UNCHANGED <<at, build>> /\ stage' = "next"
    BY <1>1, <1>3, <2>1, CopyStep
  <2>3. Complete(at)'
    BY <1>1, <2>1, <2>2 DEF Complete, Same, This
  <2>4. \A n \in Pairs : n <= at => Complete(n)'
    BY <2>2, <2>3, PairsAreNumbers
  <2>5. stage' \notin Working
    BY <2>2, Commands DEF Working, Copying
  <2>6. CopyOK' /\ DoneOK'
    BY <2>2, <2>4, <2>5 DEF CopyOK, DoneOK, Complete
  <2>7. QED
    BY <2>2, <2>5, <2>6 DEF ExamplesInv
<1>4. CASE dest' = [dest EXCEPT ![at]["txt"] = Short] /\ (Fail \/ Killed) /\ UNCHANGED work
  BY <1>1, <1>4, FailedWriteKeeps
<1>5. QED
  BY <1>2, <1>3, <1>4 DEF WriteTxt, Write

LEMMA KillKeeps ==
  ASSUME ExamplesInv, Kill
  PROVE  ExamplesInv'
BY EndKeeps DEF Kill, Killed, GoTo, Ended, ExamplesInv, TypeOK, WorkRecords

LEMMA RaiseKeeps ==
  ASSUME ExamplesInv, Raise
  PROVE  ExamplesInv'
BY EndKeeps DEF Raise, Fail, ExamplesInv, TypeOK, WorkRecords

LEMMA NextExamples == ExamplesInv /\ [Next]_vars => ExamplesInv'
<1> SUFFICES ASSUME ExamplesInv, [Next]_vars PROVE ExamplesInv'
  OBVIOUS
<1>1. CASE UNCHANGED vars
  BY <1>1 DEF vars, ExamplesInv, TypeOK, WorkOK, CopyOK, DoneOK, ExitOK, Complete,
              This, Text
<1>2. QED
  BY <1>1, StartKeeps, NextPairKeeps, DoneKeeps, RunCmdKeeps, ReadSignatureKeeps,
     WriteAsmKeeps, WriteBinKeeps, WriteTxtKeeps, RaiseKeeps, KillKeeps
     DEF Next

\* The script's directories, stages and files keep their types, and the
\* inductive invariant holds, however often it is started, fails or is killed.
THEOREM ExamplesSafety == Spec => []ExamplesInv
BY InitExamples, NextExamples, PTL DEF Spec

\* Types, for any number of examples and generators.
THEOREM ExamplesTypes == Spec => []TypeOK
BY ExamplesSafety, PTL DEF ExamplesInv

\* A run of gen_examples.py that exits 0 leaves every example complete: the
\* text of this run's build and the golden of that text.
THEOREM CleanExitIsComplete == Spec => []CleanExitMeansComplete
<1>1. ExamplesInv => CleanExitMeansComplete
  BY DEF ExamplesInv, ExitOK, CleanExitMeansComplete, Complete
<1>2. QED
  BY <1>1, ExamplesSafety, PTL

-----------------------------------------------------------------------------
(***************************************************************************)
(* What a step does to the files of a pair.                                *)
(***************************************************************************)
LEMMA OnlyThisPair ==
  ASSUME ExamplesInv, Next
  PROVE  /\ \A n \in Pairs : n # at => dest'[n] = dest[n]
         /\ stage \notin Copying => dest' = dest
<1>1. CASE stage \in Copying
  <2>1. at \in Pairs /\ dest \in [Pairs -> [asm : Contents, bin : Contents, txt : Contents]]
    BY <1>1 DEF ExamplesInv, TypeOK, Working
  <2>2. CASE WriteAsm
    BY <1>1, <2>1, <2>2 DEF WriteAsm, Write
  <2>3. CASE WriteBin
    BY <1>1, <2>1, <2>3 DEF WriteBin, Write
  <2>4. CASE WriteTxt
    BY <1>1, <2>1, <2>4 DEF WriteTxt, Write
  <2>5. CASE Raise \/ Kill
    BY <2>5 DEF Raise, Kill
  <2>6. QED
    BY <1>1, <2>2, <2>3, <2>4, <2>5, Commands
       DEF Next, Copying, Start, Ended, NextPair, Done, RunCmd, ReadSignature
<1>2. CASE stage \notin Copying
  BY <1>2 DEF Next, Copying, Start, NextPair, Done, RunCmd, ReadSignature, WriteAsm,
              WriteBin, WriteTxt, Raise, Kill
<1>3. QED
  BY <1>1, <1>2

\* A golden is only ever written beside the text whose signature it is, with
\* every kind of failure.
THEOREM GoldensFollow == Spec => GoldenFollowsText
<1>1. ASSUME ExamplesInv, Next, NEW n \in Pairs
      PROVE  /\ dest'[n].bin # dest[n].bin => dest'[n].bin \in {Short, dest[n].asm}
             /\ dest'[n].txt # dest[n].txt => dest'[n].txt \in {Short, dest[n].bin}
  <2>1. CASE n # at \/ stage \notin Copying
    BY <1>1, <2>1, OnlyThisPair
  <2>2. CASE n = at /\ stage \in Copying
    <3>1. /\ at \in Pairs /\ dest[at] \in [asm : Contents, bin : Contents, txt : Contents]
          /\ dest \in [Pairs -> [asm : Contents, bin : Contents, txt : Contents]]
          /\ work.sig \in {This, Short}
          /\ stage \in {"bin", "txt"} => dest[at].asm = This
          /\ stage = "txt" => dest[at].bin = work.sig
      BY <1>1, <2>2 DEF ExamplesInv, TypeOK, WorkOK, CopyOK
    <3>2. CASE WriteAsm
      <4>1. PICK c : dest' = [dest EXCEPT ![at]["asm"] = c]
        BY <3>2 DEF WriteAsm, Write
      <4>2. QED
        BY <2>2, <3>1, <4>1
    <3>3. CASE WriteBin
      <4>1. PICK c \in {work.sig, Short} : dest' = [dest EXCEPT ![at]["bin"] = c]
        BY <3>3 DEF WriteBin, Write
      <4>2. stage = "bin"
        BY <3>3 DEF WriteBin
      <4>3. QED
        BY <2>2, <3>1, <4>1, <4>2
    <3>4. CASE WriteTxt
      <4>1. \/ UNCHANGED dest
            \/ \E c \in {work.sig, Short} : dest' = [dest EXCEPT ![at]["txt"] = c]
        BY <3>4 DEF WriteTxt, Write
      <4>2. stage = "txt"
        BY <3>4 DEF WriteTxt
      <4>3. QED
        BY <2>2, <3>1, <4>1, <4>2
    <3>5. CASE Raise \/ Kill
      BY <3>5 DEF Raise, Kill
    <3>6. QED
      BY <1>1, <2>2, <3>2, <3>3, <3>4, <3>5, Commands
         DEF Next, Copying, Start, Ended, NextPair, Done, RunCmd, ReadSignature
  <2>3. QED
    BY <2>1, <2>2
<1>2. ExamplesInv /\ [Next]_vars =>
        [\A n \in Pairs :
           /\ dest'[n].bin # dest[n].bin => dest'[n].bin \in {Short, dest[n].asm}
           /\ dest'[n].txt # dest[n].txt => dest'[n].txt \in {Short, dest[n].bin}]_vars
  BY <1>1
<1>3. QED
  BY <1>2, ExamplesSafety, PTL DEF Spec, GoldenFollowsText

-----------------------------------------------------------------------------
(***************************************************************************)
(* Counting the pairs that are torn: those of earlier runs, and the one at *)
(* hand.                                                                   *)
(***************************************************************************)
TearsOK ==
  /\ stage \in Working => Cardinality(Torn \ {at}) <= runs - 1
  /\ stage = "next" => Cardinality(Torn) <= runs - 1
  /\ Ended => Cardinality(Torn) <= runs

LEMMA TakeOneAway ==
  ASSUME NEW S \in SUBSET Pairs, NEW x
  PROVE  /\ Cardinality(S) \in Nat /\ Cardinality(S \ {x}) \in Nat
         /\ Cardinality(S \ {x}) <= Cardinality(S)
         /\ Cardinality(S) <= Cardinality(S \ {x}) + 1
<1>1. IsFiniteSet(Pairs)
  <2>1. Len(EXAMPLES) * Len(GENERATORS) \in Int
    BY ExamplesAssumption
  <2>2. QED
    BY <2>1, FS_Interval DEF Pairs
<1>2. IsFiniteSet(S)
  BY <1>1, FS_Subset
<1>3. /\ IsFiniteSet(S \ {x})
      /\ Cardinality(S \ {x}) = IF x \in S THEN Cardinality(S) - 1 ELSE Cardinality(S)
  BY <1>2, FS_RemoveElement
<1>4. Cardinality(S) \in Nat /\ Cardinality(S \ {x}) \in Nat
  BY <1>2, <1>3, FS_CardinalityType
<1>5. QED
  BY <1>3, <1>4

LEMMA TornKept ==
  ASSUME ExamplesInv, Next
  PROVE  /\ Torn' \ {at} = Torn \ {at}
         /\ stage \notin Copying => Torn' = Torn
  BY OnlyThisPair DEF Torn

LEMMA NextTears ==
  ASSUME ExamplesInv, ExamplesInv', TearsOK, [Next]_vars
  PROVE  TearsOK'
<1>1. CASE UNCHANGED vars
  BY <1>1 DEF vars, TearsOK, Torn, Ended
<1>2. CASE Next
  <2>1. Torn \in SUBSET Pairs /\ Torn' \in SUBSET Pairs
    BY DEF Torn
  <2>2. /\ runs \in Nat /\ runs' \in Nat
        /\ Torn' \ {at} = Torn \ {at} /\ (stage \notin Copying => Torn' = Torn)
    BY <1>2, TornKept, ExamplesAssumption DEF ExamplesInv, TypeOK
  <2>3. /\ Cardinality(Torn) \in Nat /\ Cardinality(Torn \ {at}) \in Nat
        /\ Cardinality(Torn \ {at}) <= Cardinality(Torn)
        /\ Cardinality(Torn) <= Cardinality(Torn \ {at}) + 1
    BY <2>1, TakeOneAway
  <2>4. /\ Cardinality(Torn') \in Nat
        /\ Cardinality(Torn') <= Cardinality(Torn \ {at}) + 1
    BY <2>1, <2>2, TakeOneAway
  <2>5. CASE Start
    <3>1. Ended /\ stage \notin Copying /\ runs' = runs + 1
          /\ stage' \notin Working
      BY <2>5, Commands DEF Start, Ended, Copying, Working
    <3>2. QED
      BY <2>2, <2>3, <2>4, <3>1 DEF TearsOK
  <2>6. CASE NextPair
    <3>1. /\ stage = "next" /\ stage \notin Copying /\ stage' = "generate" /\ runs' = runs
      BY <2>6 DEF NextPair, Copying
    <3>2. Cardinality(Torn' \ {at'}) <= Cardinality(Torn) /\ Cardinality(Torn' \ {at'}) \in Nat
      BY <2>1, <2>2, <3>1, TakeOneAway
    <3>3. QED
      BY <2>2, <2>3, <3>1, <3>2 DEF TearsOK, Ended
  <2>7. CASE stage \in Working /\ UNCHANGED <<at, runs>> /\ stage' \in Working
    BY <2>2, <2>7, Commands DEF TearsOK, Working, Copying, Ended
  <2>8. CASE stage = "txt" /\ UNCHANGED <<at, runs>> /\ stage' = "next"
    <3>1. at \in Pairs /\ Complete(at)'
      <4>1. at \in Pairs /\ at <= at
        <5>1. at \in Pairs
          BY <2>8 DEF ExamplesInv, Working, Copying
        <5>2. at \in Nat
          BY <5>1, PairsAreNumbers
        <5>3. QED
          BY <5>1, <5>2
      <4>2. \A n \in Pairs : n <= at => dest'[n] = Same(Text(n, build'))
        BY <2>8 DEF ExamplesInv, DoneOK, Complete
      <4>3. QED
        BY <2>8, <4>1, <4>2 DEF Complete
    <3>2. at \notin Torn'
      <4>1. Text(at, build') \in Contents \ {Short} /\ dest'[at] = Same(Text(at, build'))
        BY <2>8, <3>1 DEF Complete, ExamplesInv, TypeOK, Contents, Text, Short
      <4>2. QED
        BY <4>1 DEF Torn
    <3>3. Torn' = Torn \ {at} /\ stage \in Working
      BY <2>2, <2>8, <3>2 DEF Working, Copying
    <3>4. QED
      BY <2>2, <2>8, <3>3, Commands DEF TearsOK, Working, Copying, Ended
  <2>9. CASE ~Ended /\ UNCHANGED runs /\ stage' \in {"exited", "killed"}
    <3>1. stage \in Working \/ stage = "next"
      BY <2>9, Commands DEF ExamplesInv, TypeOK, Ended, Working, Copying
    <3>2. stage' \notin Working /\ stage' # "next"
      BY <2>9, Commands DEF Working, Copying
    <3>3. stage = "next" => Torn' = Torn
      BY <2>2 DEF Copying
    <3>4. Cardinality(Torn') <= runs
      BY <2>2, <2>3, <2>4, <3>1, <3>3 DEF TearsOK
    <3>5. QED
      BY <2>9, <3>2, <3>4 DEF TearsOK
  <2>10. QED
    <3>1. CASE RunCmd
      BY <2>7, <2>9, <3>1, Commands
         DEF RunCmd, GoTo, Fail, Working, Copying, Ended
    <3>2. CASE ReadSignature
      BY <2>7, <2>9, <3>2, Commands
         DEF ReadSignature, GoTo, Fail, Working, Copying, Ended
    <3>3. CASE WriteAsm \/ WriteBin
      BY <2>7, <2>9, <3>3, Commands
         DEF WriteAsm, WriteBin, Write, GoTo, Fail, Killed, Working, Copying, Ended
    <3>4. CASE WriteTxt
      BY <2>8, <2>9, <3>4, Commands
         DEF WriteTxt, Write, GoTo, Fail, Killed, Working, Copying, Ended
    <3>5. CASE Raise \/ Kill \/ Done
      BY <2>9, <3>5 DEF Raise, Kill, Done, Killed, Fail, GoTo, Ended
    <3>6. QED
      BY <1>2, <2>5, <2>6, <3>1, <3>2, <3>3, <3>4, <3>5 DEF Next
<1>3. QED
  BY <1>1, <1>2

\* Of what any number of failed or killed runs leave, at most one example per
\* run has files that do not belong together.
THEOREM TearsAreBounded == Spec => []EachRunTearsOne
<1>1. Init => TearsOK
  <2> SUFFICES ASSUME Init PROVE TearsOK
    OBVIOUS
  <2>1. \A n \in Pairs : \E c \in Contents \ {Short} : dest[n] = Same(c)
    BY DEF Init, Contents, Text, Absent, Short
  <2>2. Torn = {} /\ stage = "idle" /\ runs = 0
    BY <2>1 DEF Torn, Init
  <2>3. QED
    BY <2>2, Commands, FS_EmptySet DEF TearsOK, Working, Copying
<1>2. ExamplesInv /\ TearsOK => EachRunTearsOne
  <2> SUFFICES ASSUME ExamplesInv, TearsOK PROVE Cardinality(Torn) <= runs
    BY DEF EachRunTearsOne
  <2>1. stage \in Working \/ stage = "next" \/ Ended
    BY Commands DEF ExamplesInv, TypeOK, Working, Copying, Ended
  <2>2. /\ Cardinality(Torn) \in Nat /\ Cardinality(Torn \ {at}) \in Nat
        /\ Cardinality(Torn) <= Cardinality(Torn \ {at}) + 1
    BY TakeOneAway DEF Torn
  <2>3. runs \in Nat
    BY ExamplesAssumption DEF ExamplesInv, TypeOK
  <2>4. QED
    BY <2>1, <2>2, <2>3 DEF TearsOK
<1>3. QED
  BY <1>1, <1>2, ExamplesSafety, NextTears, PTL DEF Spec
=============================================================================
