---------------------------- MODULE LegalProgram ----------------------------
(***************************************************************************)
(* What a generator promises of the text between prologue and epilogue,    *)
(* whatever its port and strategy: the text only grows, every addition is  *)
(* safe to execute after what is already there, and a complete text never  *)
(* changes.  A branch is added together with what it skips and the label   *)
(* it goes to, so that the text can be executed after every addition.      *)
(***************************************************************************)
EXTENDS Aarch64

CONSTANTS
  Gprs,      \* the registers
  Reserved,  \* the registers the text must not write
  MemSize    \* bytes it may load and store

VARIABLES text, complete

legalVars == <<text, complete>>

LegalInit == text = <<>> /\ complete = FALSE

\* Line i of t reads what earlier lines have written and touches nothing it
\* must not touch.
Executable(t, i) ==
  /\ t[i] \in InsnOver(Gprs)
  /\ t[i].dst \notin Reserved
  /\ IsMem(t[i]) => t[i].arg + 8 <= MemSize
  /\ \A r \in Reads(t[i]) : \E j \in 1 .. i - 1 : t[j].dst = r
  /\ t[i].op = "LDR" =>
       \E j \in 1 .. i - 1 : t[j].op = "STR" /\ t[j].arg = t[i].arg

StraightLine(t, lines) ==
  \A i \in lines : ~IsBranch(t[i]) /\ t[i].op # "LABEL"

\* A branch at line i over one NOP, to a label no earlier line defines.
SkipsOneNop(t, i) ==
  /\ IsBranch(t[i]) /\ t[i + 1] = Nop /\ t[i + 2] = Label(t[i].arg)
  /\ \A j \in 1 .. i - 1 : t[j] # Label(t[i].arg)

Extend ==
  LET n     == Len(text)
      added == n + 1 .. Len(text')
  IN /\ ~complete /\ UNCHANGED complete
     /\ added # {} /\ \A i \in 1 .. n : text'[i] = text[i]
     /\ \A i \in added : Executable(text', i)
     /\ \/ StraightLine(text', added)
        \/ added = n + 1 .. n + 3 /\ SkipsOneNop(text', n + 1)

Finish == ~complete /\ complete' = TRUE /\ UNCHANGED text

LegalSpec == LegalInit /\ [][Extend \/ Finish]_legalVars
=============================================================================
