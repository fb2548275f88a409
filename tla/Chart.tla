------------------------------- MODULE Chart --------------------------------
(***************************************************************************)
(* gen_chart.py: N_TESTS texts are generated under each strategy, one      *)
(* after the other into one and the same file, and the hazards counted in  *)
(* them averaged into a matrix of strategies and hazards, whose columns    *)
(* are then normalized for the heat map.  A text is abstracted to the      *)
(* hazards counted in it, and a text cut short is one with fewer of them:  *)
(* the generator exits with 0 also when it could not write all of it, and  *)
(* nobody can tell.                                                        *)
(***************************************************************************)
EXTENDS Integers, Sequences

CONSTANTS
  STRATEGIES,   \* the strategies, in order
  ALL_HAZARDS,  \* the hazards
  N_TESTS,      \* tests per strategy
  MaxHits       \* bound: how often a text holds one hazard

ASSUME ChartAssumption ==
  /\ STRATEGIES \in Seq(STRING) /\ STRATEGIES # <<>>
  /\ N_TESTS \in Nat /\ MaxHits \in Nat

Rows  == 1 .. Len(STRATEGIES)
Texts == [ALL_HAZARDS -> 0 .. MaxHits]
NoHits == [h \in ALL_HAZARDS |-> 0]

VARIABLES
  asm,     \* the file every generator call writes to
  si,      \* the strategy at hand
  tests,   \* calls made under it
  totals,  \* hazards counted under it
  valid,   \* texts counted under it
  matrix,  \* per strategy and hazard the average count, <<sum, divisor>>
  norm,    \* the matrix after normalization, <<>> before
  made     \* history: per strategy, the texts of the calls that exited with 0

vars == <<asm, si, tests, totals, valid, matrix, norm, made>>

Init ==
  /\ asm = NoHits
  /\ si = 1 /\ tests = 0
  /\ totals = NoHits /\ valid = 0
  /\ matrix = [s \in Rows |-> [h \in ALL_HAZARDS |-> <<0, 1>>]]
  /\ norm = <<>>
  /\ made = [s \in Rows |-> <<>>]

\* A generator call that exits with 0 has replaced the file by a text of its
\* own, whole or cut short; one that does not leaves there whatever an earlier
\* call wrote, perhaps under an earlier strategy, or the beginning of its own.
Call(status) ==
  /\ si \in Rows /\ tests < N_TESTS
  /\ tests' = tests + 1
  /\ asm' \in Texts
  /\ made' = IF status = 0 THEN [made EXCEPT ![si] = Append(@, asm')] ELSE made
  /\ UNCHANGED <<si, matrix, norm>>

Count ==
  /\ totals' = [h \in ALL_HAZARDS |-> totals[h] + asm'[h]]
  /\ valid' = valid + 1

\* Mutant: counts what is in the file, whatever became of the call.
BugTest == \E status \in {0, 1} : Call(status) /\ Count

\* One pass of the inner loop: a call that fails is passed over.
Test ==
  \E status \in {0, 1} :
    /\ Call(status)
    /\ IF status = 0 THEN Count ELSE UNCHANGED <<totals, valid>>

\* Mutant: the sums run on into the next strategy.
BugNextStrategy ==
  /\ si \in Rows /\ tests = N_TESTS
  /\ matrix' = IF valid > 0
               THEN [matrix EXCEPT ![si] = [h \in ALL_HAZARDS |-> <<totals[h], valid>>]]
               ELSE matrix
  /\ si' = si + 1 /\ tests' = 0
  /\ UNCHANGED <<asm, totals, valid, norm, made>>

\* The row is filled, unless no call succeeded, and the sums start afresh.
NextStrategy ==
  /\ si \in Rows /\ tests = N_TESTS
  /\ matrix' = IF valid > 0
               THEN [matrix EXCEPT ![si] = [h \in ALL_HAZARDS |-> <<totals[h], valid>>]]
               ELSE matrix
  /\ si' = si + 1 /\ tests' = 0
  /\ totals' = NoHits /\ valid' = 0
  /\ UNCHANGED <<asm, norm, made>>

AtMost(p, q) == p[1] * q[2] <= q[1] * p[2]

ColMax(h) ==
  CHOOSE c \in {matrix[s][h] : s \in Rows} : \A s \in Rows : AtMost(matrix[s][h], c)

\* Mutant: an empty column is divided by its maximum too.
BugDivisor(h) == ColMax(h)

\* A column of zeros is divided by one.
Divisor(h) == IF ColMax(h)[1] = 0 THEN <<1, 1>> ELSE ColMax(h)

Normalize ==
  /\ si \notin Rows /\ norm = <<>>
  /\ norm' = [s \in Rows |-> [h \in ALL_HAZARDS |->
                <<matrix[s][h][1] * Divisor(h)[2], matrix[s][h][2] * Divisor(h)[1]>>]]
  /\ UNCHANGED <<asm, si, tests, totals, valid, matrix, made>>

Next == Test \/ NextStrategy \/ Normalize

Spec == Init /\ [][Next]_vars

-----------------------------------------------------------------------------
\* v is the sum over the texts ts of the hits of h: a running total that
\* starts at 0 and takes in one text after the other ends at v.
SumsTo(ts, h, v) ==
  \E run \in [0 .. Len(ts) -> 0 .. v] :
    /\ run[0] = 0 /\ run[Len(ts)] = v
    /\ \A k \in 1 .. Len(ts) : run[k] = run[k - 1] + ts[k][h]

\* A row of the matrix is the average over the texts of those calls under its
\* own strategy that exited with 0, a text cut short without notice among them:
\* what a failed call leaves in the file is never counted, under this strategy
\* or the next.
RowIsAverageOfOwnTexts ==
  \A s \in 1 .. si - 1 : made[s] # <<>> =>
    \A h \in ALL_HAZARDS :
      SumsTo(made[s], h, matrix[s][h][1]) /\ matrix[s][h][2] = Len(made[s])

\* The heat map shows every column between 0 and 1, in the order of the
\* averages, and the largest of a column that has any hazard as 1, although
\* rows average over different numbers of texts.
NormalizedKeepsOrder ==
  norm # <<>> => \A h \in ALL_HAZARDS :
    /\ \A s \in Rows : norm[s][h][2] > 0 /\ norm[s][h][1] \in 0 .. norm[s][h][2]
    /\ \A s, t \in Rows :
         AtMost(norm[s][h], norm[t][h]) <=> AtMost(matrix[s][h], matrix[t][h])
    /\ (\E s \in Rows : matrix[s][h][1] > 0) => \E s \in Rows : norm[s][h][1] = norm[s][h][2]
=============================================================================
