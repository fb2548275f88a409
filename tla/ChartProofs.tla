----------------------------- MODULE ChartProofs ----------------------------
(***************************************************************************)
(* The chart for every list of strategies, every set of hazards and every  *)
(* number of tests.                                                        *)
(*                                                                         *)
(* Fractions are pairs <<sum, divisor>> with a positive divisor, and       *)
(* AtMost orders them by cross-multiplication.  That a column has a        *)
(* maximum is not proved over the matrix at once but along the run: the    *)
(* rows filled so far have one (LeaderOK), the next row is compared with   *)
(* it, and when the rows are all filled the maximum that make_chart takes  *)
(* exists.                                                                 *)
(***************************************************************************)
EXTENDS Chart, WellFoundedInduction, TLAPS

Fractions == Nat \X (Nat \ {0})

-----------------------------------------------------------------------------
(***************************************************************************)
(* Arithmetic.                                                             *)
(***************************************************************************)
LEMMA ProductOrder ==
  ASSUME NEW p \in Nat, NEW q \in Nat, NEW k \in Nat \ {0}
  PROVE  /\ p * k \in Nat /\ k * p = p * k
         /\ p * k <= q * k <=> p <= q
<1>1. ASSUME NEW a \in Nat, NEW b \in Nat, a <= b
      PROVE  a * k <= b * k
  <2>1. b * k = a * k + (b - a) * k /\ b - a \in Nat
    BY <1>1
  <2>2. (b - a) * k >= 0 /\ a * k \in Int
    BY <2>1
  <2>3. QED
    BY <2>1, <2>2
<1>2. ASSUME q < p
      PROVE  q * k < p * k
  <2>1. q + 1 <= p
    BY <1>2
  <2>2. (q + 1) * k <= p * k
    BY <1>1, <2>1
  <2>3. (q + 1) * k = q * k + k
    OBVIOUS
  <2>4. QED
    BY <2>2, <2>3
<1>3. QED
  BY <1>1, <1>2

LEMMA AtMostTotal ==
  ASSUME NEW p \in Fractions, NEW q \in Fractions
  PROVE  AtMost(p, p) /\ (AtMost(p, q) \/ AtMost(q, p))
<1>1. /\ p[1] \in Nat /\ p[2] \in Nat /\ q[1] \in Nat /\ q[2] \in Nat
  BY DEF Fractions
<1>2. p[1] * q[2] \in Nat /\ q[1] * p[2] \in Nat /\ p[1] * p[2] \in Nat
  BY <1>1
<1>3. QED
  BY <1>2 DEF AtMost

LEMMA AtMostTransitive ==
  ASSUME NEW p \in Fractions, NEW q \in Fractions, NEW r \in Fractions,
         AtMost(p, q), AtMost(q, r)
  PROVE  AtMost(p, r)
<1>1. PICK a \in Nat, b \in Nat \ {0} : p = <<a, b>>
  BY DEF Fractions
<1>2. PICK c \in Nat, d \in Nat \ {0} : q = <<c, d>>
  BY DEF Fractions
<1>3. PICK e \in Nat, f \in Nat \ {0} : r = <<e, f>>
  BY DEF Fractions
<1>4. a * d <= c * b /\ c * f <= e * d
  BY <1>1, <1>2, <1>3 DEF AtMost
<1>5. (a * d) * f <= (c * b) * f /\ (c * f) * b <= (e * d) * b
  BY <1>4, ProductOrder
<1>6. /\ (a * d) * f = (a * f) * d /\ (c * b) * f = (c * f) * b
      /\ (e * d) * b = (e * b) * d
  OBVIOUS
<1>7. a * f \in Nat /\ e * b \in Nat /\ (a * f) * d \in Nat
      /\ (e * b) * d \in Nat /\ (c * f) * b \in Nat
  BY ProductOrder
<1>8. (a * f) * d <= (e * b) * d
  BY <1>5, <1>6, <1>7
<1>9. a * f <= e * b
  BY <1>7, <1>8, ProductOrder
<1>10. QED
  BY <1>1, <1>3, <1>9 DEF AtMost

\* Dividing both fractions of a pair by d keeps their order.
LEMMA DividedOrder ==
  ASSUME NEW p \in Fractions, NEW q \in Fractions,
         NEW d \in (Nat \ {0}) \X (Nat \ {0})
  PROVE  AtMost(<<p[1] * d[2], p[2] * d[1]>>, <<q[1] * d[2], q[2] * d[1]>>)
           <=> AtMost(p, q)
<1>1. PICK a \in Nat, b \in Nat \ {0} : p = <<a, b>>
  BY DEF Fractions
<1>2. PICK c \in Nat, e \in Nat \ {0} : q = <<c, e>>
  BY DEF Fractions
<1>3. PICK m \in Nat \ {0}, n \in Nat \ {0} : d = <<m, n>>
  OBVIOUS
<1> DEFINE k == n * m
<1>4. k \in Nat \ {0}
  BY ProductOrder
<1>5. /\ (a * n) * (e * m) = (a * e) * k
      /\ (c * n) * (b * m) = (c * b) * k
  OBVIOUS
<1> HIDE DEF k
<1>6. (a * e) * k <= (c * b) * k <=> a * e <= c * b
  <2>1. a * e \in Nat /\ c * b \in Nat
    BY ProductOrder
  <2>2. QED
    BY <1>4, <2>1, ProductOrder
<1>7. QED
  BY <1>1, <1>2, <1>3, <1>5, <1>6 DEF AtMost

-----------------------------------------------------------------------------
(***************************************************************************)
(* Sums of hits.                                                           *)
(***************************************************************************)
LEMMA EmptySum ==
  ASSUME NEW h, NEW ts, ts = <<>>
  PROVE  SumsTo(ts, h, 0)
<1> DEFINE run == [k \in 0 .. 0 |-> 0]
<1>1. run \in [0 .. 0 -> 0 .. 0] /\ run[0] = 0
  OBVIOUS
<1>2. Len(ts) = 0 /\ 1 .. 0 = {}
  OBVIOUS
<1> HIDE DEF run
<1>3. QED
  BY <1>1, <1>2 DEF SumsTo

\* One more text adds its hits to the sum.
LEMMA AppendSum ==
  ASSUME NEW h \in ALL_HAZARDS, NEW ts \in Seq(Texts), NEW text \in Texts,
         NEW v \in Nat, SumsTo(ts, h, v)
  PROVE  SumsTo(Append(ts, text), h, v + text[h])
<1> DEFINE n  == Len(ts)
           us == Append(ts, text)
           w  == v + text[h]
<1>1. text[h] \in Nat /\ w \in Nat /\ n \in Nat
  BY ChartAssumption DEF Texts
<1>2. PICK run \in [0 .. n -> 0 .. v] :
        /\ run[0] = 0 /\ run[n] = v
        /\ \A k \in 1 .. n : run[k] = run[k - 1] + ts[k][h]
  BY DEF SumsTo
<1> DEFINE longer == [k \in 0 .. n + 1 |-> IF k = n + 1 THEN w ELSE run[k]]
<1>3. /\ Len(us) = n + 1 /\ us[n + 1] = text
      /\ \A k \in 1 .. n : us[k] = ts[k]
  OBVIOUS
<1>4. longer \in [0 .. n + 1 -> 0 .. w]
  <2>1. ASSUME NEW k \in 0 .. n + 1
        PROVE  longer[k] \in 0 .. w
    <3>1. CASE k = n + 1
      BY <1>1, <3>1
    <3>2. CASE k # n + 1
      <4>1. k \in 0 .. n
        BY <1>1, <3>2
      <4>2. run[k] \in 0 .. v
        BY <1>2, <4>1
      <4>3. QED
        BY <1>1, <3>2, <4>2
    <3>3. QED
      BY <3>1, <3>2
  <2>2. QED
    BY <2>1
<1>5. longer[0] = 0 /\ longer[n + 1] = w
  BY <1>1, <1>2
<1>6. ASSUME NEW k \in 1 .. n + 1
      PROVE  longer[k] = longer[k - 1] + us[k][h]
  <2>1. CASE k = n + 1
    BY <1>1, <1>2, <1>3, <2>1
  <2>2. CASE k # n + 1
    <3>1. k \in 1 .. n /\ k - 1 \in 0 .. n /\ k - 1 # n + 1
      BY <1>1, <2>2
    <3>2. longer[k] = run[k] /\ longer[k - 1] = run[k - 1]
      BY <2>2, <3>1
    <3>3. QED
      BY <1>2, <1>3, <3>1, <3>2
  <2>3. QED
    BY <2>1, <2>2
<1> HIDE DEF longer, us, w, n
<1>7. SumsTo(us, h, w)
  BY <1>3, <1>4, <1>5, <1>6 DEF SumsTo
<1>8. QED
  BY <1>7 DEF us, w

\* A nonempty set of natural numbers has a least element.
LEMMA LeastElement ==
  ASSUME NEW T \in SUBSET Nat, T # {}
  PROVE  \E m \in T : \A n \in T : m <= n
<1>1. \E R : IsWellFoundedOn(R, Nat) /\ \A m, n \in Nat : <<n, m>> \in R <=> n < m
  <2>1. \A m, n \in Nat : <<n, m>> \in OpToRel(<, Nat) <=> n < m
    BY DEF OpToRel
  <2>2. QED
    BY <2>1, NatLessThanWellFounded
<1>2. PICK R : IsWellFoundedOn(R, Nat) /\ \A m, n \in Nat : <<n, m>> \in R <=> n < m
  BY <1>1
<1>3. PICK m \in T : \A n \in T : ~(<<n, m>> \in R)
  BY <1>2, WFMin
<1>4. ASSUME NEW n \in T
      PROVE  m <= n
  <2>1. m \in Nat /\ n \in Nat
    OBVIOUS
  <2>2. ~(n < m)
    BY <1>2, <1>3, <2>1, Zenon
  <2>3. QED
    BY <2>1, <2>2
<1>5. QED
  BY <1>4, Zenon

\* Texts have one sum: what SumsTo says of a number it says of no other.
LEMMA OneSum ==
  ASSUME NEW h \in ALL_HAZARDS, NEW ts \in Seq(Texts),
         NEW v \in Nat, NEW w \in Nat, SumsTo(ts, h, v), SumsTo(ts, h, w)
  PROVE  v = w
<1> DEFINE n == Len(ts)
<1>1. PICK f \in [0 .. n -> 0 .. v] :
        /\ f[0] = 0 /\ f[n] = v
        /\ \A k \in 1 .. n : f[k] = f[k - 1] + ts[k][h]
  BY DEF SumsTo
<1>2. PICK g \in [0 .. n -> 0 .. w] :
        /\ g[0] = 0 /\ g[n] = w
        /\ \A k \in 1 .. n : g[k] = g[k - 1] + ts[k][h]
  BY DEF SumsTo
<1>3. SUFFICES ASSUME v # w PROVE FALSE
  OBVIOUS
<1> DEFINE T == {k \in 0 .. n : f[k] # g[k]}
<1>4. n \in T /\ T \in SUBSET Nat
  BY <1>1, <1>2, <1>3
<1>5. PICK m \in T : \A k \in T : m <= k
  BY <1>4, LeastElement
<1>6. m \in 1 .. n /\ m - 1 \in 0 .. n /\ m - 1 < m
  BY <1>1, <1>2, <1>5
<1>7. f[m - 1] = g[m - 1]
  BY <1>5, <1>6
<1>8. QED
  BY <1>1, <1>2, <1>5, <1>6, <1>7

-----------------------------------------------------------------------------
(***************************************************************************)
(* The inductive invariant.                                                *)
(***************************************************************************)
ChartType ==
  /\ si \in 1 .. Len(STRATEGIES) + 1
  /\ totals \in [ALL_HAZARDS -> Nat] /\ valid \in Nat
  /\ made \in [Rows -> Seq(Texts)]
  /\ matrix \in [Rows -> [ALL_HAZARDS -> Fractions]]

\* The sums at hand are those of the strategy at hand, the ones to come start
\* from nothing.
SumsOK ==
  /\ si \in Rows =>
       /\ \A h \in ALL_HAZARDS : SumsTo(made[si], h, totals[h])
       /\ valid = Len(made[si])
  /\ \A s \in Rows : s > si => made[s] = <<>>
  /\ si \notin Rows => valid = 0

\* Among the rows filled so far one is the largest.
Leads(m, h) == m \in 1 .. si - 1 /\ \A s \in 1 .. si - 1 : AtMost(matrix[s][h], matrix[m][h])

LeaderOK == si > 1 => \A h \in ALL_HAZARDS : \E m \in Rows : Leads(m, h)

NormOK == norm # <<>> => si \notin Rows /\ NormalizedKeepsOrder

ChartInv ==
  /\ ChartType
  /\ SumsOK
  /\ RowIsAverageOfOwnTexts
  /\ LeaderOK
  /\ NormOK

LEMMA RowFacts ==
  /\ Len(STRATEGIES) \in Nat /\ Len(STRATEGIES) > 0
  /\ N_TESTS \in Nat /\ 1 \in Rows /\ Rows \subseteq Nat \ {0}
BY ChartAssumption DEF Rows

LEMMA InitChart == Init => ChartInv
<1> SUFFICES ASSUME Init PROVE ChartInv
  OBVIOUS
<1>1. ChartType
  BY RowFacts DEF Init, ChartType, NoHits, Fractions
<1>2. SumsOK
  <2>1. \A h \in ALL_HAZARDS : totals[h] = 0
    BY DEF Init, NoHits
  <2>2. \A s \in Rows : made[s] = <<>>
    BY DEF Init
  <2>3. \A h \in ALL_HAZARDS : SumsTo(made[si], h, totals[h])
    BY <2>1, <2>2, EmptySum, RowFacts DEF Init
  <2>4. si \in Rows /\ valid = 0 /\ Len(made[si]) = 0
    BY <2>2, RowFacts DEF Init
  <2>5. QED
    BY <2>2, <2>3, <2>4 DEF SumsOK
<1>3. RowIsAverageOfOwnTexts /\ LeaderOK /\ NormOK
  BY DEF Init, RowIsAverageOfOwnTexts, LeaderOK, NormOK
<1>4. QED
  BY <1>1, <1>2, <1>3 DEF ChartInv

\* What a call and the matrix have in common: the rows already filled.
LEMMA FilledRows ==
  ASSUME ChartInv, NEW s \in 1 .. si - 1
  PROVE  s \in Rows /\ s # si
BY RowFacts DEF ChartInv, ChartType, Rows

LEMMA TestStep ==
  ASSUME ChartInv, Test
  PROVE  ChartInv'
<1>1. PICK status \in {0, 1} :
        Call(status) /\ IF status = 0 THEN Count ELSE UNCHANGED <<totals, valid>>
  BY DEF Test
<1>2. /\ si \in Rows /\ UNCHANGED <<si, matrix, norm>> /\ asm' \in Texts
      /\ made' = IF status = 0
                 THEN [made EXCEPT ![si] = Append(@, asm')] ELSE made
  BY <1>1 DEF Call
<1>3. made[si] \in Seq(Texts) /\ totals \in [ALL_HAZARDS -> Nat] /\ valid \in Nat
  BY <1>2 DEF ChartInv, ChartType
<1>4. norm = <<>>
  BY <1>2 DEF ChartInv, NormOK
<1>5. \A s \in Rows : s # si => made'[s] = made[s]
  BY <1>2 DEF ChartInv, ChartType
<1>6. ChartType' /\ (\A h \in ALL_HAZARDS : SumsTo(made'[si], h, totals'[h]))
      /\ valid' = Len(made'[si])
  <2>1. CASE status = 0
    <3>1. /\ totals' = [h \in ALL_HAZARDS |-> totals[h] + asm'[h]]
          /\ valid' = valid + 1
      BY <1>1, <2>1 DEF Count
    <3>2. made'[si] = Append(made[si], asm') /\ made'[si] \in Seq(Texts)
      BY <1>2, <1>3, <2>1 DEF ChartInv, ChartType
    <3>3. ASSUME NEW h \in ALL_HAZARDS
          PROVE  SumsTo(made'[si], h, totals'[h]) /\ totals'[h] \in Nat
      <4>1. SumsTo(made[si], h, totals[h]) /\ totals[h] \in Nat
        BY <1>2, <1>3 DEF ChartInv, SumsOK
      <4>2. SumsTo(made'[si], h, totals[h] + asm'[h])
        BY <1>2, <1>3, <3>2, <4>1, AppendSum
      <4>3. asm'[h] \in Nat
        BY <1>2, ChartAssumption DEF Texts
      <4>4. QED
        BY <3>1, <4>1, <4>2, <4>3
    <3>4. valid' = Len(made'[si]) /\ valid' \in Nat
      BY <1>2, <1>3, <3>1, <3>2 DEF ChartInv, SumsOK
    <3>5. totals' \in [ALL_HAZARDS -> Nat]
      BY <3>1, <3>3
    <3>6. made' \in [Rows -> Seq(Texts)]
      BY <1>2, <2>1, <3>2 DEF ChartInv, ChartType
    <3>7. QED
      BY <1>2, <3>3, <3>4, <3>5, <3>6 DEF ChartInv, ChartType
  <2>2. CASE status # 0
    BY <1>1, <1>2, <2>2 DEF ChartInv, ChartType, SumsOK
  <2>3. QED
    BY <2>1, <2>2
<1>7. SumsOK'
  BY <1>2, <1>5, <1>6, RowFacts DEF ChartInv, SumsOK
<1>8. RowIsAverageOfOwnTexts'
  BY <1>2, <1>5, FilledRows DEF ChartInv, RowIsAverageOfOwnTexts
<1>9. LeaderOK' /\ NormOK'
  BY <1>2, <1>4 DEF ChartInv, LeaderOK, Leads, NormOK
<1>10. QED
  BY <1>6, <1>7, <1>8, <1>9 DEF ChartInv

\* The next row is the largest, or the largest so far stays it.
LEMMA NextLeader ==
  ASSUME ChartInv, si \in Rows, si' = si + 1, NEW h \in ALL_HAZARDS,
         matrix' \in [Rows -> [ALL_HAZARDS -> Fractions]],
         \A s \in Rows : s # si => matrix'[s] = matrix[s]
  PROVE  \E m \in Rows : Leads(m, h)'
<1> DEFINE Q(s) == matrix'[s][h]
<1>1. /\ si \in Nat /\ si >= 1 /\ 1 .. si' - 1 \subseteq Rows
      /\ \A s \in 1 .. si' - 1 : s \in 1 .. si - 1 \/ s = si
  BY RowFacts DEF Rows
<1>2. \A s \in Rows : Q(s) \in Fractions
  OBVIOUS
<1>3. \A s \in 1 .. si - 1 : s \in Rows /\ Q(s) = matrix[s][h]
  BY FilledRows
<1>4. ASSUME NEW m \in Rows, m \in 1 .. si' - 1,
             \A s \in 1 .. si' - 1 : AtMost(Q(s), Q(m))
      PROVE  Leads(m, h)'
  BY <1>4 DEF Leads, AtMost
<1>5. AtMost(Q(si), Q(si))
  BY <1>2, AtMostTotal
<1>6. si \in 1 .. si' - 1
  BY <1>1
<1> HIDE DEF Q
<1>7. CASE si = 1
  <2>1. \A s \in 1 .. si' - 1 : AtMost(Q(s), Q(si))
    BY <1>1, <1>5, <1>7
  <2>2. QED
    BY <1>4, <1>6, <2>1
<1>8. CASE si > 1
  <2>1. PICK m \in Rows : Leads(m, h)
    BY <1>8 DEF ChartInv, LeaderOK
  <2>2. m \in 1 .. si - 1 /\ \A s \in 1 .. si - 1 : AtMost(Q(s), Q(m))
    BY <1>3, <2>1 DEF Leads
  <2>3. m \in 1 .. si' - 1
    BY <1>1, <2>2
  <2>4. CASE AtMost(Q(si), Q(m))
    <3>1. \A s \in 1 .. si' - 1 : AtMost(Q(s), Q(m))
      BY <1>1, <2>2, <2>4
    <3>2. QED
      BY <1>4, <2>3, <3>1
  <2>5. CASE AtMost(Q(m), Q(si))
    <3>1. ASSUME NEW s \in 1 .. si' - 1
          PROVE  AtMost(Q(s), Q(si))
      <4>1. CASE s = si
        BY <1>5, <4>1
      <4>2. CASE s \in 1 .. si - 1
        BY <1>2, <1>3, <2>2, <2>5, <4>2, AtMostTransitive
      <4>3. QED
        BY <1>1, <4>1, <4>2
    <3>2. QED
      BY <1>4, <1>6, <3>1
  <2>6. QED
    BY <1>2, <2>4, <2>5, AtMostTotal
<1>9. QED
  BY <1>1, <1>7, <1>8

LEMMA NextStrategyStep ==
  ASSUME ChartInv, NextStrategy
  PROVE  ChartInv'
<1>1. /\ si \in Rows /\ si' = si + 1
      /\ matrix' = IF valid > 0
           THEN [matrix EXCEPT ![si] = [h \in ALL_HAZARDS |-> <<totals[h], valid>>]]
           ELSE matrix
      /\ totals' = NoHits /\ valid' = 0
      /\ UNCHANGED <<norm, made>>
  BY DEF NextStrategy
<1>2. ChartType
  BY DEF ChartInv
<1>3. \A s \in Rows : s # si => matrix'[s] = matrix[s]
  BY <1>1, <1>2 DEF ChartType
<1>4. valid > 0 => \A h \in ALL_HAZARDS : matrix'[si][h] = <<totals[h], valid>>
  BY <1>1, <1>2 DEF ChartType
<1>5. matrix' \in [Rows -> [ALL_HAZARDS -> Fractions]]
  <2>1. ASSUME valid > 0
        PROVE  [h \in ALL_HAZARDS |-> <<totals[h], valid>>] \in [ALL_HAZARDS -> Fractions]
    BY <1>2, <2>1 DEF ChartType, Fractions
  <2>2. QED
    BY <1>1, <1>2, <2>1 DEF ChartType
<1>6. ChartType'
  <2>1. si' \in 1 .. Len(STRATEGIES) + 1
    BY <1>1, RowFacts DEF Rows
  <2>2. totals' \in [ALL_HAZARDS -> Nat] /\ valid' \in Nat
    BY <1>1 DEF NoHits
  <2>3. QED
    BY <1>1, <1>2, <1>5, <2>1, <2>2 DEF ChartType
<1>7. SumsOK'
  <2>1. \A s \in Rows : s > si => made'[s] = <<>>
    BY <1>1 DEF ChartInv, SumsOK
  <2>2. \A s \in Rows : s > si' => made'[s] = <<>>
    BY <1>1, <2>1, RowFacts
  <2>3. ASSUME si' \in Rows
        PROVE  /\ \A h \in ALL_HAZARDS : SumsTo(made'[si'], h, totals'[h])
               /\ valid' = Len(made'[si'])
    <3>1. made'[si'] = <<>>
      BY <1>1, <2>1, <2>3, RowFacts
    <3>2. \A h \in ALL_HAZARDS : totals'[h] = 0
      BY <1>1 DEF NoHits
    <3>3. QED
      BY <1>1, <3>1, <3>2, EmptySum
  <2>4. QED
    BY <1>1, <2>2, <2>3 DEF SumsOK
<1>8. RowIsAverageOfOwnTexts'
  <2>1. ASSUME NEW s \in 1 .. si' - 1, made'[s] # <<>>, NEW h \in ALL_HAZARDS
        PROVE  SumsTo(made'[s], h, matrix'[s][h][1]) /\ matrix'[s][h][2] = Len(made'[s])
    <3>1. CASE s = si
      <4>1. SumsTo(made[si], h, totals[h]) /\ valid = Len(made[si])
        BY <1>1 DEF ChartInv, SumsOK
      <4>2. made[si] \in Seq(Texts) /\ made[si] # <<>>
        BY <1>1, <1>2, <2>1, <3>1 DEF ChartType
      <4>3. valid > 0
        BY <4>1, <4>2
      <4>4. matrix'[s][h] = <<totals[h], valid>>
        BY <1>4, <3>1, <4>3
      <4>5. matrix'[s][h][1] = totals[h] /\ matrix'[s][h][2] = valid
        BY <4>4
      <4>6. made'[s] = made[si]
        BY <1>1, <3>1
      <4>7. QED
        BY <4>1, <4>5, <4>6
    <3>2. CASE s # si
      <4>1. s \in 1 .. si - 1
        BY <1>1, <3>2, RowFacts
      <4>2. matrix'[s] = matrix[s]
        BY <1>3, <4>1, FilledRows
      <4>3. QED
        BY <1>1, <2>1, <4>1, <4>2 DEF ChartInv, RowIsAverageOfOwnTexts
    <3>3. QED
      BY <3>1, <3>2
  <2>2. QED
    BY <2>1 DEF RowIsAverageOfOwnTexts
<1>9. LeaderOK'
  BY <1>1, <1>3, <1>5, NextLeader DEF LeaderOK
<1>10. NormOK'
  BY <1>1 DEF ChartInv, NormOK
<1>11. QED
  BY <1>6, <1>7, <1>8, <1>9, <1>10 DEF ChartInv

-----------------------------------------------------------------------------
(***************************************************************************)
(* The normalized columns.                                                 *)
(***************************************************************************)
LEMMA MaximumExists ==
  ASSUME ChartInv, si \notin Rows, NEW h \in ALL_HAZARDS
  PROVE  /\ \E m \in Rows : ColMax(h) = matrix[m][h]
         /\ \A s \in Rows : AtMost(matrix[s][h], ColMax(h))
<1>1. si = Len(STRATEGIES) + 1 /\ si > 1 /\ 1 .. si - 1 = Rows
  BY RowFacts DEF ChartInv, ChartType, Rows
<1>2. PICK m \in Rows : Leads(m, h)
  BY <1>1 DEF ChartInv, LeaderOK
<1>3. \A s \in Rows : AtMost(matrix[s][h], matrix[m][h])
  BY <1>1, <1>2 DEF Leads
<1> DEFINE column == {matrix[s][h] : s \in Rows}
           P(c) == \A s \in Rows : AtMost(matrix[s][h], c)
<1>4. matrix[m][h] \in column /\ P(matrix[m][h])
  BY <1>3
<1>5. ColMax(h) = CHOOSE c \in column : P(c)
  BY DEF ColMax
<1> HIDE DEF P
<1>6. ColMax(h) \in column /\ P(ColMax(h))
  BY <1>4, <1>5
<1>7. QED
  BY <1>6 DEF P

LEMMA NormalizeStep ==
  ASSUME ChartInv, Normalize
  PROVE  ChartInv'
<1>1. /\ si \notin Rows
      /\ norm' = [s \in Rows |-> [h \in ALL_HAZARDS |->
           <<matrix[s][h][1] * Divisor(h)[2], matrix[s][h][2] * Divisor(h)[1]>>]]
      /\ UNCHANGED <<si, totals, valid, matrix, made>>
  BY DEF Normalize
<1>2. ASSUME NEW h \in ALL_HAZARDS
      PROVE  /\ \A s \in Rows : norm'[s][h][2] > 0 /\ norm'[s][h][1] \in 0 .. norm'[s][h][2]
             /\ \A s, t \in Rows :
                  AtMost(norm'[s][h], norm'[t][h]) <=> AtMost(matrix[s][h], matrix[t][h])
             /\ (\E s \in Rows : matrix[s][h][1] > 0)
                  => \E s \in Rows : norm'[s][h][1] = norm'[s][h][2]
  <2> DEFINE d == Divisor(h)
             top == ColMax(h)
             Q(s) == matrix[s][h]
  <2>1. PICK m \in Rows : top = Q(m)
    BY <1>1, MaximumExists
  <2>2. \A s \in Rows : AtMost(Q(s), top)
    BY <1>1, MaximumExists
  <2>3. \A s \in Rows : Q(s) \in Fractions
    BY DEF ChartInv, ChartType
  <2>4. d = IF top[1] = 0 THEN <<1, 1>> ELSE top
    BY DEF Divisor
  <2>5. \A s \in Rows : norm'[s][h] = <<Q(s)[1] * d[2], Q(s)[2] * d[1]>>
    BY <1>1
  <2> HIDE DEF d, top, Q
  <2>6. top \in Fractions
    BY <2>1, <2>3
  <2>7. d \in (Nat \ {0}) \X (Nat \ {0})
    BY <2>4, <2>6 DEF Fractions
  <2>8. ASSUME NEW s \in Rows
        PROVE  norm'[s][h][2] > 0 /\ norm'[s][h][1] \in 0 .. norm'[s][h][2]
    <3>1. PICK a \in Nat, b \in Nat \ {0} : Q(s) = <<a, b>>
      BY <2>3 DEF Fractions
    <3>2. PICK c \in Nat, e \in Nat \ {0} : top = <<c, e>>
      BY <2>6 DEF Fractions
    <3>3. a * e <= c * b
      BY <2>2, <3>1, <3>2 DEF AtMost
    <3>4. CASE c = 0
      <4>1. a = 0
        <5>1. a * e <= 0 * e
          BY <3>3, <3>4
        <5>2. a <= 0
          BY <5>1, ProductOrder
        <5>3. QED
          BY <5>2
      <4>2. norm'[s][h] = <<0, b>>
        BY <2>4, <2>5, <3>1, <3>2, <3>4, <4>1
      <4>3. QED
        BY <4>2
    <3>5. CASE c # 0
      <4>1. norm'[s][h] = <<a * e, b * c>>
        BY <2>4, <2>5, <3>1, <3>2, <3>5
      <4>2. a * e \in Nat /\ b * c \in Nat /\ c * b = b * c /\ b * c > 0
        BY <3>5, ProductOrder
      <4>3. QED
        BY <3>3, <4>1, <4>2
    <3>6. QED
      BY <3>4, <3>5
  <2>9. \A s, t \in Rows : AtMost(norm'[s][h], norm'[t][h]) <=> AtMost(Q(s), Q(t))
    BY <2>3, <2>5, <2>7, DividedOrder
  <2>10. ASSUME NEW s \in Rows, Q(s)[1] > 0
         PROVE  norm'[m][h][1] = norm'[m][h][2]
    <3>1. PICK a \in Nat, b \in Nat \ {0} : Q(s) = <<a, b>>
      BY <2>3 DEF Fractions
    <3>2. PICK c \in Nat, e \in Nat \ {0} : top = <<c, e>>
      BY <2>6 DEF Fractions
    <3>3. c # 0
      <4>1. SUFFICES ASSUME c = 0 PROVE FALSE
        OBVIOUS
      <4>2. a * e <= 0 * e
        BY <2>2, <3>1, <3>2, <4>1 DEF AtMost
      <4>3. a <= 0
        BY <4>2, ProductOrder
      <4>4. Q(s)[1] = a
        BY <3>1
      <4>5. QED
        BY <2>10, <4>3, <4>4
    <3>4. Q(m)[1] = c /\ Q(m)[2] = e
      BY <2>1, <3>2
    <3>5. d[1] = c /\ d[2] = e
      BY <2>4, <3>2, <3>3
    <3>6. norm'[m][h] = <<c * e, e * c>>
      BY <2>5, <3>4, <3>5
    <3>7. QED
      BY <3>6, ProductOrder
  <2>11. QED
    BY <2>8, <2>9, <2>10 DEF Q
<1>3. NormalizedKeepsOrder'
  BY <1>1, <1>2 DEF NormalizedKeepsOrder, AtMost
<1>4. NormOK'
  BY <1>1, <1>3 DEF NormOK
<1>5. QED
  BY <1>1, <1>4 DEF ChartInv, ChartType, SumsOK, RowIsAverageOfOwnTexts,
     LeaderOK, Leads

LEMMA NextChart == ChartInv /\ [Next]_vars => ChartInv'
<1> SUFFICES ASSUME ChartInv, [Next]_vars PROVE ChartInv'
  OBVIOUS
<1>1. CASE UNCHANGED vars
  BY <1>1 DEF vars, ChartInv, ChartType, SumsOK, RowIsAverageOfOwnTexts,
     LeaderOK, Leads, NormOK, NormalizedKeepsOrder
<1>2. QED
  BY <1>1, TestStep, NextStrategyStep, NormalizeStep DEF Next

\* The invariant holds in every state of the chart driver.
THEOREM ChartIsSound == Spec => []ChartInv
BY InitChart, NextChart, PTL DEF Spec

\* A row is the average over the texts of its own strategy's calls that exited
\* with 0.
THEOREM RowsAverageOwnTexts == Spec => []RowIsAverageOfOwnTexts
<1>1. ChartInv => RowIsAverageOfOwnTexts
  BY DEF ChartInv
<1>2. QED
  BY <1>1, ChartIsSound, PTL

\* The heat map shows every column in the order of the averages, between 0
\* and 1, with 1 for its largest.
THEOREM HeatMapKeepsOrder == Spec => []NormalizedKeepsOrder
<1>1. ChartInv => NormalizedKeepsOrder
  BY DEF ChartInv, NormOK, NormalizedKeepsOrder
<1>2. QED
  BY <1>1, ChartIsSound, PTL
=============================================================================
