---------------------------- MODULE ProgressProofs ----------------------------
(***************************************************************************)
(* Nobody gets nearer for ever, since the order of Progress is             *)
(* well-founded (NearerEnds: a fact about the order, which says what the   *)
(* properties stated with Nearer are worth); and the first number that     *)
(* differs decides.                                                        *)
(***************************************************************************)
EXTENDS Progress, WellFoundedInduction, TLAPS

NumbersBelow == {pair \in Nat \X Nat : pair[1] < pair[2]}

LEMMA NumbersEnd == IsWellFoundedOn(NumbersBelow, Nat)
BY NatLessThanWellFounded DEF OpToRel, NumbersBelow

\* However long the tuples are, and whatever the numbers in them: no sequence
\* of them in which each is nearer than the one before goes on for ever.
LEMMA NearerEnds ==
  ASSUME NEW n \in Nat
  PROVE  ~ \E f \in [Nat -> [1 .. n -> Nat]] : \A i \in Nat : Nearer(f[i + 1], f[i])
<1> DEFINE order == LexProductOrdering(NumbersBelow, Nat, n)
<1>1. ~ \E f \in [Nat -> [1 .. n -> Nat]] : \A i \in Nat : <<f[i + 1], f[i]>> \in order
  <2>1. IsWellFoundedOn(order, [1 .. n -> Nat])
    BY NumbersEnd, WFLexProductOrdering
  <2> QED BY <2>1 DEF IsWellFoundedOn
<1>2. ASSUME NEW now \in [1 .. n -> Nat], NEW before \in [1 .. n -> Nat], Nearer(now, before)
      PROVE  <<now, before>> \in order
  <2>1. PICK k \in 1 .. n : now[k] < before[k] /\ \A i \in 1 .. k - 1 : now[i] = before[i]
    BY <1>2 DEF Nearer
  <2>2. <<now[k], before[k]>> \in NumbersBelow
    BY <2>1 DEF NumbersBelow
  <2> QED BY <2>1, <2>2 DEF LexProductOrdering
<1> HIDE DEF order
<1>3. ASSUME NEW f \in [Nat -> [1 .. n -> Nat]], \A i \in Nat : Nearer(f[i + 1], f[i]) PROVE FALSE
  <2>1. \A i \in Nat : f[i + 1] \in [1 .. n -> Nat] /\ f[i] \in [1 .. n -> Nat]
    OBVIOUS
  <2>2. \A i \in Nat : <<f[i + 1], f[i]>> \in order
    BY <1>2, <1>3, <2>1
  <2> QED BY <1>1, <2>2
<1> QED BY <1>3

\* A tuple is nearer by its first number that differs.
LEMMA NearerOfThree ==
  ASSUME NEW a \in Nat, NEW b \in Nat, NEW c \in Nat,
         NEW v \in Nat, NEW w \in Nat, NEW x \in Nat,
         \/ a < v
         \/ a = v /\ b < w
         \/ a = v /\ b = w /\ c < x
  PROVE  Nearer(<<a, b, c>>, <<v, w, x>>)
<1> DEFINE now == <<a, b, c>>
           before == <<v, w, x>>
<1>1. DOMAIN now = 1 .. 3 /\ 1 \in 1 .. 3 /\ 2 \in 1 .. 3 /\ 3 \in 1 .. 3
  OBVIOUS
<1>2. CASE a < v
  <2>1. now[1] < before[1] /\ \A i \in 1 .. 1 - 1 : now[i] = before[i]
    BY <1>2
  <2> HIDE DEF now, before
  <2> QED BY <1>1, <2>1 DEF Nearer
<1>3. CASE a = v /\ b < w
  <2>1. now[2] < before[2] /\ \A i \in 1 .. 2 - 1 : now[i] = before[i]
    BY <1>3
  <2> HIDE DEF now, before
  <2> QED BY <1>1, <2>1 DEF Nearer
<1>4. CASE a = v /\ b = w /\ c < x
  <2>1. now[3] < before[3] /\ \A i \in 1 .. 3 - 1 : now[i] = before[i]
    BY <1>4
  <2> HIDE DEF now, before
  <2> QED BY <1>1, <2>1 DEF Nearer
<1> QED BY <1>2, <1>3, <1>4

LEMMA NearerOfFour ==
  ASSUME NEW a \in Nat, NEW b \in Nat, NEW c \in Nat, NEW d \in Nat,
         NEW v \in Nat, NEW w \in Nat, NEW x \in Nat, NEW y \in Nat,
         \/ a < v
         \/ a = v /\ b < w
         \/ a = v /\ b = w /\ c < x
         \/ a = v /\ b = w /\ c = x /\ d < y
  PROVE  Nearer(<<a, b, c, d>>, <<v, w, x, y>>)
<1> DEFINE now == <<a, b, c, d>>
           before == <<v, w, x, y>>
<1>1. DOMAIN now = 1 .. 4 /\ 1 \in 1 .. 4 /\ 2 \in 1 .. 4 /\ 3 \in 1 .. 4 /\ 4 \in 1 .. 4
  OBVIOUS
<1>2. CASE a < v
  <2>1. now[1] < before[1] /\ \A i \in 1 .. 1 - 1 : now[i] = before[i]
    BY <1>2
  <2> HIDE DEF now, before
  <2> QED BY <1>1, <2>1 DEF Nearer
<1>3. CASE a = v /\ b < w
  <2>1. now[2] < before[2] /\ \A i \in 1 .. 2 - 1 : now[i] = before[i]
    BY <1>3
  <2> HIDE DEF now, before
  <2> QED BY <1>1, <2>1 DEF Nearer
<1>4. CASE a = v /\ b = w /\ c < x
  <2>1. now[3] < before[3] /\ \A i \in 1 .. 3 - 1 : now[i] = before[i]
    BY <1>4
  <2> HIDE DEF now, before
  <2> QED BY <1>1, <2>1 DEF Nearer
<1>5. CASE a = v /\ b = w /\ c = x /\ d < y
  <2>1. now[4] < before[4] /\ \A i \in 1 .. 4 - 1 : now[i] = before[i]
    BY <1>5
  <2> HIDE DEF now, before
  <2> QED BY <1>1, <2>1 DEF Nearer
<1> QED BY <1>2, <1>3, <1>4, <1>5

LEMMA NearerOfFive ==
  ASSUME NEW a \in Nat, NEW b \in Nat, NEW c \in Nat, NEW d \in Nat, NEW e \in Nat,
         NEW v \in Nat, NEW w \in Nat, NEW x \in Nat, NEW y \in Nat, NEW z \in Nat,
         \/ a < v
         \/ a = v /\ b < w
         \/ a = v /\ b = w /\ c < x
         \/ a = v /\ b = w /\ c = x /\ d < y
         \/ a = v /\ b = w /\ c = x /\ d = y /\ e < z
  PROVE  Nearer(<<a, b, c, d, e>>, <<v, w, x, y, z>>)
<1> DEFINE now == <<a, b, c, d, e>>
           before == <<v, w, x, y, z>>
<1>1. DOMAIN now = 1 .. 5 /\ 1 \in 1 .. 5 /\ 2 \in 1 .. 5 /\ 3 \in 1 .. 5 /\ 4 \in 1 .. 5 /\ 5 \in 1 .. 5
  OBVIOUS
<1>2. CASE a < v
  <2>1. now[1] < before[1] /\ \A i \in 1 .. 1 - 1 : now[i] = before[i]
    BY <1>2
  <2> HIDE DEF now, before
  <2> QED BY <1>1, <2>1 DEF Nearer
<1>3. CASE a = v /\ b < w
  <2>1. now[2] < before[2] /\ \A i \in 1 .. 2 - 1 : now[i] = before[i]
    BY <1>3
  <2> HIDE DEF now, before
  <2> QED BY <1>1, <2>1 DEF Nearer
<1>4. CASE a = v /\ b = w /\ c < x
  <2>1. now[3] < before[3] /\ \A i \in 1 .. 3 - 1 : now[i] = before[i]
    BY <1>4
  <2> HIDE DEF now, before
  <2> QED BY <1>1, <2>1 DEF Nearer
<1>5. CASE a = v /\ b = w /\ c = x /\ d < y
  <2>1. now[4] < before[4] /\ \A i \in 1 .. 4 - 1 : now[i] = before[i]
    BY <1>5
  <2> HIDE DEF now, before
  <2> QED BY <1>1, <2>1 DEF Nearer
<1>6. CASE a = v /\ b = w /\ c = x /\ d = y /\ e < z
  <2>1. now[5] < before[5] /\ \A i \in 1 .. 5 - 1 : now[i] = before[i]
    BY <1>6
  <2> HIDE DEF now, before
  <2> QED BY <1>1, <2>1 DEF Nearer
<1> QED BY <1>2, <1>3, <1>4, <1>5, <1>6
=============================================================================
