---------------------------- MODULE QuoteProofs ----------------------------
(***************************************************************************)
(* Theorems about LiteApiQuote, for any rates, fees and bookings: no drop  *)
(* is manufactured and none is missed.  The first part shows that the      *)
(* total the adapter forms is what the traveller pays fee after fee, by    *)
(* the least counterexample: the order of the naturals is well founded.    *)
(***************************************************************************)
EXTENDS LiteApiQuote, WellFoundedInduction, FiniteSetTheorems, TLAPS

\* A non-empty set of naturals has a least element.
LEMMA LeastNatural ==
    ASSUME NEW T, T \subseteq Nat, T # {}
    PROVE  \E m \in T : \A k \in T : m <= k
<1> DEFINE R == OpToRel(<, Nat)
<1>1. IsWellFoundedOn(R, Nat)
  BY NatLessThanWellFounded
<1>2. \A x, y \in Nat : x < y => <<x, y>> \in R
  BY DEF OpToRel
<1> HIDE DEF R
<1>3. \E x \in T : \A y \in T : ~(<<y, x>> \in R)
  BY <1>1, WFMin
<1>4. PICK m \in T : \A y \in T : ~(<<y, m>> \in R)
  BY <1>3
<1>5. \A k \in T : ~(k < m)
  BY <1>2, <1>4
<1> QED
  BY <1>5

\* Induction: a set of naturals that has, with each of its elements, the one
\* before it, is empty.
LEMMA NoneIsFirst ==
    ASSUME NEW T, T \subseteq Nat, \A m \in T : m - 1 \in T
    PROVE  T = {}
<1>1. SUFFICES ASSUME T # {} PROVE FALSE
  OBVIOUS
<1>2. PICK m \in T : \A k \in T : m <= k
  BY <1>1, LeastNatural
<1>3. m \in Nat /\ m <= m - 1
  BY <1>2
<1> QED
  BY <1>3

-----------------------------------------------------------------------------
(* Running totals. *)

\* t[k] is a plus the first k of the amounts g.
IsRunning(t, n, a, g) ==
    /\ t \in [0 .. n -> Int]
    /\ t[0] = a
    /\ \A i \in 1 .. n : t[i] = t[i - 1] + g[i]

\* Amounts can be totalled.
LEMMA RunningExists ==
    ASSUME NEW n \in Nat, NEW a \in Int, NEW g \in [1 .. n -> Int]
    PROVE  \E t : IsRunning(t, n, a, g)
<1> DEFINE Upto(k) == \E t : IsRunning(t, k, a, g)
           Bad == {k \in 0 .. n : ~Upto(k)}
<1>1. ASSUME NEW m \in 0 .. n, ~Upto(m) PROVE m - 1 \in 0 .. n /\ ~Upto(m - 1)
  <2>1. m # 0
    <3>1. IsRunning([k \in 0 .. 0 |-> a], 0, a, g)
      BY DEF IsRunning
    <3> QED
      BY <3>1, <1>1
  <2>2. m - 1 \in 0 .. n /\ m \in 1 .. n
    BY <2>1
  <2>3. ASSUME NEW t, IsRunning(t, m - 1, a, g) PROVE FALSE
    <3> DEFINE u == [k \in 0 .. m |-> IF k = m THEN t[m - 1] + g[m] ELSE t[k]]
    <3>1. t \in [0 .. (m - 1) -> Int] /\ t[0] = a
          /\ \A i \in 1 .. (m - 1) : t[i] = t[i - 1] + g[i]
      BY <2>3 DEF IsRunning
    <3>2. u \in [0 .. m -> Int]
      BY <2>2, <3>1
    <3>3. u[0] = a
      BY <2>1, <2>2, <3>1
    <3>4. ASSUME NEW i \in 1 .. m PROVE u[i] = u[i - 1] + g[i]
      <4>1. CASE i = m
        BY <4>1, <2>1, <2>2
      <4>2. CASE i # m
        BY <4>2, <2>2, <3>1
      <4> QED
        BY <4>1, <4>2
    <3> HIDE DEF u
    <3>5. IsRunning(u, m, a, g)
      BY <3>2, <3>3, <3>4 DEF IsRunning
    <3> QED
      BY <3>5, <1>1
  <2> QED
    BY <2>2, <2>3
<1> HIDE DEF Upto
<1>2. Bad \subseteq Nat /\ \A m \in Bad : m - 1 \in Bad
  BY <1>1
<1>3. Bad = {}
  <2> HIDE DEF Bad
  <2> QED
    BY <1>2, NoneIsFirst
<1>4. Upto(n)
  BY <1>3
<1> QED
  BY <1>4 DEF Upto

\* And in one way only.
LEMMA RunningUnique ==
    ASSUME NEW n \in Nat, NEW a \in Int, NEW g, NEW t, IsRunning(t, n, a, g),
           NEW u, u[0] = a, \A i \in 1 .. n : t[i - 1] = u[i - 1] => t[i] = u[i]
    PROVE  t[n] = u[n]
<1> DEFINE Bad == {k \in 0 .. n : t[k] # u[k]}
<1>1. ASSUME NEW m \in 0 .. n, t[m] # u[m] PROVE m - 1 \in 0 .. n /\ t[m - 1] # u[m - 1]
  <2>1. m # 0
    BY <1>1 DEF IsRunning
  <2>2. m - 1 \in 0 .. n /\ m \in 1 .. n
    BY <2>1
  <2> QED
    BY <2>2, <1>1
<1>2. Bad \subseteq Nat /\ \A m \in Bad : m - 1 \in Bad
  BY <1>1
<1>3. Bad = {}
  <2> HIDE DEF Bad
  <2> QED
    BY <1>2, NoneIsFirst
<1> QED
  BY <1>3

\* Leaving out one amount.
LEMMA RunningWithout ==
    ASSUME NEW n \in Nat, NEW a \in Int, NEW g \in [1 .. n -> Int], NEW h, NEW t, NEW u,
           IsRunning(t, n, a, g), IsRunning(u, n, a, h), NEW x \in 1 .. n,
           h[x] = 0, \A i \in 1 .. n : i # x => h[i] = g[i]
    PROVE  t[n] = g[x] + u[n]
<1> DEFINE Gap(k) == IF k < x THEN 0 ELSE g[x]
           Bad == {k \in 0 .. n : t[k] # Gap(k) + u[k]}
<1>0. /\ t \in [0 .. n -> Int] /\ u \in [0 .. n -> Int] /\ t[0] = u[0]
      /\ \A i \in 1 .. n : t[i] = t[i - 1] + g[i] /\ u[i] = u[i - 1] + h[i]
  BY DEF IsRunning
<1>1. ASSUME NEW m \in 0 .. n, t[m] # Gap(m) + u[m]
      PROVE  m - 1 \in 0 .. n /\ t[m - 1] # Gap(m - 1) + u[m - 1]
  <2>1. m # 0
    BY <1>0, <1>1
  <2>2. m - 1 \in 0 .. n /\ m \in 1 .. n
    BY <2>1
  <2>3. t[m] = t[m - 1] + g[m] /\ u[m] = u[m - 1] + h[m]
    BY <1>0, <2>2
  <2>4. /\ t[m - 1] \in Int /\ u[m - 1] \in Int /\ g[m] \in Int /\ g[x] \in Int
    BY <1>0, <2>2
  <2>5. CASE m = x
    <3>1. Gap(m) = g[m] /\ Gap(m - 1) = 0 /\ h[m] = 0
      BY <2>5, <2>2
    <3> QED
      BY <3>1, <2>2, <2>3, <2>4, <1>1
  <2>6. CASE m # x
    <3>1. h[m] = g[m] /\ Gap(m) = Gap(m - 1) /\ Gap(m) \in Int
      BY <2>6, <2>2, <2>4
    <3> HIDE DEF Gap
    <3> QED
      BY <3>1, <2>2, <2>3, <2>4, <1>1
  <2> QED
    BY <2>5, <2>6
<1>2. Bad \subseteq Nat /\ \A m \in Bad : m - 1 \in Bad
  BY <1>1
<1>3. Bad = {}
  <2> HIDE DEF Bad
  <2> QED
    BY <1>2, NoneIsFirst
<1> QED
  BY <1>3

\* Nothing to add.
LEMMA RunningNothing ==
    ASSUME NEW n \in Nat, NEW a \in Int, NEW g, NEW t, IsRunning(t, n, a, g),
           \A i \in 1 .. n : g[i] = 0
    PROVE  t[n] = a
<1> DEFINE u == [k \in 0 .. n |-> a]
<1>1. ASSUME NEW i \in 1 .. n, t[i - 1] = u[i - 1] PROVE t[i] = u[i]
  <2>1. t[i] = t[i - 1] + g[i] /\ g[i] = 0
    BY DEF IsRunning
  <2>2. u[i] = a /\ u[i - 1] = a
    OBVIOUS
  <2> HIDE DEF u
  <2> QED
    BY <2>1, <2>2, <1>1
<1>2. u[0] = a /\ u[n] = a
  OBVIOUS
<1> HIDE DEF u
<1> QED
  BY <1>1, <1>2, RunningUnique

\* Starting from another amount.
LEMMA RunningShifted ==
    ASSUME NEW n \in Nat, NEW a \in Int, NEW g \in [1 .. n -> Int], NEW t,
           IsRunning(t, n, 0, g)
    PROVE  IsRunning([k \in 0 .. n |-> a + t[k]], n, a, g)
<1>1. t \in [0 .. n -> Int] /\ t[0] = 0 /\ \A i \in 1 .. n : t[i] = t[i - 1] + g[i]
  BY DEF IsRunning
<1>2. ASSUME NEW i \in 1 .. n PROVE a + t[i] = (a + t[i - 1]) + g[i]
  <2>1. t[i] \in Int /\ t[i - 1] \in Int /\ g[i] \in Int
    BY <1>1
  <2> QED
    BY <1>1, <2>1
<1> QED
  BY <1>1, <1>2 DEF IsRunning

-----------------------------------------------------------------------------
(* The total of a rate. *)

\* The amounts of the fees in s, nothing for the others.
Part(raw, s) ==
    [i \in 1 .. Len(raw.fees) |-> IF i \in s THEN raw.fees[i].amount ELSE 0]

\* What they come to.
Total(raw, s) ==
    LET t == CHOOSE u : IsRunning(u, Len(raw.fees), 0, Part(raw, s))
    IN  t[Len(raw.fees)]

\* it sums fees as the fold of AllIn does, in the order CHOOSE takes them.
IsSum(raw, it) ==
    it = [s \in SUBSET Extras(raw) |->
            IF s = {} THEN 0
            ELSE raw.fees[CHOOSE x \in s : TRUE].amount + it[s \ {CHOOSE x \in s : TRUE}]]

\* The fees on top have amounts, and are fees of the rate.
LEMMA ExtrasAreAmounts ==
    ASSUME NEW raw \in RawRates
    PROVE  /\ Len(raw.fees) \in Nat
           /\ Extras(raw) \subseteq 1 .. Len(raw.fees)
           /\ \A i \in Extras(raw) : raw.fees[i].amount \in Int
BY QuoteAssumption DEF Extras

\* Their total is the last of their running totals.
LEMMA TotalRuns ==
    ASSUME NEW raw \in RawRates, NEW s, s \subseteq Extras(raw)
    PROVE  \E t : IsRunning(t, Len(raw.fees), 0, Part(raw, s)) /\ Total(raw, s) = t[Len(raw.fees)]
<1>1. Part(raw, s) \in [1 .. Len(raw.fees) -> Int] /\ Len(raw.fees) \in Nat
  BY ExtrasAreAmounts DEF Part
<1>2. \E u : IsRunning(u, Len(raw.fees), 0, Part(raw, s))
  BY <1>1, RunningExists
<1> QED
  BY <1>2 DEF Total

\* The total is a number.
LEMMA TotalIsInt ==
    ASSUME NEW raw \in RawRates, NEW s, s \subseteq Extras(raw)
    PROVE  Total(raw, s) \in Int
<1>1. PICK t : IsRunning(t, Len(raw.fees), 0, Part(raw, s)) /\ Total(raw, s) = t[Len(raw.fees)]
  BY TotalRuns
<1>2. t \in [0 .. Len(raw.fees) -> Int] /\ Len(raw.fees) \in 0 .. Len(raw.fees)
  BY <1>1, ExtrasAreAmounts DEF IsRunning
<1> QED
  BY <1>1, <1>2

\* No fees come to nothing.
LEMMA TotalOfNone ==
    ASSUME NEW raw \in RawRates
    PROVE  Total(raw, {}) = 0
<1>1. PICK t : IsRunning(t, Len(raw.fees), 0, Part(raw, {})) /\ Total(raw, {}) = t[Len(raw.fees)]
  BY TotalRuns
<1>2. \A i \in 1 .. Len(raw.fees) : Part(raw, {})[i] = 0
  BY DEF Part
<1> QED
  BY <1>1, <1>2, ExtrasAreAmounts, RunningNothing

\* Any one of them may be counted first.
LEMMA TotalWithout ==
    ASSUME NEW raw \in RawRates, NEW s, s \subseteq Extras(raw), NEW x \in s
    PROVE  Total(raw, s) = raw.fees[x].amount + Total(raw, s \ {x})
<1> DEFINE n == Len(raw.fees)
           g == Part(raw, s)
           h == Part(raw, s \ {x})
<1>1. PICK t : IsRunning(t, n, 0, g) /\ Total(raw, s) = t[n]
  BY TotalRuns
<1>2. PICK u : IsRunning(u, n, 0, h) /\ Total(raw, s \ {x}) = u[n]
  <2>1. s \ {x} \subseteq Extras(raw)
    OBVIOUS
  <2> QED
    BY <2>1, TotalRuns
<1>3. n \in Nat /\ x \in 1 .. n /\ g \in [1 .. n -> Int]
  BY ExtrasAreAmounts DEF Part
<1>4. g[x] = raw.fees[x].amount /\ h[x] = 0 /\ \A i \in 1 .. n : i # x => h[i] = g[i]
  BY <1>3 DEF Part
<1>5. t[n] = g[x] + u[n]
  <2>1. IsRunning(t, n, 0, g) /\ IsRunning(u, n, 0, h)
    BY <1>1, <1>2
  <2>2. h[x] = 0 /\ \A i \in 1 .. n : i # x => h[i] = g[i]
    BY <1>4
  <2>3. 0 \in Int
    OBVIOUS
  <2> HIDE DEF n, g, h
  <2> QED
    BY <1>3, <2>1, <2>2, <2>3, RunningWithout
<1> QED
  BY <1>1, <1>2, <1>4, <1>5

\* The totals are a sum in the order of the fold, so there is one.
LEMMA SumExists ==
    ASSUME NEW raw \in RawRates
    PROVE  \E it : IsSum(raw, it)
<1> DEFINE it == [s \in SUBSET Extras(raw) |-> Total(raw, s)]
<1>1. ASSUME NEW s \in SUBSET Extras(raw), s # {}
      PROVE  Total(raw, s) = raw.fees[CHOOSE x \in s : TRUE].amount
                             + it[s \ {CHOOSE x \in s : TRUE}]
  <2>1. PICK c : c = CHOOSE x \in s : TRUE
    OBVIOUS
  <2>2. c \in s
    BY <2>1, <1>1
  <2>3. it[s \ {c}] = Total(raw, s \ {c})
    OBVIOUS
  <2>4. Total(raw, s) = raw.fees[c].amount + Total(raw, s \ {c})
    BY <2>2, TotalWithout
  <2> QED
    BY <2>1, <2>3, <2>4
<1>2. \A s \in SUBSET Extras(raw) :
          it[s] = IF s = {} THEN 0
                  ELSE raw.fees[CHOOSE x \in s : TRUE].amount + it[s \ {CHOOSE x \in s : TRUE}]
  BY <1>1, TotalOfNone
<1>3. IsSum(raw, it)
  BY <1>2 DEF IsSum
<1> QED
  BY <1>3

\* And any such sum gives the totals: a set on which it did not, of the least
\* size, would leave a smaller one.
LEMMA SumIsTotal ==
    ASSUME NEW raw \in RawRates, NEW it, IsSum(raw, it)
    PROVE  it[Extras(raw)] = Total(raw, Extras(raw))
<1> DEFINE Bad == {s \in SUBSET Extras(raw) : it[s] # Total(raw, s)}
           Sizes == {Cardinality(s) : s \in Bad}
<1>1. ASSUME NEW s \in SUBSET Extras(raw)
      PROVE  IsFiniteSet(s) /\ Cardinality(s) \in Nat
  <2>1. IsFiniteSet(1 .. Len(raw.fees)) /\ s \subseteq 1 .. Len(raw.fees)
    BY ExtrasAreAmounts, FS_Interval
  <2>2. IsFiniteSet(s)
    BY <2>1, FS_Subset
  <2> QED
    BY <2>2, FS_CardinalityType
<1>2. ASSUME NEW s \in Bad PROVE \E r \in Bad : Cardinality(r) = Cardinality(s) - 1
  <2>1. s # {}
    BY TotalOfNone DEF IsSum
  <2>2. PICK c : c = CHOOSE x \in s : TRUE
    OBVIOUS
  <2>3. c \in s
    BY <2>1, <2>2
  <2>4. it[s] = raw.fees[c].amount + it[s \ {c}]
    BY <2>1, <2>2 DEF IsSum
  <2>5. Total(raw, s) = raw.fees[c].amount + Total(raw, s \ {c})
    BY <2>3, TotalWithout
  <2>6. s \ {c} \in Bad
    BY <2>4, <2>5
  <2>7. Cardinality(s \ {c}) = Cardinality(s) - 1
    BY <1>1, <2>3, FS_RemoveElement
  <2> QED
    BY <2>6, <2>7
<1>3. Sizes \subseteq Nat /\ \A m \in Sizes : m - 1 \in Sizes
  BY <1>1, <1>2
<1>4. Sizes = {}
  <2> HIDE DEF Sizes
  <2> QED
    BY <1>3, NoneIsFirst
<1>5. Bad = {}
  <2> HIDE DEF Bad
  <2> QED
    BY <1>4
<1> QED
  BY <1>5

\* What the adapter forms.
LEMMA AllInIsTotal ==
    ASSUME NEW raw \in RawRates
    PROVE  AllIn(raw) = raw.amount + Total(raw, Extras(raw))
<1>1. \E it : /\ it = CHOOSE sum : IsSum(raw, sum)
              /\ AllIn(raw) = raw.amount + it[Extras(raw)]
  BY DEF AllIn, MapThenSumSet, MapThenFoldSet, IsSum
<1>2. PICK it : /\ it = CHOOSE sum : IsSum(raw, sum)
                /\ AllIn(raw) = raw.amount + it[Extras(raw)]
  BY <1>1
<1>3. IsSum(raw, it)
  BY <1>2, SumExists
<1> QED
  BY <1>2, <1>3, SumIsTotal

\* A traveller's bill, fee after fee.
IsBill(raw, bill) ==
    bill = [i \in 0 .. Len(raw.fees) |->
              IF i = 0 THEN raw.amount
              ELSE IF raw.fees[i].included \/ raw.fees[i].amount = None THEN bill[i - 1]
              ELSE bill[i - 1] + raw.fees[i].amount]

\* What a traveller pays.
LEMMA PayableIsTotal ==
    ASSUME NEW raw \in RawRates, raw.amount \in Int
    PROVE  Payable(raw) = raw.amount + Total(raw, Extras(raw))
<1> DEFINE n == Len(raw.fees)
           g == Part(raw, Extras(raw))
<1>1. PICK t : IsRunning(t, n, 0, g) /\ Total(raw, Extras(raw)) = t[n]
  BY TotalRuns
<1>2. n \in Nat /\ n \in 0 .. n /\ g \in [1 .. n -> Int]
  BY ExtrasAreAmounts DEF Part
<1>3. PICK u : u = [k \in 0 .. n |-> raw.amount + t[k]]
  OBVIOUS
<1>4. IsRunning(u, n, raw.amount, g) /\ u[n] = raw.amount + Total(raw, Extras(raw))
  BY <1>1, <1>2, <1>3, RunningShifted
<1>5. \A i \in 1 .. n :
          g[i] = IF raw.fees[i].included \/ raw.fees[i].amount = None THEN 0
                 ELSE raw.fees[i].amount
  BY QuoteAssumption DEF Part, Extras
<1>6. IsBill(raw, u)
  <2> HIDE DEF g
  <2>1. u \in [0 .. n -> Int] /\ u[0] = raw.amount /\ \A i \in 1 .. n : u[i] = u[i - 1] + g[i]
    BY <1>4 DEF IsRunning
  <2>2. ASSUME NEW i \in 1 .. n
        PROVE  u[i] = IF raw.fees[i].included \/ raw.fees[i].amount = None THEN u[i - 1]
                      ELSE u[i - 1] + raw.fees[i].amount
    <3>1. u[i - 1] \in Int
      BY <2>1
    <3> QED
      BY <3>1, <2>1, <1>5
  <2> QED
    BY <2>1, <2>2 DEF IsBill
<1>7. PICK bill : /\ bill = CHOOSE b : IsBill(raw, b)
                  /\ Payable(raw) = bill[n]
  <2>1. \E bill : /\ bill = CHOOSE b : IsBill(raw, b)
                  /\ Payable(raw) = bill[n]
    BY DEF Payable, IsBill
  <2> QED
    BY <2>1
<1>8. IsBill(raw, bill)
  BY <1>6, <1>7
<1>9. bill[0] = raw.amount /\ \A i \in 1 .. n : u[i - 1] = bill[i - 1] => u[i] = bill[i]
  <2>1. bill[0] = raw.amount
    BY <1>2, <1>8 DEF IsBill
  <2>2. ASSUME NEW i \in 1 .. n, u[i - 1] = bill[i - 1] PROVE u[i] = bill[i]
    <3>1. i \in 0 .. n /\ i # 0
      BY <1>2
    <3>2. u[i] = IF raw.fees[i].included \/ raw.fees[i].amount = None THEN u[i - 1]
                 ELSE u[i - 1] + raw.fees[i].amount
      BY <3>1, <1>6 DEF IsBill
    <3>3. bill[i] = IF raw.fees[i].included \/ raw.fees[i].amount = None THEN bill[i - 1]
                    ELSE bill[i - 1] + raw.fees[i].amount
      BY <3>1, <1>8 DEF IsBill
    <3> QED
      BY <2>2, <3>2, <3>3
  <2> QED
    BY <2>1, <2>2
<1>10. u[n] = bill[n]
  <2> HIDE DEF g, n
  <2> QED
    BY <1>2, <1>4, <1>9, RunningUnique
<1> QED
  BY <1>4, <1>7, <1>10

\* The adapter's total is the traveller's.
LEMMA FeesAddUp ==
    ASSUME NEW raw \in RawRates, raw.amount # None
    PROVE  AllIn(raw) \in Int /\ AllIn(raw) = Payable(raw)
<1>1. raw.amount \in Int
  BY QuoteAssumption
<1> QED
  BY <1>1, AllInIsTotal, PayableIsTotal, TotalIsInt

-----------------------------------------------------------------------------
(* The choice among candidates. *)

\* Of finitely many prices there is a first lowest one.
LEMMA CheapestExists ==
    ASSUME NEW n \in Nat, NEW E, E \subseteq 1 .. n, E # {}, NEW price \in [1 .. n -> Int]
    PROVE  \E i \in E : \A k \in E : \/ price[i] < price[k]
                                     \/ price[i] = price[k] /\ i <= k
<1> DEFINE Cheaper(i, k) == price[i] < price[k] \/ (price[i] = price[k] /\ i <= k)
           Upto(m) == (\A k \in E : k > m) \/ \E i \in E : \A k \in E : k <= m => i <= m /\ Cheaper(i, k)
           Bad == {m \in 0 .. n : ~Upto(m)}
<1>1. ASSUME NEW m \in 0 .. n, ~Upto(m) PROVE m - 1 \in 0 .. n /\ ~Upto(m - 1)
  <2>1. m # 0
    BY <1>1
  <2>2. m - 1 \in 0 .. n /\ m \in 1 .. n
    BY <2>1
  <2>3. CASE m \notin E
    <3>1. \A k \in E : k <= m <=> k <= m - 1
      BY <2>2, <2>3
    <3>2. \A k \in E : k > m <=> k > m - 1
      BY <2>2, <2>3
    <3>3. SUFFICES ASSUME Upto(m - 1) PROVE FALSE
      BY <2>2
    <3>4. CASE \A k \in E : k > m - 1
      BY <3>2, <3>4, <1>1
    <3>5. CASE \E i \in E : \A k \in E : k <= m - 1 => i <= m - 1 /\ Cheaper(i, k)
      <4>1. PICK i \in E : \A k \in E : k <= m - 1 => i <= m - 1 /\ Cheaper(i, k)
        BY <3>5
      <4> HIDE DEF Cheaper
      <4>2. \A k \in E : k <= m => i <= m /\ Cheaper(i, k)
        BY <4>1, <3>1, <2>2
      <4> QED
        BY <4>2, <1>1
    <3> QED
      BY <3>3, <3>4, <3>5
  <2>4. CASE m \in E
    <3>1. SUFFICES ASSUME Upto(m - 1) PROVE FALSE
      BY <2>2
    <3>2. CASE \A k \in E : k > m - 1
      <4>1. \A k \in E : k <= m => m <= m /\ Cheaper(m, k)
        BY <2>2, <3>2
      <4> QED
        BY <4>1, <2>4, <1>1
    <3>3. CASE \E i \in E : \A k \in E : k <= m - 1 => i <= m - 1 /\ Cheaper(i, k)
      <4>1. PICK i \in E : \A k \in E : k <= m - 1 => i <= m - 1 /\ Cheaper(i, k)
        BY <3>3
      <4>2. \A k \in E : price[k] \in Int /\ k \in Int
        OBVIOUS
      <4>3. CASE (\E k \in E : k <= m - 1) /\ price[i] <= price[m]
        <5>1. i <= m - 1 /\ i <= m
          BY <4>1, <4>2, <4>3, <2>2
        <5>2. Cheaper(i, m)
          BY <5>1, <4>2, <4>3, <2>4
        <5>3. ASSUME NEW k \in E, k <= m PROVE i <= m /\ Cheaper(i, k)
          <6>1. k = m \/ k <= m - 1
            BY <5>3, <4>2, <2>2
          <6> HIDE DEF Cheaper
          <6> QED
            BY <6>1, <5>1, <5>2, <4>1
        <5>4. \A k \in E : k <= m => i <= m /\ Cheaper(i, k)
          BY <5>3
        <5> QED
          BY <5>4, <1>1
      <4>4. CASE (\E k \in E : k <= m - 1) /\ ~(price[i] <= price[m])
        <5>1. ASSUME NEW k \in E, k <= m PROVE m <= m /\ Cheaper(m, k)
          <6>1. k = m \/ k <= m - 1
            BY <5>1, <4>2, <2>2
          <6>2. CASE k = m
            BY <6>2, <2>2
          <6>3. CASE k <= m - 1
            <7>1. price[i] <= price[k] /\ price[m] < price[i]
              BY <6>3, <4>1, <4>2, <4>4, <2>4
            <7>2. price[i] \in Int /\ price[k] \in Int /\ price[m] \in Int
              BY <4>2, <2>4
            <7>3. price[m] < price[k]
              BY <7>1, <7>2
            <7> QED
              BY <7>3, <2>2
          <6> QED
            BY <6>1, <6>2, <6>3
        <5> QED
          BY <5>1, <2>4, <1>1
      <4>5. CASE ~(\E k \in E : k <= m - 1)
        <5>1. \A k \in E : k <= m => m <= m /\ Cheaper(m, k)
          BY <4>2, <4>5, <2>2, <2>4
        <5> QED
          BY <5>1, <2>4, <1>1
      <4> QED
        BY <4>3, <4>4, <4>5
    <3> QED
      BY <3>1, <3>2, <3>3
  <2> QED
    BY <2>3, <2>4
<1> HIDE DEF Upto
<1>2. Bad \subseteq Nat /\ \A m \in Bad : m - 1 \in Bad
  BY <1>1
<1>3. Bad = {}
  <2> HIDE DEF Bad
  <2> QED
    BY <1>2, NoneIsFirst
<1>4. Upto(n)
  BY <1>3
<1>5. \A k \in E : k <= n
  OBVIOUS
<1>6. ASSUME \A k \in E : k > n PROVE FALSE
  <2>1. PICK k \in E : TRUE
    OBVIOUS
  <2>2. k \in 1 .. n /\ k > n
    BY <1>6
  <2> QED
    BY <2>2
<1>7. PICK i \in E : \A k \in E : k <= n => i <= n /\ Cheaper(i, k)
  BY <1>4, <1>6 DEF Upto
<1>8. \A k \in E : Cheaper(i, k)
  BY <1>5, <1>7
<1> QED
  BY <1>8

\* The choice is an eligible candidate, and none is cheaper.
LEMMA BestIsCheapest ==
    ASSUME NEW b, NEW cands, Len(cands) \in Nat, DOMAIN cands = 1 .. Len(cands),
           \A i \in DOMAIN cands : cands[i].price \in Int
    PROVE  \/ /\ BestLikeForLike(cands, b) = None
              /\ \A k \in DOMAIN cands : ~MatchesRoom(cands[k], b)
           \/ \E i \in DOMAIN cands :
                 /\ BestLikeForLike(cands, b) = cands[i]
                 /\ MatchesRoom(cands[i], b)
                 /\ \A k \in DOMAIN cands :
                       MatchesRoom(cands[k], b) => cands[i].price <= cands[k].price
<1> DEFINE E == {i \in DOMAIN cands : MatchesRoom(cands[i], b)}
<1>1. CASE E = {}
  BY <1>1 DEF BestLikeForLike
<1>2. CASE E # {}
  <2> DEFINE price == [i \in 1 .. Len(cands) |-> cands[i].price]
             First(i) == \A k \in E : \/ cands[i].price < cands[k].price
                                      \/ cands[i].price = cands[k].price /\ i <= k
  <2>1. E \subseteq 1 .. Len(cands) /\ price \in [1 .. Len(cands) -> Int]
    OBVIOUS
  <2>2. \E i \in E : \A k \in E : price[i] < price[k] \/ (price[i] = price[k] /\ i <= k)
    <3> HIDE DEF E, price
    <3> QED
      BY <1>2, <2>1, CheapestExists
  <2>3. \E i \in E : First(i)
    BY <2>2
  <2>4. PICK i : i = CHOOSE c \in E : First(c)
    OBVIOUS
  <2>5. i \in E /\ First(i)
    <3> HIDE DEF E, First
    <3> QED
      BY <2>3, <2>4
  <2>6. BestLikeForLike(cands, b) = cands[i]
    BY <1>2, <2>4 DEF BestLikeForLike
  <2>7. \A k \in DOMAIN cands : MatchesRoom(cands[k], b) => cands[i].price <= cands[k].price
    BY <2>5
  <2> QED
    BY <2>5, <2>6, <2>7
<1> QED
  BY <1>1, <1>2

-----------------------------------------------------------------------------
(* One rate against the booking. *)

\* The earliest boundary is one of them.
LEMMA FreeUntilIsEarliest ==
    ASSUME NEW raw \in RawRates
    PROVE  IF raw.boundaries = {} THEN FreeUntil(raw) = None
           ELSE /\ FreeUntil(raw) \in raw.boundaries /\ FreeUntil(raw) \in Nat
                /\ \A b \in raw.boundaries : FreeUntil(raw) <= b
<1>1. raw.boundaries \subseteq Nat
  BY QuoteAssumption
<1>2. CASE raw.boundaries = {}
  BY <1>2 DEF FreeUntil
<1>3. CASE raw.boundaries # {}
  <2>1. \E b \in raw.boundaries : \A c \in raw.boundaries : b <= c
    BY <1>1, <1>3, LeastNatural
  <2>2. FreeUntil(raw) = CHOOSE b \in raw.boundaries : \A c \in raw.boundaries : b <= c
    BY <1>3 DEF FreeUntil
  <2>3. FreeUntil(raw) \in raw.boundaries /\ \A c \in raw.boundaries : FreeUntil(raw) <= c
    BY <2>1, <2>2
  <2> QED
    BY <1>1, <1>3, <2>3
<1> QED
  BY <1>2, <1>3

\* A rate the rules let through is no worse than the booking.
LEMMA MatchIsNoWorse ==
    ASSUME OneTierEach, booking \in Bookings, NEW raw \in RawRates,
           MatchesRoom(Candidate(raw), booking)
    PROVE  NoWorse(raw)
<1> DEFINE cand == Candidate(raw)
<1>1. /\ cand.refundable = (raw.tag = "RFN") /\ cand.room = raw.room
      /\ cand.adults = raw.occupancy /\ cand.free_until = FreeUntil(raw)
      /\ cand.board = BoardType(raw)
  BY DEF Candidate
<1> HIDE DEF cand
<1>2. /\ cand.refundable
      /\ booking.board = None \/ cand.board = booking.board
      /\ booking.deadline = None \/ cand.free_until = None \/ cand.free_until >= booking.deadline
      /\ Compatible(RoomClass(booking.room), RoomClass(cand.room))
      /\ Compatible(booking.adults, cand.adults)
  BY DEF MatchesRoom, cand
<1>3. ASSUME booking.deadline # None, NEW b \in raw.boundaries PROVE b >= booking.deadline
  <2>1. booking.deadline \in Nat
    BY <1>3, QuoteAssumption
  <2>2. FreeUntil(raw) \in Nat /\ FreeUntil(raw) <= b /\ b \in Nat
    BY <1>3, FreeUntilIsEarliest, QuoteAssumption
  <2>3. FreeUntil(raw) # None
    BY <2>2, FloorAssumption
  <2>4. FreeUntil(raw) >= booking.deadline
    BY <1>1, <1>2, <1>3, <2>3
  <2> QED
    BY <2>1, <2>2, <2>4
<1>4. booking.room # {} /\ raw.room # {} => (JuniorSuite(booking.room) <=> JuniorSuite(raw.room))
  BY <1>1, <1>2 DEF OneTierEach, Compatible
<1> QED
  BY <1>1, <1>2, <1>3, <1>4 DEF NoWorse

\* And one that is no worse is let through.
LEMMA NoWorseMatches ==
    ASSUME booking \in Bookings, NEW raw \in RawRates, NoWorse(raw)
    PROVE  MatchesRoom(Candidate(raw), booking)
<1> DEFINE cand == Candidate(raw)
<1>1. /\ cand.refundable = (raw.tag = "RFN") /\ cand.room = raw.room
      /\ cand.adults = raw.occupancy /\ cand.free_until = FreeUntil(raw)
      /\ cand.board = BoardType(raw) /\ cand.children = None
  BY DEF Candidate
<1>2. booking.deadline = None \/ FreeUntil(raw) = None \/ FreeUntil(raw) >= booking.deadline
  BY FreeUntilIsEarliest DEF NoWorse
<1> HIDE DEF cand
<1>3. Compatible(booking.children, cand.children)
  BY <1>1 DEF Compatible
<1>4. MatchesRoom(cand, booking)
  BY <1>1, <1>2, <1>3 DEF NoWorse, MatchesRoom
<1> QED
  BY <1>4 DEF cand

-----------------------------------------------------------------------------
(* The invariant: the candidates are the usable rates of the reply. *)

\* A candidate was made of a rate that was read.
EachIsRead ==
    \A k \in DOMAIN candidates :
        \E i \in DOMAIN read : Usable(read[i]) /\ candidates[k] = Candidate(read[i])

\* Every usable rate made a candidate, or the check raised.
EachIsPriced ==
    phase # "raised" =>
        \A i \in DOMAIN read :
            Usable(read[i]) => \E k \in DOMAIN candidates : candidates[k] = Candidate(read[i])

\* Once decided, the answer is the rules' choice.
DecidedByRules == phase = "decided" => best = BestLikeForLike(candidates, booking)

QuoteInv ==
    /\ booking \in Bookings
    /\ read \in Seq(RawRates)
    /\ candidates \in Seq({Candidate(raw) : raw \in RawRates})
    /\ EachIsRead
    /\ EachIsPriced
    /\ DecidedByRules

LEMMA ReadRateKeeps ==
    ASSUME QuoteInv, NEW raw \in RawRates, ReadRate(raw)
    PROVE  QuoteInv'
<1> DEFINE Cands == {Candidate(r) : r \in RawRates}
<1>1. /\ booking \in Bookings /\ booking' = booking /\ phase = "reading" /\ phase' = phase
      /\ read \in Seq(RawRates) /\ candidates \in Seq(Cands)
      /\ read' = Append(read, raw)
  BY DEF QuoteInv, ReadRate
<1>2. /\ read' \in Seq(RawRates) /\ Len(read') = Len(read) + 1 /\ read'[Len(read')] = raw
      /\ \A i \in DOMAIN read : i \in DOMAIN read' /\ read'[i] = read[i]
      /\ \A i \in DOMAIN read' : i \in DOMAIN read \/ read'[i] = raw
      /\ Len(read') \in DOMAIN read'
  <2> HIDE DEF Cands
  <2> QED
    BY <1>1
<1>3. EachIsRead /\ EachIsPriced
  BY DEF QuoteInv
<1>4. CASE Usable(raw)
  <2>1. candidates' = Append(candidates, Candidate(raw)) /\ Candidate(raw) \in Cands
    BY <1>4 DEF ReadRate
  <2> HIDE DEF Cands
  <2>2. /\ candidates' \in Seq(Cands) /\ Len(candidates') \in DOMAIN candidates'
        /\ candidates'[Len(candidates')] = Candidate(raw)
        /\ \A k \in DOMAIN candidates : k \in DOMAIN candidates' /\ candidates'[k] = candidates[k]
        /\ \A k \in DOMAIN candidates' : k \in DOMAIN candidates \/ candidates'[k] = Candidate(raw)
    BY <1>1, <2>1
  <2>3. EachIsRead'
    BY <1>2, <1>3, <1>4, <2>2 DEF EachIsRead
  <2>4. EachIsPriced'
    BY <1>1, <1>2, <1>3, <2>2 DEF EachIsPriced
  <2> QED
    BY <1>1, <1>2, <2>2, <2>3, <2>4 DEF QuoteInv, DecidedByRules, Cands
<1>5. CASE ~Usable(raw)
  <2>1. candidates' = candidates
    BY <1>5 DEF ReadRate
  <2>2. EachIsRead'
    BY <1>2, <1>3, <2>1 DEF EachIsRead
  <2>3. EachIsPriced'
    BY <1>1, <1>2, <1>3, <1>5, <2>1 DEF EachIsPriced
  <2> QED
    BY <1>1, <1>2, <2>1, <2>2, <2>3 DEF QuoteInv, DecidedByRules
<1> QED
  BY <1>4, <1>5

LEMMA ReadRaisesKeeps ==
    ASSUME QuoteInv, NEW raw \in RawRates, ReadRaises(raw)
    PROVE  QuoteInv'
<1>1. /\ booking' = booking /\ candidates' = candidates /\ phase' = "raised"
      /\ read \in Seq(RawRates) /\ read' = Append(read, raw)
  BY DEF QuoteInv, ReadRaises
<1>2. read' \in Seq(RawRates) /\ \A i \in DOMAIN read : i \in DOMAIN read' /\ read'[i] = read[i]
  BY <1>1
<1>3. EachIsRead'
  BY <1>1, <1>2 DEF QuoteInv, EachIsRead
<1> QED
  BY <1>1, <1>2, <1>3 DEF QuoteInv, EachIsPriced, DecidedByRules

LEMMA DecideKeeps == QuoteInv /\ Decide => QuoteInv'
<1> SUFFICES ASSUME QuoteInv, Decide PROVE QuoteInv'
  OBVIOUS
<1>1. EachIsRead' /\ EachIsPriced'
  BY DEF QuoteInv, Decide, EachIsRead, EachIsPriced
<1> QED
  BY <1>1 DEF QuoteInv, Decide, DecidedByRules

LEMMA QuoteInvHolds == Spec => []QuoteInv
<1>1. Init => QuoteInv
  <2> SUFFICES ASSUME Init PROVE QuoteInv
    OBVIOUS
  <2>1. booking \in Bookings /\ read = <<>> /\ candidates = <<>> /\ phase = "reading"
    BY DEF Init
  <2> QED
    BY <2>1 DEF QuoteInv, EachIsRead, EachIsPriced, DecidedByRules
<1>2. QuoteInv /\ [Next]_vars => QuoteInv'
  <2> SUFFICES ASSUME QuoteInv, [Next]_vars PROVE QuoteInv'
    OBVIOUS
  <2>1. CASE UNCHANGED vars
    BY <2>1 DEF vars, QuoteInv, EachIsRead, EachIsPriced, DecidedByRules
  <2>2. CASE Next
    BY <2>2, ReadRateKeeps, ReadRaisesKeeps, DecideKeeps DEF Next
  <2> QED
    BY <2>1, <2>2
<1> QED
  BY <1>1, <1>2, PTL DEF Spec

\* What was chosen among candidates was chosen among the rates that were read.
LEMMA BestOfReply ==
    ASSUME QuoteInv, phase = "decided"
    PROVE  \/ /\ best = None
              /\ \A i \in DOMAIN read :
                    Usable(read[i]) => ~MatchesRoom(Candidate(read[i]), booking)
           \/ /\ best # None /\ best.price \in Int
              /\ \E i \in DOMAIN read :
                    /\ Usable(read[i]) /\ MatchesRoom(Candidate(read[i]), booking)
                    /\ best = Candidate(read[i])
              /\ \A i \in DOMAIN read :
                    Usable(read[i]) /\ MatchesRoom(Candidate(read[i]), booking) =>
                        best.price <= AllIn(read[i])
<1>1. /\ EachIsRead /\ EachIsPriced /\ best = BestLikeForLike(candidates, booking)
      /\ read \in Seq(RawRates) /\ candidates \in Seq({Candidate(raw) : raw \in RawRates})
  BY DEF QuoteInv, DecidedByRules
<1>2. \A i \in DOMAIN read : read[i] \in RawRates
  BY <1>1
<1>3. Len(candidates) \in Nat /\ DOMAIN candidates = 1 .. Len(candidates)
  BY <1>1
<1>4. ASSUME NEW i \in DOMAIN read, Usable(read[i])
      PROVE  /\ Candidate(read[i]).price = AllIn(read[i]) /\ AllIn(read[i]) \in Int
             /\ Candidate(read[i]) # None
  <2>1. read[i] \in RawRates /\ read[i].amount # None
    BY <1>2, <1>4 DEF Usable
  <2>2. Candidate(read[i]).price = AllIn(read[i])
    BY DEF Candidate
  <2> QED
    BY <1>4, <2>1, <2>2, FeesAddUp, QuoteAssumption
<1>5. \A k \in DOMAIN candidates : candidates[k].price \in Int
  BY <1>1, <1>4 DEF EachIsRead
<1>6. CASE /\ best = None
           /\ \A k \in DOMAIN candidates : ~MatchesRoom(candidates[k], booking)
  BY <1>1, <1>6 DEF EachIsPriced
<1>7. CASE \E k \in DOMAIN candidates :
              /\ best = candidates[k]
              /\ MatchesRoom(candidates[k], booking)
              /\ \A l \in DOMAIN candidates :
                    MatchesRoom(candidates[l], booking) => candidates[k].price <= candidates[l].price
  <2>1. PICK k \in DOMAIN candidates :
              /\ best = candidates[k]
              /\ MatchesRoom(candidates[k], booking)
              /\ \A l \in DOMAIN candidates :
                    MatchesRoom(candidates[l], booking) => candidates[k].price <= candidates[l].price
    BY <1>7
  <2>2. PICK i \in DOMAIN read : Usable(read[i]) /\ candidates[k] = Candidate(read[i])
    BY <1>1 DEF EachIsRead
  <2>3. /\ best # None /\ best.price \in Int
        /\ MatchesRoom(Candidate(read[i]), booking) /\ best = Candidate(read[i])
    BY <1>4, <2>1, <2>2
  <2>4. ASSUME NEW h \in DOMAIN read, Usable(read[h]), MatchesRoom(Candidate(read[h]), booking)
        PROVE  best.price <= AllIn(read[h])
    <3>1. PICK l \in DOMAIN candidates : candidates[l] = Candidate(read[h])
      BY <1>1, <2>4 DEF EachIsPriced
    <3>2. candidates[k].price <= candidates[l].price
      BY <2>1, <2>4, <3>1
    <3> QED
      BY <2>1, <2>4, <3>1, <3>2, <1>4
  <2> QED
    BY <2>2, <2>3, <2>4
<1> QED
  BY <1>1, <1>3, <1>5, <1>6, <1>7, BestIsCheapest

-----------------------------------------------------------------------------

\* No drop is manufactured, whatever the reply holds and however many fees
\* its rates carry: a drop that is found is a rate of this hotel, no worse
\* than the booking by any of the rules, board included, whose fees are all in
\* the currency of its total, and that really costs so much all in.  Of the room names it
\* is asked that each states one tier: "penthouse junior suite" counts as a
\* penthouse.
THEOREM NoPhantomDropAlways ==
    ASSUME OneTierEach
    PROVE  Spec => []NoPhantomDrop
<1>1. QuoteInv => NoPhantomDrop
  <2> SUFFICES ASSUME QuoteInv, FoundDrop
               PROVE  \E i \in DOMAIN read :
                          /\ read[i].ours /\ read[i].amount # None
                          /\ NoWorse(read[i])
                          /\ OneCurrency(read[i])
                          /\ Payable(read[i]) = best.price
                          /\ BelowByFloor(Payable(read[i]), booking.original, booking.original)
    BY DEF NoPhantomDrop
  <2>1. phase = "decided" /\ best # None /\ BelowByFloor(best.price, booking.original, booking.original)
    BY DEF FoundDrop, IsActionableDrop
  <2>2. PICK i \in DOMAIN read :
            /\ Usable(read[i]) /\ MatchesRoom(Candidate(read[i]), booking)
            /\ best = Candidate(read[i])
    BY <2>1, BestOfReply
  <2>3. read[i] \in RawRates /\ booking \in Bookings
    BY DEF QuoteInv
  <2>4. read[i].ours /\ read[i].amount # None
    BY <2>2 DEF Usable
  <2>5. NoWorse(read[i])
    BY <2>2, <2>3, MatchIsNoWorse
  <2>6. best.price = AllIn(read[i])
    BY <2>2 DEF Candidate
  <2>7. Payable(read[i]) = best.price
    BY <2>3, <2>4, <2>6, FeesAddUp
  <2>8. OneCurrency(read[i])
    BY <2>2, <2>4 DEF Usable, ForeignFee, Extras, OneCurrency
  <2> QED
    BY <2>1, <2>4, <2>5, <2>7, <2>8
<1> QED
  BY <1>1, QuoteInvHolds, PTL

\* And none is missed: if nothing was found, no rate of the reply that is no
\* worse than the booking and can be added up beats the booking by the floor.
THEOREM NothingMissedAlways == Spec => []NothingMissed
<1>1. QuoteInv => NothingMissed
  <2> SUFFICES ASSUME QuoteInv, phase = "decided", ~FoundDrop, NEW i \in DOMAIN read,
                      read[i].ours, read[i].amount # None,
                      NoWorse(read[i]), OneCurrency(read[i])
               PROVE  ~BelowByFloor(Payable(read[i]), booking.original, booking.original)
    BY DEF NothingMissed
  <2>1. read[i] \in RawRates /\ booking \in Bookings
    BY DEF QuoteInv
  <2>2. Usable(read[i])
    BY DEF Usable, ForeignFee, Extras, OneCurrency
  <2>3. MatchesRoom(Candidate(read[i]), booking)
    BY <2>1, NoWorseMatches
  <2>4. best # None /\ best.price \in Int /\ best.price <= AllIn(read[i])
    BY <2>2, <2>3, BestOfReply
  <2>5. AllIn(read[i]) \in Int /\ AllIn(read[i]) = Payable(read[i])
    BY <2>1, FeesAddUp
  <2>6. ~BelowByFloor(best.price, booking.original, booking.original)
    BY <2>4 DEF FoundDrop, IsActionableDrop
  <2>7. booking.original \in Int /\ DropFloor100(booking.original) \in Int
    BY <2>1, QuoteAssumption, FloorAssumption DEF DropFloor100
  <2> QED
    BY <2>4, <2>5, <2>6, <2>7 DEF BelowByFloor
<1> QED
  BY <1>1, QuoteInvHolds, PTL

=============================================================================
