------------------------- MODULE SpendingMath_proofs ------------------------
(***************************************************************************)
(* Proofs about SpendingMath and ChargeForecast, for any finite set of     *)
(* transactions with whole amounts, any budgets, names, taxonomy, rhythms  *)
(* and calendar: the months of a year add up, a rollover carries no more   *)
(* than was left, the cash-flow diagram balances, the budget cards agree,  *)
(* and the upcoming charges are foretold as they should be.                *)
(***************************************************************************)
EXTENDS SpendingMath, ChargeForecast, FiniteSetTheorems, WellFoundedInduction, TLAPS

-----------------------------------------------------------------------------
(* Sums over finite sets.  What holds of every finite set is proved of a     *)
(* least set for which it would fail.                                        *)
LEMMA LeastSubset ==
    ASSUME NEW F, IsFiniteSet(F), NEW C \in SUBSET SUBSET F, C # {}
    PROVE  \E G \in C : \A H \in C : H \subseteq G => H = G
  <1>1. FiniteSubsetsOf(F) = SUBSET F
    BY FS_FiniteSubsetsOfFinite
  <1>2. PICK G \in C : \A H \in C : ~(<<H, G>> \in StrictSubsetOrdering(F))
    BY <1>1, FS_StrictSubsetOrderingWellFounded, WFMin
  <1>3. ASSUME NEW H \in C, H \subseteq G, H # G PROVE FALSE
    <2>1. <<H, G>> \in (SUBSET F) \X (SUBSET F) /\ <<H, G>>[1] = H /\ <<H, G>>[2] = G
      OBVIOUS
    <2> QED BY <1>2, <1>3, <2>1 DEF StrictSubsetOrdering
  <1> QED BY <1>3

\* A sum of weights, as MapThenSumSet takes it: one element after the other.
Pick(s) == CHOOSE x \in s : TRUE
Sums(w, T, g) == g = [s \in SUBSET T |-> IF s = {} THEN 0 ELSE w[Pick(s)] + g[s \ {Pick(s)}]]
Sum(w, T) == (CHOOSE g : Sums(w, T, g))[T]

LEMMA PickIn == ASSUME NEW s, s # {} PROVE Pick(s) \in s
  BY DEF Pick

LEMMA SumsAre ==
    ASSUME NEW w, NEW T, NEW g
    PROVE  Sums(w, T, g) <=>
              /\ g = [s \in SUBSET T |-> g[s]]
              /\ T = T /\ \A s \in SUBSET T : g[s] = IF s = {} THEN 0 ELSE w[Pick(s)] + g[s \ {Pick(s)}]
  <1>1. ASSUME Sums(w, T, g)
        PROVE  /\ g = [s \in SUBSET T |-> g[s]]
               /\ \A s \in SUBSET T : g[s] = IF s = {} THEN 0 ELSE w[Pick(s)] + g[s \ {Pick(s)}]
    BY <1>1 DEF Sums
  <1>2. ASSUME g = [s \in SUBSET T |-> g[s]],
               \A s \in SUBSET T : g[s] = IF s = {} THEN 0 ELSE w[Pick(s)] + g[s \ {Pick(s)}]
        PROVE  Sums(w, T, g)
    <2>1. [s \in SUBSET T |-> g[s]] = [s \in SUBSET T |-> IF s = {} THEN 0 ELSE w[Pick(s)] + g[s \ {Pick(s)}]]
      BY <1>2
    <2> QED BY <1>2, <2>1 DEF Sums
  <1> QED BY <1>1, <1>2

LEMMA SumsUnique ==
    ASSUME NEW w, NEW T, IsFiniteSet(T), NEW g, NEW h, NEW S \in SUBSET T, Sums(w, T, g), Sums(w, S, h)
    PROVE  \A s \in SUBSET S : g[s] = h[s]
  <1> DEFINE C == {s \in SUBSET S : g[s] # h[s]}
  <1> SUFFICES ASSUME C # {} PROVE FALSE
    OBVIOUS
  <1>1. /\ C \in SUBSET SUBSET S /\ \A s \in C : g[s] # h[s]
        /\ \A s \in SUBSET S : s \notin C => g[s] = h[s]
    OBVIOUS
  <1> HIDE DEF C
  <1>2. PICK G \in C : \A H \in C : H \subseteq G => H = G
    BY <1>1, LeastSubset, FS_Subset
  <1>3. /\ G \in SUBSET S /\ G \in SUBSET T
        /\ g[G] = IF G = {} THEN 0 ELSE w[Pick(G)] + g[G \ {Pick(G)}]
        /\ h[G] = IF G = {} THEN 0 ELSE w[Pick(G)] + h[G \ {Pick(G)}]
    BY <1>1, SumsAre
  <1>4. G # {}
    BY <1>1, <1>3
  <1>5. g[G \ {Pick(G)}] = h[G \ {Pick(G)}]
    BY <1>1, <1>2, <1>3, <1>4, PickIn
  <1> QED BY <1>1, <1>3, <1>5

LEMMA SumsExist ==
    ASSUME NEW w, NEW T, IsFiniteSet(T)
    PROVE  \E g : Sums(w, T, g)
  <1> DEFINE C == {s \in SUBSET T : ~\E g : Sums(w, s, g)}
  <1> SUFFICES ASSUME C # {} PROVE FALSE
    OBVIOUS
  <1>1. /\ C \in SUBSET SUBSET T /\ \A s \in C : ~\E g : Sums(w, s, g)
        /\ \A s \in SUBSET T : s \notin C => \E g : Sums(w, s, g)
    OBVIOUS
  <1> HIDE DEF C
  <1>2. PICK G \in C : \A H \in C : H \subseteq G => H = G
    BY <1>1, LeastSubset
  <1> DEFINE val(s) == Sum(w, s)
             last == IF G = {} THEN 0 ELSE w[Pick(G)] + val(G \ {Pick(G)})
             g == [s \in SUBSET G |-> IF s = G THEN last ELSE val(s)]
  <1>3. ASSUME NEW s \in SUBSET G, s # G
        PROVE  val(s) = IF s = {} THEN 0 ELSE w[Pick(s)] + val(s \ {Pick(s)})
    <2> DEFINE gs == CHOOSE h : Sums(w, s, h)
    <2>1. Sums(w, s, gs) /\ IsFiniteSet(s)
      BY <1>1, <1>2, <1>3, FS_Subset
    <2>2. val(s) = gs[s]
      BY DEF Sum
    <2>3. CASE s = {}
      BY <2>1, <2>2, <2>3, SumsAre
    <2>4. CASE s # {}
      <3> DEFINE r == s \ {Pick(s)}
                 gr == CHOOSE h : Sums(w, r, h)
      <3>1. r \in SUBSET s /\ r \in SUBSET G /\ r # G
        BY <2>4, PickIn
      <3>2. Sums(w, r, gr)
        BY <1>1, <1>2, <3>1
      <3>3. val(r) = gr[r]
        BY DEF Sum
      <3> HIDE DEF gr, r, gs, val
      <3>4. gs[r] = gr[r]
        BY <2>1, <3>1, <3>2, SumsUnique
      <3>5. gs[s] = w[Pick(s)] + gs[r]
        BY <2>1, <2>4, SumsAre DEF r
      <3> QED BY <2>2, <2>4, <3>3, <3>4, <3>5 DEF r
    <2> QED BY <2>3, <2>4
  <1>4. \A s \in SUBSET G : g[s] = IF s = {} THEN 0 ELSE w[Pick(s)] + g[s \ {Pick(s)}]
    <2>1. SUFFICES ASSUME NEW s \in SUBSET G
                   PROVE  g[s] = IF s = {} THEN 0 ELSE w[Pick(s)] + g[s \ {Pick(s)}]
      OBVIOUS
    <2>2. \A r \in SUBSET G : g[r] = IF r = G THEN last ELSE val(r)
      OBVIOUS
    <2>3. CASE s = {}
      BY <1>3, <2>2, <2>3
    <2>4. CASE s # {}
      <3>1. s \ {Pick(s)} \in SUBSET G /\ s \ {Pick(s)} # G
        BY <2>4, PickIn
      <3>2. g[s \ {Pick(s)}] = val(s \ {Pick(s)})
        BY <2>2, <3>1
      <3> HIDE DEF g, val
      <3> QED BY <1>3, <2>2, <2>4, <3>2
    <2> QED BY <2>3, <2>4
  <1>5. g = [s \in SUBSET G |-> g[s]]
    OBVIOUS
  <1>6. Sums(w, G, g)
    <2> HIDE DEF g
    <2> QED BY <1>4, <1>5, SumsAre
  <1> QED BY <1>1, <1>6

LEMMA SumsHave ==
    ASSUME NEW w, NEW T, IsFiniteSet(T), NEW g, Sums(w, T, g)
    PROVE  g[T] = Sum(w, T)
  <1>1. Sums(w, T, CHOOSE h : Sums(w, T, h))
    OBVIOUS
  <1> QED BY <1>1, SumsUnique DEF Sum

LEMMA SumPick ==
    ASSUME NEW w, NEW T, IsFiniteSet(T)
    PROVE  Sum(w, T) = IF T = {} THEN 0 ELSE w[Pick(T)] + Sum(w, T \ {Pick(T)})
  <1> DEFINE g == CHOOSE h : Sums(w, T, h)
  <1>1. Sums(w, T, g) /\ Sum(w, T) = g[T]
    BY SumsExist DEF Sum
  <1>2. CASE T = {}
    BY <1>1, <1>2, SumsAre
  <1>3. CASE T # {}
    <2> DEFINE r == T \ {Pick(T)}
               gr == CHOOSE h : Sums(w, r, h)
    <2>1. Sums(w, r, gr) /\ Sum(w, r) = gr[r]
      <3>1. IsFiniteSet(r)
        BY FS_Subset
      <3> QED BY <3>1, SumsExist DEF Sum
    <2> HIDE DEF g, gr
    <2>2. g[r] = gr[r]
      BY <1>1, <2>1, SumsUnique
    <2>3. g[T] = w[Pick(T)] + g[r]
      BY <1>1, <1>3, SumsAre
    <2> QED BY <1>1, <1>3, <2>1, <2>2, <2>3
  <1> QED BY <1>2, <1>3

\* A set of weights that are whole numbers.
Weighs(w, T) == IsFiniteSet(T) /\ \A x \in T : w[x] \in Int

LEMMA WeighsPart ==
    ASSUME NEW w, NEW T, Weighs(w, T), NEW S \in SUBSET T
    PROVE  Weighs(w, S)
  BY FS_Subset DEF Weighs

LEMMA SumInt ==
    ASSUME NEW w, NEW T, Weighs(w, T)
    PROVE  Sum(w, T) \in Int
  <1> DEFINE C == {s \in SUBSET T : Sum(w, s) \notin Int}
  <1> SUFFICES ASSUME C # {} PROVE FALSE
    OBVIOUS
  <1>1. C \in SUBSET SUBSET T /\ \A s \in SUBSET T : s \in C <=> Sum(w, s) \notin Int
    OBVIOUS
  <1> HIDE DEF C
  <1>2. PICK G \in C : \A H \in C : H \subseteq G => H = G
    BY <1>1, LeastSubset DEF Weighs
  <1>3. G \in SUBSET T /\ Sum(w, G) = IF G = {} THEN 0 ELSE w[Pick(G)] + Sum(w, G \ {Pick(G)})
    BY <1>1, SumPick, WeighsPart DEF Weighs
  <1>4. G # {}
    BY <1>1, <1>3
  <1>5. Pick(G) \in G /\ Sum(w, G \ {Pick(G)}) \in Int
    BY <1>1, <1>2, <1>3, <1>4, PickIn
  <1> QED BY <1>1, <1>3, <1>5 DEF Weighs

\* It does not matter which element comes first.
LEMMA SumWithout ==
    ASSUME NEW w, NEW T, Weighs(w, T), NEW x \in T
    PROVE  Sum(w, T) = w[x] + Sum(w, T \ {x})
  <1> DEFINE Fails(s) == \E y \in s : Sum(w, s) # w[y] + Sum(w, s \ {y})
             C == {s \in SUBSET T : Fails(s)}
  <1> SUFFICES ASSUME C # {} PROVE FALSE
    OBVIOUS
  <1>1. C \in SUBSET SUBSET T /\ \A s \in SUBSET T : s \in C <=> Fails(s)
    OBVIOUS
  <1> HIDE DEF C
  <1>2. PICK G \in C : \A H \in C : H \subseteq G => H = G
    BY <1>1, LeastSubset DEF Weighs
  <1>3. PICK y \in G : Sum(w, G) # w[y] + Sum(w, G \ {y})
    BY <1>1
  <1> DEFINE p == Pick(G)
  <1>4. p \in G /\ Sum(w, G) = w[p] + Sum(w, G \ {p})
    BY <1>1, <1>3, SumPick, PickIn, WeighsPart DEF Weighs
  <1> HIDE DEF p
  <1>5. y # p
    BY <1>3, <1>4
  <1>6. ~Fails(G \ {p}) /\ ~Fails(G \ {y})
    <2>1. /\ G \ {p} \in SUBSET T /\ G \ {p} \subseteq G /\ G \ {p} # G
          /\ G \ {y} \in SUBSET T /\ G \ {y} \subseteq G /\ G \ {y} # G
      BY <1>1, <1>3, <1>4
    <2>2. G \ {p} \notin C /\ G \ {y} \notin C
      BY <1>2, <2>1
    <2> HIDE DEF Fails
    <2> QED BY <1>1, <2>1, <2>2
  <1>7. Sum(w, G \ {p}) = w[y] + Sum(w, (G \ {p}) \ {y})
    BY <1>3, <1>5, <1>6
  <1>8. Sum(w, G \ {y}) = w[p] + Sum(w, (G \ {y}) \ {p})
    BY <1>4, <1>5, <1>6
  <1>9. (G \ {p}) \ {y} = (G \ {y}) \ {p}
    OBVIOUS
  <1>10. Sum(w, (G \ {p}) \ {y}) \in Int /\ w[y] \in Int /\ w[p] \in Int
    <2>1. G \in SUBSET T /\ (G \ {p}) \ {y} \in SUBSET T
      BY <1>1
    <2> QED BY <1>3, <1>4, <2>1, SumInt, WeighsPart DEF Weighs
  <1>11. \A a, b, c \in Int : a + (b + c) = b + (a + c)
    OBVIOUS
  <1>12. w[p] + (w[y] + Sum(w, (G \ {p}) \ {y})) = w[y] + (w[p] + Sum(w, (G \ {p}) \ {y}))
    BY <1>10, <1>11
  <1> QED BY <1>3, <1>4, <1>7, <1>8, <1>9, <1>12, Zenon

LEMMA SumEmpty == \A w : Sum(w, {}) = 0
  BY SumPick, FS_EmptySet

LEMMA SumOne ==
    ASSUME NEW w, NEW x, w[x] \in Int
    PROVE  Sum(w, {x}) = w[x]
  <1>1. Weighs(w, {x}) /\ {x} \ {x} = {}
    BY FS_Singleton DEF Weighs
  <1> QED BY <1>1, SumWithout, SumEmpty

\* Equal weights have equal sums.
LEMMA SumSame ==
    ASSUME NEW w, NEW v, NEW T, IsFiniteSet(T), \A x \in T : w[x] = v[x]
    PROVE  Sum(w, T) = Sum(v, T)
  <1> DEFINE C == {s \in SUBSET T : Sum(w, s) # Sum(v, s)}
  <1> SUFFICES ASSUME C # {} PROVE FALSE
    OBVIOUS
  <1>1. C \in SUBSET SUBSET T /\ \A s \in SUBSET T : s \in C <=> Sum(w, s) # Sum(v, s)
    OBVIOUS
  <1> HIDE DEF C
  <1>2. PICK G \in C : \A H \in C : H \subseteq G => H = G
    BY <1>1, LeastSubset
  <1>3. /\ G \in SUBSET T
        /\ Sum(w, G) = IF G = {} THEN 0 ELSE w[Pick(G)] + Sum(w, G \ {Pick(G)})
        /\ Sum(v, G) = IF G = {} THEN 0 ELSE v[Pick(G)] + Sum(v, G \ {Pick(G)})
    BY <1>1, SumPick, FS_Subset
  <1>4. G # {}
    BY <1>1, <1>3
  <1>5. Pick(G) \in T /\ Sum(w, G \ {Pick(G)}) = Sum(v, G \ {Pick(G)})
    BY <1>1, <1>2, <1>3, <1>4, PickIn
  <1> QED BY <1>1, <1>3, <1>5

LEMMA SumUnion ==
    ASSUME NEW w, NEW A, NEW B, Weighs(w, A \cup B), A \cap B = {}
    PROVE  Sum(w, A \cup B) = Sum(w, A) + Sum(w, B)
  <1> DEFINE C == {s \in SUBSET B : Sum(w, A \cup s) # Sum(w, A) + Sum(w, s)}
  <1> SUFFICES ASSUME C # {} PROVE FALSE
    OBVIOUS
  <1>1. C \in SUBSET SUBSET B /\ \A s \in SUBSET B : s \in C <=> Sum(w, A \cup s) # Sum(w, A) + Sum(w, s)
    OBVIOUS
  <1> HIDE DEF C
  <1>2. Weighs(w, A) /\ Weighs(w, B) /\ Sum(w, A) \in Int
    BY SumInt, WeighsPart
  <1>3. PICK G \in C : \A H \in C : H \subseteq G => H = G
    BY <1>1, <1>2, LeastSubset DEF Weighs
  <1>4. G \in SUBSET B /\ G \in SUBSET (A \cup B) /\ A \cup G \in SUBSET (A \cup B)
    BY <1>1
  <1>5. CASE G = {}
    BY <1>1, <1>2, <1>5, SumEmpty
  <1>6. CASE G # {}
    <2>1. PICK x : x \in G
      BY <1>6
    <2>2. G \ {x} \notin C /\ G \ {x} \in SUBSET B
      BY <1>3, <1>4, <2>1
    <2>3. Sum(w, A \cup (G \ {x})) = Sum(w, A) + Sum(w, G \ {x})
      BY <1>1, <2>2
    <2>4. Sum(w, G) = w[x] + Sum(w, G \ {x})
      BY <1>4, <2>1, SumWithout, WeighsPart
    <2>5. (A \cup G) \ {x} = A \cup (G \ {x})
      BY <1>4, <2>1
    <2>6. Sum(w, A \cup G) = w[x] + Sum(w, A \cup (G \ {x}))
      BY <1>4, <2>1, <2>5, SumWithout, WeighsPart
    <2>7. w[x] \in Int /\ Sum(w, G \ {x}) \in Int
      <3>1. G \ {x} \in SUBSET (A \cup B) /\ x \in A \cup B
        BY <1>4, <2>1
      <3> QED BY <3>1, SumInt, WeighsPart DEF Weighs
    <2>8. Sum(w, A \cup G) = Sum(w, A) + Sum(w, G)
      BY <1>2, <2>3, <2>4, <2>6, <2>7
    <2> QED BY <1>1, <1>4, <2>8
  <1> QED BY <1>5, <1>6

\* The parts of a set, by the value of a function, have its sum together.
LEMMA SumParts ==
    ASSUME NEW w, NEW T, Weighs(w, T), NEW M, IsFiniteSet(M), NEW k, \A t \in T : k[t] \in M, NEW v,
           \A m \in M : v[m] = Sum(w, {t \in T : k[t] = m})
    PROVE  Sum(w, T) = Sum(v, M)
  <1> DEFINE Of(s) == {t \in T : k[t] \in s}
             C == {s \in SUBSET M : Sum(w, Of(s)) # Sum(v, s)}
  <1>1. C \in SUBSET SUBSET M /\ \A s \in SUBSET M : s \in C <=> Sum(w, Of(s)) # Sum(v, s)
    OBVIOUS
  <1>2. Weighs(v, M)
    <2>1. ASSUME NEW m \in M PROVE v[m] \in Int
      <3> DEFINE mine == {t \in T : k[t] = m}
      <3>1. mine \in SUBSET T /\ v[m] = Sum(w, mine)
        OBVIOUS
      <3> HIDE DEF mine
      <3> QED BY <3>1, SumInt, WeighsPart
    <2> QED BY <2>1 DEF Weighs
  <1>3. ASSUME C # {} PROVE FALSE
    <2> HIDE DEF C
    <2>1. PICK G \in C : \A H \in C : H \subseteq G => H = G
      BY <1>1, <1>3, LeastSubset
    <2>2. CASE G = {}
      <3>1. Of(G) = {}
        BY <2>2
      <3> QED BY <1>1, <2>1, <2>2, <3>1, SumEmpty
    <2>3. CASE G # {}
      <3>1. PICK m : m \in G
        BY <2>3
      <3>2. G \in SUBSET M /\ m \in M
        BY <1>1, <2>1, <3>1
      <3>3. Sum(w, Of(G \ {m})) = Sum(v, G \ {m})
        BY <1>1, <2>1, <3>1, <3>2
      <3>4. Sum(v, G) = v[m] + Sum(v, G \ {m})
        BY <1>2, <3>1, <3>2, SumWithout, WeighsPart
      <3> DEFINE mine == {t \in T : k[t] = m}
                 rest == Of(G \ {m})
      <3>5. Of(G) = mine \cup rest /\ mine \cap rest = {} /\ mine \cup rest \in SUBSET T
        BY <3>1
      <3>6. v[m] = Sum(w, mine)
        BY <3>2
      <3> HIDE DEF mine, rest
      <3>7. Sum(w, Of(G)) = Sum(w, mine) + Sum(w, rest)
        BY <3>5, SumUnion, WeighsPart
      <3> QED BY <1>1, <2>1, <3>2, <3>3, <3>4, <3>6, <3>7 DEF rest
    <2> QED BY <2>2, <2>3
  <1>4. Of(M) = T
    OBVIOUS
  <1> QED BY <1>1, <1>3, <1>4

LEMMA SumZero ==
    ASSUME NEW w, NEW T, IsFiniteSet(T), \A x \in T : w[x] = 0
    PROVE  Sum(w, T) = 0
  <1> DEFINE C == {s \in SUBSET T : Sum(w, s) # 0}
  <1> SUFFICES ASSUME C # {} PROVE FALSE
    OBVIOUS
  <1>1. C \in SUBSET SUBSET T /\ \A s \in SUBSET T : s \in C <=> Sum(w, s) # 0
    OBVIOUS
  <1> HIDE DEF C
  <1>2. PICK G \in C : \A H \in C : H \subseteq G => H = G
    BY <1>1, LeastSubset
  <1>3. G \in SUBSET T /\ Sum(w, G) = IF G = {} THEN 0 ELSE w[Pick(G)] + Sum(w, G \ {Pick(G)})
    BY <1>1, SumPick, FS_Subset
  <1>4. G # {}
    BY <1>1, <1>3
  <1>5. w[Pick(G)] = 0 /\ Sum(w, G \ {Pick(G)}) = 0
    BY <1>1, <1>2, <1>3, <1>4, PickIn
  <1> QED BY <1>1, <1>3, <1>5

\* What weighs nothing may be left out.
LEMMA SumHeavy ==
    ASSUME NEW w, NEW T, Weighs(w, T), NEW S \in SUBSET T, \A x \in T \ S : w[x] = 0
    PROVE  Sum(w, T) = Sum(w, S)
  <1>1. T = S \cup (T \ S) /\ S \cap (T \ S) = {}
    OBVIOUS
  <1>2. Sum(w, T \ S) = 0
    BY SumZero, FS_Subset DEF Weighs
  <1>3. Sum(w, S) \in Int
    BY SumInt, WeighsPart
  <1> QED BY <1>1, <1>2, <1>3, SumUnion

-----------------------------------------------------------------------------
(* The variables hold what the page was given.                               *)
MathOK == transactions \in Pool /\ allBudgets \in BudgetSets /\ chosenPeriod \in MathPeriods
LEMMA MathOKAlways == MathSpec => []MathOK
  <1>1. MathInit => MathOK
    BY DEF MathInit, MathOK
  <1>2. MathOK /\ [MathNext]_mathVars => MathOK'
    BY DEF MathOK, MathNext, SelectPeriod, SelectBudgetCategory, mathVars
  <1> QED BY <1>1, <1>2, PTL DEF MathSpec

\* What the page adds up is a sum of weights.
Net(T) == [t \in T |-> getNetSpendingAmount(t)]
LEMMA TotalIs ==
    ASSUME NEW T, IsFiniteSet(T)
    PROVE  Total(T) = Sum(Net(T), T)
  <1> DEFINE Rec(g) == g = [s \in SUBSET T |-> IF s = {} THEN 0
                                              ELSE getNetSpendingAmount(Pick(s)) + g[s \ {Pick(s)}]]
  <1>1. Total(T) = (CHOOSE g : Rec(g))[T]
    BY DEF Total, MapThenSumSet, MapThenFoldSet, Pick
  <1>2. ASSUME NEW g PROVE Rec(g) <=> Sums(Net(T), T, g)
    <2>1. \A s \in SUBSET T : s # {} => Net(T)[Pick(s)] = getNetSpendingAmount(Pick(s))
      BY PickIn DEF Net
    <2> QED BY <2>1 DEF Sums
  <1> HIDE DEF Rec
  <1>3. Sums(Net(T), T, CHOOSE g : Rec(g))
    BY <1>2, SumsExist
  <1> QED BY <1>1, <1>3, SumsHave

\* The sum of a part is that of the weights of the whole.
LEMMA TotalOf ==
    ASSUME NEW T, IsFiniteSet(T), \A t \in T : t.amount \in Int, NEW S \in SUBSET T
    PROVE  Weighs(Net(T), S) /\ Total(S) = Sum(Net(T), S) /\ Total(S) \in Int
  <1>1. Weighs(Net(T), S)
    BY FS_Subset DEF Weighs, Net, getNetSpendingAmount, getDisplayAmount
  <1>2. Sum(Net(S), S) = Sum(Net(T), S)
    <2>1. IsFiniteSet(S) /\ \A t \in S : Net(S)[t] = Net(T)[t]
      BY FS_Subset DEF Net
    <2> QED BY <2>1, SumSame
  <1> QED BY <1>1, <1>2, TotalIs, SumInt DEF Weighs

-----------------------------------------------------------------------------
(* The calendar: a day of a year lies in one of its months.                  *)
InMonth(d, y, m) == Date(y, m, 1) <= d /\ d <= Date(y, m, DaysPerMonth)


LEMMA Calendar ==
    ASSUME NEW y \in Int
    PROVE  \E Y \in Int : \A m, d \in Int : Date(y, m, d) = (Y + m) * DaysPerMonth + d
  <1>1. y * MonthsPerYear \in Int
    BY MathAssumption
  <1>2. \A m, d \in Int : Date(y, m, d) = (y * MonthsPerYear + m) * DaysPerMonth + d
    BY DEF Date
  <1> QED BY <1>1, <1>2

LEMMA Multiples ==
    ASSUME NEW a \in Int, NEW b \in Int, NEW s \in Nat
    PROVE  /\ a * s \in Int /\ b * s \in Int
           /\ a < b => a * s + s <= b * s
           /\ a <= b => a * s <= b * s
  <1>1. a * s \in Int /\ b * s \in Int
    OBVIOUS
  <1>2. ASSUME a < b PROVE a * s + s <= b * s
    <2>1. PICK n \in Nat : b = a + 1 + n
      <3>1. b - a - 1 \in Nat /\ b = a + 1 + (b - a - 1)
        BY <1>2
      <3> QED BY <3>1
    <2>2. b * s = a * s + s + n * s /\ n * s \in Nat
      BY <2>1
    <2> QED BY <1>1, <2>2
  <1> QED BY <1>1, <1>2

LEMMA Quotient ==
    ASSUME NEW r \in Nat, NEW s \in Nat \ {0}
    PROVE  \E q \in Nat : q * s <= r /\ r < q * s + s
  <1>1. r \div s \in Nat /\ (r \div s) * s <= r /\ r < (r \div s) * s + s
    OBVIOUS
  <1> QED BY <1>1

LEMMA DateType == \A y, m, d \in Int : Date(y, m, d) \in Int
  BY MathAssumption DEF Date

LEMMA LaterMonth ==
    ASSUME NEW y \in Int, NEW m \in Int, NEW n \in Int
    PROVE  /\ m < n => Date(y, m, DaysPerMonth) < Date(y, n, 1)
           /\ m <= n => /\ Date(y, m, 1) <= Date(y, n, 1)
                        /\ Date(y, m, DaysPerMonth) <= Date(y, n, DaysPerMonth)
  <1>1. PICK Y \in Int : \A k, d \in Int : Date(y, k, d) = (Y + k) * DaysPerMonth + d
    BY Calendar
  <1>2. DaysPerMonth \in Nat /\ DaysPerMonth \in Int /\ 1 \in Int
    BY MathAssumption
  <1> DEFINE a == (Y + m) * DaysPerMonth
             b == (Y + n) * DaysPerMonth
  <1>3. a \in Int /\ b \in Int /\ (m < n => a + DaysPerMonth <= b) /\ (m <= n => a <= b)
    <2>1. Y + m \in Int /\ Y + n \in Int /\ (m < n => Y + m < Y + n) /\ (m <= n => Y + m <= Y + n)
      OBVIOUS
    <2> QED BY <1>2, <2>1, Multiples
  <1>4. /\ Date(y, m, 1) = a + 1 /\ Date(y, n, 1) = b + 1
        /\ Date(y, m, DaysPerMonth) = a + DaysPerMonth /\ Date(y, n, DaysPerMonth) = b + DaysPerMonth
    <2> HIDE DEF a, b
    <2>1. \A e \in Int : Date(y, m, e) = a + e /\ Date(y, n, e) = b + e
      BY <1>1 DEF a, b
    <2> QED BY <1>2, <2>1
  <1> HIDE DEF a, b
  <1> QED BY <1>2, <1>3, <1>4

LEMMA OneMonth ==
    ASSUME NEW y \in Int, NEW m \in Int, NEW n \in Int, NEW d \in Int, InMonth(d, y, m), InMonth(d, y, n)
    PROVE  m = n
  <1>1. DaysPerMonth \in Int /\ 1 \in Int
    BY MathAssumption
  <1>2. \A k \in Int : Date(y, k, 1) \in Int /\ Date(y, k, DaysPerMonth) \in Int
    BY <1>1, DateType
  <1>3. ASSUME m < n PROVE FALSE
    BY <1>2, <1>3, LaterMonth DEF InMonth
  <1>4. ASSUME n < m PROVE FALSE
    BY <1>2, <1>4, LaterMonth DEF InMonth
  <1> QED BY <1>3, <1>4

LEMMA MonthWithin ==
    ASSUME NEW y \in Int, NEW first \in Int, NEW last \in Int, NEW m \in first .. last,
           NEW d \in Int, InMonth(d, y, m)
    PROVE  Date(y, first, 1) <= d /\ d <= Date(y, last, DaysPerMonth)
  <1>1. DaysPerMonth \in Int /\ 1 \in Int
    BY MathAssumption
  <1>2. m \in Int /\ first <= m /\ m <= last
    OBVIOUS
  <1>3. Date(y, first, 1) <= Date(y, m, 1) /\ Date(y, m, DaysPerMonth) <= Date(y, last, DaysPerMonth)
    BY <1>2, LaterMonth
  <1>4. \A k \in Int : Date(y, k, 1) \in Int /\ Date(y, k, DaysPerMonth) \in Int
    BY <1>1, DateType
  <1> QED BY <1>2, <1>3, <1>4 DEF InMonth

LEMMA SomeMonth ==
    ASSUME NEW y \in Int, NEW first \in Int, NEW last \in Int, NEW d \in Int,
           Date(y, first, 1) <= d, d <= Date(y, last, DaysPerMonth)
    PROVE  \E m \in first .. last : InMonth(d, y, m)
  <1>1. PICK Y \in Int : \A k, e \in Int : Date(y, k, e) = (Y + k) * DaysPerMonth + e
    BY Calendar
  <1>2. DaysPerMonth \in Nat \ {0}
    BY MathAssumption
  <1> DEFINE a == (Y + first) * DaysPerMonth
             r == d - (a + 1)
  <1>3. a \in Int /\ r \in Nat /\ d = a + 1 + r
    <2>1. a \in Int /\ Date(y, first, 1) = a + 1
      BY <1>1, <1>2
    <2> HIDE DEF a
    <2> QED BY <2>1
  <1>4. PICK q \in Nat : q * DaysPerMonth <= r /\ r < q * DaysPerMonth + DaysPerMonth
    BY <1>2, <1>3, Quotient
  <1>5. (Y + (first + q)) * DaysPerMonth = a + q * DaysPerMonth /\ q * DaysPerMonth \in Int
    BY <1>2
  <1>6. InMonth(d, y, first + q)
    <2>2. first + q \in Int /\ 1 \in Int /\ DaysPerMonth \in Int
      BY <1>2
    <2>1. Date(y, first + q, 1) = (Y + (first + q)) * DaysPerMonth + 1
          /\ Date(y, first + q, DaysPerMonth) = (Y + (first + q)) * DaysPerMonth + DaysPerMonth
      BY <1>1, <2>2
    <2> HIDE DEF a, r
    <2> QED BY <1>2, <1>3, <1>4, <1>5, <2>1 DEF InMonth
  <1>7. ASSUME last < first + q PROVE FALSE
    <2>1. first + q \in Int /\ DaysPerMonth \in Int
      BY <1>2
    <2>2. Date(y, last, DaysPerMonth) < Date(y, first + q, 1)
      BY <1>7, <2>1, LaterMonth
    <2>3. Date(y, last, DaysPerMonth) \in Int /\ Date(y, first + q, 1) \in Int
      BY <2>1, DateType
    <2> QED BY <1>6, <2>2, <2>3 DEF InMonth
  <1> QED BY <1>6, <1>7

-----------------------------------------------------------------------------
(* What a category costs over some months is what it costs in each of them.  *)
SpentIn(T, cat, sub, y, first, last) ==
    calculateSpent(T, cat, Date(y, first, 1), Date(y, last, DaysPerMonth), sub)
Dated(T) == IsFiniteSet(T) /\ \A t \in T : t.amount \in Int /\ t.date \in Int
Of(T, cat, sub, y, first, last) ==
    {t \in T : CountsFor(t, cat, sub) /\ Date(y, first, 1) <= t.date /\ t.date <= Date(y, last, DaysPerMonth)}

LEMMA SpentIs ==
    ASSUME NEW T, Dated(T), NEW cat, NEW sub, NEW y, NEW first, NEW last
    PROVE  /\ Of(T, cat, sub, y, first, last) \in SUBSET T
           /\ Weighs(Net(T), Of(T, cat, sub, y, first, last))
           /\ SpentIn(T, cat, sub, y, first, last) = Sum(Net(T), Of(T, cat, sub, y, first, last))
           /\ SpentIn(T, cat, sub, y, first, last) \in Int
  <1>1. Of(T, cat, sub, y, first, last) \in SUBSET T
    BY DEF Of
  <1>2. SpentIn(T, cat, sub, y, first, last) = Total(Of(T, cat, sub, y, first, last))
    BY DEF SpentIn, calculateSpent, Of
  <1> QED BY <1>1, <1>2, TotalOf DEF Dated

LEMMA SpentByMonth ==
    ASSUME NEW T, Dated(T), NEW cat, NEW sub, NEW y \in Int, NEW first \in Int, NEW last \in Int,
           NEW M, IsFiniteSet(M), NEW v,
           \A m \in M : m.month \in first .. last /\ v[m] = SpentIn(T, cat, sub, y, m.month, m.month),
           \A i \in first .. last : \E m \in M : m.month = i,
           \A m, n \in M : m.month = n.month => m = n
    PROVE  SpentIn(T, cat, sub, y, first, last) = Sum(v, M)
  <1> DEFINE S == Of(T, cat, sub, y, first, last)
             k == [t \in S |-> CHOOSE m \in M : InMonth(t.date, y, m.month)]
  <1>1. \A t \in T : t.date \in Int
    BY DEF Dated
  <1>2. S \in SUBSET T /\ Weighs(Net(T), S) /\ SpentIn(T, cat, sub, y, first, last) = Sum(Net(T), S)
    BY SpentIs
  <1>3. ASSUME NEW t \in S PROVE k[t] \in M /\ InMonth(t.date, y, k[t].month)
    <2>1. /\ t.date \in Int /\ Date(y, first, 1) <= t.date /\ t.date <= Date(y, last, DaysPerMonth)
      BY <1>1, <1>2 DEF Of
    <2>2. PICK i \in first .. last : InMonth(t.date, y, i)
      BY <2>1, SomeMonth
    <2>3. \E m \in M : InMonth(t.date, y, m.month)
      BY <2>2
    <2> QED BY <2>3
  <1>4. ASSUME NEW m \in M PROVE {t \in S : k[t] = m} = Of(T, cat, sub, y, m.month, m.month)
    <2>1. m.month \in Int /\ m.month \in first .. last
      OBVIOUS
    <2>2. ASSUME NEW t \in S, k[t] = m PROVE t \in Of(T, cat, sub, y, m.month, m.month)
      BY <1>3, <2>2 DEF Of, InMonth
    <2>3. ASSUME NEW t \in Of(T, cat, sub, y, m.month, m.month) PROVE t \in S /\ k[t] = m
      <3>1. t \in T /\ t.date \in Int /\ InMonth(t.date, y, m.month) /\ CountsFor(t, cat, sub)
        BY <1>1 DEF Of, InMonth
      <3>2. Date(y, first, 1) <= t.date /\ t.date <= Date(y, last, DaysPerMonth)
        BY <2>1, <3>1, MonthWithin
      <3>3. t \in S
        BY <3>1, <3>2 DEF Of
      <3>4. k[t] \in M /\ InMonth(t.date, y, k[t].month)
        BY <1>3, <3>3
      <3> HIDE DEF k
      <3>5. k[t].month \in Int
        BY <3>4
      <3>6. k[t].month = m.month
        BY <2>1, <3>1, <3>4, <3>5, OneMonth
      <3> QED BY <3>3, <3>4, <3>6
    <2> QED BY <2>2, <2>3
  <1>5. \A m \in M : v[m] = Sum(Net(T), {t \in S : k[t] = m})
    <2>1. ASSUME NEW m \in M PROVE v[m] = Sum(Net(T), Of(T, cat, sub, y, m.month, m.month))
      BY SpentIs
    <2> QED BY <1>4, <2>1
  <1>6. \A t \in S : k[t] \in M
    BY <1>3
  <1> HIDE DEF S, k
  <1> QED BY <1>2, <1>5, <1>6, SumParts
-----------------------------------------------------------------------------
LEMMA MonthIs ==
    ASSUME NEW b, NEW p
    PROVE  /\ MonthSpent(b, p) = calculateSpent(transactions, b.category, FirstDay(p), LastDay(p), NoName)
           /\ computeRolloverBudget(b, transactions, p, NoName).ytdSpent
              = calculateSpent(transactions, b.category, NewYear(p), LastDay(p), NoName)
  BY DEF MonthSpent, computeRolloverBudget

\* The sum of the months, as the page adds them.
MonthSum(b, M) == MapThenSumSet(LAMBDA m : MonthSpent(b, m), M)
LEMMA MonthSumIs ==
    ASSUME NEW b, NEW M, IsFiniteSet(M)
    PROVE  MonthSum(b, M) = Sum([m \in M |-> MonthSpent(b, m)], M)
  <1> DEFINE Rec(g) == g = [s \in SUBSET M |-> IF s = {} THEN 0
                                              ELSE MonthSpent(b, Pick(s)) + g[s \ {Pick(s)}]]
             w == [m \in M |-> MonthSpent(b, m)]
  <1>1. MonthSum(b, M) = (CHOOSE g : Rec(g))[M]
    BY DEF MonthSum, MapThenSumSet, MapThenFoldSet, Pick
  <1>2. ASSUME NEW g PROVE Rec(g) <=> Sums(w, M, g)
    <2>1. \A s \in SUBSET M : s # {} => w[Pick(s)] = MonthSpent(b, Pick(s))
      BY PickIn
    <2> QED BY <2>1 DEF Sums
  <1> HIDE DEF Rec, w
  <1>3. Sums(w, M, CHOOSE g : Rec(g))
    BY <1>2, SumsExist
  <1> QED BY <1>1, <1>3, SumsHave DEF w

LEMMA FirstMonths ==
    ASSUME MathOK, NEW b \in allBudgets, NEW last \in 0 .. MonthsPerYear - 1
    PROVE  SpentIn(transactions, b.category, NoName, chosenPeriod.year, 0, last)
           = MonthSum(b, {m \in Months(chosenPeriod) : m.month <= last})
  <1> DEFINE M == {m \in Months(chosenPeriod) : m.month <= last}
             w == [m \in M |-> MonthSpent(b, m)]
             y == chosenPeriod.year
  <1>0. MonthsPerYear \in Int /\ last \in Int /\ y \in Int /\ FullYear = -1
    <2>1. chosenPeriod.year \in Years
      BY DEF MathOK, MathPeriods
    <2> HIDE DEF M, w
    <2>2. MonthsPerYear \in Int /\ last \in Int
      BY MathAssumption
    <2>3. FullYear = -1
      BY DEF FullYear
    <2> QED BY <2>1, <2>2, <2>3, MathAssumption
  <1>1. \A m \in M : m.year = y /\ m.month \in 0 .. last
    BY <1>0 DEF Months
  <1>2. \A i \in 0 .. last : [year |-> y, month |-> i] \in M
    BY <1>0 DEF Months
  <1>3. \A m, n \in M : m.month = n.month => m = n
    BY DEF Months
  <1>4. IsFiniteSet(M)
    <2>1. IsFiniteSet(0 .. last)
      BY <1>0, FS_Interval
    <2> DEFINE f == [m \in M |-> m.month]
    <2> HIDE DEF M
    <2>2. f \in Injection(M, 0 .. last)
      BY <1>1, <1>3 DEF Injection, IsInjective
    <2> HIDE DEF f
    <2> QED BY <2>1, <2>2, FS_Injection
  <1>5. Dated(transactions)
    BY PoolAssumption DEF MathOK, Dated
  <1>6. \A m \in M : w[m] = SpentIn(transactions, b.category, NoName, y, m.month, m.month)
    <2>1. \A m \in M : w[m] = MonthSpent(b, m) /\ m.month # FullYear
      BY <1>0, <1>1
    <2> HIDE DEF w, M, y
    <2> QED BY <1>1, <2>1, MonthIs DEF SpentIn, FirstDay, LastDay
  <1> HIDE DEF M, w
  <1>7. 0 \in Int
    OBVIOUS
  <1>8. \A i \in 0 .. last : \E m \in M : m.month = i
    BY <1>2
  <1>9. SpentIn(transactions, b.category, NoName, y, 0, last) = Sum(w, M)
    <2> HIDE DEF y
    <2> QED BY <1>0, <1>1, <1>3, <1>4, <1>5, <1>6, <1>7, <1>8, SpentByMonth
  <1> QED BY <1>4, <1>9, MonthSumIs DEF w, M

(* What calculateSpent finds for a year is what it finds for each of its     *)
(* months, and what it finds up to a month what it finds for the months      *)
(* until then: MonthsAddUp is invariant, for any transactions and calendar.  *)
THEOREM MonthsAddUpAlways == MathSpec => []MonthsAddUp
  <1>1. MathOK => MonthsAddUp
    <2> SUFFICES ASSUME MathOK, NEW b \in allBudgets
                 PROVE  /\ chosenPeriod.month = FullYear =>
                              MonthSpent(b, chosenPeriod) = MonthSum(b, Months(chosenPeriod))
                        /\ chosenPeriod.month # FullYear =>
                              computeRolloverBudget(b, transactions, chosenPeriod, NoName).ytdSpent
                              = MonthSum(b, {m \in Months(chosenPeriod) : m.month <= chosenPeriod.month})
      BY DEF MonthsAddUp, MonthSum
    <2>0. MonthsPerYear \in Nat \ {0}
      BY MathAssumption
    <2>1. ASSUME chosenPeriod.month = FullYear
          PROVE  MonthSpent(b, chosenPeriod) = MonthSum(b, Months(chosenPeriod))
      <3>1. MonthsPerYear - 1 \in 0 .. MonthsPerYear - 1
        BY <2>0
      <3>2. Months(chosenPeriod) = {m \in Months(chosenPeriod) : m.month <= MonthsPerYear - 1}
        BY <2>0 DEF Months
      <3>3. MonthSpent(b, chosenPeriod)
            = SpentIn(transactions, b.category, NoName, chosenPeriod.year, 0, MonthsPerYear - 1)
        BY <2>1, MonthIs DEF SpentIn, FirstDay, LastDay
      <3> QED BY <3>1, <3>2, <3>3, FirstMonths
    <2>2. ASSUME chosenPeriod.month # FullYear
          PROVE  computeRolloverBudget(b, transactions, chosenPeriod, NoName).ytdSpent
                 = MonthSum(b, {m \in Months(chosenPeriod) : m.month <= chosenPeriod.month})
      <3>1. chosenPeriod.month \in 0 .. MonthsPerYear - 1
        BY <2>2 DEF MathOK, MathPeriods
      <3>2. computeRolloverBudget(b, transactions, chosenPeriod, NoName).ytdSpent
            = SpentIn(transactions, b.category, NoName, chosenPeriod.year, 0, chosenPeriod.month)
        BY <2>2, MonthIs DEF SpentIn, NewYear, LastDay
      <3> QED BY <3>1, <3>2, FirstMonths
    <2> QED BY <2>1, <2>2
  <1> QED BY <1>1, MathOKAlways, PTL

-----------------------------------------------------------------------------
LEMMA LeastNatural ==
    ASSUME NEW C \in SUBSET Nat, C # {}
    PROVE  \E n \in C : \A k \in C : n <= k
  <1>1. PICK n \in C : \A k \in C : ~(<<k, n>> \in OpToRel(<, Nat))
    BY NatLessThanWellFounded, WFMin
  <1>2. ASSUME NEW k \in C, ~(n <= k) PROVE FALSE
    <2>1. k \in Nat /\ n \in Nat /\ k < n
      BY <1>2
    <2>2. <<k, n>> \in OpToRel(<, Nat)
      BY <2>1 DEF OpToRel
    <2> QED BY <1>1, <2>2
  <1> QED BY <1>1, <1>2

\* The least number from which on a property fails, in a range.
LEMMA LeastOf ==
    ASSUME NEW first \in Int, NEW C \in SUBSET Int, C # {}, \A n \in C : first <= n
    PROVE  \E n \in C : \A k \in C : n <= k
  <1> DEFINE D == {n \in Nat : first + n \in C}
  <1>1. D \in SUBSET Nat /\ \A n \in Nat : n \in D <=> first + n \in C
    OBVIOUS
  <1>2. \A c \in C : c - first \in Nat /\ first + (c - first) = c
    OBVIOUS
  <1>3. D # {}
    <2>1. PICK c \in C : TRUE
      OBVIOUS
    <2>2. c - first \in D
      BY <1>2
    <2> QED BY <2>2
  <1> HIDE DEF D
  <1>4. PICK n \in D : \A k \in D : n <= k
    BY <1>1, <1>3, LeastNatural
  <1>5. ASSUME NEW k \in C PROVE first + n <= k
    <2>1. k \in Int /\ n \in Nat
      BY <1>1
    <2>2. k - first \in D
      BY <1>1, <1>2
    <2>3. n <= k - first
      BY <1>4, <2>2
    <2> QED BY <2>1, <2>3
  <1> QED BY <1>1, <1>4, <1>5
-----------------------------------------------------------------------------
(* The account kept month by month.                                          *)
Account(g, first, last, a, s) ==
    g = [m \in first .. last |-> IF m = first THEN 0
                                 ELSE IF g[m - 1] + a - s[m - 1] > 0 THEN g[m - 1] + a - s[m - 1] ELSE 0]

LEMMA AccountIs ==
    ASSUME NEW first \in Int, NEW last \in Int, NEW a, NEW s, NEW g
    PROVE  Account(g, first, last, a, s) <=>
              /\ g = [m \in first .. last |-> g[m]]
              /\ \A m \in first .. last :
                    g[m] = IF m = first THEN 0
                           ELSE IF g[m - 1] + a - s[m - 1] > 0 THEN g[m - 1] + a - s[m - 1] ELSE 0
  <1> DEFINE next(m) == IF m = first THEN 0
                        ELSE IF g[m - 1] + a - s[m - 1] > 0 THEN g[m - 1] + a - s[m - 1] ELSE 0
  <1>1. Account(g, first, last, a, s) <=> g = [m \in first .. last |-> next(m)]
    BY DEF Account
  <1> HIDE DEF next
  <1>2. g = [m \in first .. last |-> next(m)] <=>
           g = [m \in first .. last |-> g[m]] /\ \A m \in first .. last : g[m] = next(m)
    OBVIOUS
  <1> QED BY <1>1, <1>2 DEF next

LEMMA AccountExists ==
    ASSUME NEW first \in Int, NEW last \in Int, NEW a, NEW s
    PROVE  \E g : Account(g, first, last, a, s)
  <1> DEFINE C == {n \in first .. last : ~\E g : Account(g, first, n, a, s)}
  <1>0. CASE ~(first <= last)
    <2> DEFINE g == [m \in first .. last |-> 0]
    <2>1. Account(g, first, last, a, s)
      BY <1>0, AccountIs
    <2> QED BY <2>1
  <1>1. CASE first <= last
    <2> SUFFICES ASSUME C # {} PROVE FALSE
      BY <1>1
    <2>1. /\ C \in SUBSET Int /\ \A n \in C : first <= n /\ n <= last /\ ~\E g : Account(g, first, n, a, s)
          /\ \A n \in first .. last : n \notin C => \E g : Account(g, first, n, a, s)
      OBVIOUS
    <2> HIDE DEF C
    <2>2. PICK n \in C : \A k \in C : n <= k
      BY <2>1, LeastOf
    <2>3. n \in Int /\ first <= n /\ n <= last /\ n - 1 \in Int /\ n - 1 < n
      BY <2>1
    <2>4. CASE n = first
      <3> DEFINE g == [m \in first .. n |-> 0]
      <3>1. \A m \in first .. n : m = first
        BY <2>3, <2>4
      <3>2. Account(g, first, n, a, s)
        BY <2>3, <3>1, AccountIs
      <3> QED BY <2>1, <3>2
    <2>5. CASE n # first
      <3>1. n - 1 \in first .. last /\ n - 1 \notin C
        BY <2>2, <2>3, <2>5
      <3>2. PICK h : Account(h, first, n - 1, a, s)
        BY <2>1, <3>1
      <3>3. \A m \in first .. n - 1 :
                    h[m] = IF m = first THEN 0
                           ELSE IF h[m - 1] + a - s[m - 1] > 0 THEN h[m - 1] + a - s[m - 1] ELSE 0
        BY <2>3, <3>2, AccountIs
      <3> DEFINE fin == IF h[n - 1] + a - s[n - 1] > 0 THEN h[n - 1] + a - s[n - 1] ELSE 0
                 g == [m \in first .. n |-> IF m = n THEN fin ELSE h[m]]
      <3> HIDE DEF fin
      <3>4. /\ g = [m \in first .. n |-> g[m]]
            /\ g[n] = fin
            /\ \A m \in first .. n - 1 : g[m] = h[m]
        BY <2>3
      <3> HIDE DEF g
      <3>5. ASSUME NEW m \in first .. n
            PROVE  g[m] = IF m = first THEN 0
                          ELSE IF g[m - 1] + a - s[m - 1] > 0 THEN g[m - 1] + a - s[m - 1] ELSE 0
        <4>1. CASE m = n
          <5>1. g[n - 1] = h[n - 1]
            BY <2>3, <2>5, <3>4
          <5> QED BY <2>5, <3>4, <4>1, <5>1 DEF fin
        <4>2. CASE m # n
          <5>1. m \in first .. n - 1
            BY <2>3, <4>2
          <5>2. g[m] = h[m] /\ (m # first => m - 1 \in first .. n - 1)
            <6>1. m \in Int /\ first <= m /\ m <= n - 1
              BY <2>3, <5>1
            <6>2. m # first => m - 1 \in first .. n - 1
              BY <2>3, <6>1
            <6> QED BY <3>4, <5>1, <6>2
          <5>3. m # first => g[m - 1] = h[m - 1]
            BY <3>4, <5>2
          <5> QED BY <3>3, <5>1, <5>2, <5>3
        <4> QED BY <4>1, <4>2
      <3>6. Account(g, first, n, a, s)
        BY <2>3, <3>4, <3>5, AccountIs
      <3> QED BY <2>1, <3>6
    <2> QED BY <2>4, <2>5
  <1> QED BY <1>0, <1>1

(* What was left over in all, by the end of the month before.                *)
LeftOver(prior, first, last, a, s) ==
    /\ first <= last /\ a \in Int
    /\ \A m \in first .. last : s[m] \in Int /\ prior[m] \in Int
    /\ prior[first] = 0
    /\ \A m \in first .. last - 1 : prior[m + 1] = prior[m] + a - s[m]

(* Against what was left over in all: never less, and the same unless a month *)
(* ran over.                                                                  *)
LEMMA AccountBounds ==
    ASSUME NEW first \in Int, NEW last \in Int, NEW a, NEW s,
           NEW prior, LeftOver(prior, first, last, a, s), NEW g, Account(g, first, last, a, s)
    PROVE  /\ g[last] \in Nat /\ prior[last] <= g[last]
           /\ (\A m \in first .. last - 1 : ~(g[m] + a - s[m] < 0)) => prior[last] = g[last]
  <1> DEFINE Holds(n) == /\ g[n] \in Nat /\ prior[n] <= g[n]
                         /\ (\A m \in first .. n - 1 : ~(g[m] + a - s[m] < 0)) => prior[n] = g[n]
             C == {n \in first .. last : ~Holds(n)}
  <1>0. /\ first <= last /\ a \in Int
        /\ \A m \in first .. last : s[m] \in Int /\ prior[m] \in Int
        /\ prior[first] = 0
        /\ \A m \in first .. last - 1 : prior[m + 1] = prior[m] + a - s[m]
    BY DEF LeftOver
  <1> SUFFICES C = {}
    <2> HIDE DEF Holds
    <2>1. last \in first .. last
      BY <1>0
    <2>2. Holds(last)
      BY <2>1
    <2> QED BY <2>2 DEF Holds
  <1> SUFFICES ASSUME C # {} PROVE FALSE
    OBVIOUS
  <1>1. /\ C \in SUBSET Int /\ \A n \in C : first <= n /\ n <= last /\ ~Holds(n)
        /\ \A n \in first .. last : n \notin C => Holds(n)
    OBVIOUS
  <1> HIDE DEF C
  <1>2. PICK n \in C : \A k \in C : n <= k
    BY <1>1, LeastOf
  <1>3. n \in Int /\ first <= n /\ n <= last /\ n - 1 \in Int /\ n - 1 < n /\ n \in first .. last
    BY <1>1
  <1>4. \A m \in first .. last :
                    g[m] = IF m = first THEN 0
                           ELSE IF g[m - 1] + a - s[m - 1] > 0 THEN g[m - 1] + a - s[m - 1] ELSE 0
    BY AccountIs
  <1>5. CASE n = first
    <2>1. g[n] = 0 /\ prior[n] = 0
      BY <1>0, <1>3, <1>4, <1>5
    <2> QED BY <1>1, <2>1
  <1>6. CASE n # first
    <2> DEFINE k == n - 1
    <2>1. k \in first .. last /\ k \in first .. last - 1 /\ k + 1 = n /\ k \notin C /\ k \in first .. n - 1
      BY <1>2, <1>3, <1>6
    <2>2. Holds(k)
      BY <1>1, <2>1
    <2>3. /\ g[n] = IF g[k] + a - s[k] > 0 THEN g[k] + a - s[k] ELSE 0
          /\ prior[n] = prior[k] + a - s[k]
          /\ prior[k] \in Int /\ s[k] \in Int /\ g[k] \in Nat /\ prior[k] <= g[k]
      BY <1>0, <1>3, <1>4, <1>6, <2>1, <2>2
    <2>4. (\A m \in first .. n - 1 : ~(g[m] + a - s[m] < 0)) =>
             ~(g[k] + a - s[k] < 0) /\ \A m \in first .. k - 1 : ~(g[m] + a - s[m] < 0)
      <3>1. \A m \in first .. k - 1 : m \in first .. n - 1
        BY <1>3, <2>1
      <3> QED BY <2>1, <3>1
    <2>5. (\A m \in first .. k - 1 : ~(g[m] + a - s[m] < 0)) => prior[k] = g[k]
      BY <2>2
    <2> HIDE DEF k
    <2>6. g[n] \in Nat /\ prior[n] <= g[n]
      BY <1>0, <2>3
    <2>7. (\A m \in first .. n - 1 : ~(g[m] + a - s[m] < 0)) => prior[n] = g[n]
      BY <1>0, <2>3, <2>4, <2>5
    <2> QED BY <1>1, <2>6, <2>7
  <1> QED BY <1>5, <1>6

-----------------------------------------------------------------------------
\* What was spent by the end of a month is what was by the one before, and its own.
LEMMA SpentStep ==
    ASSUME NEW T, Dated(T), NEW cat, NEW sub, NEW y \in Int, NEW first \in Int, NEW m \in Int, first <= m
    PROVE  SpentIn(T, cat, sub, y, first, m)
           = SpentIn(T, cat, sub, y, first, m - 1) + SpentIn(T, cat, sub, y, m, m)
  <1> DEFINE A == Of(T, cat, sub, y, first, m - 1)
             B == Of(T, cat, sub, y, m, m)
             S == Of(T, cat, sub, y, first, m)
             e == Date(y, m - 1, DaysPerMonth)
             f == Date(y, first, 1)
             g == Date(y, m, 1)
             h == Date(y, m, DaysPerMonth)
  <1>1. /\ DaysPerMonth \in Int /\ 1 \in Int /\ m - 1 \in Int /\ m - 1 < m
    BY MathAssumption
  <1>2. e < g /\ f <= g /\ e <= h
    BY <1>1, LaterMonth
  <1>3. e \in Int /\ f \in Int /\ g \in Int /\ h \in Int
    BY <1>1, DateType
  <1>4. g <= e + 1
    <2>1. PICK Y \in Int : \A k, d \in Int : Date(y, k, d) = (Y + k) * DaysPerMonth + d
      BY Calendar
    <2>2. e = (Y + (m - 1)) * DaysPerMonth + DaysPerMonth /\ g = (Y + m) * DaysPerMonth + 1
      <3> HIDE DEF e, g
      <3>1. \A d \in Int : Date(y, m - 1, d) = (Y + (m - 1)) * DaysPerMonth + d
                           /\ Date(y, m, d) = (Y + m) * DaysPerMonth + d
        BY <1>1, <2>1
      <3> QED BY <1>1, <3>1 DEF e, g
    <2>3. (Y + m) * DaysPerMonth = (Y + (m - 1)) * DaysPerMonth + DaysPerMonth
      BY <1>1
    <2>4. (Y + (m - 1)) * DaysPerMonth \in Int
      BY <1>1
    <2> HIDE DEF e, g
    <2> QED BY <1>1, <1>3, <2>2, <2>3, <2>4
  <1>5. /\ \A t \in T : t.date \in Int
        /\ \A t : t \in A <=> t \in T /\ CountsFor(t, cat, sub) /\ f <= t.date /\ t.date <= e
        /\ \A t : t \in B <=> t \in T /\ CountsFor(t, cat, sub) /\ g <= t.date /\ t.date <= h
        /\ \A t : t \in S <=> t \in T /\ CountsFor(t, cat, sub) /\ f <= t.date /\ t.date <= h
    BY DEF Of, Dated
  <1> HIDE DEF e, f, g, h
  <1>6. Weighs(Net(T), S) /\ Weighs(Net(T), A) /\ Weighs(Net(T), B)
    BY SpentIs
  <1>7. /\ SpentIn(T, cat, sub, y, first, m) = Sum(Net(T), S)
        /\ SpentIn(T, cat, sub, y, first, m - 1) = Sum(Net(T), A)
        /\ SpentIn(T, cat, sub, y, m, m) = Sum(Net(T), B)
    BY SpentIs
  <1> HIDE DEF A, B, S
  <1>8. S = A \cup B /\ A \cap B = {}
    <2>1. ASSUME NEW t \in S PROVE t \in A \/ t \in B
      BY <1>2, <1>3, <1>4, <1>5
    <2>2. ASSUME NEW t \in A PROVE t \in S /\ t \notin B
      BY <1>2, <1>3, <1>5
    <2>3. ASSUME NEW t \in B PROVE t \in S
      BY <1>2, <1>3, <1>5
    <2> QED BY <2>1, <2>2, <2>3
  <1> QED BY <1>6, <1>7, <1>8, SumUnion

LEMMA SpentBefore ==
    ASSUME NEW T, Dated(T), NEW cat, NEW sub, NEW y \in Int, NEW first \in Int
    PROVE  SpentIn(T, cat, sub, y, first, first - 1) = 0
  <1>1. DaysPerMonth \in Int /\ 1 \in Int /\ first - 1 \in Int /\ first - 1 < first
    BY MathAssumption
  <1>2. Date(y, first - 1, DaysPerMonth) < Date(y, first, 1)
    BY <1>1, LaterMonth
  <1>3. Date(y, first - 1, DaysPerMonth) \in Int /\ Date(y, first, 1) \in Int
    BY <1>1, DateType
  <1>4. Of(T, cat, sub, y, first, first - 1) = {}
    BY <1>2, <1>3 DEF Of, Dated
  <1> QED BY <1>4, SpentIs, SumEmpty

\* The account of the months, as the property keeps it.
MonthsOf(b, p) == [m \in FirstPrior(b, p) .. p.month |-> MonthSpent(b, [year |-> p.year, month |-> m])]
LEMMA CarriedIs ==
    ASSUME NEW b, NEW p, FirstPrior(b, p) \in Int, p.month \in Int
    PROVE  \E g : /\ Account(g, FirstPrior(b, p), p.month, b.amount, MonthsOf(b, p))
                  /\ CarriedOver(b, p).carry = g[p.month]
                  /\ CarriedOver(b, p).over <=>
                        \E m \in FirstPrior(b, p) .. p.month - 1 : g[m] + b.amount - MonthsOf(b, p)[m] < 0
  <1> DEFINE last == p.month
             first == FirstPrior(b, p)
             a == b.amount
             s == MonthsOf(b, p)
             spent(m) == MonthSpent(b, [year |-> p.year, month |-> m])
             Rec(g) == g = [m \in first .. last |->
                              IF m = first THEN 0
                              ELSE IF g[m - 1] + a - spent(m - 1) > 0 THEN g[m - 1] + a - spent(m - 1) ELSE 0]
             carry == CHOOSE g : Rec(g)
  <1>1. /\ CarriedOver(b, p).carry = carry[last]
        /\ CarriedOver(b, p).over = \E m \in first .. last - 1 : carry[m] + a - spent(m) < 0
    BY DEF CarriedOver
  <1>2. \A m \in first .. last : s[m] = spent(m) /\ (m # first => s[m - 1] = spent(m - 1))
    <2>1. \A m \in first .. last : s[m] = spent(m)
      BY DEF MonthsOf
    <2> HIDE DEF spent, s, first, last
    <2>2. \A m \in first .. last : m # first => m - 1 \in first .. last
      BY DEF first, last
    <2> QED BY <2>1, <2>2
  <1>0. first \in Int /\ last \in Int
    OBVIOUS
  <1> HIDE DEF spent, last, first, a, s
  <1>3. ASSUME NEW g PROVE Rec(g) <=> Account(g, first, last, a, s)
    BY <1>2 DEF Account
  <1>4. Account(carry, first, last, a, s)
    <2>2. PICK g : Account(g, first, last, a, s)
      BY <1>0, AccountExists
    <2> QED BY <1>3, <2>2
  <1> HIDE DEF Rec, carry
  <1>5. (\E m \in first .. last - 1 : carry[m] + a - spent(m) < 0)
        <=> \E m \in first .. last - 1 : carry[m] + a - s[m] < 0
    <2>2. \A m \in first .. last - 1 : m \in first .. last
      BY <1>0
    <2>3. \A m \in first .. last - 1 : spent(m) = s[m]
      BY <1>2, <2>2
    <2> QED BY <2>3
  <1> QED BY <1>1, <1>4, <1>5 DEF last, first, a, s

(* What computeCarryover carries over is never more than what the account of *)
(* the months of the budget has left: CarryoverIsCautious is invariant.      *)
THEOREM CarryoverIsAlwaysCautious == MathSpec => []CarryoverIsCautious
  <1>1. MathOK => CarryoverIsCautious
    <2> SUFFICES ASSUME MathOK, NEW b \in allBudgets, b.rollover, PriorMonths(b, chosenPeriod) > 0
                 PROVE  LET carried == computeRolloverBudget(b, transactions, chosenPeriod, NoName).priorCarryover
                            account == CarriedOver(b, chosenPeriod)
                        IN carried <= account.carry /\ (~account.over => carried = account.carry)
      BY DEF CarryoverIsCautious
    <2> DEFINE p == chosenPeriod
               T == transactions
               y == p.year
               last == p.month
               first == FirstPrior(b, p)
               a == b.amount
               spent(i, j) == SpentIn(T, b.category, NoName, y, i, j)
               s == MonthsOf(b, p)
               prior == [m \in first .. last |-> (m - first) * a - spent(first, m - 1)]
    <2>1. /\ y \in Int /\ a \in Int /\ first \in Nat /\ last \in Nat /\ first < last
          /\ PriorMonths(b, p) = last - first /\ PriorMonths(b, p) # 0 /\ last # FullYear
          /\ \A m \in first .. last : m # FullYear
      <3>1. p.year \in Years /\ p.month \in (0 .. MonthsPerYear - 1) \cup {FullYear}
        BY DEF MathOK, MathPeriods
      <3>2. b.amount \in Int /\ b.startMonth \in 0 .. MonthsPerYear - 1
        BY PoolAssumption DEF MathOK
      <3>3. MonthsPerYear \in Nat /\ y \in Int
        BY <3>1, MathAssumption
      <3>4. first \in Nat
        BY <3>2, <3>3 DEF FirstPrior
      <3> HIDE DEF first, s, prior
      <3>5. p.month # FullYear /\ ~(p.month <= first) /\ PriorMonths(b, p) = p.month - first
        BY DEF PriorMonths, first
      <3>6. last \in Nat
        BY <3>1, <3>3, <3>5
      <3> HIDE DEF p, last
      <3> QED BY <3>2, <3>3, <3>4, <3>5, <3>6 DEF FullYear, last
    <2>2. Dated(T)
      BY PoolAssumption DEF MathOK, Dated
    <2>3. \A m \in first .. last : s[m] = spent(m, m) /\ s[m] \in Int /\ prior[m] \in Int
      <3>1. ASSUME NEW m \in first .. last PROVE s[m] = spent(m, m) /\ s[m] \in Int /\ prior[m] \in Int
        <4>1. s[m] = MonthSpent(b, [year |-> y, month |-> m]) /\ prior[m] = (m - first) * a - spent(first, m - 1)
          BY DEF MonthsOf
        <4>2. MonthSpent(b, [year |-> y, month |-> m]) = spent(m, m)
          <5> HIDE DEF y
          <5> QED BY <2>1, MonthIs DEF SpentIn, FirstDay, LastDay
        <4>3. spent(m, m) \in Int /\ spent(first, m - 1) \in Int
          BY <2>2, SpentIs
        <4>4. (m - first) * a \in Int
          BY <2>1
        <4> HIDE DEF s, prior, spent, first, last, a
        <4> QED BY <4>1, <4>2, <4>3, <4>4
      <3> HIDE DEF s, prior, spent, first, last
      <3> QED BY <3>1
    <2>4. prior[first] = 0
      <3>1. first \in first .. last /\ (first - first) * a = 0
        BY <2>1
      <3>2. spent(first, first - 1) = 0
        BY <2>1, <2>2, SpentBefore
      <3> HIDE DEF first, last, spent, a
      <3> QED BY <3>1, <3>2
    <2>5. \A m \in first .. last - 1 : prior[m + 1] = prior[m] + a - s[m]
      <3>1. ASSUME NEW m \in first .. last - 1 PROVE prior[m + 1] = prior[m] + a - s[m]
        <4>1. m \in Int /\ first <= m /\ m \in first .. last /\ m + 1 \in first .. last /\ m + 1 - 1 = m
          BY <2>1
        <4>2. spent(first, m) = spent(first, m - 1) + spent(m, m)
          BY <2>1, <2>2, <4>1, SpentStep
        <4>7. PICK n : n = m + 1
          OBVIOUS
        <4>3. (n - first) * a = (m - first) * a + a /\ (m - first) * a \in Int
          BY <2>1, <4>1, <4>7
        <4>4. prior[n] = (n - first) * a - spent(first, m) /\ prior[m] = (m - first) * a - spent(first, m - 1)
          <5>1. \A k \in first .. last : prior[k] = (k - first) * a - spent(first, k - 1)
            OBVIOUS
          <5> HIDE DEF prior, s, spent, first, last, a
          <5>2. n \in first .. last /\ n - 1 = m
            BY <4>1, <4>7
          <5>3. prior[n] = (n - first) * a - spent(first, n - 1)
            BY <5>1, <5>2
          <5>4. prior[n] = (n - first) * a - spent(first, m)
            BY <5>2, <5>3, Zenon
          <5> QED BY <4>1, <5>1, <5>4
        <4>5. spent(first, m - 1) \in Int /\ spent(m, m) \in Int
          BY <2>2, SpentIs
        <4>6. s[m] = spent(m, m)
          BY <2>3, <4>1
        <4> HIDE DEF prior, s, spent, first, last, a
        <4>8. prior[n] = prior[m] + a - s[m]
          BY <2>1, <4>2, <4>3, <4>4, <4>5, <4>6
        <4>9. prior[m + 1] = prior[n]
          BY <4>7
        <4> QED BY <4>8, <4>9
      <3> HIDE DEF s, prior, spent, first, last
      <3> QED BY <3>1
    <2>6. computeRolloverBudget(b, T, p, NoName).priorCarryover = IF prior[last] > 0 THEN prior[last] ELSE 0
      <3>1. PriorSpent(b, T, p, NoName) = spent(first, last - 1)
        BY <2>1 DEF PriorSpent, SpentIn
      <3>2. last \in first .. last
        BY <2>1
      <3>3. prior[last] = (last - first) * a - spent(first, last - 1)
        BY <3>2
      <3> HIDE DEF prior, s, spent, first, last, a
      <3> QED BY <2>1, <3>1, <3>3 DEF computeRolloverBudget, a
    <2>7. PICK g : /\ Account(g, first, last, a, s)
                   /\ CarriedOver(b, p).carry = g[last]
                   /\ CarriedOver(b, p).over <=> \E m \in first .. last - 1 : g[m] + a - s[m] < 0
      <3>1. first \in Int /\ last \in Int
        BY <2>1
      <3> QED BY <3>1, CarriedIs
    <2> HIDE DEF s, prior, first, last, a, spent
    <2>8. /\ g[last] \in Nat /\ prior[last] <= g[last]
          /\ (\A m \in first .. last - 1 : ~(g[m] + a - s[m] < 0)) => prior[last] = g[last]
      <3>1. first \in Int /\ last \in Int
        BY <2>1
      <3>2. LeftOver(prior, first, last, a, s)
        BY <2>1, <2>3, <2>4, <2>5 DEF LeftOver
      <3> QED BY <2>7, <3>1, <3>2, AccountBounds
    <2>9. ~CarriedOver(b, p).over => \A m \in first .. last - 1 : ~(g[m] + a - s[m] < 0)
      BY <2>7
    <2>10. prior[last] \in Int
      BY <2>1, <2>3
    <2> QED BY <2>6, <2>7, <2>8, <2>9, <2>10
  <1> QED BY <1>1, MathOKAlways, PTL

-----------------------------------------------------------------------------
(* The other sums of the page are sums of weights too.                       *)
LEMMA ImageFinite ==
    ASSUME NEW S, IsFiniteSet(S), NEW k, NEW M, \A m \in M : \E s \in S : k[s] = m
    PROVE  IsFiniteSet(M)
  <1> DEFINE R == {s \in S : k[s] \in M}
             f == [s \in R |-> k[s]]
  <1>1. R \in SUBSET S /\ \A s \in R : k[s] \in M
    OBVIOUS
  <1>2. \A m \in M : \E s \in R : f[s] = m
    OBVIOUS
  <1>3. f \in [R -> M]
    OBVIOUS
  <1> HIDE DEF R, f
  <1>4. f \in Surjection(R, M)
    BY <1>2, <1>3 DEF Surjection
  <1> QED BY <1>1, <1>4, FS_Surjection, FS_Subset

InflowSum(T) == MapThenSumSet(InflowAmount, T)
LEMMA InflowSumIs ==
    ASSUME NEW T, IsFiniteSet(T)
    PROVE  InflowSum(T) = Sum([t \in T |-> InflowAmount(t)], T)
  <1> DEFINE Rec(g) == g = [s \in SUBSET T |-> IF s = {} THEN 0
                                              ELSE InflowAmount(Pick(s)) + g[s \ {Pick(s)}]]
             w == [t \in T |-> InflowAmount(t)]
  <1>1. InflowSum(T) = (CHOOSE g : Rec(g))[T]
    BY DEF InflowSum, MapThenSumSet, MapThenFoldSet, Pick
  <1>2. ASSUME NEW g PROVE Rec(g) <=> Sums(w, T, g)
    <2>1. \A s \in SUBSET T : s # {} => w[Pick(s)] = InflowAmount(Pick(s))
      BY PickIn
    <2> QED BY <2>1 DEF Sums
  <1> HIDE DEF Rec, w
  <1>3. Sums(w, T, CHOOSE g : Rec(g))
    BY <1>2, SumsExist
  <1> QED BY <1>1, <1>3, SumsHave DEF w

InflowOf(T) == [t \in T |-> InflowAmount(t)]
LEMMA InflowSumOf ==
    ASSUME NEW T, Dated(T), NEW S \in SUBSET T
    PROVE  Weighs(InflowOf(T), S) /\ InflowSum(S) = Sum(InflowOf(T), S) /\ InflowSum(S) \in Int
  <1>1. Weighs(InflowOf(T), S)
    BY FS_Subset DEF Weighs, InflowOf, InflowAmount, Dated
  <1>2. InflowSum(S) = Sum(InflowOf(S), S)
    BY <1>1, InflowSumIs DEF InflowOf, Weighs
  <1>3. Sum(InflowOf(S), S) = Sum(InflowOf(T), S)
    <2>1. IsFiniteSet(S) /\ \A t \in S : InflowOf(S)[t] = InflowOf(T)[t]
      BY <1>1 DEF InflowOf, Weighs
    <2> QED BY <2>1, SumSame
  <1> QED BY <1>1, <1>2, <1>3, SumInt

Values(L) == [l \in L |-> l.value]
LEMMA LinkSumIs ==
    ASSUME NEW L, IsFiniteSet(L)
    PROVE  LinkSum(L) = Sum(Values(L), L)
  <1> DEFINE Rec(g) == g = [s \in SUBSET L |-> IF s = {} THEN 0
                                              ELSE Pick(s).value + g[s \ {Pick(s)}]]
  <1>1. LinkSum(L) = (CHOOSE g : Rec(g))[L]
    BY DEF LinkSum, MapThenSumSet, MapThenFoldSet, Pick
  <1>2. ASSUME NEW g PROVE Rec(g) <=> Sums(Values(L), L, g)
    <2>1. \A s \in SUBSET L : s # {} => Values(L)[Pick(s)] = Pick(s).value
      BY PickIn DEF Values
    <2> QED BY <2>1 DEF Sums
  <1> HIDE DEF Rec
  <1>3. Sums(Values(L), L, CHOOSE g : Rec(g))
    BY <1>2, SumsExist
  <1> QED BY <1>1, <1>3, SumsHave

SumOf(w, S) == MapThenSumSet(LAMBDA x : w[x], S)
LEMMA SumOfIs ==
    ASSUME NEW w, NEW S, IsFiniteSet(S)
    PROVE  SumOf(w, S) = Sum(w, S)
  <1> DEFINE Rec(g) == g = [s \in SUBSET S |-> IF s = {} THEN 0
                                              ELSE w[Pick(s)] + g[s \ {Pick(s)}]]
  <1>1. SumOf(w, S) = (CHOOSE g : Rec(g))[S]
    BY DEF SumOf, MapThenSumSet, MapThenFoldSet, Pick
  <1>2. ASSUME NEW g PROVE Rec(g) <=> Sums(w, S, g)
    BY DEF Sums
  <1> HIDE DEF Rec
  <1>3. Sums(w, S, CHOOSE g : Rec(g))
    BY <1>2, SumsExist
  <1> QED BY <1>1, <1>3, SumsHave

(* Links of which each stands for a part of a set, and together for all.     *)
LEMMA LinksSplit ==
    ASSUME NEW w, NEW T, Weighs(w, T), NEW L, NEW k, \A t \in T : k[t] \in L,
           \A l \in L : \E t \in T : k[t] = l,
           \A l \in L : l.value = Sum(w, {t \in T : k[t] = l})
    PROVE  IsFiniteSet(L) /\ LinkSum(L) = Sum(w, T) /\ LinkSum(L) \in Int
  <1>1. IsFiniteSet(L)
    BY ImageFinite DEF Weighs
  <1>2. \A l \in L : Values(L)[l] = Sum(w, {t \in T : k[t] = l})
    BY DEF Values
  <1>3. Sum(w, T) = Sum(Values(L), L)
    BY <1>1, <1>2, SumParts
  <1> QED BY <1>1, <1>3, LinkSumIs, SumInt

\* One link more.
LEMMA LinkMore ==
    ASSUME NEW L, IsFiniteSet(L), \A l \in L : l.value \in Int, NEW x, x \notin L, x.value \in Int
    PROVE  LinkSum(L \cup {x}) = LinkSum(L) + x.value
  <1> DEFINE M == L \cup {x}
  <1>1. IsFiniteSet(M) /\ M \ {x} = L /\ x \in M
    BY FS_AddElement
  <1>2. Weighs(Values(M), M) /\ Values(M)[x] = x.value
    BY <1>1 DEF Weighs, Values
  <1>3. Sum(Values(M), M) = x.value + Sum(Values(M), L)
    <2> HIDE DEF M
    <2> QED BY <1>1, <1>2, SumWithout
  <1>4. Sum(Values(M), L) = Sum(Values(L), L)
    <2>1. \A l \in L : Values(M)[l] = Values(L)[l]
      BY DEF Values
    <2> HIDE DEF M
    <2> QED BY <2>1, SumSame
  <1>5. Sum(Values(L), L) \in Int
    BY SumInt DEF Weighs, Values
  <1> HIDE DEF M
  <1> QED BY <1>1, <1>3, <1>4, <1>5, LinkSumIs DEF M

-----------------------------------------------------------------------------
(* The diagram, part by part.                                                *)
Cats(T) == {Major(t.primary) : t \in Outflows(T)}
Mine(T, cat) == {t \in Outflows(T) : Major(t.primary) = cat}
Names(T, cat) == {SubOfOutflow(t) : t \in Mine(T, cat)}
Subs(T, cat) == [s \in Names(T, cat) |-> Total({t \in Mine(T, cat) : SubOfOutflow(t) = s})]
Grouped(T, cat) == groupMinorSubcategories(Subs(T, cat), Total(Mine(T, cat)))
HubTo(T, cat) == Link(Hub, <<"cat", cat>>, Total(Mine(T, cat)))
SubLink(T, cat, s) == Link(<<"cat", cat>>, <<"sub", cat, s>>, Grouped(T, cat)[s])
SubLinks(T, cat) == {SubLink(T, cat, s) : s \in DOMAIN Grouped(T, cat)}
HubLinks(T) == {HubTo(T, cat) : cat \in Cats(T)}

LEMMA CategoryLinksAre ==
    ASSUME NEW T, NEW l
    PROVE  l \in CategoryLinks(T) <=>
              \E cat \in Cats(T) : l = HubTo(T, cat) \/ l \in SubLinks(T, cat)
  <1>1. CategoryLinks(T) = UNION {{HubTo(T, cat)} \cup SubLinks(T, cat) : cat \in Cats(T)}
    BY DEF CategoryLinks, HubTo, SubLinks, SubLink, Cats, Grouped, Subs, Names, Mine
  <1> QED BY <1>1

LEMMA FlowsAre ==
    ASSUME NEW T, Dated(T), NEW cat
    PROVE  /\ Outflows(T) \in SUBSET T /\ Inflows(T) \in SUBSET T /\ Mine(T, cat) \in SUBSET T
           /\ Mine(T, cat) \in SUBSET Outflows(T)
           /\ IsFiniteSet(Outflows(T)) /\ IsFiniteSet(Inflows(T)) /\ IsFiniteSet(Mine(T, cat))
  <1>1. Outflows(T) \in SUBSET T /\ Inflows(T) \in SUBSET T /\ Mine(T, cat) \in SUBSET Outflows(T)
    BY DEF Outflows, Inflows, Flowing, Mine
  <1> QED BY <1>1, FS_Subset DEF Dated

\* The spending of a part of the transactions.
LEMMA TotalPart ==
    ASSUME NEW T, Dated(T), NEW S \in SUBSET T
    PROVE  Weighs(Net(T), S) /\ Total(S) = Sum(Net(T), S) /\ Total(S) \in Int
  BY TotalOf DEF Dated

LEMMA NeverOther == \A t : SubOfOutflow(t) # "Other"
  <1>1. ASSUME NEW c PROVE Friendly(c) # "Other"
    BY MathAssumption DEF Friendly
  <1> QED BY <1>1 DEF SubOfOutflow

\* Where a transaction goes when small subcategories are grouped.
Small(T, cat) == {s \in Names(T, cat) : Subs(T, cat)[s] < MinorAmount
                                        /\ MinorShare * Subs(T, cat)[s] < Total(Mine(T, cat))}
Few(T, cat) == Cardinality(Names(T, cat)) <= 3 \/ Cardinality(Small(T, cat)) < 2
Key(T, cat, t) == IF ~Few(T, cat) /\ SubOfOutflow(t) \in Small(T, cat) THEN "Other" ELSE SubOfOutflow(t)
Keyed(T, cat, s) == {t \in Mine(T, cat) : Key(T, cat, t) = s}

LEMMA SubsAre ==
    ASSUME NEW T, Dated(T), NEW cat, NEW s \in Names(T, cat)
    PROVE  /\ {t \in Mine(T, cat) : SubOfOutflow(t) = s} \in SUBSET T
           /\ Subs(T, cat)[s] = Sum(Net(T), {t \in Mine(T, cat) : SubOfOutflow(t) = s})
           /\ \E t \in Mine(T, cat) : SubOfOutflow(t) = s
  <1>1. Subs(T, cat)[s] = Total({t \in Mine(T, cat) : SubOfOutflow(t) = s})
    BY DEF Subs
  <1>2. {t \in Mine(T, cat) : SubOfOutflow(t) = s} \in SUBSET T
    BY FlowsAre
  <1>3. \E t \in Mine(T, cat) : SubOfOutflow(t) = s
    BY DEF Names
  <1> QED BY <1>1, <1>2, <1>3, TotalPart

LEMMA NamesFinite ==
    ASSUME NEW T, Dated(T), NEW cat
    PROVE  IsFiniteSet(Names(T, cat)) /\ IsFiniteSet(Small(T, cat)) /\ Small(T, cat) \subseteq Names(T, cat)
  <1> DEFINE k == [t \in Mine(T, cat) |-> SubOfOutflow(t)]
  <1>1. \A m \in Names(T, cat) : \E t \in Mine(T, cat) : k[t] = m
    BY DEF Names
  <1> HIDE DEF k
  <1>2. IsFiniteSet(Names(T, cat))
    BY <1>1, FlowsAre, ImageFinite
  <1>3. Small(T, cat) \subseteq Names(T, cat)
    BY DEF Small
  <1> QED BY <1>2, <1>3, FS_Subset

LEMMA GroupedIs ==
    ASSUME NEW T, NEW cat
    PROVE  Grouped(T, cat) =
              IF Few(T, cat) THEN Subs(T, cat)
              ELSE [s \in (Names(T, cat) \ Small(T, cat)) \cup {"Other"} |->
                      IF s = "Other" THEN SumOf(Subs(T, cat), Small(T, cat)) ELSE Subs(T, cat)[s]]
  <1>1. DOMAIN Subs(T, cat) = Names(T, cat)
    BY DEF Subs
  <1>2. Small(T, cat) = {s \in DOMAIN Subs(T, cat) : Subs(T, cat)[s] < MinorAmount
                                        /\ MinorShare * Subs(T, cat)[s] < Total(Mine(T, cat))}
    BY <1>1 DEF Small
  <1> QED BY <1>1, <1>2 DEF Grouped, groupMinorSubcategories, Few, SumOf

LEMMA SmallIs ==
    ASSUME NEW T, Dated(T), NEW cat
    PROVE  SumOf(Subs(T, cat), Small(T, cat))
           = Sum(Net(T), {t \in Mine(T, cat) : SubOfOutflow(t) \in Small(T, cat)})
  <1> DEFINE R == {t \in Mine(T, cat) : SubOfOutflow(t) \in Small(T, cat)}
             k == [t \in R |-> SubOfOutflow(t)]
  <1>1. R \in SUBSET T
    BY FlowsAre
  <1>2. Weighs(Net(T), R)
    <2> HIDE DEF R
    <2> QED BY <1>1, TotalPart
  <1>3. ASSUME NEW s \in Small(T, cat) PROVE Subs(T, cat)[s] = Sum(Net(T), {t \in R : k[t] = s})
    <2>1. {t \in R : k[t] = s} = {t \in Mine(T, cat) : SubOfOutflow(t) = s}
      OBVIOUS
    <2>2. s \in Names(T, cat)
      BY NamesFinite
    <2> HIDE DEF R, k
    <2> QED BY <2>1, <2>2, SubsAre
  <1>4. \A t \in R : k[t] \in Small(T, cat)
    OBVIOUS
  <1> HIDE DEF k, R
  <1>5. Sum(Net(T), R) = Sum(Subs(T, cat), Small(T, cat))
    BY <1>2, <1>3, <1>4, NamesFinite, SumParts
  <1> QED BY <1>5, NamesFinite, SumOfIs DEF R

LEMMA KeyedAre ==
    ASSUME NEW T, Dated(T), NEW cat
    PROVE  /\ \A t \in Mine(T, cat) : Key(T, cat, t) \in DOMAIN Grouped(T, cat)
           /\ \A s \in DOMAIN Grouped(T, cat) :
                 /\ \E t \in Mine(T, cat) : Key(T, cat, t) = s
                 /\ Grouped(T, cat)[s] = Sum(Net(T), Keyed(T, cat, s))
  <1>1. CASE Few(T, cat)
    <2>1. Grouped(T, cat) = Subs(T, cat) /\ DOMAIN Subs(T, cat) = Names(T, cat)
      BY <1>1, GroupedIs DEF Subs
    <2>2. \A t \in Mine(T, cat) : Key(T, cat, t) = SubOfOutflow(t) /\ SubOfOutflow(t) \in Names(T, cat)
      BY <1>1 DEF Key, Names
    <2>3. \A s : Keyed(T, cat, s) = {t \in Mine(T, cat) : SubOfOutflow(t) = s}
      BY <2>2 DEF Keyed
    <2> QED BY <2>1, <2>2, <2>3, SubsAre
  <1>2. CASE ~Few(T, cat)
    <2>1. /\ DOMAIN Grouped(T, cat) = (Names(T, cat) \ Small(T, cat)) \cup {"Other"}
          /\ Grouped(T, cat)["Other"] = SumOf(Subs(T, cat), Small(T, cat))
          /\ \A s \in Names(T, cat) \ Small(T, cat) : s # "Other" => Grouped(T, cat)[s] = Subs(T, cat)[s]
      BY <1>2, GroupedIs
    <2>2. \A t \in Mine(T, cat) :
             /\ SubOfOutflow(t) \in Names(T, cat) /\ SubOfOutflow(t) # "Other"
             /\ Key(T, cat, t) = IF SubOfOutflow(t) \in Small(T, cat) THEN "Other" ELSE SubOfOutflow(t)
      BY <1>2, NeverOther DEF Key, Names
    <2>3. \A s \in Names(T, cat) : s # "Other"
      BY NeverOther DEF Names
    <2>4. Keyed(T, cat, "Other") = {t \in Mine(T, cat) : SubOfOutflow(t) \in Small(T, cat)}
      BY <2>2 DEF Keyed
    <2>5. ASSUME NEW s \in Names(T, cat) \ Small(T, cat)
          PROVE  Keyed(T, cat, s) = {t \in Mine(T, cat) : SubOfOutflow(t) = s}
      BY <2>2, <2>3 DEF Keyed
    <2>6. PICK m \in Small(T, cat) : TRUE
      <3>1. Small(T, cat) # {}
        BY <1>2, FS_EmptySet DEF Few
      <3> QED BY <3>1
    <2>7. \E t \in Mine(T, cat) : Key(T, cat, t) = "Other"
      <3>1. PICK t \in Mine(T, cat) : SubOfOutflow(t) = m
        BY <2>6 DEF Small, Names
      <3> QED BY <2>2, <2>6, <3>1
    <2>8. ASSUME NEW s \in Names(T, cat) \ Small(T, cat) PROVE \E t \in Mine(T, cat) : Key(T, cat, t) = s
      <3>1. PICK t \in Mine(T, cat) : SubOfOutflow(t) = s
        BY DEF Names
      <3> QED BY <2>2, <3>1
    <2>9. Grouped(T, cat)["Other"] = Sum(Net(T), Keyed(T, cat, "Other"))
      BY <2>1, <2>4, SmallIs
    <2>10. ASSUME NEW s \in Names(T, cat) \ Small(T, cat)
           PROVE  Grouped(T, cat)[s] = Sum(Net(T), Keyed(T, cat, s))
      BY <2>1, <2>3, <2>5, SubsAre
    <2>11. \A t \in Mine(T, cat) : Key(T, cat, t) \in DOMAIN Grouped(T, cat)
      BY <2>1, <2>2
    <2> QED BY <2>1, <2>7, <2>8, <2>9, <2>10, <2>11
  <1> QED BY <1>1, <1>2

-----------------------------------------------------------------------------
(* The nodes of the diagram are different, and a link has its ends.          *)
CatNode(c) == <<"cat", c>>
SubNode(c, s) == <<"sub", c, s>>
InNode(s) == <<"in", s>>
Saved == <<"from savings">>
Kept == <<"net savings">>

LEMMA Ends ==
    /\ \A c, d : CatNode(c) = CatNode(d) => c = d
    /\ \A c, s, r : SubNode(c, s) = SubNode(c, r) => s = r
    /\ \A c, d : InNode(c) = InNode(d) => c = d
    /\ \A c : CatNode(c) # Hub /\ InNode(c) # Hub /\ Saved # InNode(c) /\ Kept # CatNode(c) /\ Saved # CatNode(c)
    /\ \A c, s : SubNode(c, s) # Hub
    /\ \A c, d : InNode(c) # CatNode(d)
    /\ Saved # Hub /\ Kept # Hub
  <1>1. ASSUME NEW c, NEW d, CatNode(c) = CatNode(d) PROVE c = d
    BY <1>1 DEF CatNode
  <1>2. ASSUME NEW c, NEW s, NEW r, SubNode(c, s) = SubNode(c, r) PROVE s = r
    BY <1>2 DEF SubNode
  <1>3. ASSUME NEW c, NEW d, InNode(c) = InNode(d) PROVE c = d
    BY <1>3 DEF InNode
  <1>4. ASSUME NEW c PROVE CatNode(c) # Hub /\ Kept # CatNode(c) /\ Saved # CatNode(c)
    BY DEF CatNode, Hub, Kept, Saved
  <1>5. ASSUME NEW c PROVE InNode(c) # Hub /\ Saved # InNode(c)
    BY DEF InNode, Hub, Saved
  <1>6. ASSUME NEW c, NEW s PROVE SubNode(c, s) # Hub
    BY DEF SubNode, Hub
  <1>7. ASSUME NEW c, NEW d PROVE InNode(c) # CatNode(d)
    BY DEF InNode, CatNode
  <1>8. Saved # Hub /\ Kept # Hub
    BY DEF Saved, Kept, Hub
  <1> QED BY <1>1, <1>2, <1>3, <1>4, <1>5, <1>6, <1>7, <1>8

LEMMA HubToIs ==
    ASSUME NEW T, NEW cat
    PROVE  HubTo(T, cat).from = Hub /\ HubTo(T, cat).to = CatNode(cat) /\ HubTo(T, cat).value = Total(Mine(T, cat))
  BY DEF HubTo, CatNode, Link

LEMMA SubLinkIs ==
    ASSUME NEW T, NEW cat, NEW s
    PROVE  /\ SubLink(T, cat, s).from = CatNode(cat) /\ SubLink(T, cat, s).to = SubNode(cat, s)
           /\ SubLink(T, cat, s).value = Grouped(T, cat)[s]
  BY DEF SubLink, Link, CatNode, SubNode

SourceLink(T, s) == Link(InNode(s), Hub, InflowSum({t \in Inflows(T) : SourceOf(t) = s}))
LEMMA SourceLinkIs ==
    ASSUME NEW T, NEW s
    PROVE  SourceLink(T, s).from = InNode(s) /\ SourceLink(T, s).to = Hub
  BY DEF SourceLink, Link
LEMMA SourceValue ==
    ASSUME NEW T, NEW s
    PROVE  SourceLink(T, s).value = InflowSum({t \in Inflows(T) : SourceOf(t) = s})
  BY DEF SourceLink, Link

BalanceOf(T) == totalInflow(T) - totalOutflow(T)
SavedLink(T) == Link(Saved, Hub, -BalanceOf(T))
KeptLink(T) == Link(Hub, Kept, BalanceOf(T))
LEMMA BalanceIs ==
    ASSUME NEW T
    PROVE  /\ SavedLink(T).from = Saved /\ SavedLink(T).to = Hub /\ SavedLink(T).value = -BalanceOf(T)
           /\ KeptLink(T).from = Hub /\ KeptLink(T).to = Kept /\ KeptLink(T).value = BalanceOf(T)
  BY DEF SavedLink, KeptLink, Link
LEMMA BalanceLinksAre ==
    ASSUME NEW T
    PROVE  /\ \A l \in BalanceLinks(T) : l = SavedLink(T) \/ l = KeptLink(T)
           /\ BalanceOf(T) \in Int =>
                 /\ BalanceOf(T) < 0 => BalanceLinks(T) = {SavedLink(T)}
                 /\ BalanceOf(T) > 0 => BalanceLinks(T) = {KeptLink(T)}
                 /\ BalanceOf(T) = 0 => BalanceLinks(T) = {}
  <1>1. BalanceLinks(T) = CASE BalanceOf(T) < 0 -> {SavedLink(T)}
                            [] BalanceOf(T) > 0 -> {KeptLink(T)}
                            [] OTHER            -> {}
    BY DEF BalanceLinks, BalanceOf, SavedLink, KeptLink, Saved, Kept
  <1> QED BY <1>1

(* A category's share is that of its subcategories.                          *)
LEMMA SubLinksSplit ==
    ASSUME NEW T, Dated(T), NEW cat
    PROVE  IsFiniteSet(SubLinks(T, cat)) /\ LinkSum(SubLinks(T, cat)) = Total(Mine(T, cat))
  <1> DEFINE k == [t \in Mine(T, cat) |-> SubLink(T, cat, Key(T, cat, t))]
  <1>1. \A s, r : SubLink(T, cat, s) = SubLink(T, cat, r) => s = r
    BY SubLinkIs, Ends
  <1>2. ASSUME NEW t \in Mine(T, cat) PROVE k[t] \in SubLinks(T, cat)
    BY KeyedAre DEF SubLinks
  <1>3. ASSUME NEW l \in SubLinks(T, cat)
        PROVE  /\ \E t \in Mine(T, cat) : k[t] = l
               /\ l.value = Sum(Net(T), {t \in Mine(T, cat) : k[t] = l})
    <2>1. PICK s \in DOMAIN Grouped(T, cat) : l = SubLink(T, cat, s)
      BY DEF SubLinks
    <2>2. (\E t \in Mine(T, cat) : Key(T, cat, t) = s) /\ Grouped(T, cat)[s] = Sum(Net(T), Keyed(T, cat, s))
      BY KeyedAre
    <2>3. {t \in Mine(T, cat) : k[t] = l} = Keyed(T, cat, s)
      BY <1>1, <2>1 DEF Keyed
    <2>4. l.value = Grouped(T, cat)[s]
      BY <2>1, SubLinkIs
    <2>5. \E t \in Mine(T, cat) : k[t] = l
      BY <2>1, <2>2
    <2> HIDE DEF k
    <2> QED BY <2>2, <2>3, <2>4, <2>5
  <1> HIDE DEF k
  <1>4. Weighs(Net(T), Mine(T, cat)) /\ Total(Mine(T, cat)) = Sum(Net(T), Mine(T, cat))
    BY FlowsAre, TotalPart
  <1>5. /\ \A t \in Mine(T, cat) : k[t] \in SubLinks(T, cat)
        /\ \A l \in SubLinks(T, cat) : \E t \in Mine(T, cat) : k[t] = l
        /\ \A l \in SubLinks(T, cat) : l.value = Sum(Net(T), {t \in Mine(T, cat) : k[t] = l})
    BY <1>2, <1>3
  <1> QED BY <1>4, <1>5, LinksSplit

LEMMA HubLinksSplit ==
    ASSUME NEW T, Dated(T)
    PROVE  /\ IsFiniteSet(HubLinks(T)) /\ LinkSum(HubLinks(T)) = totalOutflow(T) /\ totalOutflow(T) \in Int
           /\ \A l \in HubLinks(T) : l.value \in Int
  <1> DEFINE O == Outflows(T)
             k == [t \in O |-> HubTo(T, Major(t.primary))]
  <1>1. \A c, d : HubTo(T, c) = HubTo(T, d) => c = d
    BY HubToIs, Ends
  <1>2. ASSUME NEW t \in O PROVE k[t] \in HubLinks(T)
    BY DEF HubLinks, Cats
  <1>3. ASSUME NEW l \in HubLinks(T)
        PROVE  /\ \E t \in O : k[t] = l
               /\ l.value = Sum(Net(T), {t \in O : k[t] = l})
               /\ l.value \in Int
    <2>1. PICK c \in Cats(T) : l = HubTo(T, c)
      BY DEF HubLinks
    <2>2. PICK t \in O : Major(t.primary) = c
      BY DEF Cats
    <2>3. {x \in O : k[x] = l} = Mine(T, c)
      BY <1>1, <2>1 DEF Mine
    <2>4. l.value = Total(Mine(T, c))
      BY <2>1, HubToIs
    <2>5. k[t] = l
      BY <2>1, <2>2
    <2>6. Total(Mine(T, c)) = Sum(Net(T), Mine(T, c)) /\ Total(Mine(T, c)) \in Int
      BY FlowsAre, TotalPart
    <2> HIDE DEF k, O
    <2> QED BY <2>3, <2>4, <2>5, <2>6
  <1>4. Weighs(Net(T), O) /\ totalOutflow(T) = Sum(Net(T), O) /\ totalOutflow(T) \in Int
    BY FlowsAre, TotalPart DEF totalOutflow
  <1> HIDE DEF k, O
  <1> QED BY <1>2, <1>3, <1>4, LinksSplit

LEMMA SourceLinksSplit ==
    ASSUME NEW T, Dated(T)
    PROVE  /\ IsFiniteSet(SourceLinks(T)) /\ LinkSum(SourceLinks(T)) = totalInflow(T) /\ totalInflow(T) \in Int
           /\ \A l \in SourceLinks(T) : l.value \in Int /\ \E s : l = SourceLink(T, s)
  <1> DEFINE I == Inflows(T)
             k == [t \in I |-> SourceLink(T, SourceOf(t))]
  <1>0. SourceLinks(T) = {SourceLink(T, s) : s \in {SourceOf(t) : t \in I}}
    BY DEF SourceLinks, SourceLink, InflowSum, InNode
  <1>1. \A c, d : SourceLink(T, c) = SourceLink(T, d) => c = d
    <2>1. ASSUME NEW c, NEW d, SourceLink(T, c) = SourceLink(T, d) PROVE c = d
      <3>1. InNode(c) = InNode(d)
        BY <2>1, SourceLinkIs
      <3> QED BY <3>1, Ends
    <2> QED BY <2>1
  <1>2. ASSUME NEW t \in I PROVE k[t] \in SourceLinks(T)
    BY <1>0
  <1>3. ASSUME NEW l \in SourceLinks(T)
        PROVE  /\ \E t \in I : k[t] = l
               /\ l.value = Sum(InflowOf(T), {t \in I : k[t] = l})
               /\ l.value \in Int /\ \E s : l = SourceLink(T, s)
    <2>1. PICK t \in I : l = SourceLink(T, SourceOf(t))
      BY <1>0
    <2> DEFINE R == {x \in I : SourceOf(x) = SourceOf(t)}
    <2>3. {x \in I : k[x] = l} = R
      BY <1>1, <2>1
    <2>4. l.value = InflowSum(R)
      BY <2>1, SourceValue
    <2>5. k[t] = l
      BY <2>1
    <2>6. R \in SUBSET T
      BY FlowsAre
    <2> HIDE DEF k, I, R
    <2>7. InflowSum(R) = Sum(InflowOf(T), R) /\ InflowSum(R) \in Int
      BY <2>6, InflowSumOf
    <2> QED BY <2>1, <2>3, <2>4, <2>5, <2>7
  <1>4. Weighs(InflowOf(T), I) /\ totalInflow(T) = Sum(InflowOf(T), I) /\ totalInflow(T) \in Int
    BY FlowsAre, InflowSumOf DEF totalInflow, InflowSum
  <1> HIDE DEF k, I
  <1> QED BY <1>2, <1>3, <1>4, LinksSplit
-----------------------------------------------------------------------------
(* The ends of the links that are there.                                     *)
LEMMA LinksAre ==
    ASSUME NEW T, NEW l \in computeSankeyData(T), Dated(T)
    PROVE  \/ l \in SourceLinks(T) /\ l.to = Hub /\ l.from # Hub /\ \A c : l.from # CatNode(c)
           \/ l \in HubLinks(T) /\ l.from = Hub /\ l.to # Hub /\ l.to # Kept
           \/ \E cat \in Cats(T) : l \in SubLinks(T, cat) /\ l.from = CatNode(cat) /\ l.to # Hub
           \/ /\ l \in BalanceLinks(T)
              /\ \/ l.from = Saved /\ l.to = Hub
                 \/ l.from = Hub /\ l.to = Kept
  <1>1. CASE l \in SourceLinks(T)
    <2>1. PICK s : l = SourceLink(T, s)
      BY <1>1, SourceLinksSplit
    <2> QED BY <1>1, <2>1, SourceLinkIs, Ends
  <1>2. CASE l \in BalanceLinks(T)
    BY <1>2, BalanceLinksAre, BalanceIs
  <1>3. CASE l \in CategoryLinks(T)
    <2>1. PICK cat \in Cats(T) : l = HubTo(T, cat) \/ l \in SubLinks(T, cat)
      BY <1>3, CategoryLinksAre
    <2>2. CASE l = HubTo(T, cat)
      BY <2>2, HubToIs, Ends DEF HubLinks
    <2>3. CASE l \in SubLinks(T, cat)
      <3>1. PICK s : l = SubLink(T, cat, s)
        BY <2>3 DEF SubLinks
      <3> QED BY <2>3, <3>1, SubLinkIs, Ends
    <2> QED BY <2>1, <2>2, <2>3
  <1> QED BY <1>1, <1>2, <1>3 DEF computeSankeyData

LEMMA SubLinksOf ==
    ASSUME NEW T, Dated(T), NEW l \in computeSankeyData(T), l.from = Hub, l.to # Kept
    PROVE  l.value = LinkSum({m \in computeSankeyData(T) : m.from = l.to})
  <1>1. l \in HubLinks(T)
    BY LinksAre, Ends
  <1>2. PICK cat \in Cats(T) : l = HubTo(T, cat)
    BY <1>1 DEF HubLinks
  <1>3. l.to = CatNode(cat) /\ l.value = Total(Mine(T, cat))
    BY <1>2, HubToIs
  <1>4. ASSUME NEW m \in computeSankeyData(T), m.from = l.to PROVE m \in SubLinks(T, cat)
    BY <1>3, <1>4, LinksAre, Ends
  <1>5. ASSUME NEW m \in SubLinks(T, cat) PROVE m \in computeSankeyData(T) /\ m.from = l.to
    <2>1. m \in CategoryLinks(T)
      BY CategoryLinksAre
    <2>2. m.from = CatNode(cat)
      BY SubLinkIs DEF SubLinks
    <2> QED BY <1>3, <2>1, <2>2 DEF computeSankeyData
  <1>6. {m \in computeSankeyData(T) : m.from = l.to} = SubLinks(T, cat)
    BY <1>4, <1>5
  <1> QED BY <1>3, <1>6, SubLinksSplit

LEMMA HubBalances ==
    ASSUME NEW T, Dated(T), totalInflow(T) > 0
    PROVE  LinkSum({l \in computeSankeyData(T) : l.to = Hub}) = LinkSum({l \in computeSankeyData(T) : l.from = Hub})
  <1> DEFINE links == computeSankeyData(T)
             net == BalanceOf(T)
             saved == SavedLink(T)
             kept == KeptLink(T)
             In == {l \in links : l.to = Hub}
             Out == {l \in links : l.from = Hub}
  <1>1. links = SourceLinks(T) \cup BalanceLinks(T) \cup CategoryLinks(T)
    BY DEF computeSankeyData
  <1>2. /\ saved.from = Saved /\ saved.to = Hub /\ saved.value = -net
        /\ kept.from = Hub /\ kept.to = Kept /\ kept.value = net
    BY BalanceIs
  <1>3. \A l \in SourceLinks(T) : l \in In /\ l.from # Saved
    <2>1. ASSUME NEW l \in SourceLinks(T) PROVE l \in In /\ l.from # Saved
      <3>1. PICK s : l = SourceLink(T, s)
        BY SourceLinksSplit
      <3>2. l.from = InNode(s) /\ l.to = Hub
        BY <3>1, SourceLinkIs
      <3> QED BY <1>1, <3>2, Ends
    <2> QED BY <2>1
  <1>4. \A l \in HubLinks(T) : l \in Out /\ l.to # Kept
    <2>1. ASSUME NEW l \in HubLinks(T) PROVE l \in Out /\ l.to # Kept
      <3>1. PICK cat \in Cats(T) : l = HubTo(T, cat)
        BY DEF HubLinks
      <3>2. l.from = Hub /\ l.to = CatNode(cat)
        BY <3>1, HubToIs
      <3>3. l \in CategoryLinks(T)
        BY <3>1, CategoryLinksAre
      <3> QED BY <1>1, <3>2, <3>3, Ends
    <2> QED BY <2>1
  <1>5. \A l \in In : l \in SourceLinks(T) \/ (l \in BalanceLinks(T) /\ l.from = Saved)
    BY LinksAre, Ends
  <1>6. \A l \in Out : l \in HubLinks(T) \/ (l \in BalanceLinks(T) /\ l.to = Kept)
    BY LinksAre, Ends
  <1>7. /\ IsFiniteSet(SourceLinks(T)) /\ \A l \in SourceLinks(T) : l.value \in Int
        /\ LinkSum(SourceLinks(T)) = totalInflow(T) /\ totalInflow(T) \in Int
    BY SourceLinksSplit
  <1>8. /\ IsFiniteSet(HubLinks(T)) /\ \A l \in HubLinks(T) : l.value \in Int
        /\ LinkSum(HubLinks(T)) = totalOutflow(T) /\ totalOutflow(T) \in Int
    BY HubLinksSplit
  <1>9. /\ net < 0 => BalanceLinks(T) = {saved}
        /\ net > 0 => BalanceLinks(T) = {kept}
        /\ net = 0 => BalanceLinks(T) = {}
    <2>1. BalanceOf(T) \in Int
      BY <1>7, <1>8 DEF BalanceOf
    <2> HIDE DEF In, Out, links
    <2> QED BY <2>1, BalanceLinksAre
  <1>10. net \in Int /\ -net \in Int /\ totalInflow(T) = totalOutflow(T) + net /\ totalInflow(T) + -net = totalOutflow(T)
    <2>1. net = totalInflow(T) - totalOutflow(T)
      BY DEF BalanceOf
    <2> HIDE DEF net, In, Out, links
    <2> QED BY <1>7, <1>8, <2>1
  <1>11. saved \notin SourceLinks(T) /\ kept \notin HubLinks(T)
    BY <1>2, <1>3, <1>4
  <1> HIDE DEF links, net, saved, kept, In, Out
  <1>12. CASE net < 0
    <2>1. saved \in In
      BY <1>1, <1>2, <1>9, <1>12 DEF In
    <2>2. In = SourceLinks(T) \cup {saved}
      BY <1>3, <1>5, <1>9, <1>12, <2>1
    <2>3. Out = HubLinks(T)
      BY <1>2, <1>4, <1>6, <1>9, <1>12, Ends
    <2>4. LinkSum(In) = totalInflow(T) + -net
      BY <1>2, <1>7, <1>10, <1>11, <2>2, LinkMore
    <2> QED BY <1>8, <1>10, <2>3, <2>4 DEF In, Out, links
  <1>13. CASE net > 0
    <2>1. kept \in Out
      BY <1>1, <1>2, <1>9, <1>13 DEF Out
    <2>2. Out = HubLinks(T) \cup {kept}
      BY <1>4, <1>6, <1>9, <1>13, <2>1
    <2>3. In = SourceLinks(T)
      BY <1>2, <1>3, <1>5, <1>9, <1>13, Ends
    <2>4. LinkSum(Out) = totalOutflow(T) + net
      BY <1>2, <1>8, <1>10, <1>11, <2>2, LinkMore
    <2> QED BY <1>7, <1>10, <2>3, <2>4 DEF In, Out, links
  <1>14. CASE net = 0
    <2>1. In = SourceLinks(T) /\ Out = HubLinks(T)
      BY <1>3, <1>4, <1>5, <1>6, <1>9, <1>14
    <2>2. totalInflow(T) = totalOutflow(T)
      BY <1>8, <1>10, <1>14
    <2>3. LinkSum(In) = LinkSum(Out)
      BY <1>7, <1>8, <2>1, <2>2
    <2> QED BY <2>3 DEF In, Out, links
  <1> QED BY <1>10, <1>12, <1>13, <1>14

(* The cash-flow diagram balances at its hub, and at each of its categories, *)
(* however the small subcategories are grouped: SankeyBalances is invariant, *)
(* for any transactions.                                                     *)
THEOREM SankeyAlwaysBalances == MathSpec => []SankeyBalances
  <1>1. MathOK => SankeyBalances
    <2> SUFFICES ASSUME MathOK PROVE SankeyBalances
      OBVIOUS
    <2>1. Dated(transactions)
      BY PoolAssumption DEF MathOK, Dated
    <2> QED BY <2>1, HubBalances, SubLinksOf DEF SankeyBalances, Kept
  <1> QED BY <1>1, MathOKAlways, PTL

-----------------------------------------------------------------------------
(* The cards of one budget.                                                  *)
Counted(T, cat, sub, from, to) == {t \in T : CountsFor(t, cat, sub) /\ from <= t.date /\ t.date <= to}

LEMMA CostIs ==
    ASSUME NEW T, Dated(T), NEW t \in T, NEW cat, NEW from, NEW to
    PROVE  calculateSpent({t}, cat, from, to, NoName)
           = IF t \in Counted(T, cat, NoName, from, to) THEN Net(T)[t] ELSE 0
  <1> DEFINE S == Counted({t}, cat, NoName, from, to)
  <1>1. S \in SUBSET T /\ calculateSpent({t}, cat, from, to, NoName) = Total(S)
    BY DEF calculateSpent, Counted
  <1>2. IF t \in Counted(T, cat, NoName, from, to) THEN S = {t} ELSE S = {}
    BY DEF Counted
  <1> HIDE DEF S
  <1>3. Total(S) = Sum(Net(T), S) /\ Weighs(Net(T), T)
    BY <1>1, TotalOf DEF Dated
  <1>4. Net(T)[t] \in Int
    BY <1>3 DEF Weighs
  <1>5. Sum(Net(T), {t}) = Net(T)[t] /\ Sum(Net(T), {}) = 0
    BY <1>4, SumOne, SumEmpty
  <1> QED BY <1>1, <1>2, <1>3, <1>5

\* What the one budget is found to cost is what its category costs.
LEMMA BudgetSpentIs ==
    ASSUME MathOK, NEW b, allBudgets = {b}
    PROVE  totalBudgetSpent
           = calculateSpent(transactions, b.category, FirstDay(chosenPeriod), LastDay(chosenPeriod), NoName)
  <1> DEFINE T == transactions
             from == FirstDay(chosenPeriod)
             to == LastDay(chosenPeriod)
             B == Counted(T, b.category, NoName, from, to)
             A == {t \in T : /\ ~isSpendingExcluded(t.primary) /\ from <= t.date /\ t.date <= to
                             /\ calculateSpent({t}, b.category, from, to, NoName) # 0}
  <1>1. totalBudgetSpent = Total(A)
    <2>1. \A t \in T : (\E c \in allBudgets : calculateSpent({t}, c.category, from, to, NoName) # 0)
                       <=> calculateSpent({t}, b.category, from, to, NoName) # 0
      OBVIOUS
    <2> QED BY <2>1 DEF totalBudgetSpent
  <1>2. calculateSpent(T, b.category, from, to, NoName) = Total(B) /\ B \in SUBSET T
    BY DEF calculateSpent, Counted
  <1>3. Dated(T)
    BY PoolAssumption DEF MathOK, Dated
  <1>4. \A t \in T : calculateSpent({t}, b.category, from, to, NoName) = IF t \in B THEN Net(T)[t] ELSE 0
    BY <1>3, CostIs
  <1>5. A \in SUBSET B
    BY <1>4
  <1>6. \A t \in B \ A : Net(T)[t] = 0
    BY <1>2, <1>4 DEF Counted, CountsFor
  <1> HIDE DEF A, B, T
  <1>7. Weighs(Net(T), B) /\ Total(B) = Sum(Net(T), B) /\ Total(A) = Sum(Net(T), A)
    <2>1. A \in SUBSET T
      BY <1>2, <1>5
    <2> QED BY <1>2, <1>3, <2>1, TotalOf DEF Dated
  <1>8. Sum(Net(T), B) = Sum(Net(T), A)
    BY <1>5, <1>6, <1>7, SumHeavy
  <1> QED BY <1>1, <1>2, <1>7, <1>8 DEF T

Planned(b) == b.amount * (IF chosenPeriod.month = FullYear
                          THEN PeriodMultiplier(b.frequency, chosenPeriod) ELSE 1)
LEMMA BudgetedIs ==
    ASSUME IsFiniteSet(allBudgets)
    PROVE  totalBudgeted = Sum([b \in allBudgets |-> Planned(b)], allBudgets)
  <1> DEFINE M == allBudgets
             w == [b \in M |-> Planned(b)]
             Rec(g) == g = [s \in SUBSET M |-> IF s = {} THEN 0 ELSE Planned(Pick(s)) + g[s \ {Pick(s)}]]
  <1>1. totalBudgeted = (CHOOSE g : Rec(g))[M]
    BY DEF totalBudgeted, MapThenSumSet, MapThenFoldSet, Pick, Planned
  <1>2. ASSUME NEW g PROVE Rec(g) <=> Sums(w, M, g)
    <2>1. \A s \in SUBSET M : s # {} => w[Pick(s)] = Planned(Pick(s))
      BY PickIn
    <2> QED BY <2>1 DEF Sums
  <1> HIDE DEF Rec, w
  <1>3. Sums(w, M, CHOOSE g : Rec(g))
    BY <1>2, SumsExist
  <1> QED BY <1>1, <1>3, SumsHave DEF w

\* What a part of a major has available, and all of them.
Available(x) == computeRolloverBudget(x[1], transactions, chosenPeriod, x[2]).available
AllAvailable(parts) == MapThenSumSet(LAMBDA x : Available(x), parts)
LEMMA AvailableIs ==
    ASSUME NEW M, IsFiniteSet(M)
    PROVE  AllAvailable(M) = Sum([x \in M |-> Available(x)], M)
  <1> DEFINE w == [x \in M |-> Available(x)]
             Rec(g) == g = [s \in SUBSET M |-> IF s = {} THEN 0 ELSE Available(Pick(s)) + g[s \ {Pick(s)}]]
  <1>1. AllAvailable(M) = (CHOOSE g : Rec(g))[M]
    BY DEF AllAvailable, MapThenSumSet, MapThenFoldSet, Pick
  <1>2. ASSUME NEW g PROVE Rec(g) <=> Sums(w, M, g)
    <2>1. \A s \in SUBSET M : s # {} => w[Pick(s)] = Available(Pick(s))
      BY PickIn
    <2> QED BY <2>1 DEF Sums
  <1> HIDE DEF Rec, w
  <1>3. Sums(w, M, CHOOSE g : Rec(g))
    BY <1>2, SumsExist
  <1> QED BY <1>1, <1>3, SumsHave DEF w

LEMMA OneBudget ==
    ASSUME NEW b, allBudgets = {b}, b.amount \in Int, chosenPeriod.month # FullYear, ~b.rollover
    PROVE  /\ totalBudgeted = b.amount
           /\ AllAvailable({<<b, NoName>>}) = b.amount
  <1> DEFINE M == {<<b, NoName>>}
             w == [c \in allBudgets |-> Planned(c)]
             v == [x \in M |-> Available(x)]
  <1>1. Planned(b) = b.amount
    BY DEF Planned
  <1>2. Available(<<b, NoName>>) = b.amount
    <2>1. computeRolloverBudget(b, transactions, chosenPeriod, NoName).available = b.amount + 0
      BY DEF computeRolloverBudget
    <2> QED BY <2>1 DEF Available
  <1>3. w[b] = b.amount /\ v[<<b, NoName>>] = b.amount
    BY <1>1, <1>2
  <1>4. IsFiniteSet(allBudgets) /\ IsFiniteSet(M)
    BY FS_Singleton
  <1> HIDE DEF w, v
  <1>5. Sum(w, {b}) = b.amount /\ Sum(v, {<<b, NoName>>}) = b.amount
    BY <1>3, SumOne
  <1> QED BY <1>4, <1>5, BudgetedIs, AvailableIs DEF w, v

LEMMA SubcategoryCounts ==
    ASSUME NEW t, NEW sub, sub # NoName, Major(sub) # sub, Filed(t, sub)
    PROVE  CountsFor(t, sub, sub) <=> CountsFor(t, sub, NoName)
  BY DEF CountsFor, Filed, SameName

LEMMA SubcategoryIsNoMajor ==
    ASSUME NEW sub \in DOMAIN SubOf, sub \notin Majors
    PROVE  Major(sub) # sub
  BY MathAssumption, TaxonomyAssumption DEF Major, resolveMajorCategory, NoUsers

LEMMA OneCard == MathOK => CardsAgree
  <1> SUFFICES ASSUME MathOK, NEW b \in allBudgets, allBudgets = {b}, chosenCategory = b.category,
                      chosenPeriod.month # FullYear, ~b.rollover,
                      \/ b.category \in Majors
                      \/ b.category \in DOMAIN SubOf /\ \A t \in transactions : Filed(t, b.category)
               PROVE  budgetCardData = TotalCard
    BY DEF CardsAgree
  <1> DEFINE cat == b.category
             spent == calculateSpent(transactions, cat, FirstDay(chosenPeriod), LastDay(chosenPeriod), NoName)
  <1>1. b.amount \in Int
    BY PoolAssumption DEF MathOK
  <1>2. TotalCard = Card(b.amount, spent)
    BY <1>1, OneBudget, BudgetSpentIs DEF TotalCard
  <1>3. CASE cat = NoName
    BY <1>3 DEF budgetCardData
  <1>4. CASE cat # NoName /\ cat \in Majors
    <2>1. BudgetOf(cat) = {b} /\ PartsOf(cat) = {}
      BY DEF BudgetOf, PartsOf
    <2> DEFINE r == computeCompositeMajorBudget(cat, BudgetOf(cat), PartsOf(cat), transactions, chosenPeriod)
               parts == {<<c, NoName>> : c \in BudgetOf(cat)} \cup {<<c, c.category>> : c \in PartsOf(cat)}
    <2>2. r.available = AllAvailable(parts) /\ r.monthSpent = spent
      BY DEF computeCompositeMajorBudget, AllAvailable, Available
    <2>3. parts = {<<b, NoName>>}
      BY <2>1
    <2> HIDE DEF parts
    <2>4. r.available = b.amount
      BY <1>1, <2>2, <2>3, OneBudget
    <2>5. budgetCardData = Card(r.available, r.monthSpent)
      BY <1>4, <2>1 DEF budgetCardData, MajorCard
    <2> HIDE DEF r, spent, cat
    <2> QED BY <1>2, <2>2, <2>4, <2>5
  <1>5. CASE cat # NoName /\ cat \notin Majors
    <2>1. BudgetOf(cat) = {b} /\ (CHOOSE c \in {b} : TRUE) = b
      BY DEF BudgetOf
    <2> DEFINE own == calculateSpent(transactions, cat, FirstDay(chosenPeriod), LastDay(chosenPeriod), cat)
    <2>2. budgetCardData = Card(b.amount, own)
      BY <1>5, <2>1 DEF budgetCardData, SubcategoryCard
    <2>3. \A t \in transactions : CountsFor(t, cat, cat) <=> CountsFor(t, cat, NoName)
      BY <1>5, SubcategoryCounts, SubcategoryIsNoMajor
    <2>4. own = spent
      BY <2>3 DEF calculateSpent
    <2> HIDE DEF own, spent, cat
    <2> QED BY <1>2, <2>2, <2>4
  <1> QED BY <1>3, <1>4, <1>5

(* With one budget, of a major or of a subcategory under which transactions  *)
(* are filed, the card of its category and the card of all budgets agree:    *)
(* CardsAgree is invariant, for any transactions and taxonomy.               *)
THEOREM CardsAlwaysAgree == MathSpec => []CardsAgree
  BY MathOKAlways, OneCard, PTL

-----------------------------------------------------------------------------
(* Putting a finite set in order.                                            *)
Orders(R, S) ==
    /\ \A a, b \in S : <<a, b>> \in R \/ <<b, a>> \in R
    /\ \A a, b, c \in S : <<a, b>> \in R /\ <<b, c>> \in R => <<a, c>> \in R
InOrder(s, S, R) ==
    /\ s \in [1 .. Cardinality(S) -> S]
    /\ IsInjective(s) /\ \A i, j \in DOMAIN s : i < j => <<s[i], s[j]>> \in R

LEMMA OrdersPart ==
    ASSUME NEW R, NEW S, Orders(R, S), NEW T \in SUBSET S
    PROVE  Orders(R, T)
  BY DEF Orders

\* A finite set that is not empty has a greatest element.
LEMMA GreatestExists ==
    ASSUME NEW S, IsFiniteSet(S), S # {}, NEW R, Orders(R, S)
    PROVE  \E z \in S : \A a \in S : <<a, z>> \in R
  <1> DEFINE Has(T) == \E z \in T : \A a \in T : <<a, z>> \in R
             C == {T \in SUBSET S : T # {} /\ ~Has(T)}
  <1> SUFFICES ASSUME C # {} PROVE FALSE
    OBVIOUS
  <1>1. C \in SUBSET SUBSET S /\ \A T \in SUBSET S : T \in C <=> T # {} /\ ~Has(T)
    OBVIOUS
  <1> HIDE DEF C, Has
  <1>2. PICK G \in C : \A H \in C : H \subseteq G => H = G
    BY <1>1, LeastSubset
  <1>3. G \in SUBSET S /\ G # {} /\ ~Has(G)
    BY <1>1
  <1>4. PICK x : x \in G
    BY <1>3
  <1>5. x \in S /\ <<x, x>> \in R
    BY <1>3, <1>4 DEF Orders
  <1>6. CASE G \ {x} = {}
    <2>1. \A a \in G : a = x
      BY <1>6
    <2> QED BY <1>3, <1>4, <1>5, <2>1 DEF Has
  <1>7. CASE G \ {x} # {}
    <2>1. G \ {x} \in SUBSET S /\ G \ {x} \subseteq G /\ G \ {x} # G
      BY <1>3, <1>4
    <2>2. G \ {x} \notin C
      BY <1>2, <2>1
    <2>3. Has(G \ {x})
      BY <1>1, <1>7, <2>1, <2>2
    <2>4. PICK z \in G \ {x} : \A a \in G \ {x} : <<a, z>> \in R
      BY <2>3 DEF Has
    <2>5. z \in G /\ z \in S
      BY <2>1, <2>4
    <2>6. CASE <<x, z>> \in R
      <3>1. \A a \in G : <<a, z>> \in R
        BY <2>4, <2>6
      <3> QED BY <1>3, <2>5, <3>1 DEF Has
    <2>7. CASE <<z, x>> \in R
      <3>1. ASSUME NEW a \in G PROVE <<a, x>> \in R
        <4>1. CASE a = x
          BY <1>5, <4>1
        <4>2. CASE a # x
          <5>1. a \in S /\ <<a, z>> \in R
            BY <1>3, <2>4, <4>2
          <5> QED BY <1>5, <2>5, <2>7, <5>1 DEF Orders
        <4> QED BY <4>1, <4>2
      <3> QED BY <1>3, <1>4, <3>1 DEF Has
    <2> QED BY <1>5, <2>5, <2>6, <2>7 DEF Orders
  <1> QED BY <1>6, <1>7

\* The greatest element goes to the end.
LEMMA OrderExists ==
    ASSUME NEW S, IsFiniteSet(S), NEW R, Orders(R, S)
    PROVE  \E s : InOrder(s, S, R)
  <1> DEFINE Has(T) == \E s : InOrder(s, T, R)
             C == {T \in SUBSET S : ~Has(T)}
  <1> SUFFICES ASSUME C # {} PROVE FALSE
    OBVIOUS
  <1>1. C \in SUBSET SUBSET S /\ \A T \in SUBSET S : T \in C <=> ~Has(T)
    OBVIOUS
  <1> HIDE DEF C, Has
  <1>2. PICK G \in C : \A H \in C : H \subseteq G => H = G
    BY <1>1, LeastSubset
  <1>3. G \in SUBSET S /\ ~Has(G) /\ IsFiniteSet(G) /\ Orders(R, G)
    BY <1>1, OrdersPart, FS_Subset
  <1>4. CASE G = {}
    <2> DEFINE s == [i \in 1 .. 0 |-> i]
    <2>1. Cardinality(G) = 0 /\ 1 .. 0 = {}
      BY <1>4, FS_EmptySet
    <2>2. s \in [1 .. Cardinality(G) -> G] /\ DOMAIN s = {}
      BY <1>4, <2>1
    <2> HIDE DEF s
    <2>3. InOrder(s, G, R)
      BY <2>2 DEF InOrder, IsInjective
    <2> QED BY <1>3, <2>3 DEF Has
  <1>5. CASE G # {}
    <2>1. PICK z \in G : \A a \in G : <<a, z>> \in R
      BY <1>3, <1>5, GreatestExists
    <2> DEFINE H == G \ {z}
               n == Cardinality(H)
    <2>2. H \in SUBSET S /\ H \subseteq G /\ H # G
      BY <1>3, <2>1
    <2>3. n \in Nat /\ Cardinality(G) = n + 1
      <3>1. n \in Nat /\ Cardinality(G) \in Nat /\ n = Cardinality(G) - 1
        BY <1>3, <2>1, FS_RemoveElement, FS_CardinalityType
      <3> QED BY <3>1
    <2>4. H \notin C
      BY <1>2, <2>2
    <2>5. PICK t : InOrder(t, H, R)
      BY <1>1, <2>2, <2>4 DEF Has
    <2> DEFINE s == [i \in 1 .. n + 1 |-> IF i = n + 1 THEN z ELSE t[i]]
    <2>6. t \in [1 .. n -> H] /\ IsInjective(t) /\ \A i, j \in 1 .. n : i < j => <<t[i], t[j]>> \in R
      BY <2>5 DEF InOrder
    <2> HIDE DEF n
    <2>7. \A i \in 1 .. n + 1 : i # n + 1 => i \in 1 .. n
      BY <2>3
    <2>8. /\ s \in [1 .. n + 1 -> G] /\ s[n + 1] = z
          /\ \A i \in 1 .. n + 1 : i # n + 1 => i \in 1 .. n /\ s[i] = t[i] /\ s[i] \in H
      <3>1. n + 1 \in 1 .. n + 1
        BY <2>3
      <3> QED BY <2>1, <2>2, <2>6, <2>7, <3>1
    <2> HIDE DEF s
    <2>9. IsInjective(s)
      <3> SUFFICES ASSUME NEW i \in 1 .. n + 1, NEW j \in 1 .. n + 1, s[i] = s[j] PROVE i = j
        BY <2>8 DEF IsInjective
      <3>1. z \notin H
        OBVIOUS
      <3>2. CASE i = n + 1
        BY <2>8, <3>1, <3>2
      <3>3. CASE j = n + 1
        BY <2>8, <3>1, <3>3
      <3>4. CASE i # n + 1 /\ j # n + 1
        <4>1. i \in DOMAIN t /\ j \in DOMAIN t /\ t[i] = t[j]
          BY <2>6, <2>8, <3>4
        <4> QED BY <2>6, <4>1 DEF IsInjective
      <3> QED BY <3>2, <3>3, <3>4
    <2>10. ASSUME NEW i \in 1 .. n + 1, NEW j \in 1 .. n + 1, i < j PROVE <<s[i], s[j]>> \in R
      <3>1. i # n + 1
        BY <2>3, <2>10
      <3>2. i \in 1 .. n /\ s[i] = t[i] /\ s[i] \in G
        BY <2>2, <2>8, <3>1
      <3>3. CASE j = n + 1
        BY <2>1, <2>8, <3>2, <3>3
      <3>4. CASE j # n + 1
        BY <2>6, <2>8, <2>10, <3>2, <3>4
      <3> QED BY <3>3, <3>4
    <2>11. InOrder(s, G, R)
      BY <2>3, <2>8, <2>9, <2>10 DEF InOrder
    <2> QED BY <1>3, <2>11 DEF Has
  <1> QED BY <1>4, <1>5

\* An ordering of a set has each of its elements.
LEMMA OrderHasAll ==
    ASSUME NEW S, IsFiniteSet(S), NEW s \in [1 .. Cardinality(S) -> S], IsInjective(s), NEW x \in S
    PROVE  \E i \in 1 .. Cardinality(S) : s[i] = x
  <1> DEFINE n == Cardinality(S)
  <1>1. n \in Nat
    BY FS_CardinalityType
  <1>2. IsFiniteSet(1 .. n) /\ Cardinality(1 .. n) = n
    BY <1>1, FS_Interval
  <1>3. s \in Injection(1 .. n, S)
    BY DEF Injection
  <1> HIDE DEF n
  <1>4. s \in Surjection(1 .. n, S)
    BY <1>2, <1>3, FS_Injection DEF n
  <1> QED BY <1>4 DEF Surjection, n

\* What the forecast keeps: charges it may be given, and a month that is shown.
ForecastOK == charges \in ChargePool /\ chargeMonth \in ChargeMonths \cup {AllMonths}
LEMMA ForecastOKAlways == ForecastSpec => []ForecastOK
  <1>1. ForecastInit => ForecastOK
    BY DEF ForecastInit, ForecastOK
  <1>2. ForecastOK /\ [ShowMonth]_forecastVars => ForecastOK'
    BY DEF ForecastOK, ShowMonth, forecastVars
  <1> QED BY <1>1, <1>2, PTL DEF ForecastSpec

LEMMA MapSumIs ==
    ASSUME NEW T, IsFiniteSet(T), NEW w
    PROVE  MapThenSumSet(LAMBDA i : w[i], T) = Sum(w, T)
  <1> DEFINE Rec(g) == g = [s \in SUBSET T |-> IF s = {} THEN 0 ELSE w[Pick(s)] + g[s \ {Pick(s)}]]
  <1>1. MapThenSumSet(LAMBDA i : w[i], T) = (CHOOSE g : Rec(g))[T]
    BY DEF MapThenSumSet, MapThenFoldSet, Pick
  <1>2. ASSUME NEW g PROVE Rec(g) <=> Sums(w, T, g)
    BY DEF Sums
  <1> HIDE DEF Rec
  <1>3. Sums(w, T, CHOOSE g : Rec(g))
    BY <1>2, SumsExist
  <1> QED BY <1>1, <1>3, SumsHave

\* A sequence of all of a set has the set's size for its length.
LEMMA LengthIs ==
    ASSUME NEW S, NEW n \in Nat, NEW s \in [1 .. n -> S]
    PROVE  s \in Seq(S) /\ Len(s) = n /\ DOMAIN s = 1 .. n
  OBVIOUS

-----------------------------------------------------------------------------
(* The calendar of the charges.                                              *)
MonthCount == Len(MonthLengths)

LEMMA MonthsAre == MonthCount \in Nat \ {0} /\ \A m \in 1 .. MonthCount : MonthLengths[m] \in Nat \ {0}
  BY ForecastAssumption DEF MonthCount

LEMMA MonthStarts ==
    /\ MonthStart[1] = 0
    /\ \A m \in 1 .. MonthCount + 1 : MonthStart[m] \in Nat
    /\ \A m \in 1 .. MonthCount : MonthStart[m + 1] = MonthStart[m] + MonthLengths[m]
  <1>0. MonthCount \in Nat \ {0} /\ \A m \in 1 .. MonthCount : MonthLengths[m] \in Nat \ {0}
    BY MonthsAre
  <1>1. ASSUME NEW m \in 1 .. MonthCount + 1
        PROVE  MonthStart[m] = Sum(MonthLengths, 1 .. m - 1)
    <2>1. MonthStart[m] = MapThenSumSet(LAMBDA i : MonthLengths[i], 1 .. m - 1)
      BY DEF MonthStart, MonthCount
    <2>2. IsFiniteSet(1 .. m - 1)
      BY <1>0, FS_Interval
    <2> QED BY <2>1, <2>2, MapSumIs
  <1>2. MonthStart[1] = 0
    <2>1. 1 \in 1 .. MonthCount + 1 /\ 1 .. 1 - 1 = {}
      BY <1>0
    <2> QED BY <1>1, <2>1, SumEmpty
  <1>3. ASSUME NEW m \in 1 .. MonthCount
        PROVE  MonthStart[m + 1] = MonthStart[m] + MonthLengths[m]
    <2>1. m \in 1 .. MonthCount + 1 /\ m + 1 \in 1 .. MonthCount + 1 /\ (m + 1) - 1 = m /\ m \in 1 .. m
      BY <1>0
    <2>2. (1 .. m) \ {m} = 1 .. m - 1
      BY <1>0
    <2>3. Weighs(MonthLengths, 1 .. m) /\ Weighs(MonthLengths, 1 .. m - 1)
      <3>1. IsFiniteSet(1 .. m) /\ IsFiniteSet(1 .. m - 1)
        BY <1>0, FS_Interval
      <3>2. \A i \in 1 .. m : i \in 1 .. MonthCount
        BY <1>0
      <3>3. \A i \in 1 .. m - 1 : i \in 1 .. m
        BY <1>0
      <3> QED BY <1>0, <3>1, <3>2, <3>3 DEF Weighs
    <2>4. Sum(MonthLengths, 1 .. m) = MonthLengths[m] + Sum(MonthLengths, 1 .. m - 1)
      BY <2>1, <2>2, <2>3, SumWithout
    <2>5. MonthLengths[m] \in Int /\ Sum(MonthLengths, 1 .. m - 1) \in Int
      BY <1>0, <2>3, SumInt
    <2>6. MonthStart[m + 1] = Sum(MonthLengths, 1 .. m) /\ MonthStart[m] = Sum(MonthLengths, 1 .. m - 1)
      BY <1>1, <2>1
    <2> QED BY <2>4, <2>5, <2>6
  <1> DEFINE C == {m \in 1 .. MonthCount + 1 : MonthStart[m] \notin Nat}
  <1>4. C = {}
    <2> SUFFICES ASSUME C # {} PROVE FALSE
      OBVIOUS
    <2>1. C \in SUBSET Int /\ (\A n \in C : 1 <= n) /\ \A n \in 1 .. MonthCount + 1 : n \in C <=> MonthStart[n] \notin Nat
      OBVIOUS
    <2>1a. \A n \in C : n \in 1 .. MonthCount + 1
      OBVIOUS
    <2> HIDE DEF C
    <2>2. PICK n \in C : \A k \in C : n <= k
      BY <2>1, LeastOf
    <2>3. n \in Int /\ n \in 1 .. MonthCount + 1 /\ n # 1
      BY <1>2, <2>1, <2>1a
    <2>4. PICK k \in Int : k = n - 1
      BY <2>3
    <2>5. k \in 1 .. MonthCount /\ k \in 1 .. MonthCount + 1 /\ k \notin C /\ n = k + 1
      BY <1>0, <2>2, <2>3, <2>4
    <2> QED BY <1>0, <1>3, <2>1, <2>2, <2>3, <2>5
  <1> QED BY <1>2, <1>3, <1>4

LEMMA LaterStart ==
    ASSUME NEW m \in 1 .. MonthCount + 1, NEW n \in 1 .. MonthCount + 1, m < n
    PROVE  MonthStart[m] < MonthStart[n]
  <1> DEFINE C == {k \in 1 .. MonthCount + 1 : m < k /\ ~(MonthStart[m] < MonthStart[k])}
  <1>0. MonthCount \in Nat
    BY MonthsAre
  <1> SUFFICES ASSUME C # {} PROVE FALSE
    OBVIOUS
  <1>1. C \in SUBSET Int /\ (\A k \in C : 1 <= k)
        /\ \A k \in 1 .. MonthCount + 1 : k \in C <=> m < k /\ ~(MonthStart[m] < MonthStart[k])
    OBVIOUS
  <1>1a. \A k \in C : k \in 1 .. MonthCount + 1
    OBVIOUS
  <1> HIDE DEF C
  <1>2. PICK k \in C : \A j \in C : k <= j
    BY <1>1, LeastOf
  <1>3. k \in 1 .. MonthCount + 1 /\ m < k /\ ~(MonthStart[m] < MonthStart[k])
    BY <1>1, <1>1a
  <1>4. PICK j \in Int : j = k - 1
    BY <1>3
  <1>5. j \in 1 .. MonthCount /\ j \in 1 .. MonthCount + 1 /\ k = j + 1 /\ j \notin C /\ m <= j
    BY <1>0, <1>2, <1>3, <1>4
  <1>6. MonthStart[k] = MonthStart[j] + MonthLengths[j] /\ MonthLengths[j] \in Nat \ {0}
        /\ MonthStart[m] \in Nat /\ MonthStart[j] \in Nat
    BY <1>5, MonthStarts, MonthsAre
  <1>7. m = j \/ MonthStart[m] < MonthStart[j]
    BY <1>1, <1>5
  <1> QED BY <1>3, <1>6, <1>7

\* A day of the calendar, with a month after it.
Covered == 0 .. MonthStart[MonthCount] - 1

LEMMA MonthOfIs ==
    ASSUME NEW d \in Covered
    PROVE  /\ MonthOf(d) \in 1 .. MonthCount - 1
           /\ MonthStart[MonthOf(d)] <= d /\ d < MonthStart[MonthOf(d) + 1]
  <1>0. MonthCount \in Nat \ {0} /\ MonthCount \in 1 .. MonthCount + 1 /\ MonthStart[MonthCount] \in Nat
    BY MonthsAre, MonthStarts
  <1>1. d \in Int /\ 0 <= d /\ d < MonthStart[MonthCount]
    BY <1>0 DEF Covered
  <1> DEFINE C == {k \in 1 .. MonthCount : d < MonthStart[k]}
  <1>2. C \in SUBSET Int /\ (\A k \in C : 1 <= k /\ k <= MonthCount) /\ MonthCount \in C
        /\ \A k \in 1 .. MonthCount : k \in C <=> d < MonthStart[k]
    BY <1>0, <1>1
  <1> HIDE DEF C
  <1>3. PICK k \in C : \A j \in C : k <= j
    <2>1. C # {} /\ 1 \in Int /\ \A k \in C : 1 <= k
      BY <1>2
    <2>2. C \in SUBSET Int
      BY <1>2
    <2> QED BY <2>1, <2>2, LeastOf
  <1>4. k \in 1 .. MonthCount /\ d < MonthStart[k] /\ k # 1
    BY <1>1, <1>2, MonthStarts
  <1>5. PICK m \in Int : m = k - 1
    BY <1>4
  <1>6. m \in 1 .. MonthCount - 1 /\ m \in 1 .. MonthCount /\ m + 1 = k /\ m \notin C /\ m \in 1 .. MonthCount + 1
    BY <1>0, <1>3, <1>4, <1>5
  <1>7. MonthStart[m] <= d
    BY <1>1, <1>2, <1>6, MonthStarts
  <1>8. \E x \in DOMAIN MonthLengths : MonthStart[x] <= d /\ d < MonthStart[x + 1]
    <2>1. DOMAIN MonthLengths = 1 .. MonthCount
      BY ForecastAssumption DEF MonthCount
    <2> QED BY <1>4, <1>6, <1>7, <2>1
  <1> DEFINE o == MonthOf(d)
  <1>9. o \in 1 .. MonthCount /\ MonthStart[o] <= d /\ d < MonthStart[o + 1]
    <2>1. DOMAIN MonthLengths = 1 .. MonthCount
      BY ForecastAssumption DEF MonthCount
    <2> QED BY <1>8, <2>1 DEF MonthOf
  <1> HIDE DEF o
  <1>10. o # MonthCount
    BY <1>0, <1>1, <1>9
  <1>11. o \in 1 .. MonthCount - 1
    BY <1>0, <1>9, <1>10
  <1> QED BY <1>9, <1>11 DEF o

LEMMA MinIs ==
    ASSUME NEW a \in Int, NEW b \in Int
    PROVE  Min({a, b}) \in {a, b} /\ Min({a, b}) <= a /\ Min({a, b}) <= b
  <1> DEFINE S == {a, b}
  <1>1. \E x \in S : \A y \in S : x <= y
    <2>1. CASE a <= b
      BY <2>1
    <2>2. CASE b <= a
      BY <2>2
    <2> QED BY <2>1, <2>2
  <1>2. a \in S /\ b \in S
    OBVIOUS
  <1> HIDE DEF S
  <1>3. Min(S) \in S /\ \A y \in S : Min(S) <= y
    BY <1>1 DEF Min
  <1> QED BY <1>2, <1>3 DEF S

\* A step of a rhythm leads to a later day.
LEMMA NextIsLater ==
    ASSUME NEW d \in Covered, NEW c \in Cadences
    PROVE  NextAfter(c, d) \in Int /\ d < NextAfter(c, d)
  <1>0. d \in Int /\ 0 <= d /\ MonthCount \in Nat \ {0}
    BY MonthsAre, MonthStarts DEF Covered
  <1>1. CASE c.cadence = "monthly"
    <2> DEFINE m == MonthOf(d)
    <2>1. m \in 1 .. MonthCount - 1 /\ MonthStart[m] <= d /\ d < MonthStart[m + 1]
      BY MonthOfIs
    <2>2. NextAfter(c, d) = MonthStart[m + 1] + Min({d - MonthStart[m], MonthLengths[m + 1] - 1})
      BY <1>1 DEF NextAfter, addMonthClamped, DayOf
    <2> HIDE DEF m
    <2>3. m \in 1 .. MonthCount /\ m \in 1 .. MonthCount + 1 /\ m + 1 \in 1 .. MonthCount /\ m + 1 \in 1 .. MonthCount + 1
      BY <1>0, <2>1
    <2>4. MonthStart[m] \in Nat /\ MonthStart[m + 1] \in Nat /\ MonthLengths[m + 1] \in Nat \ {0}
      BY <2>3, MonthStarts, MonthsAre
    <2>5. PICK e \in Int : e = d - MonthStart[m] /\ 0 <= e
      BY <1>0, <2>1, <2>4
    <2>6. PICK l \in Int : l = MonthLengths[m + 1] - 1 /\ 0 <= l
      BY <2>4
    <2>7. Min({e, l}) \in Int /\ 0 <= Min({e, l})
      BY <2>5, <2>6, MinIs
    <2> QED BY <1>0, <2>1, <2>2, <2>4, <2>5, <2>6, <2>7
  <1>2. CASE c.cadence # "monthly"
    <2>1. NextAfter(c, d) = d + c.days
      BY <1>2 DEF NextAfter
    <2>2. c.days \in Nat \ {0}
      BY CadencesAssumption
    <2> QED BY <1>0, <2>1, <2>2
  <1> QED BY <1>1, <1>2

(* The dates of a rhythm, one step after the other.                          *)
Dates(c, a, g) == g = [n \in Nat |-> IF n = 0 THEN a ELSE NextAfter(c, g[n - 1])]
DatesUpTo(c, a, k, g) == g = [n \in 0 .. k |-> IF n = 0 THEN a ELSE NextAfter(c, g[n - 1])]

LEMMA DatesAre ==
    ASSUME NEW c, NEW a, NEW g
    PROVE  Dates(c, a, g) <=>
              /\ g = [n \in Nat |-> g[n]]
              /\ \A n \in Nat : g[n] = IF n = 0 THEN a ELSE NextAfter(c, g[n - 1])
  <1> DEFINE next(n) == IF n = 0 THEN a ELSE NextAfter(c, g[n - 1])
  <1>1. Dates(c, a, g) <=> g = [n \in Nat |-> next(n)]
    BY DEF Dates
  <1> HIDE DEF next
  <1>2. g = [n \in Nat |-> next(n)] <=> g = [n \in Nat |-> g[n]] /\ \A n \in Nat : g[n] = next(n)
    OBVIOUS
  <1> QED BY <1>1, <1>2 DEF next

LEMMA DatesUpToAre ==
    ASSUME NEW c, NEW a, NEW k \in Nat, NEW g
    PROVE  DatesUpTo(c, a, k, g) <=>
              /\ g = [n \in 0 .. k |-> g[n]]
              /\ \A n \in 0 .. k : g[n] = IF n = 0 THEN a ELSE NextAfter(c, g[n - 1])
  <1> DEFINE next(n) == IF n = 0 THEN a ELSE NextAfter(c, g[n - 1])
  <1>1. DatesUpTo(c, a, k, g) <=> g = [n \in 0 .. k |-> next(n)]
    BY DEF DatesUpTo
  <1> HIDE DEF next
  <1>2. g = [n \in 0 .. k |-> next(n)] <=> g = [n \in 0 .. k |-> g[n]] /\ \A n \in 0 .. k : g[n] = next(n)
    OBVIOUS
  <1> QED BY <1>1, <1>2 DEF next

\* Each number of steps can be taken.
LEMMA StepsExist ==
    ASSUME NEW c, NEW a, NEW k \in Nat
    PROVE  \E g : DatesUpTo(c, a, k, g)
  <1> DEFINE C == {n \in Nat : ~\E g : DatesUpTo(c, a, n, g)}
  <1> SUFFICES ASSUME C # {} PROVE FALSE
    OBVIOUS
  <1>1. C \in SUBSET Nat /\ \A n \in Nat : n \in C <=> ~\E g : DatesUpTo(c, a, n, g)
    OBVIOUS
  <1> HIDE DEF C
  <1>2. PICK n \in C : \A j \in C : n <= j
    BY <1>1, LeastNatural
  <1>3. n \in Nat
    BY <1>1
  <1>4. CASE n = 0
    <2> DEFINE g == [i \in 0 .. n |-> a]
    <2>1. g = [i \in 0 .. n |-> g[i]] /\ \A i \in 0 .. n : i = 0 /\ g[i] = a
      BY <1>4
    <2> HIDE DEF g
    <2>2. DatesUpTo(c, a, n, g)
      BY <1>3, <2>1, DatesUpToAre
    <2> QED BY <1>1, <1>3, <2>2
  <1>5. CASE n # 0
    <2>1. PICK j \in Nat : n = j + 1 /\ j = n - 1
      <3>1. n - 1 \in Nat
        BY <1>3, <1>5
      <3> QED BY <1>3, <3>1
    <2>2. j \notin C
      BY <1>2, <1>3, <2>1
    <2>3. PICK h : DatesUpTo(c, a, j, h)
      BY <1>1, <2>2
    <2>4. \A i \in 0 .. j : h[i] = IF i = 0 THEN a ELSE NextAfter(c, h[i - 1])
      BY <2>3, DatesUpToAre
    <2> DEFINE fin == NextAfter(c, h[j])
               g == [i \in 0 .. n |-> IF i = n THEN fin ELSE h[i]]
    <2> HIDE DEF fin
    <2>5. /\ g = [i \in 0 .. n |-> g[i]] /\ g[n] = fin
          /\ \A i \in 0 .. j : g[i] = h[i]
      BY <1>3, <2>1
    <2> HIDE DEF g
    <2>6. ASSUME NEW i \in 0 .. n
          PROVE  g[i] = IF i = 0 THEN a ELSE NextAfter(c, g[i - 1])
      <3>1. CASE i = n
        <4>1. i - 1 = j /\ j \in 0 .. j
          BY <2>1, <3>1
        <4> QED BY <1>5, <2>5, <3>1, <4>1 DEF fin
      <3>2. CASE i # n
        <4>1. i \in 0 .. j /\ (i # 0 => i - 1 \in 0 .. j)
          BY <2>1, <3>2
        <4> QED BY <2>4, <2>5, <4>1
      <3> QED BY <3>1, <3>2
    <2>7. DatesUpTo(c, a, n, g)
      BY <1>3, <2>5, <2>6, DatesUpToAre
    <2> QED BY <1>1, <1>3, <2>7
  <1> QED BY <1>4, <1>5

LEMMA StepsAgree ==
    ASSUME NEW c, NEW a, NEW k \in Nat, NEW l \in Nat, k <= l, NEW g, NEW h,
           DatesUpTo(c, a, k, g), DatesUpTo(c, a, l, h)
    PROVE  \A n \in 0 .. k : g[n] = h[n]
  <1> DEFINE C == {n \in 0 .. k : g[n] # h[n]}
  <1> SUFFICES ASSUME C # {} PROVE FALSE
    OBVIOUS
  <1>1. C \in SUBSET Nat /\ \A n \in 0 .. k : n \in C <=> g[n] # h[n]
    OBVIOUS
  <1>1a. \A n \in C : n \in 0 .. k
    OBVIOUS
  <1> HIDE DEF C
  <1>2. PICK n \in C : \A j \in C : n <= j
    BY <1>1, LeastNatural
  <1>3. n \in 0 .. k /\ n \in 0 .. l /\ n \in Nat
    BY <1>1a
  <1>4. /\ g[n] = IF n = 0 THEN a ELSE NextAfter(c, g[n - 1])
        /\ h[n] = IF n = 0 THEN a ELSE NextAfter(c, h[n - 1])
    BY <1>3, DatesUpToAre
  <1>5. ASSUME n # 0 PROVE g[n - 1] = h[n - 1]
    <2>1. n - 1 \in 0 .. k /\ n - 1 < n /\ n - 1 \in Int
      BY <1>3, <1>5
    <2>2. n - 1 \notin C
      BY <1>2, <1>3, <2>1
    <2> QED BY <1>1, <2>1, <2>2
  <1> QED BY <1>1, <1>3, <1>4, <1>5

LEMMA DatesExist ==
    ASSUME NEW c, NEW a
    PROVE  \E g : Dates(c, a, g)
  <1> DEFINE upTo(k) == CHOOSE g : DatesUpTo(c, a, k, g)
             g == [n \in Nat |-> upTo(n)[n]]
  <1>1. \A k \in Nat : DatesUpTo(c, a, k, upTo(k))
    BY StepsExist
  <1> HIDE DEF upTo
  <1>2. g = [n \in Nat |-> g[n]] /\ \A n \in Nat : g[n] = upTo(n)[n]
    OBVIOUS
  <1> HIDE DEF g
  <1>3. ASSUME NEW n \in Nat PROVE g[n] = IF n = 0 THEN a ELSE NextAfter(c, g[n - 1])
    <2>1. n \in 0 .. n
      OBVIOUS
    <2>2. upTo(n)[n] = IF n = 0 THEN a ELSE NextAfter(c, upTo(n)[n - 1])
      BY <1>1, <2>1, DatesUpToAre
    <2>3. ASSUME n # 0 PROVE upTo(n)[n - 1] = g[n - 1]
      <3>1. PICK j \in Nat : j = n - 1 /\ j <= n /\ j \in 0 .. j
        BY <2>3
      <3>2. upTo(j)[j] = upTo(n)[j]
        BY <1>1, <3>1, StepsAgree
      <3> QED BY <1>2, <3>1, <3>2
    <2> QED BY <1>2, <2>2, <2>3
  <1>4. Dates(c, a, g)
    BY <1>2, <1>3, DatesAre
  <1> QED BY <1>4

-----------------------------------------------------------------------------
\* A day that is shown as today has a month after it, if any charge has.
LEMMA TodayIs ==
    ASSUME ForecastOK, Covered # {}
    PROVE  today \in Covered /\ today <= LastDate
  <1>0. MonthCount \in Nat \ {0} /\ ChargeMonths \subseteq 1 .. MonthCount - 1
    BY MonthsAre, ForecastAssumption DEF MonthCount
  <1>1. /\ MonthCount \in 1 .. MonthCount + 1 /\ MonthCount + 1 \in 1 .. MonthCount + 1
        /\ MonthCount < MonthCount + 1
    BY <1>0
  <1>2. MonthStart[MonthCount] \in Nat /\ MonthStart[MonthCount + 1] \in Nat
    BY <1>1, MonthStarts
  <1>3. MonthStart[MonthCount] < MonthStart[MonthCount + 1] /\ 0 < MonthStart[MonthCount]
    <2>1. 0 < MonthStart[MonthCount]
      BY <1>2 DEF Covered
    <2> QED BY <1>1, <2>1, LaterStart
  <1>4. today \in Nat /\ today < MonthStart[MonthCount]
    <2>1. CASE chargeMonth = AllMonths
      BY <1>3, <2>1 DEF today
    <2>2. CASE chargeMonth # AllMonths
      <3>1. chargeMonth \in 1 .. MonthCount - 1
        BY <1>0, <2>2 DEF ForecastOK
      <3>2. chargeMonth \in 1 .. MonthCount + 1 /\ chargeMonth < MonthCount
        BY <1>0, <3>1
      <3>3. MonthStart[chargeMonth] \in Nat /\ MonthStart[chargeMonth] < MonthStart[MonthCount]
        BY <1>1, <3>2, MonthStarts, LaterStart
      <3> QED BY <2>2, <3>3 DEF today
    <2> QED BY <2>1, <2>2
  <1>5. LastDate = MonthStart[MonthCount + 1] - 1
    BY DEF LastDate, MonthCount
  <1> QED BY <1>2, <1>3, <1>4, <1>5 DEF Covered

\* The next date is the first after today, one step after the last charge or a day before.
LEMMA UpcomingIs ==
    ASSUME ForecastOK, NEW latest \in Covered, NEW c \in Cadences
    PROVE  /\ Upcoming(c, latest) \in Int /\ today < Upcoming(c, latest)
           /\ \E d \in latest .. Larger(today, latest) : NextAfter(c, d) = Upcoming(c, latest)
  <1>0. /\ today \in Covered /\ today <= LastDate /\ today \in Nat /\ latest \in Nat
        /\ LastDate \in Int
    <2>1. today \in Covered /\ today <= LastDate
      BY TodayIs
    <2>2. \A d \in Covered : d \in Nat
      BY MonthsAre, MonthStarts DEF Covered
    <2>3. MonthStart[MonthCount + 1] \in Nat
      BY MonthsAre, MonthStarts
    <2> QED BY <2>1, <2>2, <2>3 DEF LastDate, MonthCount
  <1> DEFINE D == CHOOSE g : Dates(c, latest, g)
             First(n) == D[n] > today /\ \A i \in 1 .. n - 1 : D[i] <= today
             N == CHOOSE n \in 1 .. LastDate + 1 : First(n)
  <1>1. Upcoming(c, latest) = D[N]
    BY DEF Upcoming, Dates
  <1>2. Dates(c, latest, D)
    BY DatesExist
  <1> HIDE DEF D
  <1>3. D[0] = latest /\ \A n \in Nat \ {0} : D[n] = NextAfter(c, D[n - 1])
    BY <1>2, DatesAre
  <1> DEFINE Ahead(n) == D[n] \in Int /\ D[n] <= today /\ latest + n <= D[n]
             C == {n \in Nat : n # 0 /\ ~Ahead(n)}
  <1>4. C \in SUBSET Nat /\ \A n \in Nat : n \in C <=> n # 0 /\ ~Ahead(n)
    OBVIOUS
  <1> HIDE DEF C
  <1>5. C # {}
    <2>1. today + 1 \in Nat /\ today + 1 # 0 /\ ~Ahead(today + 1)
      BY <1>0
    <2> QED BY <1>4, <2>1
  <1>6. PICK n \in C : \A j \in C : n <= j
    BY <1>4, <1>5, LeastNatural
  <1>7. n \in Nat /\ n # 0 /\ ~Ahead(n) /\ \A i \in 1 .. n - 1 : Ahead(i)
    <2>1. n \in Nat /\ n # 0 /\ ~Ahead(n)
      BY <1>4
    <2>2. ASSUME NEW i \in 1 .. n - 1 PROVE Ahead(i)
      <3>1. i \in Nat /\ i # 0 /\ i < n
        BY <2>1
      <3>2. i \notin C
        BY <1>6, <2>1, <3>1
      <3> QED BY <1>4, <3>1, <3>2
    <2> QED BY <2>1, <2>2
  <1> HIDE DEF Ahead
  <1>8. PICK k \in Nat : n = k + 1 /\ k = n - 1
    <2>1. n - 1 \in Nat
      BY <1>7
    <2> QED BY <1>7, <2>1
  <1>9. /\ D[k] \in Int /\ latest + k <= D[k] /\ D[k] \in Covered
        /\ (k # 0 => k <= D[k] /\ D[k] <= today)
        /\ D[k] \in latest .. Larger(today, latest)
    <2>1. CASE k = 0
      <3>1. D[k] = latest
        BY <1>3, <2>1
      <3> QED BY <1>0, <2>1, <3>1 DEF Larger
    <2>2. CASE k # 0
      <3>1. Ahead(k)
        BY <1>7, <1>8, <2>2
      <3>2. D[k] \in Int /\ D[k] <= today /\ latest + k <= D[k] /\ k <= D[k]
        BY <1>0, <3>1 DEF Ahead
      <3>3. \A x \in Int : 0 <= x /\ x <= today => x \in Covered
        <4>1. MonthStart[MonthCount] \in Nat
          BY MonthsAre, MonthStarts
        <4> QED BY <1>0, <4>1 DEF Covered
      <3> QED BY <1>0, <3>2, <3>3 DEF Larger
    <2> QED BY <2>1, <2>2
  <1>10. D[n] = NextAfter(c, D[k]) /\ D[n] \in Int /\ D[k] < D[n]
    <2>1. D[n] = NextAfter(c, D[k])
      BY <1>3, <1>7, <1>8
    <2> QED BY <1>9, <2>1, NextIsLater
  <1>11. D[n] > today
    BY <1>0, <1>7, <1>8, <1>9, <1>10 DEF Ahead
  <1>12. n \in 1 .. LastDate + 1
    <2>1. k <= today
      BY <1>0, <1>9
    <2> QED BY <1>0, <1>7, <1>8, <2>1
  <1>13. First(n)
    BY <1>7, <1>11 DEF Ahead
  <1>14. N \in 1 .. LastDate + 1 /\ First(N)
    <2> HIDE DEF First
    <2> QED BY <1>12, <1>13
  <1>15. N = n
    <2> HIDE DEF N
    <2>1. N \in Int /\ 1 <= N
      BY <1>0, <1>14
    <2>2. CASE N < n
      <3>1. N \in 1 .. n - 1
        BY <1>7, <2>1, <2>2
      <3>2. D[N] \in Int /\ D[N] <= today
        BY <1>7, <3>1 DEF Ahead
      <3> QED BY <1>0, <1>14, <3>2
    <2>3. CASE n < N
      <3>1. n \in 1 .. N - 1
        BY <1>7, <2>1, <2>3
      <3>2. D[n] <= today
        BY <1>14, <3>1
      <3> QED BY <1>0, <1>10, <1>11, <3>2
    <2> QED BY <1>7, <2>1, <2>2, <2>3
  <1> QED BY <1>1, <1>9, <1>10, <1>11, <1>15

-----------------------------------------------------------------------------
(* The charges of a group, in the order of their dates.                      *)
LEMMA ChargesAre ==
    ASSUME ForecastOK
    PROVE  IsFiniteSet(charges) /\ \A c \in charges : c.amount \in Int /\ c.date \in Covered /\ c.date \in Int
  <1>1. IsFiniteSet(charges) /\ \A c \in charges : c.amount \in Int /\ c.date \in Covered
    BY ForecastAssumption DEF ForecastOK, Covered, MonthCount
  <1>2. \A d \in Covered : d \in Int
    BY DEF Covered
  <1> QED BY <1>1, <1>2

LEMMA GroupIs ==
    ASSUME ForecastOK, NEW k
    PROVE  /\ IsFiniteSet(Charged(k)) /\ Len(Group(k)) = Cardinality(Charged(k))
           /\ Len(Group(k)) \in Nat /\ DOMAIN Group(k) = 1 .. Len(Group(k))
           /\ \A i \in 1 .. Len(Group(k)) : Group(k)[i] \in Charged(k)
           /\ \A i, j \in 1 .. Len(Group(k)) : i < j => Group(k)[i].date <= Group(k)[j].date
  <1> DEFINE S == Charged(k)
             R == {p \in S \X S : p[1].date <= p[2].date}
             n == Cardinality(S)
             Fits(s) == IsInjective(s) /\ \A i, j \in DOMAIN s : i < j => s[i].date <= s[j].date
  <1>1. IsFiniteSet(S) /\ (\A c \in S : c.date \in Int) /\ n \in Nat
    <2>1. S \in SUBSET charges
      BY DEF Charged
    <2> QED BY <2>1, ChargesAre, FS_Subset, FS_CardinalityType
  <1>2. Group(k) = CHOOSE s \in [1 .. n -> S] : Fits(s)
    BY DEF Group, Sorted
  <1> HIDE DEF S, n
  <1>3. \A a, b \in S : <<a, b>> \in R <=> a.date <= b.date
    OBVIOUS
  <1> HIDE DEF R
  <1>4. Orders(R, S)
    BY <1>1, <1>3 DEF Orders
  <1>5. PICK s : InOrder(s, S, R)
    BY <1>1, <1>4, OrderExists
  <1>6. s \in [1 .. n -> S] /\ Fits(s)
    <2>1. s \in [1 .. n -> S] /\ IsInjective(s) /\ \A i, j \in DOMAIN s : i < j => <<s[i], s[j]>> \in R
      BY <1>5 DEF InOrder, n
    <2> QED BY <1>3, <2>1
  <1>7. Group(k) \in [1 .. n -> S] /\ Fits(Group(k))
    <2> HIDE DEF Fits
    <2> QED BY <1>2, <1>6
  <1>8. Len(Group(k)) = n /\ DOMAIN Group(k) = 1 .. n
    BY <1>1, <1>7, LengthIs
  <1> QED BY <1>1, <1>7, <1>8 DEF n, S

\* A group has a last charge, on a day of the calendar.
LEMMA LatestIs ==
    ASSUME ForecastOK, NEW k \in GroupKeys
    PROVE  Latest(k) \in Covered /\ 0 < Len(Group(k))
  <1>1. PICK c \in charges : c.amount > 0 /\ <<c.merchant, c.account>> = k
    BY DEF GroupKeys
  <1>2. c \in Charged(k)
    BY <1>1 DEF Charged
  <1>3. Len(Group(k)) \in Nat /\ Len(Group(k)) # 0
    BY <1>2, GroupIs, FS_EmptySet
  <1>4. Len(Group(k)) \in 1 .. Len(Group(k))
    BY <1>3
  <1>5. Group(k)[Len(Group(k))] \in charges
    BY <1>4, GroupIs DEF Charged
  <1> QED BY <1>3, <1>5, ChargesAre DEF Latest

-----------------------------------------------------------------------------
(* Medians.                                                                  *)
Numbers(values) == IsFiniteSet(DOMAIN values) /\ \A i \in DOMAIN values : values[i] \in Int

\* A median is that of two values, or twice one.
LEMMA MedianIs ==
    ASSUME NEW values, Numbers(values), DOMAIN values # {}
    PROVE  \E i, j \in DOMAIN values : median2(values) = values[i] + values[j]
  <1> DEFINE S == DOMAIN values
             R == {p \in S \X S : values[p[1]] <= values[p[2]]}
             n == Cardinality(S)
             Fits(s) == IsInjective(s) /\ \A i, j \in DOMAIN s : i < j => values[s[i]] <= values[s[j]]
             v == CHOOSE s \in [1 .. n -> S] : Fits(s)
             middle == Len(v) \div 2
  <1>1. IsFiniteSet(S) /\ (\A i \in S : values[i] \in Int) /\ n \in Nat /\ n # 0
    BY FS_CardinalityType, FS_EmptySet DEF Numbers
  <1>2. median2(values) = IF Len(v) = 0 THEN 0
                          ELSE IF Len(v) % 2 = 1 THEN 2 * values[v[middle + 1]]
                          ELSE values[v[middle]] + values[v[middle + 1]]
    BY DEF median2, Sorted
  <1> HIDE DEF S, n
  <1>3. \A a, b \in S : <<a, b>> \in R <=> values[a] <= values[b]
    OBVIOUS
  <1> HIDE DEF R
  <1>4. Orders(R, S)
    BY <1>1, <1>3 DEF Orders
  <1>5. PICK s : InOrder(s, S, R)
    BY <1>1, <1>4, OrderExists
  <1>6. s \in [1 .. n -> S] /\ Fits(s)
    <2>1. s \in [1 .. n -> S] /\ IsInjective(s) /\ \A i, j \in DOMAIN s : i < j => <<s[i], s[j]>> \in R
      BY <1>5 DEF InOrder, n
    <2> QED BY <1>3, <2>1
  <1>7. v \in [1 .. n -> S]
    <2> HIDE DEF Fits
    <2> QED BY <1>6
  <1> HIDE DEF v
  <1>8. Len(v) = n
    BY <1>1, <1>7, LengthIs
  <1>9. middle \in Nat /\ (n % 2 = 1 => middle + 1 \in 1 .. n)
        /\ (n % 2 # 1 => middle \in 1 .. n /\ middle + 1 \in 1 .. n)
    BY <1>1, <1>8
  <1> HIDE DEF middle
  <1>10. CASE n % 2 = 1
    <2>1. v[middle + 1] \in S /\ median2(values) = 2 * values[v[middle + 1]]
      BY <1>1, <1>2, <1>7, <1>8, <1>9, <1>10
    <2>2. median2(values) = values[v[middle + 1]] + values[v[middle + 1]]
      BY <1>1, <2>1
    <2> QED BY <2>1, <2>2 DEF S
  <1>11. CASE n % 2 # 1
    <2>1. v[middle] \in S /\ v[middle + 1] \in S
          /\ median2(values) = values[v[middle]] + values[v[middle + 1]]
      BY <1>1, <1>2, <1>7, <1>8, <1>9, <1>11
    <2> QED BY <2>1 DEF S
  <1> QED BY <1>10, <1>11

LEMMA MedianOfSame ==
    ASSUME NEW values, NEW x \in Int, IsFiniteSet(DOMAIN values), DOMAIN values # {},
           \A i \in DOMAIN values : values[i] = x
    PROVE  median2(values) = 2 * x
  <1>1. PICK i \in DOMAIN values, j \in DOMAIN values : median2(values) = values[i] + values[j]
    BY MedianIs DEF Numbers
  <1> QED BY <1>1

\* The amounts of the last charges, four at most.
Recent(k) == [i \in Larger(1, Len(Group(k)) - 3) .. Len(Group(k)) |-> Group(k)[i].amount]
LEMMA RecentIs ==
    ASSUME ForecastOK, NEW k \in GroupKeys
    PROVE  /\ Numbers(Recent(k)) /\ DOMAIN Recent(k) # {}
           /\ \A i \in DOMAIN Recent(k) : i \in 1 .. Len(Group(k)) /\ Recent(k)[i] = Group(k)[i].amount
           /\ median2(Recent(k)) \in Int
  <1> DEFINE n == Len(Group(k))
             first == Larger(1, n - 3)
  <1>1. n \in Nat /\ 0 < n
    BY GroupIs, LatestIs
  <1> HIDE DEF n
  <1>2. first \in Int /\ 1 <= first /\ first <= n
    BY <1>1 DEF Larger
  <1>3. Recent(k) = [i \in first .. n |-> Group(k)[i].amount]
    BY DEF Recent, n
  <1> HIDE DEF first
  <1>4. IsFiniteSet(first .. n) /\ n \in first .. n
    BY <1>1, <1>2, FS_Interval
  <1>5. \A i \in first .. n : i \in 1 .. n /\ Group(k)[i].amount \in Int
    <2>1. \A i \in first .. n : i \in 1 .. n
      BY <1>1, <1>2
    <2>2. \A i \in 1 .. n : Group(k)[i] \in charges
      BY GroupIs DEF Charged, n
    <2> QED BY <2>1, <2>2, ChargesAre
  <1>6. Numbers(Recent(k)) /\ DOMAIN Recent(k) # {}
        /\ \A i \in DOMAIN Recent(k) : i \in 1 .. n /\ Recent(k)[i] = Group(k)[i].amount
    BY <1>3, <1>4, <1>5 DEF Numbers
  <1>7. PICK i \in DOMAIN Recent(k), j \in DOMAIN Recent(k) : median2(Recent(k)) = Recent(k)[i] + Recent(k)[j]
    BY <1>6, MedianIs
  <1>8. Recent(k)[i] \in Int /\ Recent(k)[j] \in Int
    BY <1>6 DEF Numbers
  <1> QED BY <1>6, <1>7, <1>8 DEF n

-----------------------------------------------------------------------------
(* What is foretold.                                                         *)
Confidence(k, c) ==
    IF /\ Len(Group(k)) >= 3 /\ Steady(Recent(k))
       /\ Stable(getIntervals(Group(k)), c) >= Larger(1, Cardinality(DOMAIN getIntervals(Group(k))) - 1)
    THEN "high" ELSE "medium"
Foretells(k) ==
    {d \in matchCadence(median2(getIntervals(Group(k)))) :
        /\ Len(Group(k)) >= 2 /\ DOMAIN getIntervals(Group(k)) # {} /\ Stable(getIntervals(Group(k)), d) > 0
        /\ median2(Recent(k)) >= 2 * Unit}
Prediction(k, c) ==
    [key |-> k, amount2 |-> median2(Recent(k)), nextDate |-> Upcoming(c, Latest(k)),
     cadence |-> c.cadence, confidence |-> Confidence(k, c)]

LEMMA PredictionsAre == \A k : Predictions(k) = {Prediction(k, c) : c \in Foretells(k)}
  BY DEF Predictions, Prediction, Foretells, Confidence, Recent

LEMMA ForetellsCadences == \A k : Foretells(k) \subseteq Cadences
  BY DEF Foretells, matchCadence

LEMMA DueIs ==
    ASSUME ForecastOK
    PROVE  /\ IsFiniteSet(Due)
           /\ \A p \in Due : /\ p.nextDate \in Int /\ p.amount2 \in Int
                             /\ p.nextDate <= today + horizonDays
                             /\ \E k \in GroupKeys, c \in Cadences : p = Prediction(k, c)
  <1> DEFINE all == UNION {Predictions(k) : k \in GroupKeys}
  <1>1. IsFiniteSet(GroupKeys)
    <2> DEFINE f == [c \in charges |-> <<c.merchant, c.account>>]
    <2>1. \A k \in GroupKeys : \E c \in charges : f[c] = k
      BY DEF GroupKeys
    <2> HIDE DEF f
    <2> QED BY <2>1, ChargesAre, ImageFinite
  <1>2. ASSUME NEW k PROVE IsFiniteSet(Predictions(k))
    <2> DEFINE f == [c \in Cadences |-> Prediction(k, c)]
    <2>1. \A p \in Predictions(k) : \E c \in Cadences : f[c] = p
      BY PredictionsAre, ForetellsCadences
    <2> HIDE DEF f
    <2> QED BY <2>1, CadencesAssumption, ImageFinite
  <1>3. IsFiniteSet({Predictions(k) : k \in GroupKeys})
    <2> DEFINE f == [k \in GroupKeys |-> Predictions(k)]
               M == {Predictions(k) : k \in GroupKeys}
    <2>1. \A p \in M : \E k \in GroupKeys : f[k] = p
      OBVIOUS
    <2> HIDE DEF f, M
    <2>2. IsFiniteSet(M)
      BY <1>1, <2>1, ImageFinite
    <2> QED BY <2>2 DEF M
  <1>4. IsFiniteSet(all)
    <2> DEFINE M == {Predictions(k) : k \in GroupKeys}
    <2>1. \A T \in M : IsFiniteSet(T)
      BY <1>2
    <2> HIDE DEF M
    <2>2. IsFiniteSet(UNION M)
      BY <1>3, <2>1, FS_UNION DEF M
    <2> QED BY <2>2 DEF M
  <1>5. Due \in SUBSET all /\ \A p \in Due : p.nextDate <= today + horizonDays
    BY DEF Due
  <1>6. ASSUME NEW p \in Due
        PROVE  /\ p.nextDate \in Int /\ p.amount2 \in Int
               /\ \E k \in GroupKeys, c \in Cadences : p = Prediction(k, c)
    <2>1. PICK k \in GroupKeys : p \in Predictions(k)
      BY <1>5
    <2>2. PICK c \in Cadences : p = Prediction(k, c)
      BY <2>1, PredictionsAre, ForetellsCadences
    <2>3. p.nextDate = Upcoming(c, Latest(k)) /\ p.amount2 = median2(Recent(k))
      BY <2>2 DEF Prediction
    <2> QED BY <2>2, <2>3, UpcomingIs, LatestIs, RecentIs
  <1> HIDE DEF all
  <1> QED BY <1>4, <1>5, <1>6, FS_Subset

\* The rows are the first of what is due, in order.
Soonest(q) ==
    /\ q \in [1 .. Cardinality(Due) -> Due] /\ IsInjective(q)
    /\ \A i, j \in DOMAIN q : i < j => \/ q[i].nextDate < q[j].nextDate
                                       \/ q[i].nextDate = q[j].nextDate /\ q[i].amount2 >= q[j].amount2
LEMMA RowsAre ==
    ASSUME ForecastOK
    PROVE  \E q : /\ Soonest(q) /\ Cardinality(Due) \in Nat
                  /\ DOMAIN predictUpcomingCharges = 1 .. Min({MaxShown, Cardinality(Due)})
                  /\ Len(predictUpcomingCharges) = Min({MaxShown, Cardinality(Due)})
                  /\ \A i \in DOMAIN predictUpcomingCharges : predictUpcomingCharges[i] = q[i]
  <1> DEFINE n == Cardinality(Due)
             upTo(a, b) == \/ a.nextDate < b.nextDate
                           \/ a.nextDate = b.nextDate /\ a.amount2 >= b.amount2
             R == {p \in Due \X Due : upTo(p[1], p[2])}
             Fits(s) == IsInjective(s) /\ \A i, j \in DOMAIN s : i < j => upTo(s[i], s[j])
             q == CHOOSE s \in [1 .. n -> Due] : Fits(s)
  <1>1. IsFiniteSet(Due) /\ (\A p \in Due : p.nextDate \in Int /\ p.amount2 \in Int) /\ n \in Nat
    BY DueIs, FS_CardinalityType
  <1>2. predictUpcomingCharges = SubSeq(q, 1, Min({MaxShown, Len(q)}))
    BY DEF predictUpcomingCharges, Sorted
  <1>3. \A a, b \in Due : <<a, b>> \in R <=> upTo(a, b)
    OBVIOUS
  <1>4. /\ \A a, b \in Due : upTo(a, b) \/ upTo(b, a)
        /\ \A a, b, c \in Due : upTo(a, b) /\ upTo(b, c) => upTo(a, c)
    BY <1>1
  <1> HIDE DEF R, upTo, n
  <1>5. Orders(R, Due)
    BY <1>3, <1>4 DEF Orders
  <1>6. PICK s : InOrder(s, Due, R)
    BY <1>1, <1>5, OrderExists
  <1>7. s \in [1 .. n -> Due] /\ Fits(s)
    <2>1. s \in [1 .. n -> Due] /\ IsInjective(s) /\ \A i, j \in DOMAIN s : i < j => <<s[i], s[j]>> \in R
      BY <1>6 DEF InOrder, n
    <2> QED BY <1>3, <2>1
  <1>8. q \in [1 .. n -> Due] /\ Fits(q)
    <2> HIDE DEF Fits
    <2> QED BY <1>7
  <1> HIDE DEF q
  <1>9. q \in Seq(Due) /\ Len(q) = n /\ DOMAIN q = 1 .. n
    BY <1>1, <1>8, LengthIs
  <1> DEFINE m == Min({MaxShown, n})
  <1>10. m \in Nat /\ m <= n
    <2>1. MaxShown \in Int /\ n \in Int /\ 0 <= MaxShown /\ 0 <= n
      BY <1>1, ForecastAssumption
    <2> QED BY <2>1, MinIs
  <1>11. predictUpcomingCharges = SubSeq(q, 1, m)
    BY <1>2, <1>9
  <1> HIDE DEF m
  <1>12. /\ DOMAIN SubSeq(q, 1, m) = 1 .. m /\ Len(SubSeq(q, 1, m)) = m
         /\ \A i \in 1 .. m : SubSeq(q, 1, m)[i] = q[i]
    BY <1>1, <1>9, <1>10
  <1>13. Soonest(q)
    BY <1>8 DEF Soonest, n, upTo
  <1> QED BY <1>1, <1>11, <1>12, <1>13 DEF m, n

\* A sum of equal weights.
LEMMA SumOfSame ==
    ASSUME NEW T, IsFiniteSet(T), NEW a \in Int, NEW w, \A x \in T : w[x] = a
    PROVE  Sum(w, T) = Cardinality(T) * a
  <1> DEFINE C == {s \in SUBSET T : Sum(w, s) # Cardinality(s) * a}
  <1> SUFFICES ASSUME C # {} PROVE FALSE
    OBVIOUS
  <1>1. C \in SUBSET SUBSET T /\ \A s \in SUBSET T : s \in C <=> Sum(w, s) # Cardinality(s) * a
    OBVIOUS
  <1> HIDE DEF C
  <1>2. PICK G \in C : \A H \in C : H \subseteq G => H = G
    BY <1>1, LeastSubset
  <1>3. G \in SUBSET T /\ Sum(w, G) # Cardinality(G) * a /\ Weighs(w, G) /\ IsFiniteSet(G)
    BY <1>1, FS_Subset DEF Weighs
  <1>4. CASE G = {}
    BY <1>3, <1>4, SumEmpty, FS_EmptySet
  <1>5. CASE G # {}
    <2>1. PICK x : x \in G
      BY <1>5
    <2>2. G \ {x} \in SUBSET T /\ G \ {x} \subseteq G /\ G \ {x} # G
      BY <1>3, <2>1
    <2>3. Sum(w, G \ {x}) = Cardinality(G \ {x}) * a
      BY <1>1, <1>2, <2>2
    <2>4. Sum(w, G) = a + Sum(w, G \ {x})
      BY <1>3, <2>1, SumWithout
    <2>5. PICK n \in Nat : n = Cardinality(G \ {x}) /\ Cardinality(G) = n + 1
      <3>1. Cardinality(G) \in Nat /\ Cardinality(G \ {x}) \in Nat /\ Cardinality(G \ {x}) = Cardinality(G) - 1
        BY <1>3, <2>1, FS_RemoveElement, FS_CardinalityType
      <3> QED BY <3>1
    <2>6. (n + 1) * a = a + n * a
      BY <2>5
    <2> QED BY <1>3, <2>3, <2>4, <2>5, <2>6
  <1> QED BY <1>4, <1>5

LEMMA RowsAhead == ForecastOK => RowsAreAhead
  <1> SUFFICES ASSUME ForecastOK PROVE RowsAreAhead
    OBVIOUS
  <1> DEFINE rows == predictUpcomingCharges
             Late(p) == \E c \in Cadences : /\ c = CHOOSE o \in Cadences : o.cadence = p.cadence
                                            /\ \E d \in Latest(p.key) .. Larger(today, Latest(p.key)) :
                                                  NextAfter(c, d) = p.nextDate
  <1>1. PICK q : /\ Soonest(q) /\ Cardinality(Due) \in Nat
                 /\ DOMAIN rows = 1 .. Min({MaxShown, Cardinality(Due)})
                 /\ \A i \in DOMAIN rows : rows[i] = q[i]
    BY RowsAre
  <1>2. DOMAIN rows \subseteq 1 .. Cardinality(Due) /\ DOMAIN rows \subseteq Nat
        /\ \A i \in DOMAIN rows : i > 1 => i - 1 \in DOMAIN rows /\ i - 1 < i
    <2> DEFINE n == Cardinality(Due)
               m == Min({MaxShown, n})
    <2>1. MaxShown \in Int /\ n \in Int /\ 0 <= MaxShown /\ 0 <= n
      BY <1>1, ForecastAssumption
    <2> HIDE DEF n
    <2>2. m \in Nat /\ m <= n
      BY <2>1, MinIs
    <2> HIDE DEF m
    <2>3. DOMAIN rows = 1 .. m
      BY <1>1 DEF m, n
    <2> QED BY <2>1, <2>2, <2>3 DEF n
  <1> HIDE DEF rows
  <1>3. \A i \in DOMAIN rows : rows[i] \in Due
    BY <1>1, <1>2 DEF Soonest
  <1>4. ASSUME NEW p \in Due
        PROVE  today < p.nextDate /\ p.nextDate <= today + horizonDays /\ Late(p)
    <2>1. PICK k \in GroupKeys : \E c \in Cadences : p = Prediction(k, c)
      BY DueIs
    <2>2. PICK c \in Cadences : p = Prediction(k, c)
      BY <2>1
    <2>3. p.key = k /\ p.cadence = c.cadence /\ p.nextDate = Upcoming(c, Latest(k))
      BY <2>2 DEF Prediction
    <2>4. c = CHOOSE o \in Cadences : o.cadence = p.cadence
      BY <2>3, CadencesAssumption
    <2>5. today < p.nextDate /\ \E d \in Latest(p.key) .. Larger(today, Latest(p.key)) : NextAfter(c, d) = p.nextDate
      BY <2>3, UpcomingIs, LatestIs
    <2> QED BY <2>4, <2>5, DueIs
  <1>5. ASSUME NEW i \in DOMAIN rows, i > 1
        PROVE  rows[i - 1].nextDate <= rows[i].nextDate
    <2>1. i - 1 \in DOMAIN rows /\ i - 1 < i /\ i - 1 \in DOMAIN q /\ i \in DOMAIN q
      BY <1>1, <1>2, <1>5 DEF Soonest
    <2>2. q[i - 1].nextDate < q[i].nextDate \/ q[i - 1].nextDate = q[i].nextDate
      BY <1>1, <2>1 DEF Soonest
    <2>3. rows[i - 1] = q[i - 1] /\ rows[i] = q[i]
          /\ rows[i - 1].nextDate \in Int /\ rows[i].nextDate \in Int
      BY <1>1, <1>3, <2>1, DueIs
    <2> QED BY <2>2, <2>3
  <1>6. ASSUME NEW i \in DOMAIN rows
        PROVE  LET c == CHOOSE c \in Cadences : c.cadence = rows[i].cadence
               IN  \E d \in Latest(rows[i].key) .. Larger(today, Latest(rows[i].key)) :
                      NextAfter(c, d) = rows[i].nextDate
    BY <1>3, <1>4
  <1> QED BY <1>3, <1>4, <1>5, <1>6 DEF RowsAreAhead, rows

\* Of a regular group every interval is the cadence's own, and every amount the same.
LEMMA RegularIs ==
    ASSUME ForecastOK, NEW k \in GroupKeys, NEW c \in Cadences, Regular(k, c)
    PROVE  /\ c \in Foretells(k) /\ Confidence(k, c) = "high"
           /\ median2(Recent(k)) = 2 * Group(k)[1].amount
  <1> DEFINE s == Group(k)
             n == Len(s)
             a == s[1].amount
             I == getIntervals(s)
  <1>1. /\ n >= 3 /\ a >= Unit
        /\ \A i \in 2 .. n : s[i].date - s[i - 1].date = c.days /\ s[i].amount = a
    BY DEF Regular
  <1>2. n \in Nat /\ \A i \in 1 .. n : s[i] \in charges /\ s[i].amount > 0
    BY GroupIs DEF Charged
  <1>3. 1 \in 1 .. n /\ a \in Int /\ 0 < a
    <2>1. 1 \in 1 .. n
      BY <1>1, <1>2
    <2> QED BY <1>2, <2>1, ChargesAre
  <1>4. \A i \in 1 .. n : s[i].amount = a /\ s[i].date \in Int
    <2>1. \A i \in 1 .. n : i = 1 \/ i \in 2 .. n
      BY <1>2
    <2>2. \A i \in 1 .. n : s[i].amount = a
      BY <1>1, <2>1
    <2> QED BY <1>2, <2>2, ChargesAre
  <1>5. c.days \in Nat \ {0} /\ Unit \in Nat \ {0}
    BY CadencesAssumption, ForecastAssumption
  <1>6. I = [i \in {j \in 2 .. n : s[j].date > s[j - 1].date} |-> s[i].date - s[i - 1].date]
    BY DEF getIntervals
  <1> HIDE DEF I, a, s, n
  <1>7. DOMAIN I = 2 .. n /\ \A i \in 2 .. n : I[i] = c.days
    <2>1. ASSUME NEW i \in 2 .. n PROVE s[i].date > s[i - 1].date
      <3>1. i \in 1 .. n /\ i - 1 \in 1 .. n
        BY <1>2
      <3> QED BY <1>1, <1>4, <1>5, <3>1
    <2> QED BY <1>1, <1>6, <2>1
  <1>8. IsFiniteSet(2 .. n) /\ Cardinality(2 .. n) = n - 1 /\ 2 \in 2 .. n
    <2>1. 2 \in Int /\ n \in Int /\ n >= 3
      BY <1>1, <1>2
    <2>2. Cardinality(2 .. n) = n - 2 + 1
      BY <2>1, FS_Interval
    <2> QED BY <2>1, <2>2, FS_Interval
  <1>8a. IsFiniteSet(DOMAIN I) /\ DOMAIN I # {}
    <2>1. \E i \in 2 .. n : TRUE
      BY <1>8, Zenon
    <2>2. \A D : D = 2 .. n => IsFiniteSet(D) /\ D # {}
      BY <1>8, <2>1, Zenon
    <2> QED BY <1>7, <2>2, Zenon
  <1>9. median2(I) = 2 * c.days
    <2>1. c.days \in Int /\ \A i \in DOMAIN I : I[i] = c.days
      BY <1>5, <1>7
    <2> QED BY <1>8a, <2>1, MedianOfSame
  <1>10. Stable(I, c) = n - 1
    <2>1. Distance(c.days, c.days) = 0
      BY <1>5 DEF Distance
    <2>2. 0 <= Larger(200, 18 * c.days)
      BY <1>5 DEF Larger
    <2>3. {i \in DOMAIN I : 100 * Distance(I[i], c.days) <= Larger(200, 18 * c.days)} = 2 .. n
      BY <1>7, <2>1, <2>2
    <2> QED BY <1>8, <2>3 DEF Stable
  <1>11. c \in matchCadence(median2(I))
    <2>1. Distance(2 * c.days, 2 * c.days) = 0 /\ 0 <= Larger(400, 24 * c.days)
      BY <1>5 DEF Distance, Larger
    <2> DEFINE near == {o \in Cadences : 100 * Distance(2 * c.days, 2 * o.days) <= Larger(400, 24 * o.days)}
    <2>2. c \in near
      BY <2>1
    <2>3. ASSUME NEW o \in near
          PROVE  \/ 0 < Distance(2 * c.days, 2 * o.days)
                 \/ 0 = Distance(2 * c.days, 2 * o.days) /\ c.days <= o.days
      <3>1. o.days \in Nat
        BY CadencesAssumption
      <3> QED BY <1>5, <3>1 DEF Distance
    <2> HIDE DEF near
    <2>4. matchCadence(2 * c.days) =
             {e \in near : \A o \in near : \/ Distance(2 * c.days, 2 * e.days) < Distance(2 * c.days, 2 * o.days)
                                           \/ /\ Distance(2 * c.days, 2 * e.days) = Distance(2 * c.days, 2 * o.days)
                                              /\ e.days <= o.days}
      BY DEF matchCadence, near
    <2> QED BY <1>9, <2>1, <2>2, <2>3, <2>4
  <1>12. /\ Numbers(Recent(k)) /\ DOMAIN Recent(k) # {}
         /\ \A i \in DOMAIN Recent(k) : Recent(k)[i] = a
    BY <1>4, RecentIs DEF n, s
  <1>13. median2(Recent(k)) = 2 * a
    BY <1>3, <1>12, MedianOfSame DEF Numbers
  <1>14. Steady(Recent(k))
    <2> DEFINE w == Recent(k)
               T == DOMAIN w
               z == Cardinality(T)
    <2>1. IsFiniteSet(T) /\ z \in Nat
      BY <1>12, FS_CardinalityType DEF Numbers
    <2>2. Sum(w, T) = z * a
      BY <1>3, <1>12, <2>1, SumOfSame
    <2>3. MapThenSumSet(LAMBDA i : w[i], T) = z * a
      BY <2>1, <2>2, MapSumIs
    <2>4. z * a \in Int /\ 0 <= z * a
      BY <1>3, <2>1
    <2>5. 5 * Distance(z * a, z * a) <= z * a
      <3>1. Distance(z * a, z * a) = z * a - z * a
        BY DEF Distance
      <3>2. \A e \in Int : 0 <= e => 5 * (e - e) <= e
        OBVIOUS
      <3> QED BY <2>4, <3>1, <3>2
    <2> QED BY <1>12, <2>3, <2>5 DEF Steady
  <1>15. median2(Recent(k)) >= 2 * Unit
    BY <1>1, <1>3, <1>5, <1>13
  <1>16. Stable(I, c) >= Larger(1, Cardinality(DOMAIN I) - 1) /\ Stable(I, c) > 0
    BY <1>1, <1>2, <1>7, <1>8, <1>10 DEF Larger
  <1>17. DOMAIN I # {} /\ n >= 2 /\ n >= 3
    BY <1>1, <1>2, <1>8a
  <1> QED BY <1>11, <1>13, <1>14, <1>15, <1>16, <1>17 DEF Foretells, Confidence, I, a, n, s

LEMMA RegularRows == ForecastOK => RegularForetold
  <1> SUFFICES ASSUME ForecastOK PROVE RegularForetold
    OBVIOUS
  <1> DEFINE rows == predictUpcomingCharges
             n == Cardinality(Due)
             m == Min({MaxShown, n})
             Row(k, c) == [key |-> k, amount2 |-> 2 * Group(k)[1].amount, cadence |-> c.cadence,
                           nextDate |-> Upcoming(c, Latest(k)), confidence |-> "high"]
  <1>1. PICK q : /\ Soonest(q) /\ n \in Nat
                 /\ DOMAIN rows = 1 .. m /\ Len(rows) = m
                 /\ \A i \in DOMAIN rows : rows[i] = q[i]
    BY RowsAre
  <1>2. m \in Nat /\ m <= n /\ (m = n \/ m = MaxShown)
    <2>1. MaxShown \in Int /\ n \in Int /\ 0 <= MaxShown /\ 0 <= n
      BY <1>1, ForecastAssumption
    <2> HIDE DEF n
    <2> QED BY <2>1, MinIs
  <1> HIDE DEF rows, m
  <1>3. /\ q \in [1 .. n -> Due] /\ IsInjective(q) /\ IsFiniteSet(Due)
        /\ \A i, j \in 1 .. n : i < j => q[i].nextDate < q[j].nextDate \/ q[i].nextDate = q[j].nextDate
    <2>1. Soonest(q)
      BY <1>1
    <2>2. DOMAIN q = 1 .. n
      BY <2>1 DEF Soonest
    <2> QED BY <2>1, <2>2, DueIs DEF Soonest
  <1>4. ASSUME NEW k \in GroupKeys, NEW c \in Cadences, Regular(k, c),
               Row(k, c).nextDate <= today + horizonDays
        PROVE  \/ \E i \in DOMAIN rows : rows[i] = Row(k, c)
               \/ Len(rows) = MaxShown /\ \A i \in DOMAIN rows : rows[i].nextDate <= Row(k, c).nextDate
    <2>1. Row(k, c) = Prediction(k, c) /\ c \in Foretells(k)
      BY <1>4, RegularIs DEF Prediction
    <2> HIDE DEF Row
    <2>2. Row(k, c) \in Due
      <3>1. Row(k, c) \in Predictions(k)
        BY <2>1, PredictionsAre
      <3> QED BY <1>4, <3>1 DEF Due
    <2>3. PICK j \in 1 .. n : q[j] = Row(k, c)
      BY <1>3, <2>2, OrderHasAll
    <2>4. CASE j <= m
      <3>1. j \in DOMAIN rows
        BY <1>1, <1>2, <2>3, <2>4
      <3> QED BY <1>1, <2>3, <3>1
    <2>5. CASE ~(j <= m)
      <3>1. Len(rows) = MaxShown
        BY <1>1, <1>2, <2>3, <2>5
      <3>2. ASSUME NEW i \in DOMAIN rows PROVE rows[i].nextDate <= Row(k, c).nextDate
        <4>1. i \in 1 .. n /\ i < j /\ rows[i] = q[i]
          BY <1>1, <1>2, <2>3, <2>5
        <4>2. q[i] \in Due /\ q[j] \in Due
          BY <1>3, <4>1
        <4>3. q[i].nextDate \in Int /\ q[j].nextDate \in Int
          BY <4>2, DueIs
        <4>4. q[i].nextDate < q[j].nextDate \/ q[i].nextDate = q[j].nextDate
          BY <1>3, <4>1
        <4> QED BY <2>3, <4>1, <4>3, <4>4
      <3> QED BY <3>1, <3>2
    <2> QED BY <2>4, <2>5, <1>2
  <1> QED BY <1>4 DEF RegularForetold, rows

(* Whatever the charges and the calendar are, the forecast says what it      *)
(* should, and only that (predictUpcomingCharges).                           *)
THEOREM AlwaysForetold == ForecastSpec => []Foretold
  <1>1. ForecastOK => Foretold
    BY RowsAhead, RegularRows DEF Foretold
  <1> QED BY <1>1, ForecastOKAlways, PTL
=============================================================================
