--------------------------- MODULE Metrics_proofs ---------------------------
(***************************************************************************)
(* Sums over finite sets of cases: the order in which a sum takes its       *)
(* elements does not matter, and sums of parts add up to the sum of wholes. *)
(***************************************************************************)
EXTENDS Metrics, FiniteSetTheorems, TLAPS

\* Induction over the subsets of a finite set, for the members of a set F.
LEMMA SetInduction ==
  ASSUME NEW S, IsFiniteSet(S), NEW F,
         \A T \in SUBSET S : (\A U \in SUBSET T : U # T => U \in F) => T \in F
  PROVE  \A T \in SUBSET S : T \in F
<1> DEFINE bad == (SUBSET S) \ F
<1> SUFFICES ASSUME bad # {} PROVE FALSE OBVIOUS
<1>1. IsWellFoundedOn(StrictSubsetOrdering(S), SUBSET S)
  <2>1. FiniteSubsetsOf(S) = SUBSET S BY FS_FiniteSubsetsOfFinite
  <2>2. IsWellFoundedOn(StrictSubsetOrdering(S), FiniteSubsetsOf(S))
    BY FS_StrictSubsetOrderingWellFounded
  <2> QED BY <2>1, <2>2, Zenon
<1>2. PICK T \in bad : \A U \in bad : ~(<<U, T>> \in StrictSubsetOrdering(S))
  <2>1. bad \subseteq SUBSET S OBVIOUS
  <2> HIDE DEF bad
  <2> QED BY <1>1, <2>1, WFMin
<1>3. ASSUME NEW U \in SUBSET T, U # T PROVE U \in F
  BY <1>2, <1>3 DEF StrictSubsetOrdering
<1> QED BY <1>2, <1>3

\* The element MapThenSumSet takes first, and the equation of its sums it[s]
\* of the weights w over the subsets s of S.
Pick(s) == CHOOSE x \in s : TRUE

Sums(it, w, S) ==
  it = [s \in SUBSET S |-> IF s = {} THEN 0 ELSE w[Pick(s)] + it[s \ {Pick(s)}]]

SumOf(w, S) == (CHOOSE it : Sums(it, w, S))[S]

LEMMA PickShape ==
  ASSUME NEW s, s # {}
  PROVE  Pick(s) \in s /\ s \ {Pick(s)} \in SUBSET s /\ s \ {Pick(s)} # s
BY DEF Pick

LEMMA SumsUnfold ==
  ASSUME NEW it, NEW w, NEW S, Sums(it, w, S), NEW s \in SUBSET S
  PROVE  it[s] = IF s = {} THEN 0 ELSE w[Pick(s)] + it[s \ {Pick(s)}]
BY DEF Sums

\* Sums over the subsets of two sets agree on what the sets have in common.
LEMMA SumsUnique ==
  ASSUME NEW S, IsFiniteSet(S), NEW w, NEW T \in SUBSET S, NEW U \in SUBSET S,
         NEW a, NEW b, Sums(a, w, T), Sums(b, w, U), NEW V \in SUBSET (T \cap U)
  PROVE  a[V] = b[V]
<1> DEFINE F == {X \in SUBSET S : X \subseteq T \cap U => a[X] = b[X]}
<1>1. ASSUME NEW X \in SUBSET S, \A Y \in SUBSET X : Y # X => Y \in F
      PROVE  X \in F
  <2> SUFFICES ASSUME X \subseteq T \cap U PROVE a[X] = b[X] OBVIOUS
  <2>1. CASE X = {} BY <2>1, SumsUnfold
  <2>2. CASE X # {}
    <3>1. X \ {Pick(X)} \in F BY <1>1, <2>2, PickShape
    <3>2. a[X \ {Pick(X)}] = b[X \ {Pick(X)}] BY <3>1
    <3>3. X \in SUBSET T /\ X \in SUBSET U OBVIOUS
    <3>4. a[X] = w[Pick(X)] + a[X \ {Pick(X)}] BY <2>2, <3>3, SumsUnfold
    <3>5. b[X] = w[Pick(X)] + b[X \ {Pick(X)}] BY <2>2, <3>3, SumsUnfold
    <3> QED BY <3>2, <3>4, <3>5
  <2> QED BY <2>1, <2>2
<1> HIDE DEF F
<1>2. \A X \in SUBSET S : X \in F BY <1>1, SetInduction
<1> QED BY <1>2 DEF F

LEMMA SumsExist ==
  ASSUME NEW S, IsFiniteSet(S), NEW w
  PROVE  \E it : Sums(it, w, S)
<1> DEFINE F == {T \in SUBSET S : \E it : Sums(it, w, T)}
<1>1. ASSUME NEW T \in SUBSET S, \A U \in SUBSET T : U # T => U \in F
      PROVE  T \in F
  <2> DEFINE part(U) == CHOOSE it : Sums(it, w, U)
             g == [U \in SUBSET T |-> part(U)[U]]
             it == [s \in SUBSET T |-> IF s = {} THEN 0 ELSE w[Pick(s)] + g[s \ {Pick(s)}]]
  <2>1. ASSUME NEW U \in SUBSET T, U # T PROVE Sums(part(U), w, U)
    BY <1>1, <2>1
  <2> HIDE DEF part
  <2>2. ASSUME NEW U \in SUBSET T, U # T PROVE it[U] = g[U]
    <3>1. g[U] = part(U)[U] OBVIOUS
    <3>2. CASE U = {}
      <4>1. part(U)[U] = 0 BY <2>1, <2>2, <3>2, SumsUnfold
      <4> QED BY <3>1, <3>2, <4>1
    <3>3. CASE U # {}
      <4> DEFINE V == U \ {Pick(U)}
      <4>1. V \in SUBSET U /\ V # T /\ V \in SUBSET T BY <3>3, PickShape
      <4>2. part(U)[U] = w[Pick(U)] + part(U)[V] BY <2>1, <2>2, <3>3, SumsUnfold
      <4>3. part(U)[V] = part(V)[V]
        <5>1. Sums(part(U), w, U) BY <2>1, <2>2
        <5>2. Sums(part(V), w, V) BY <2>1, <4>1
        <5>3. U \in SUBSET S /\ V \in SUBSET S /\ V \in SUBSET (U \cap V) BY <4>1
        <5> HIDE DEF V
        <5> QED BY <5>1, <5>2, <5>3, SumsUnique
      <4>4. g[V] = part(V)[V] BY <4>1
      <4>5. it[U] = w[Pick(U)] + g[V] BY <3>3
      <4> QED BY <3>1, <4>2, <4>3, <4>4, <4>5
    <3> QED BY <3>2, <3>3
  <2>3. \A s \in SUBSET T : s # {} => it[s \ {Pick(s)}] = g[s \ {Pick(s)}]
    <3> SUFFICES ASSUME NEW s \in SUBSET T, s # {}
                 PROVE  it[s \ {Pick(s)}] = g[s \ {Pick(s)}]
      OBVIOUS
    <3>1. s \ {Pick(s)} \in SUBSET T /\ s \ {Pick(s)} # T BY PickShape
    <3> HIDE DEF it, g
    <3> QED BY <2>2, <3>1
  <2>4. it = [s \in SUBSET T |-> IF s = {} THEN 0 ELSE w[Pick(s)] + it[s \ {Pick(s)}]]
    <3>1. PICK h : h = it OBVIOUS
    <3>2. \A s \in SUBSET T : s # {} => h[s \ {Pick(s)}] = g[s \ {Pick(s)}]
      BY <2>3, <3>1
    <3>3. h = [s \in SUBSET T |-> IF s = {} THEN 0 ELSE w[Pick(s)] + g[s \ {Pick(s)}]]
      BY <3>1
    <3> HIDE DEF it, g
    <3>4. h = [s \in SUBSET T |-> IF s = {} THEN 0 ELSE w[Pick(s)] + h[s \ {Pick(s)}]]
      BY <3>2, <3>3
    <3> QED BY <3>1, <3>4
  <2>5. Sums(it, w, T) BY <2>4 DEF Sums
  <2> QED BY <2>5
<1> HIDE DEF F
<1>2. \A T \in SUBSET S : T \in F BY <1>1, SetInduction
<1> QED BY <1>2 DEF F

LEMMA SumsType ==
  ASSUME NEW S, IsFiniteSet(S), NEW w \in [S -> Nat], NEW it, Sums(it, w, S)
  PROVE  \A T \in SUBSET S : it[T] \in Nat
<1> DEFINE F == {T \in SUBSET S : it[T] \in Nat}
<1>1. ASSUME NEW T \in SUBSET S, \A U \in SUBSET T : U # T => U \in F
      PROVE  T \in F
  <2>1. CASE T = {}
    <3>1. it[T] = 0 BY <2>1, SumsUnfold
    <3> QED BY <3>1
  <2>2. CASE T # {}
    <3>1. w[Pick(T)] \in Nat BY <2>2, PickShape
    <3>2. it[T \ {Pick(T)}] \in Nat BY <1>1, <2>2, PickShape
    <3>3. it[T] = w[Pick(T)] + it[T \ {Pick(T)}] BY <2>2, SumsUnfold
    <3> QED BY <3>1, <3>2, <3>3
  <2> QED BY <2>1, <2>2
<1> HIDE DEF F
<1>2. \A T \in SUBSET S : T \in F BY <1>1, SetInduction
<1> QED BY <1>2 DEF F

\* Any element may be taken first.
LEMMA SumsAnyOrder ==
  ASSUME NEW S, IsFiniteSet(S), NEW w \in [S -> Nat], NEW it, Sums(it, w, S)
  PROVE  \A T \in SUBSET S : \A x \in T : it[T] = w[x] + it[T \ {x}]
<1> DEFINE F == {T \in SUBSET S : \A x \in T : it[T] = w[x] + it[T \ {x}]}
<1>0. \A T \in SUBSET S : it[T] \in Nat BY SumsType
<1>1. ASSUME NEW T \in SUBSET S, \A U \in SUBSET T : U # T => U \in F
      PROVE  T \in F
  <2> SUFFICES ASSUME NEW x \in T PROVE it[T] = w[x] + it[T \ {x}] OBVIOUS
  <2>1. PICK p : p = Pick(T) /\ p \in T BY PickShape
  <2>2. it[T] = w[p] + it[T \ {p}] BY <2>1, SumsUnfold
  <2>3. CASE x = p BY <2>2, <2>3
  <2>4. CASE x # p
    <3>1. T \ {p} \in F /\ T \ {x} \in F BY <1>1, <2>1
    <3>2. x \in T \ {p} /\ p \in T \ {x} BY <2>1, <2>4
    <3>3. it[T \ {p}] = w[x] + it[(T \ {p}) \ {x}] BY <3>1, <3>2
    <3>4. it[T \ {x}] = w[p] + it[(T \ {x}) \ {p}] BY <3>1, <3>2
    <3>5. (T \ {p}) \ {x} = (T \ {x}) \ {p} OBVIOUS
    <3>6. PICK rest \in Nat : rest = it[(T \ {x}) \ {p}]
      <4>1. (T \ {x}) \ {p} \in SUBSET S OBVIOUS
      <4> QED BY <1>0, <4>1
    <3>7. it[T] = w[p] + (w[x] + rest) /\ it[T \ {x}] = w[p] + rest
      BY <2>2, <3>3, <3>4, <3>5, <3>6
    <3>8. w[p] \in Nat /\ w[x] \in Nat BY <2>1
    <3> QED BY <3>6, <3>7, <3>8
  <2> QED BY <2>3, <2>4
<1> HIDE DEF F
<1>2. \A T \in SUBSET S : T \in F BY <1>1, SetInduction
<1> QED BY <1>2 DEF F

LEMMA SumOfSums ==
  ASSUME NEW S, IsFiniteSet(S), NEW w
  PROVE  \E it : Sums(it, w, S) /\ SumOf(w, S) = it[S]
BY SumsExist DEF SumOf

\* If each element of a set weighs what it adds to one sum over the set and,
\* as a member of R, to a sum over R, the two sums make up the sum of all.
LEMMA SumsSplit ==
  ASSUME NEW S, IsFiniteSet(S), NEW R \in SUBSET S,
         NEW u \in [S -> Nat], NEW v \in [R -> Nat], NEW w \in [S -> Nat],
         \A x \in S : u[x] + (IF x \in R THEN v[x] ELSE 0) = w[x]
  PROVE  SumOf(u, S) + SumOf(v, R) = SumOf(w, S)
<1>0. IsFiniteSet(R) BY FS_Subset
<1>1. PICK a : Sums(a, u, S) /\ SumOf(u, S) = a[S] BY SumOfSums
<1>2. PICK b : Sums(b, v, R) /\ SumOf(v, R) = b[R] BY <1>0, SumOfSums
<1>3. PICK c : Sums(c, w, S) /\ SumOf(w, S) = c[S] BY SumOfSums
<1>4. /\ \A T \in SUBSET S : a[T] \in Nat /\ c[T] \in Nat
      /\ \A T \in SUBSET R : b[T] \in Nat
  BY <1>0, <1>1, <1>2, <1>3, SumsType
<1>5. \A T \in SUBSET R : \A x \in T : b[T] = v[x] + b[T \ {x}]
  <2> SUFFICES ASSUME NEW T \in SUBSET R, NEW x \in T PROVE b[T] = v[x] + b[T \ {x}]
    OBVIOUS
  <2>1. IsFiniteSet(R) /\ v \in [R -> Nat] /\ Sums(b, v, R) BY <1>0, <1>2
  <2> QED BY <2>1, SumsAnyOrder
<1> DEFINE F == {T \in SUBSET S : a[T] + b[T \cap R] = c[T]}
<1>6. ASSUME NEW T \in SUBSET S, \A U \in SUBSET T : U # T => U \in F
      PROVE  T \in F
  <2>1. CASE T = {}
    <3>1. a[T] = 0 /\ b[T \cap R] = 0 /\ c[T] = 0 BY <1>1, <1>2, <1>3, <2>1, SumsUnfold
    <3> QED BY <3>1
  <2>2. CASE T # {}
    <3>1. PICK x : x \in T BY <2>2
    <3>2. PICK rest \in SUBSET S : rest = T \ {x} OBVIOUS
    <3>3. rest \in F BY <1>6, <3>1, <3>2
    <3>4. a[T] = u[x] + a[rest] /\ c[T] = w[x] + c[rest]
      BY <1>1, <1>3, <3>1, <3>2, SumsAnyOrder
    <3>5. b[T \cap R] = (IF x \in R THEN v[x] ELSE 0) + b[rest \cap R]
      <4>1. CASE x \in R
        <5>1. x \in T \cap R /\ (T \cap R) \ {x} = rest \cap R BY <3>1, <3>2, <4>1
        <5>2. PICK part \in SUBSET R : part = T \cap R OBVIOUS
        <5>3. b[part] = v[x] + b[part \ {x}]
          BY <1>5, <5>1, <5>2
        <5> QED BY <4>1, <5>1, <5>2, <5>3
      <4>2. CASE x \notin R
        <5>1. T \cap R = rest \cap R BY <3>2, <4>2
        <5>2. b[rest \cap R] \in Nat BY <1>4
        <5> QED BY <4>2, <5>1, <5>2
      <4> QED BY <4>1, <4>2
    <3>6. a[rest] + b[rest \cap R] = c[rest] BY <3>3
    <3>7. /\ u[x] \in Nat /\ w[x] \in Nat /\ a[rest] \in Nat /\ c[rest] \in Nat
          /\ b[rest \cap R] \in Nat /\ (IF x \in R THEN v[x] ELSE 0) \in Nat
      <4>1. b[rest \cap R] \in Nat BY <1>4
      <4>2. a[rest] \in Nat /\ c[rest] \in Nat BY <1>4
      <4>3. (IF x \in R THEN v[x] ELSE 0) \in Nat OBVIOUS
      <4> QED BY <3>1, <4>1, <4>2, <4>3
    <3>8. u[x] + (IF x \in R THEN v[x] ELSE 0) = w[x] BY <3>1
    <3>9. PICK y \in Nat : y = (IF x \in R THEN v[x] ELSE 0) BY <3>7
    <3>10. a[T] + b[T \cap R] = c[T]
      BY <3>4, <3>5, <3>6, <3>7, <3>8, <3>9
    <3> QED BY <3>10
  <2> QED BY <2>1, <2>2
<1> HIDE DEF F
<1>7. S \in F
  <2>1. \A T \in SUBSET S : T \in F BY <1>6, SetInduction
  <2> QED BY <2>1
<1>8. a[S] + b[S \cap R] = c[S] BY <1>7 DEF F
<1>9. S \cap R = R OBVIOUS
<1> QED BY <1>1, <1>2, <1>3, <1>8, <1>9

LEMMA SameWeights ==
  ASSUME NEW S, IsFiniteSet(S), NEW w, NEW v, \A x \in S : w[x] = v[x]
  PROVE  SumOf(w, S) = SumOf(v, S)
<1>1. PICK a : Sums(a, w, S) /\ SumOf(w, S) = a[S] BY SumOfSums
<1>2. PICK b : Sums(b, v, S) /\ SumOf(v, S) = b[S] BY SumOfSums
<1>3. Sums(a, v, S)
  <2>1. \A s \in SUBSET S : s # {} => w[Pick(s)] = v[Pick(s)] BY PickShape
  <2> QED BY <1>1, <2>1 DEF Sums
<1>4. a[S] = b[S] BY <1>2, <1>3, SumsUnique
<1> QED BY <1>1, <1>2, <1>4

\* The sums of the code are such sums.
LEMMA AmountSum ==
  ASSUME NEW amount, NEW S
  PROVE  MapThenSumSet(LAMBDA c : amount[c], S) = SumOf(amount, S)
BY DEF MapThenSumSet, MapThenFoldSet, SumOf, Sums, Pick

LEMMA RecoveredSum ==
  ASSUME NEW table, NEW amount, NEW w, IsFiniteSet(DOMAIN table),
         w = [c \in DOMAIN table |-> amount[c] * Cardinality(InTime(table[c]))]
  PROVE  TotalRecovered(table, amount) = SumOf(w, DOMAIN table)
<1> DEFINE D == DOMAIN table
           V(c) == amount[c] * Cardinality(InTime(table[c]))
<1>1. ASSUME NEW it
      PROVE  Sums(it, w, D)
               <=> it = [s \in SUBSET D |->
                           IF s = {} THEN 0 ELSE V(Pick(s)) + it[s \ {Pick(s)}]]
  <2> HIDE DEF V, D
  <2>1. \A s \in SUBSET D : s # {} => w[Pick(s)] = V(Pick(s)) BY PickShape DEF V, D
  <2> QED BY <2>1 DEF Sums
<1>2. TotalRecovered(table, amount)
        = (CHOOSE it : it = [s \in SUBSET D |->
                               IF s = {} THEN 0 ELSE V(Pick(s)) + it[s \ {Pick(s)}]])[D]
  BY DEF TotalRecovered, MapThenSumSet, MapThenFoldSet, Pick
<1> HIDE DEF V, D
<1>3. PICK it : Sums(it, w, D) /\ SumOf(w, D) = it[D] BY SumOfSums DEF D
<1>4. PICK a : /\ a = (CHOOSE h : h = [s \in SUBSET D |->
                               IF s = {} THEN 0 ELSE V(Pick(s)) + h[s \ {Pick(s)}]])
              /\ Sums(a, w, D)
  BY <1>1, <1>3
<1>5. a[D] = it[D] BY <1>3, <1>4, SumsUnique DEF D
<1> QED BY <1>2, <1>3, <1>4, <1>5 DEF D

-----------------------------------------------------------------------------

\* What a set of cases is worth.
Worth(amount, S) == MapThenSumSet(LAMBDA c : amount[c], S)

\* What compute_summary reports balances for every table of rows in which a
\* recovery is credited once and nothing else is: recovered and at-risk money
\* make up what all the cases are worth.
THEOREM BooksBalance ==
  ASSUME NEW table, NEW amount, IsFiniteSet(DOMAIN table),
         \A c \in DOMAIN table :
           /\ amount[c] \in Nat
           /\ Cardinality(InTime(table[c])) = (IF table[c].state = "RECOVERED" THEN 1 ELSE 0)
  PROVE  TotalRecovered(table, amount) + AtRisk(table, amount)
           = Worth(amount, DOMAIN table)
<1> DEFINE D == DOMAIN table
           R == {c \in D : table[c].state # "RECOVERED"}
           u == [c \in D |-> amount[c] * Cardinality(InTime(table[c]))]
           v == [c \in R |-> amount[c]]
           w == [c \in D |-> amount[c]]
<1>1. TotalRecovered(table, amount) = SumOf(u, D) BY RecoveredSum
<1>2. AtRisk(table, amount) = SumOf(v, R)
  <2>1. AtRisk(table, amount) = SumOf(amount, R)
    <3>1. AtRisk(table, amount) = MapThenSumSet(LAMBDA c : amount[c], R) BY DEF AtRisk
    <3> QED BY <3>1, AmountSum
  <2>2. IsFiniteSet(R) BY FS_Subset
  <2>3. \A c \in R : amount[c] = v[c] OBVIOUS
  <2> HIDE DEF R, v
  <2> QED BY <2>1, <2>2, <2>3, SameWeights
<1>3. Worth(amount, D) = SumOf(w, D)
  <2>1. Worth(amount, D) = SumOf(amount, D) BY AmountSum DEF Worth
  <2>2. \A c \in D : amount[c] = w[c] OBVIOUS
  <2>3. IsFiniteSet(D) OBVIOUS
  <2> HIDE DEF D, w
  <2> QED BY <2>1, <2>2, <2>3, SameWeights
<1>4. /\ u \in [D -> Nat] /\ v \in [R -> Nat] /\ w \in [D -> Nat]
      /\ \A c \in D : u[c] + (IF c \in R THEN v[c] ELSE 0) = w[c]
  <2>1. ASSUME NEW c \in D
        PROVE  u[c] \in Nat /\ u[c] + (IF c \in R THEN v[c] ELSE 0) = w[c]
    <3>1. PICK a \in Nat : a = amount[c] OBVIOUS
    <3>2. PICK n : /\ n = Cardinality(InTime(table[c]))
                   /\ n = (IF table[c].state = "RECOVERED" THEN 1 ELSE 0)
      OBVIOUS
    <3>3. u[c] = a * n /\ w[c] = a BY <3>1, <3>2
    <3>4. CASE c \in R
      <4>1. n = 0 /\ v[c] = a BY <3>1, <3>2, <3>4
      <4> HIDE DEF u, v, w, R
      <4> QED BY <3>3, <3>4, <4>1
    <3>5. CASE c \notin R
      <4>1. n = 1 BY <3>2, <3>5
      <4> HIDE DEF u, v, w, R
      <4> QED BY <3>3, <3>5, <4>1
    <3> QED BY <3>4, <3>5
  <2>2. v \in [R -> Nat] /\ w \in [D -> Nat] OBVIOUS
  <2>3. u \in [D -> Nat]
    <3>1. u = [c \in D |-> u[c]] OBVIOUS
    <3> HIDE DEF u
    <3> QED BY <2>1, <3>1
  <2> QED BY <2>1, <2>2, <2>3
<1>5. SumOf(u, D) + SumOf(v, R) = SumOf(w, D)
  <2>1. R \in SUBSET D /\ IsFiniteSet(D) OBVIOUS
  <2> HIDE DEF D, R, u, v, w
  <2> QED BY <1>4, <2>1, SumsSplit
<1> QED BY <1>1, <1>2, <1>3, <1>5
=============================================================================
