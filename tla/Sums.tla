-------------------------------- MODULE Sums --------------------------------
(***************************************************************************)
(* Sums over finite sets, as MapThenSumSet of FiniteSetsExt forms them: it *)
(* takes the elements in the order CHOOSE gives, and these lemmas say that *)
(* the order does not matter.  Induction is by a smallest counterexample   *)
(* (Smallest), since strict inclusion is well founded on finite sets.      *)
(***************************************************************************)
EXTENDS Integers, FiniteSetsExt, FiniteSetTheorems, TLAPS

Total(g, S) == MapThenSumSet(LAMBDA x : g[x], S)

\* The recursion of MapThenFoldSet.
Adds(g, S, it) ==
    it = [s \in SUBSET S |-> IF s = {} THEN 0 ELSE LET x == CHOOSE x \in s : TRUE IN g[x] + it[s \ {x}]]

LEMMA Smallest ==
    ASSUME NEW S, IsFiniteSet(S), NEW C \in SUBSET (SUBSET S), C # {}
    PROVE  \E U \in C : \A V \in SUBSET U : V # U => V \notin C
  <1>1. C \subseteq FiniteSubsetsOf(S)
    BY FS_Subset DEF FiniteSubsetsOf
  <1>2. IsWellFoundedOn(StrictSubsetOrdering(S), FiniteSubsetsOf(S))
    BY FS_StrictSubsetOrderingWellFounded
  <1>3. \E x \in C : \A y \in C : ~(<<y, x>> \in StrictSubsetOrdering(S))
    BY <1>1, <1>2, WFMin
  <1> QED
    BY <1>3 DEF StrictSubsetOrdering

\* A finite set of integers that is not empty has a largest element.
LEMMA LargestIs ==
    ASSUME NEW S \in SUBSET Int, IsFiniteSet(S), S # {}
    PROVE  Max(S) \in S /\ \A j \in S : j <= Max(S)
  <1> DEFINE Above(i) == {j \in S : j >= i}
             C == {Above(i) : i \in S}
  <1>1. C \in SUBSET (SUBSET S) /\ C # {}
    OBVIOUS
  <1> HIDE DEF C
  <1>2. PICK U \in C : \A V \in SUBSET U : V # U => V \notin C
    BY <1>1, Smallest
  <1>3. PICK i \in S : U = Above(i)
    BY DEF C
  <1>4. ASSUME NEW j \in S, j > i PROVE FALSE
    <2>0. i \in Int /\ j \in Int /\ S \subseteq Int
      OBVIOUS
    <2>a. \A x \in Int : x >= j => x >= i
      BY <1>4, <2>0
    <2>b. i >= i /\ ~(i >= j)
      BY <1>4, <2>0
    <2>1. Above(j) \subseteq Above(i) /\ i \in Above(i) /\ i \notin Above(j)
      BY <2>0, <2>a, <2>b
    <2>2. Above(j) \in C
      BY DEF C
    <2> QED
      BY <1>2, <1>3, <2>1, <2>2
  <1>5. i \in S /\ \A j \in S : i >= j
    BY <1>4
  <1>6. Max(S) \in S /\ \A j \in S : Max(S) >= j
    BY <1>5 DEF Max
  <1> QED
    BY <1>6

LEMMA TotalIs ==
    ASSUME NEW g, NEW S
    PROVE  Total(g, S) = (CHOOSE it : Adds(g, S, it))[S]
  BY DEF Total, MapThenSumSet, MapThenFoldSet, Adds

\* Two recursions agree where both are defined.
LEMMA AddsAgree ==
    ASSUME NEW g, NEW S, IsFiniteSet(S), NEW A, NEW B, NEW i, NEW j, Adds(g, A, i), Adds(g, B, j), S \subseteq A, S \subseteq B
    PROVE  i[S] = j[S]
  <1> DEFINE C == {s \in SUBSET S : i[s] # j[s]}
  <1>1. CASE C = {}
    <2>1. S \in SUBSET S
      OBVIOUS
    <2> QED
      BY <1>1, <2>1
  <1>2. CASE C # {}
    <2>0. C \in SUBSET (SUBSET S)
      OBVIOUS
    <2>1. PICK U \in C : \A V \in SUBSET U : V # U => V \notin C
      <3> HIDE DEF C
      <3> QED
        BY <1>2, <2>0, Smallest
    <2>2. U \in SUBSET A /\ U \in SUBSET B /\ U \in SUBSET S /\ i[U] # j[U]
      BY <2>1
    <2>3. /\ i[U] = IF U = {} THEN 0 ELSE LET x == CHOOSE x \in U : TRUE IN g[x] + i[U \ {x}]
          /\ j[U] = IF U = {} THEN 0 ELSE LET x == CHOOSE x \in U : TRUE IN g[x] + j[U \ {x}]
      BY <2>2 DEF Adds
    <2>4. U # {}
      BY <2>2, <2>3
    <2>5. PICK x \in U : x = CHOOSE y \in U : TRUE
      BY <2>4
    <2>6. U \ {x} \in SUBSET U /\ U \ {x} # U /\ U \ {x} \in SUBSET S
      BY <2>2, <2>5
    <2>7. i[U \ {x}] = j[U \ {x}]
      BY <2>1, <2>6
    <2>8. i[U] = g[x] + i[U \ {x}] /\ j[U] = g[x] + j[U \ {x}]
      BY <2>3, <2>4, <2>5
    <2> QED
      BY <2>2, <2>7, <2>8
  <1> QED
    BY <1>1, <1>2

LEMMA TotalAgrees ==
    ASSUME NEW g, NEW S, IsFiniteSet(S), NEW T, S \subseteq T, NEW j, Adds(g, T, j), \E it : Adds(g, S, it)
    PROVE  Total(g, S) = j[S]
  <1> DEFINE it == CHOOSE it : Adds(g, S, it)
  <1>1. Adds(g, S, it)
    OBVIOUS
  <1>2. it[S] = j[S]
    BY <1>1, AddsAgree
  <1> QED
    BY <1>2, TotalIs

LEMMA AddsExists ==
    ASSUME NEW g, NEW S, IsFiniteSet(S)
    PROVE  \E it : Adds(g, S, it)
  <1> DEFINE C == {s \in SUBSET S : ~ \E it : Adds(g, s, it)}
  <1>1. CASE C = {}
    <2>1. S \in SUBSET S
      OBVIOUS
    <2> QED
      BY <1>1, <2>1
  <1>2. CASE C # {}
    <2>0. C \in SUBSET (SUBSET S)
      OBVIOUS
    <2>1. PICK U \in C : \A V \in SUBSET U : V # U => V \notin C
      <3> HIDE DEF C
      <3> QED
        BY <1>2, <2>0, Smallest
    <2>2. U \subseteq S /\ (~ \E it : Adds(g, U, it)) /\ \A V \in SUBSET U : V # U => \E it : Adds(g, V, it)
      BY <2>1
    <2> DEFINE f == [s \in SUBSET U |-> IF s = {} THEN 0 ELSE LET x == CHOOSE x \in s : TRUE IN g[x] + Total(g, s \ {x})]
    <2>3. ASSUME NEW s \in SUBSET U, s # U PROVE Total(g, s) = f[s]
      <3>1. PICK j : Adds(g, s, j)
        BY <2>2, <2>3
      <3>2. IsFiniteSet(s)
        BY <2>2, FS_Subset
      <3>3. Total(g, s) = j[s]
        BY <3>1, <3>2, TotalAgrees
      <3>4. j[s] = IF s = {} THEN 0 ELSE LET x == CHOOSE x \in s : TRUE IN g[x] + j[s \ {x}]
        BY <3>1 DEF Adds
      <3>5. f[s] = IF s = {} THEN 0 ELSE LET x == CHOOSE x \in s : TRUE IN g[x] + Total(g, s \ {x})
        OBVIOUS
      <3>6. CASE s = {}
        BY <3>3, <3>4, <3>5, <3>6
      <3>7. CASE s # {}
        <4>1. PICK x \in s : x = CHOOSE y \in s : TRUE
          BY <3>7
        <4>2. IsFiniteSet(s \ {x}) /\ s \ {x} \subseteq s /\ s \ {x} \in SUBSET U /\ s \ {x} # U
          BY <3>2, <4>1, FS_Subset
        <4>3. \E it : Adds(g, s \ {x}, it)
          BY <2>2, <4>2
        <4>4. Total(g, s \ {x}) = j[s \ {x}]
          BY <3>1, <4>2, <4>3, TotalAgrees
        <4>5. j[s] = g[x] + j[s \ {x}] /\ f[s] = g[x] + Total(g, s \ {x})
          BY <3>4, <3>5, <3>7, <4>1
        <4> QED
          BY <3>3, <4>4, <4>5
      <3> QED
        BY <3>6, <3>7
    <2>4. ASSUME NEW s \in SUBSET U
          PROVE  f[s] = IF s = {} THEN 0 ELSE LET x == CHOOSE x \in s : TRUE IN g[x] + f[s \ {x}]
      <3>1. f[s] = IF s = {} THEN 0 ELSE LET x == CHOOSE x \in s : TRUE IN g[x] + Total(g, s \ {x})
        OBVIOUS
      <3>2. CASE s = {}
        BY <3>1, <3>2
      <3>3. CASE s # {}
        <4>1. PICK x \in s : x = CHOOSE y \in s : TRUE
          BY <3>3
        <4>2. s \ {x} \in SUBSET U /\ s \ {x} # U
          BY <4>1
        <4>3. Total(g, s \ {x}) = f[s \ {x}]
          BY <2>3, <4>2
        <4> HIDE DEF f
        <4> QED
          BY <3>1, <3>3, <4>1, <4>3
      <3> QED
        BY <3>2, <3>3
    <2>5. Adds(g, U, f)
      <3>1. f = [s \in SUBSET U |-> f[s]]
        OBVIOUS
      <3> HIDE DEF f
      <3> QED
        BY <2>4, <3>1 DEF Adds
    <2> QED
      BY <2>2, <2>5
  <1> QED
    BY <1>1, <1>2

\* What the recursion computes.
LEMMA TotalUnfolds ==
    ASSUME NEW g, NEW S, IsFiniteSet(S)
    PROVE  /\ S = {} => Total(g, S) = 0
           /\ S # {} => \E x \in S : x = (CHOOSE y \in S : TRUE) /\ Total(g, S) = g[x] + Total(g, S \ {x})
  <1>1. PICK it : Adds(g, S, it)
    BY AddsExists
  <1>2. Total(g, S) = it[S]
    BY <1>1, TotalAgrees
  <1>3. it[S] = IF S = {} THEN 0 ELSE LET x == CHOOSE x \in S : TRUE IN g[x] + it[S \ {x}]
    BY <1>1 DEF Adds
  <1>4. CASE S = {}
    BY <1>2, <1>3, <1>4
  <1>5. CASE S # {}
    <2>1. PICK x \in S : x = CHOOSE y \in S : TRUE
      BY <1>5
    <2>2. IsFiniteSet(S \ {x}) /\ S \ {x} \subseteq S
      BY FS_Subset
    <2>3. Total(g, S \ {x}) = it[S \ {x}]
      BY <1>1, <2>2, AddsExists, TotalAgrees
    <2>4. it[S] = g[x] + it[S \ {x}]
      BY <1>3, <1>5, <2>1
    <2> QED
      BY <1>2, <2>1, <2>3, <2>4
  <1> QED
    BY <1>4, <1>5

LEMMA TotalSame ==
    ASSUME NEW g, NEW h, NEW S, IsFiniteSet(S), \A x \in S : g[x] = h[x]
    PROVE  Total(g, S) = Total(h, S)
  <1>1. PICK it : Adds(g, S, it)
    BY AddsExists
  <1>2. ASSUME NEW s \in SUBSET S
        PROVE  (IF s = {} THEN 0 ELSE LET x == CHOOSE x \in s : TRUE IN g[x] + it[s \ {x}])
             = (IF s = {} THEN 0 ELSE LET x == CHOOSE x \in s : TRUE IN h[x] + it[s \ {x}])
    <2>1. CASE s = {}
      BY <2>1
    <2>2. CASE s # {}
      <3>1. PICK x \in s : x = CHOOSE y \in s : TRUE
        BY <2>2
      <3> QED
        BY <2>2, <3>1
    <2> QED
      BY <2>1, <2>2
  <1>3. Adds(h, S, it)
    BY <1>1, <1>2 DEF Adds
  <1>4. Total(g, S) = it[S] /\ Total(h, S) = it[S]
    BY <1>1, <1>3, TotalAgrees
  <1> QED
    BY <1>4

Countable(g, S) == \A x \in S : g[x] \in Nat

LEMMA TotalType ==
    ASSUME NEW g, NEW S, IsFiniteSet(S), Countable(g, S)
    PROVE  Total(g, S) \in Nat
  <1> DEFINE C == {s \in SUBSET S : Total(g, s) \notin Nat}
  <1>1. CASE C = {}
    <2>1. S \in SUBSET S
      OBVIOUS
    <2> QED
      BY <1>1, <2>1
  <1>2. CASE C # {}
    <2>0. C \in SUBSET (SUBSET S)
      OBVIOUS
    <2>1. PICK U \in C : \A V \in SUBSET U : V # U => V \notin C
      <3> HIDE DEF C
      <3> QED
        BY <1>2, <2>0, Smallest
    <2>2. U \in SUBSET S /\ Total(g, U) \notin Nat /\ IsFiniteSet(U)
      BY <2>1, FS_Subset
    <2>3. U # {}
      BY <2>2, TotalUnfolds
    <2>4. PICK x \in U : Total(g, U) = g[x] + Total(g, U \ {x})
      BY <2>2, <2>3, TotalUnfolds
    <2>5. U \ {x} \in SUBSET U /\ U \ {x} # U /\ U \ {x} \in SUBSET S
      BY <2>2, <2>4
    <2>6. Total(g, U \ {x}) \in Nat
      BY <2>1, <2>5
    <2>7. g[x] \in Nat
      BY <2>2, <2>4 DEF Countable
    <2> QED
      BY <2>2, <2>4, <2>6, <2>7
  <1> QED
    BY <1>1, <1>2

\* Any element may be taken first.
LEMMA TotalTakes ==
    ASSUME NEW g, NEW S, IsFiniteSet(S), Countable(g, S), NEW y \in S
    PROVE  Total(g, S) = g[y] + Total(g, S \ {y})
  <1> DEFINE C == {s \in SUBSET S : \E z \in s : Total(g, s) # g[z] + Total(g, s \ {z})}
  <1>1. CASE C = {}
    <2>1. S \in SUBSET S
      OBVIOUS
    <2> QED
      BY <1>1, <2>1
  <1>2. CASE C # {}
    <2>0. C \in SUBSET (SUBSET S)
      OBVIOUS
    <2>1. PICK U \in C : \A V \in SUBSET U : V # U => V \notin C
      <3> HIDE DEF C
      <3> QED
        BY <1>2, <2>0, Smallest
    <2>2. U \in SUBSET S /\ IsFiniteSet(U)
      BY <2>1, FS_Subset
    <2>3. PICK z \in U : Total(g, U) # g[z] + Total(g, U \ {z})
      BY <2>1
    <2>4. PICK x \in U : Total(g, U) = g[x] + Total(g, U \ {x})
      BY <2>2, <2>3, TotalUnfolds
    <2>5. x # z
      BY <2>3, <2>4
    <2>s. U \subseteq S /\ x \in U /\ z \in U
      BY <2>2, <2>3, <2>4
    <2>6. /\ U \ {x} \in SUBSET U /\ U \ {x} # U /\ U \ {x} \in SUBSET S /\ z \in U \ {x}
          /\ U \ {z} \in SUBSET U /\ U \ {z} # U /\ U \ {z} \in SUBSET S /\ x \in U \ {z}
          /\ (U \ {x}) \ {z} = (U \ {z}) \ {x} /\ (U \ {x}) \ {z} \in SUBSET S
      <3>1. U \ {x} \in SUBSET U /\ U \ {x} \in SUBSET S /\ U \ {z} \in SUBSET U /\ U \ {z} \in SUBSET S
        BY <2>s
      <3>2. U \ {x} # U /\ U \ {z} # U /\ z \in U \ {x} /\ x \in U \ {z}
        BY <2>s, <2>5
      <3>3. (U \ {x}) \ {z} = (U \ {z}) \ {x}
        BY Zenon
      <3>4. (U \ {x}) \ {z} \in SUBSET S
        BY <2>s, Zenon
      <3> QED
        BY <3>1, <3>2, <3>3, <3>4
    <2>m. \A V \in SUBSET S : V \notin C => \A w \in V : Total(g, V) = g[w] + Total(g, V \ {w})
      OBVIOUS
    <2> HIDE DEF C
    <2>7. Total(g, U \ {x}) = g[z] + Total(g, (U \ {x}) \ {z})
      BY <2>1, <2>6, <2>m
    <2>8. Total(g, U \ {z}) = g[x] + Total(g, (U \ {x}) \ {z})
      <3>1. U \ {z} \notin C
        BY <2>1, <2>6
      <3> QED
        BY <2>6, <2>m, <3>1
    <2>9. IsFiniteSet((U \ {x}) \ {z}) /\ Countable(g, (U \ {x}) \ {z})
      BY <2>6, FS_Subset DEF Countable
    <2>10. Total(g, (U \ {x}) \ {z}) \in Nat
      BY <2>9, TotalType
    <2>11. g[x] \in Nat /\ g[z] \in Nat
      BY <2>2, <2>3, <2>4 DEF Countable
    <2> QED
      BY <2>3, <2>4, <2>7, <2>8, <2>10, <2>11
  <1> QED
    BY <1>1, <1>2

LEMMA TotalAddsOne ==
    ASSUME NEW g, NEW S, IsFiniteSet(S), NEW y, y \notin S, Countable(g, S \cup {y})
    PROVE  Total(g, S \cup {y}) = g[y] + Total(g, S)
  <1>1. IsFiniteSet(S \cup {y}) /\ (S \cup {y}) \ {y} = S
    BY FS_AddElement
  <1> QED
    BY <1>1, TotalTakes

\* One summand changes.
LEMMA TotalChanges ==
    ASSUME NEW g, NEW h, NEW S, IsFiniteSet(S), Countable(g, S), Countable(h, S),
           NEW y \in S, \A x \in S \ {y} : g[x] = h[x]
    PROVE  Total(h, S) = Total(g, S) + h[y] - g[y]
  <1>1. IsFiniteSet(S \ {y}) /\ Countable(g, S \ {y}) /\ g[y] \in Nat /\ h[y] \in Nat
    BY FS_Subset DEF Countable
  <1>2. Total(g, S \ {y}) = Total(h, S \ {y}) /\ Total(g, S \ {y}) \in Nat
    BY <1>1, TotalSame, TotalType
  <1>3. Total(g, S) = g[y] + Total(g, S \ {y}) /\ Total(h, S) = h[y] + Total(h, S \ {y})
    BY TotalTakes
  <1> QED
    BY <1>1, <1>2, <1>3

\* A set is summed in two parts.
LEMMA TotalSplits ==
    ASSUME NEW g, NEW S, IsFiniteSet(S), Countable(g, S), NEW A \in SUBSET S
    PROVE  Total(g, S) = Total(g, A) + Total(g, S \ A)
  <1> DEFINE C == {s \in SUBSET S : Total(g, S) # Total(g, s) + Total(g, S \ s)}
  <1>1. CASE C = {}
    BY <1>1
  <1>2. CASE C # {}
    <2>0. C \in SUBSET (SUBSET S)
      OBVIOUS
    <2>1. PICK U \in C : \A V \in SUBSET U : V # U => V \notin C
      <3> HIDE DEF C
      <3> QED
        BY <1>2, <2>0, Smallest
    <2>2. U \in SUBSET S /\ Total(g, S) # Total(g, U) + Total(g, S \ U)
      BY <2>1
    <2>3. U # {}
      <3>1. Total(g, {}) = 0 /\ S \ {} = S /\ Total(g, S) \in Nat
        BY TotalUnfolds, TotalType, FS_EmptySet
      <3> QED
        BY <2>2, <3>1
    <2>4. PICK x \in U : TRUE
      BY <2>3
    <2>5. /\ U \ {x} \in SUBSET U /\ U \ {x} # U /\ U \ {x} \in SUBSET S
          /\ S \ (U \ {x}) = (S \ U) \cup {x} /\ x \notin S \ U
      BY <2>2, <2>4
    <2>6. Total(g, S) = Total(g, U \ {x}) + Total(g, (S \ U) \cup {x})
      BY <2>1, <2>5
    <2>7. IsFiniteSet(U) /\ IsFiniteSet(S \ U) /\ IsFiniteSet(U \ {x}) /\ (S \ U) \cup {x} \subseteq S
      BY <2>2, <2>4, FS_Subset
    <2>8. Countable(g, U) /\ Countable(g, S \ U) /\ Countable(g, (S \ U) \cup {x}) /\ Countable(g, U \ {x}) /\ g[x] \in Nat
      BY <2>2, <2>4 DEF Countable
    <2>9. Total(g, (S \ U) \cup {x}) = g[x] + Total(g, S \ U)
      BY <2>5, <2>7, <2>8, TotalAddsOne
    <2>10. Total(g, U) = g[x] + Total(g, U \ {x})
      BY <2>4, <2>7, <2>8, TotalTakes
    <2>11. Total(g, U \ {x}) \in Nat /\ Total(g, S \ U) \in Nat
      BY <2>7, <2>8, TotalType
    <2> QED
      BY <2>2, <2>6, <2>8, <2>9, <2>10, <2>11
  <1> QED
    BY <1>1, <1>2

LEMMA TotalZero ==
    ASSUME NEW g, NEW S, IsFiniteSet(S), \A x \in S : g[x] = 0
    PROVE  Total(g, S) = 0
  <1> DEFINE C == {s \in SUBSET S : Total(g, s) # 0}
  <1>1. CASE C = {}
    <2>1. S \in SUBSET S
      OBVIOUS
    <2> QED
      BY <1>1, <2>1
  <1>2. CASE C # {}
    <2>0. C \in SUBSET (SUBSET S)
      OBVIOUS
    <2>1. PICK U \in C : \A V \in SUBSET U : V # U => V \notin C
      <3> HIDE DEF C
      <3> QED
        BY <1>2, <2>0, Smallest
    <2>2. U \in SUBSET S /\ Total(g, U) # 0 /\ IsFiniteSet(U)
      BY <2>1, FS_Subset
    <2>3. PICK x \in U : Total(g, U) = g[x] + Total(g, U \ {x})
      BY <2>2, TotalUnfolds
    <2>4. U \ {x} \in SUBSET U /\ U \ {x} # U /\ U \ {x} \in SUBSET S
      BY <2>2, <2>3
    <2>5. Total(g, U \ {x}) = 0 /\ g[x] = 0
      BY <2>1, <2>2, <2>3, <2>4
    <2> QED
      BY <2>2, <2>3, <2>5
  <1> QED
    BY <1>1, <1>2

=============================================================================
