-------------------------------- MODULE Sums --------------------------------
(***************************************************************************)
(* Sums over finite sets: the facts about SumFunctionOnSet that the money  *)
(* invariants need.  The library's induction theorems take an operator,    *)
(* so each induction here looks at a smallest counterexample instead: the  *)
(* strict subset relation is well-founded on the subsets of a finite set.  *)
(***************************************************************************)
EXTENDS Integers, Functions, FiniteSetTheorems, TLAPS

\* g gives every subset of S the sum of f over it.
Additive(g, f, S) ==
    /\ g \in [SUBSET S -> Int]
    /\ g[{}] = 0
    /\ \A A \in SUBSET S : \A x \in S \ A : g[A \cup {x}] = g[A] + f[x]

\* g satisfies the recursion by which SumFunctionOnSet is defined.
Unfolds(g, f, S) ==
    g = [A \in SUBSET S |->
            IF A = {} THEN 0
            ELSE f[CHOOSE x \in A : TRUE] + g[A \ {CHOOSE x \in A : TRUE}]]

\* The library's fold is the value of such a g at S.
LEMMA SumUnfold ==
    ASSUME NEW f, NEW S
    PROVE  SumFunctionOnSet(f, S) = (CHOOSE g : Unfolds(g, f, S))[S]
  BY DEF SumFunctionOnSet, FoldFunctionOnSet, MapThenFoldSet, Unfolds

\* A set of subsets of a finite set that is not empty has a smallest member.
LEMMA Smallest ==
    ASSUME NEW S, IsFiniteSet(S), NEW T \in SUBSET SUBSET S, T # {}
    PROVE  \E A \in T : \A B \in T : ~(B \subseteq A /\ B # A)
  <1>1. IsWellFoundedOn(StrictSubsetOrdering(S), SUBSET S)
    BY FS_StrictSubsetOrderingWellFounded, FS_FiniteSubsetsOfFinite
  <1>2. \E A \in T : \A B \in T : ~(<<B, A>> \in StrictSubsetOrdering(S))
    BY <1>1, WFMin
  <1> QED
    BY <1>2 DEF StrictSubsetOrdering

\* An additive function is additive on every subset.
LEMMA Restricted ==
    ASSUME NEW f, NEW S, NEW g, Additive(g, f, S), NEW A \in SUBSET S
    PROVE  Additive([B \in SUBSET A |-> g[B]], f, A)
  BY DEF Additive

\* From A to A with one more element.
LEMMA AdditiveExtends ==
    ASSUME NEW f, NEW A, NEW x, x \notin A,
           \A y \in A \cup {x} : f[y] \in Int,
           NEW g, Additive(g, f, A)
    PROVE  \E h : Additive(h, f, A \cup {x})
  <1> DEFINE h == [B \in SUBSET (A \cup {x}) |->
                      IF x \in B THEN g[B \ {x}] + f[x] ELSE g[B]]
  <1>1. h \in [SUBSET (A \cup {x}) -> Int]
    <2> SUFFICES ASSUME NEW B \in SUBSET (A \cup {x})
                 PROVE  (IF x \in B THEN g[B \ {x}] + f[x] ELSE g[B]) \in Int
      OBVIOUS
    <2>1. CASE x \in B
      <3>1. B \ {x} \in SUBSET A
        OBVIOUS
      <3> QED
        BY <2>1, <3>1 DEF Additive
    <2>2. CASE x \notin B
      <3>1. B \in SUBSET A
        BY <2>2
      <3> QED
        BY <2>2, <3>1 DEF Additive
    <2> QED
      BY <2>1, <2>2
  <1>2. h[{}] = 0
    BY DEF Additive
  <1>3. ASSUME NEW B \in SUBSET (A \cup {x}), NEW y \in (A \cup {x}) \ B
        PROVE  h[B \cup {y}] = h[B] + f[y]
    <2>1. CASE y = x
      <3>1. B \in SUBSET A /\ (B \cup {x}) \ {x} = B
        BY <2>1
      <3>2. h[B \cup {x}] = g[B] + f[x] /\ h[B] = g[B]
        BY <3>1, <2>1
      <3> QED
        BY <3>2, <2>1
    <2>2. CASE y # x /\ x \in B
      <3>1. /\ B \ {x} \in SUBSET A /\ y \in A \ (B \ {x})
            /\ (B \cup {y}) \ {x} = (B \ {x}) \cup {y}
        BY <2>2
      <3>2. g[(B \ {x}) \cup {y}] = g[B \ {x}] + f[y]
        BY <3>1 DEF Additive
      <3>3. h[B \cup {y}] = g[(B \ {x}) \cup {y}] + f[x] /\ h[B] = g[B \ {x}] + f[x]
        BY <3>1, <2>2
      <3>4. g[(B \ {x}) \cup {y}] \in Int /\ g[B \ {x}] \in Int
        BY <3>1 DEF Additive
      <3> HIDE DEF h
      <3> QED
        BY <3>2, <3>3, <3>4, f[y] \in Int, f[x] \in Int
    <2>3. CASE y # x /\ x \notin B
      <3>1. B \in SUBSET A /\ y \in A \ B /\ x \notin B \cup {y} /\ B \cup {y} \in SUBSET A
        BY <2>3
      <3>2. g[B \cup {y}] = g[B] + f[y]
        BY <3>1 DEF Additive
      <3> QED
        BY <3>1, <3>2, <2>3
    <2> QED
      BY <2>1, <2>2, <2>3
  <1>4. Additive(h, f, A \cup {x})
    <2> HIDE DEF h
    <2> QED
      BY <1>1, <1>2, <1>3 DEF Additive
  <1> QED
    BY <1>4

\* Every finite set has an additive function: of the subsets without one, a
\* smallest would be some set that has one, and one more element.
LEMMA AdditiveExists ==
    ASSUME NEW f, NEW S, IsFiniteSet(S), \A x \in S : f[x] \in Int
    PROVE  \E g : Additive(g, f, S)
  <1> DEFINE Bad == {A \in SUBSET S : ~ \E g : Additive(g, f, A)}
  <1> SUFFICES ASSUME Bad # {} PROVE FALSE
    OBVIOUS
  <1>1. PICK A \in Bad : \A B \in Bad : ~(B \subseteq A /\ B # A)
    <2>1. Bad \in SUBSET SUBSET S
      OBVIOUS
    <2> HIDE DEF Bad
    <2> QED
      BY <2>1, Smallest
  <1>2. CASE A = {}
    <2>1. Additive([B \in SUBSET {} |-> 0], f, {})
      BY DEF Additive
    <2> QED
      BY <1>2, <2>1
  <1>3. CASE A # {}
    <2>1. PICK x \in A : TRUE
      BY <1>3
    <2>2. A \ {x} \in SUBSET S /\ A \ {x} \notin Bad
      BY <1>1, <2>1
    <2>3. PICK g : Additive(g, f, A \ {x})
      BY <2>2
    <2>4. \E h : Additive(h, f, (A \ {x}) \cup {x})
      BY <2>3, <2>1, AdditiveExtends
    <2>5. (A \ {x}) \cup {x} = A
      BY <2>1
    <2> QED
      BY <2>4, <2>5
  <1> QED
    BY <1>2, <1>3

\* An additive function satisfies the recursion, whichever element it chooses.
LEMMA AdditiveUnfolds ==
    ASSUME NEW f, NEW S, NEW g, Additive(g, f, S), \A x \in S : f[x] \in Int
    PROVE  Unfolds(g, f, S)
  <1>1. ASSUME NEW A \in SUBSET S, A # {}, NEW x \in A
        PROVE  g[A] = f[x] + g[A \ {x}]
    <2>1. A \ {x} \in SUBSET S /\ x \in S \ (A \ {x}) /\ (A \ {x}) \cup {x} = A
      OBVIOUS
    <2>2. g[A] = g[A \ {x}] + f[x]
      BY <2>1 DEF Additive
    <2>3. g[A \ {x}] \in Int /\ f[x] \in Int
      BY <2>1 DEF Additive
    <2> QED
      BY <2>2, <2>3
  <1>2. ASSUME NEW A \in SUBSET S
        PROVE  g[A] = IF A = {} THEN 0
                      ELSE f[CHOOSE x \in A : TRUE] + g[A \ {CHOOSE x \in A : TRUE}]
    <2>1. CASE A = {}
      BY <2>1 DEF Additive
    <2>2. CASE A # {}
      <3>1. (CHOOSE x \in A : TRUE) \in A
        BY <2>2
      <3> QED
        BY <3>1, <2>2, <1>1
    <2> QED
      BY <2>1, <2>2
  <1>3. g = [A \in SUBSET S |-> g[A]]
    BY DEF Additive
  <1> QED
    BY <1>2, <1>3, Zenon DEF Unfolds

\* The recursion has one solution: two would differ first at some smallest
\* set, and agree on that set without the element chosen.
LEMMA UnfoldsUnique ==
    ASSUME NEW f, NEW S, IsFiniteSet(S), NEW g, Unfolds(g, f, S), NEW h, Unfolds(h, f, S)
    PROVE  g[S] = h[S]
  <1> DEFINE Bad == {A \in SUBSET S : g[A] # h[A]}
  <1> SUFFICES ASSUME Bad # {} PROVE FALSE
    OBVIOUS
  <1>1. PICK A \in Bad : \A B \in Bad : ~(B \subseteq A /\ B # A)
    <2>1. Bad \in SUBSET SUBSET S
      OBVIOUS
    <2> HIDE DEF Bad
    <2> QED
      BY <2>1, Smallest
  <1>2. /\ g[A] = IF A = {} THEN 0
                  ELSE f[CHOOSE x \in A : TRUE] + g[A \ {CHOOSE x \in A : TRUE}]
        /\ h[A] = IF A = {} THEN 0
                  ELSE f[CHOOSE x \in A : TRUE] + h[A \ {CHOOSE x \in A : TRUE}]
    BY Zenon DEF Unfolds
  <1>3. A # {}
    BY <1>2
  <1>4. PICK x \in A : x = (CHOOSE y \in A : TRUE)
    BY <1>3
  <1>5. g[A \ {x}] = h[A \ {x}]
    BY <1>1, <1>4
  <1> QED
    BY <1>2, <1>3, <1>4, <1>5

\* So the sum is what any additive function says, on every subset.
LEMMA SumIs ==
    ASSUME NEW f, NEW S, IsFiniteSet(S), \A x \in S : f[x] \in Int,
           NEW g, Additive(g, f, S), NEW A \in SUBSET S
    PROVE  SumFunctionOnSet(f, A) = g[A]
  <1> DEFINE h == [B \in SUBSET A |-> g[B]]
  <1>1. Additive(h, f, A)
    BY Restricted, Zenon
  <1> HIDE DEF h
  <1>2. IsFiniteSet(A) /\ \A x \in A : f[x] \in Int
    BY FS_Subset
  <1>3. Unfolds(h, f, A)
    BY <1>1, <1>2, AdditiveUnfolds
  <1>4. Unfolds(CHOOSE k : Unfolds(k, f, A), f, A)
    BY <1>3
  <1>5. (CHOOSE k : Unfolds(k, f, A))[A] = h[A]
    BY <1>2, <1>3, <1>4, UnfoldsUnique
  <1>6. h[A] = g[A]
    BY DEF h
  <1> QED
    BY <1>5, <1>6, SumUnfold

-----------------------------------------------------------------------------
(* What the other proofs use.                                              *)

\* A sum of integers is an integer.
LEMMA SumInt ==
    ASSUME NEW f, NEW S, IsFiniteSet(S), \A x \in S : f[x] \in Int
    PROVE  SumFunctionOnSet(f, S) \in Int
  <1>1. PICK g : Additive(g, f, S)
    BY AdditiveExists
  <1>2. SumFunctionOnSet(f, S) = g[S]
    BY <1>1, SumIs
  <1> QED
    BY <1>1, <1>2 DEF Additive

\* Nothing sums to zero.
LEMMA SumEmpty ==
    ASSUME NEW f
    PROVE  SumFunctionOnSet(f, {}) = 0
  <1>1. IsFiniteSet({})
    BY FS_EmptySet
  <1>2. PICK g : Additive(g, f, {})
    BY <1>1, AdditiveExists
  <1>3. SumFunctionOnSet(f, {}) = g[{}]
    BY <1>1, <1>2, SumIs
  <1> QED
    BY <1>2, <1>3 DEF Additive

\* One more element adds its value.
LEMMA SumAdd ==
    ASSUME NEW f, NEW S, IsFiniteSet(S), NEW x, x \notin S,
           \A y \in S \cup {x} : f[y] \in Int
    PROVE  SumFunctionOnSet(f, S \cup {x}) = SumFunctionOnSet(f, S) + f[x]
  <1>1. IsFiniteSet(S \cup {x})
    BY FS_AddElement
  <1>2. PICK g : Additive(g, f, S \cup {x})
    BY <1>1, AdditiveExists
  <1>3. S \in SUBSET (S \cup {x}) /\ x \in (S \cup {x}) \ S
    OBVIOUS
  <1>4. g[S \cup {x}] = g[S] + f[x]
    BY <1>2, <1>3 DEF Additive
  <1>5. SumFunctionOnSet(f, S) = g[S]
    BY <1>1, <1>2, <1>3, SumIs
  <1>6. SumFunctionOnSet(f, S \cup {x}) = g[S \cup {x}]
    BY <1>1, <1>2, SumIs
  <1> QED
    BY <1>4, <1>5, <1>6

\* Only the values on the set matter.
LEMMA SumSame ==
    ASSUME NEW f, NEW g, NEW S, IsFiniteSet(S),
           \A x \in S : f[x] \in Int /\ g[x] = f[x]
    PROVE  SumFunctionOnSet(g, S) = SumFunctionOnSet(f, S)
  <1>1. PICK h : Additive(h, f, S)
    BY AdditiveExists
  <1>2. Additive(h, g, S)
    BY <1>1 DEF Additive
  <1> QED
    BY <1>1, <1>2, SumIs

\* Zeros sum to zero.
LEMMA SumZero ==
    ASSUME NEW f, NEW S, IsFiniteSet(S), \A x \in S : f[x] = 0
    PROVE  SumFunctionOnSet(f, S) = 0
  <1> DEFINE g == [A \in SUBSET S |-> 0]
  <1>1. Additive(g, f, S)
    BY DEF Additive
  <1> HIDE DEF g
  <1>2. SumFunctionOnSet(f, S) = g[S]
    BY <1>1, SumIs
  <1> QED
    BY <1>2 DEF g

\* A change of one value changes the sum by as much.
LEMMA SumChange ==
    ASSUME NEW f, NEW g, NEW S, IsFiniteSet(S), NEW x \in S,
           \A y \in S : f[y] \in Int /\ g[y] \in Int,
           \A y \in S \ {x} : g[y] = f[y]
    PROVE  SumFunctionOnSet(g, S) = SumFunctionOnSet(f, S) + g[x] - f[x]
  <1> DEFINE R == S \ {x}
  <1>1. IsFiniteSet(R) /\ R \cup {x} = S /\ x \notin R
    BY FS_RemoveElement
  <1>2. SumFunctionOnSet(g, R) = SumFunctionOnSet(f, R)
    BY <1>1, SumSame
  <1> HIDE DEF R
  <1>3. SumFunctionOnSet(g, S) = SumFunctionOnSet(g, R) + g[x]
    BY <1>1, SumAdd
  <1>4. SumFunctionOnSet(f, S) = SumFunctionOnSet(f, R) + f[x]
    BY <1>1, SumAdd
  <1>5. SumFunctionOnSet(f, R) \in Int
    BY <1>1, SumInt
  <1> QED
    BY <1>2, <1>3, <1>4, <1>5

\* Smaller values have a smaller sum.
LEMMA SumMonotone ==
    ASSUME NEW f, NEW g, NEW S, IsFiniteSet(S),
           \A x \in S : f[x] \in Int /\ g[x] \in Int /\ f[x] <= g[x]
    PROVE  SumFunctionOnSet(f, S) <= SumFunctionOnSet(g, S)
  <1> DEFINE Bad == {A \in SUBSET S : ~(SumFunctionOnSet(f, A) <= SumFunctionOnSet(g, A))}
  <1> SUFFICES ASSUME Bad # {} PROVE FALSE
    OBVIOUS
  <1>1. PICK A \in Bad : \A B \in Bad : ~(B \subseteq A /\ B # A)
    <2>1. Bad \in SUBSET SUBSET S
      OBVIOUS
    <2> HIDE DEF Bad
    <2> QED
      BY <2>1, Smallest
  <1>2. A # {}
    <2>1. SumFunctionOnSet(f, {}) = 0 /\ SumFunctionOnSet(g, {}) = 0
      BY SumEmpty
    <2> SUFFICES ASSUME A = {} PROVE FALSE
      OBVIOUS
    <2> QED
      BY <1>1, <2>1
  <1>3. PICK x \in A : TRUE
    BY <1>2
  <1> DEFINE R == A \ {x}
  <1>4. R \in SUBSET S /\ IsFiniteSet(R) /\ R \cup {x} = A /\ x \notin R /\ x \in S
    BY FS_Subset
  <1>5. SumFunctionOnSet(f, R) <= SumFunctionOnSet(g, R)
    BY <1>1, <1>4
  <1> HIDE DEF R
  <1>6. /\ SumFunctionOnSet(f, A) = SumFunctionOnSet(f, R) + f[x]
        /\ SumFunctionOnSet(g, A) = SumFunctionOnSet(g, R) + g[x]
    BY <1>4, SumAdd
  <1>7. SumFunctionOnSet(f, R) \in Int /\ SumFunctionOnSet(g, R) \in Int
    BY <1>4, SumInt
  <1>8. f[x] \in Int /\ g[x] \in Int /\ f[x] <= g[x]
    BY <1>4
  <1>9. SumFunctionOnSet(f, A) <= SumFunctionOnSet(g, A)
    BY <1>5, <1>6, <1>7, <1>8
  <1> QED
    BY <1>1, <1>9
=============================================================================
