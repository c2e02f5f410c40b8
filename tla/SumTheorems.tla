----------------------------- MODULE SumTheorems -----------------------------
(***************************************************************************)
(* What is summed by SumFunctionOnSet: the totals of points, of payouts    *)
(* and of counters that the models and their properties add up.  The sum   *)
(* is defined by a recursive function on the subsets of a finite set that  *)
(* takes one element away at a time; that there is such a function, and    *)
(* that the order does not matter, is proved here by the well-founded      *)
(* order of the subsets of a finite set.  The greatest of a finite set of  *)
(* numbers, by which sequences are folded, is found by the same induction. *)
(***************************************************************************)
EXTENDS Integers, Functions, FiniteSetsExt, FiniteSetTheorems,
        WellFoundedInduction, TLAPS

LOCAL Pick(s) == CHOOSE x \in s : TRUE

\* Adds up f over the subsets of T, one element after another.
LOCAL Adds(iter, f, T) ==
  iter = [s \in SUBSET T |->
            IF s = {} THEN 0 ELSE f[Pick(s)] + iter[s \ {Pick(s)}]]

\* Induction over the subsets of a finite set: a family of subsets that has
\* every set whose strict subsets it has is all of them.
LEMMA SubsetInduction ==
  ASSUME NEW S, IsFiniteSet(S), NEW G,
         \A T \in SUBSET S : (\A U \in SUBSET T : U # T => U \in G) => T \in G
  PROVE  \A T \in SUBSET S : T \in G
<1> DEFINE out == {T \in SUBSET S : T \notin G}
<1>1. SUFFICES ASSUME out # {} PROVE FALSE
  OBVIOUS
<1>2. IsWellFoundedOn(StrictSubsetOrdering(S), SUBSET S)
  BY FS_StrictSubsetOrderingWellFounded, FS_FiniteSubsetsOfFinite
<1>3. PICK T \in out : \A U \in out : <<U, T>> \notin StrictSubsetOrdering(S)
  <2> HIDE DEF out
  <2>1. out \subseteq SUBSET S
    BY DEF out
  <2> QED
    BY <1>1, <1>2, <2>1, WFMin
<1>4. \A U \in SUBSET T : U # T => U \in G
  BY <1>3 DEF StrictSubsetOrdering
<1> QED
  BY <1>3, <1>4

LEMMA PickIn ==
  ASSUME NEW s, s # {}
  PROVE  Pick(s) \in s
  BY DEF Pick

LEMMA PickIsFinite ==
  ASSUME NEW s, IsFiniteSet(s), NEW T \in SUBSET s
  PROVE  IsFiniteSet(T)
  BY FS_Subset

\* Two such functions agree where both are defined.
LEMMA AddsAgree ==
  ASSUME NEW S, IsFiniteSet(S), NEW f, NEW T \in SUBSET S, NEW V \in SUBSET S,
         NEW g, NEW h, Adds(g, f, T), Adds(h, f, V)
  PROVE  \A s \in SUBSET S : s \subseteq T /\ s \subseteq V => g[s] = h[s]
<1> DEFINE G == {s \in SUBSET S : s \subseteq T /\ s \subseteq V => g[s] = h[s]}
<1>1. ASSUME NEW s \in SUBSET S, \A u \in SUBSET s : u # s => u \in G,
             s \subseteq T, s \subseteq V
      PROVE  g[s] = h[s]
  <2>1. CASE s = {}
    BY <1>1, <2>1 DEF Adds
  <2>2. CASE s # {}
    <3>1. /\ g[s] = f[Pick(s)] + g[s \ {Pick(s)}]
          /\ h[s] = f[Pick(s)] + h[s \ {Pick(s)}]
      BY <1>1, <2>2 DEF Adds
    <3>2. s \ {Pick(s)} \in G
      BY <1>1, <2>2, PickIn
    <3> QED
      BY <1>1, <3>1, <3>2
  <2> QED
    BY <2>1, <2>2
<1>2. \A s \in SUBSET S : (\A u \in SUBSET s : u # s => u \in G) => s \in G
  BY <1>1
<1> HIDE DEF G
<1>3. \A s \in SUBSET S : s \in G
  BY <1>2, SubsetInduction
<1> QED
  BY <1>3 DEF G

\* The one on a set and the one on the set with an element less.
LEMMA AddsStep ==
  ASSUME NEW S, IsFiniteSet(S), NEW f, NEW U \in SUBSET S,
         NEW g, NEW h, Adds(g, f, U), U # {} => Adds(h, f, U \ {Pick(U)})
  PROVE  g[U] = IF U = {} THEN 0 ELSE f[Pick(U)] + h[U \ {Pick(U)}]
<1>1. CASE U = {}
  BY <1>1 DEF Adds
<1>2. CASE U # {}
  <2>1. PICK u : u = U \ {Pick(U)}
    OBVIOUS
  <2>2. u \in SUBSET S /\ u \subseteq U
    BY <2>1
  <2>3. g[u] = h[u]
    BY <1>2, <2>1, <2>2, AddsAgree
  <2>4. g[U] = f[Pick(U)] + g[u]
    BY <1>2, <2>1 DEF Adds
  <2> QED
    BY <1>2, <2>1, <2>3, <2>4
<1> QED
  BY <1>1, <1>2

\* There is one.
LEMMA AddsExists ==
  ASSUME NEW S, IsFiniteSet(S), NEW f
  PROVE  \A T \in SUBSET S : \E g : Adds(g, f, T)
<1> DEFINE G == {T \in SUBSET S : \E g : Adds(g, f, T)}
<1>1. ASSUME NEW T \in SUBSET S, \A U \in SUBSET T : U # T => U \in G
      PROVE  \E g : Adds(g, f, T)
  <2>1. PICK of : of = [U \in SUBSET T |-> CHOOSE g : Adds(g, f, U)]
    OBVIOUS
  <2>2. \A U \in SUBSET T : U # T => Adds(of[U], f, U)
    BY <1>1, <2>1
  <2>3. PICK all : all = [s \in SUBSET T |->
            IF s = {} THEN 0
            ELSE f[Pick(s)] + of[s \ {Pick(s)}][s \ {Pick(s)}]]
    OBVIOUS
  <2>4. ASSUME NEW U \in SUBSET T, U # T
        PROVE  all[U] = of[U][U]
    <3>1. U # {} => Adds(of[U \ {Pick(U)}], f, U \ {Pick(U)})
      <4>1. U # {} => U \ {Pick(U)} \in SUBSET T /\ U \ {Pick(U)} # T
        BY PickIn
      <4> QED
        BY <4>1, <2>2
    <3>2. U \in SUBSET S /\ Adds(of[U], f, U)
      BY <2>2, <2>4
    <3>3. of[U][U] = IF U = {} THEN 0
                     ELSE f[Pick(U)] + of[U \ {Pick(U)}][U \ {Pick(U)}]
      BY <3>1, <3>2, AddsStep
    <3>4. all[U] = IF U = {} THEN 0
                   ELSE f[Pick(U)] + of[U \ {Pick(U)}][U \ {Pick(U)}]
      BY <2>3
    <3> QED
      BY <3>3, <3>4
  <2>5. ASSUME NEW s \in SUBSET T, s # {}
        PROVE  all[s \ {Pick(s)}] = of[s \ {Pick(s)}][s \ {Pick(s)}]
    <3>1. s \ {Pick(s)} \in SUBSET T /\ s \ {Pick(s)} # T
      BY <2>5, PickIn
    <3> QED
      BY <3>1, <2>4
  <2>6. all = [s \in SUBSET T |->
                 IF s = {} THEN 0 ELSE f[Pick(s)] + all[s \ {Pick(s)}]]
    BY <2>3, <2>5
  <2> QED
    BY <2>6 DEF Adds
<1>2. \A T \in SUBSET S : (\A U \in SUBSET T : U # T => U \in G) => T \in G
  BY <1>1
<1> HIDE DEF G
<1>3. \A T \in SUBSET S : T \in G
  BY <1>2, SubsetInduction
<1> QED
  BY <1>3 DEF G

-----------------------------------------------------------------------------
LEMMA SumIsAdds ==
  ASSUME NEW S, IsFiniteSet(S), NEW f
  PROVE  \E iter : Adds(iter, f, S) /\ SumFunctionOnSet(f, S) = iter[S]
<1> DEFINE the == CHOOSE iter : Adds(iter, f, S)
<1>1. Adds(the, f, S)
  BY AddsExists
<1>2. SumFunctionOnSet(f, S) = the[S]
  BY DEF SumFunctionOnSet, FoldFunctionOnSet, MapThenFoldSet, Adds, Pick
<1> QED
  BY <1>1, <1>2

\* The sum of nothing.
THEOREM SumEmpty ==
  ASSUME NEW f
  PROVE  SumFunctionOnSet(f, {}) = 0
<1>1. PICK iter : Adds(iter, f, {}) /\ SumFunctionOnSet(f, {}) = iter[{}]
  BY FS_EmptySet, SumIsAdds
<1> QED
  BY <1>1 DEF Adds

LEMMA SumPick ==
  ASSUME NEW S, IsFiniteSet(S), NEW f, S # {}
  PROVE  SumFunctionOnSet(f, S)
           = f[Pick(S)] + SumFunctionOnSet(f, S \ {Pick(S)})
<1>1. PICK rest : rest = S \ {Pick(S)} /\ rest \in SUBSET S
  OBVIOUS
<1>2. IsFiniteSet(rest)
  BY <1>1, PickIsFinite
<1>3. PICK g : Adds(g, f, S) /\ SumFunctionOnSet(f, S) = g[S]
  BY SumIsAdds
<1>4. PICK h : Adds(h, f, rest) /\ SumFunctionOnSet(f, rest) = h[rest]
  BY <1>2, SumIsAdds
<1>5. g[S] = IF S = {} THEN 0 ELSE f[Pick(S)] + h[S \ {Pick(S)}]
  BY <1>1, <1>3, <1>4, AddsStep
<1> QED
  BY <1>1, <1>3, <1>4, <1>5

\* A sum of integers is one.
THEOREM SumInt ==
  ASSUME NEW S, IsFiniteSet(S), NEW f, \A x \in S : f[x] \in Int
  PROVE  SumFunctionOnSet(f, S) \in Int
<1> DEFINE G == {T \in SUBSET S : SumFunctionOnSet(f, T) \in Int}
<1>1. ASSUME NEW T \in SUBSET S, \A U \in SUBSET T : U # T => U \in G
      PROVE  T \in G
  <2>1. CASE T = {}
    BY <2>1, SumEmpty
  <2>2. CASE T # {}
    <3>1. Pick(T) \in T
      BY <2>2, PickIn
    <3>2. SumFunctionOnSet(f, T \ {Pick(T)}) \in Int
      BY <1>1, <3>1
    <3>3. SumFunctionOnSet(f, T)
            = f[Pick(T)] + SumFunctionOnSet(f, T \ {Pick(T)})
      BY <2>2, PickIsFinite, SumPick
    <3>4. f[Pick(T)] \in Int
      BY <3>1
    <3> QED
      BY <3>2, <3>3, <3>4
  <2> QED
    BY <2>1, <2>2
<1> HIDE DEF G
<1>2. \A T \in SUBSET S : T \in G
  BY <1>1, SubsetInduction
<1> QED
  BY <1>2 DEF G

\* The element that is taken away first does not matter.
THEOREM SumRemove ==
  ASSUME NEW S, IsFiniteSet(S), NEW f, \A x \in S : f[x] \in Int,
         NEW x \in S
  PROVE  SumFunctionOnSet(f, S) = f[x] + SumFunctionOnSet(f, S \ {x})
<1> DEFINE G == {T \in SUBSET S : \A y \in T :
                   SumFunctionOnSet(f, T) = f[y] + SumFunctionOnSet(f, T \ {y})}
<1>1. ASSUME NEW T \in SUBSET S, \A U \in SUBSET T : U # T => U \in G,
             NEW y \in T
      PROVE  SumFunctionOnSet(f, T) = f[y] + SumFunctionOnSet(f, T \ {y})
  <2>1. PICK p : p = Pick(T)
    OBVIOUS
  <2>2. p \in T
    BY <2>1, PickIn
  <2>3. SumFunctionOnSet(f, T) = f[p] + SumFunctionOnSet(f, T \ {p})
    BY <2>1, PickIsFinite, SumPick
  <2>4. CASE p = y
    BY <2>3, <2>4
  <2>5. CASE p # y
    <3>1. SumFunctionOnSet(f, T \ {p})
            = f[y] + SumFunctionOnSet(f, (T \ {p}) \ {y})
      BY <1>1, <2>2, <2>5
    <3>2. SumFunctionOnSet(f, T \ {y})
            = f[p] + SumFunctionOnSet(f, (T \ {y}) \ {p})
      BY <1>1, <2>2, <2>5
    <3>3. SumFunctionOnSet(f, (T \ {p}) \ {y})
            = SumFunctionOnSet(f, (T \ {y}) \ {p})
      <4>1. (T \ {p}) \ {y} = (T \ {y}) \ {p}
        OBVIOUS
      <4> QED
        BY <4>1
    <3>4. SumFunctionOnSet(f, (T \ {y}) \ {p}) \in Int
      <4>1. PICK R : R = (T \ {y}) \ {p}
        OBVIOUS
      <4>2. IsFiniteSet(R) /\ \A z \in R : f[z] \in Int
        BY <4>1, PickIsFinite
      <4> QED
        BY <4>1, <4>2, SumInt
    <3>5. f[p] \in Int /\ f[y] \in Int
      BY <2>2
    <3> QED
      BY <2>3, <3>1, <3>2, <3>3, <3>4, <3>5
  <2> QED
    BY <2>4, <2>5
<1>2. \A T \in SUBSET S : (\A U \in SUBSET T : U # T => U \in G) => T \in G
  BY <1>1
<1> HIDE DEF G
<1>3. \A T \in SUBSET S : T \in G
  BY <1>2, SubsetInduction
<1>4. S \in G
  BY <1>3
<1> QED
  BY <1>4 DEF G

\* Only what is summed matters.
THEOREM SumAgree ==
  ASSUME NEW S, IsFiniteSet(S), NEW f, NEW g, \A x \in S : f[x] = g[x]
  PROVE  SumFunctionOnSet(f, S) = SumFunctionOnSet(g, S)
<1> DEFINE G == {T \in SUBSET S :
                   SumFunctionOnSet(f, T) = SumFunctionOnSet(g, T)}
<1>1. ASSUME NEW T \in SUBSET S, \A U \in SUBSET T : U # T => U \in G
      PROVE  T \in G
  <2>1. CASE T = {}
    BY <2>1, SumEmpty
  <2>2. CASE T # {}
    <3>1. PICK p : p = Pick(T)
      OBVIOUS
    <3>2. p \in T /\ IsFiniteSet(T)
      BY <2>2, <3>1, PickIn, PickIsFinite
    <3>3. /\ SumFunctionOnSet(f, T) = f[p] + SumFunctionOnSet(f, T \ {p})
          /\ SumFunctionOnSet(g, T) = g[p] + SumFunctionOnSet(g, T \ {p})
      BY <2>2, <3>1, <3>2, SumPick
    <3>4. T \ {p} \in G
      BY <1>1, <3>2
    <3> QED
      BY <3>2, <3>3, <3>4
  <2> QED
    BY <2>1, <2>2
<1> HIDE DEF G
<1>2. \A T \in SUBSET S : T \in G
  BY <1>1, SubsetInduction
<1> QED
  BY <1>2 DEF G

\* The sum over two parts.
THEOREM SumUnion ==
  ASSUME NEW S, IsFiniteSet(S), NEW R, IsFiniteSet(R), R \cap S = {},
         NEW f, \A x \in R \cup S : f[x] \in Int
  PROVE  SumFunctionOnSet(f, R \cup S)
           = SumFunctionOnSet(f, R) + SumFunctionOnSet(f, S)
<1> DEFINE G == {T \in SUBSET S :
                   SumFunctionOnSet(f, R \cup T)
                     = SumFunctionOnSet(f, R) + SumFunctionOnSet(f, T)}
<1>0. SumFunctionOnSet(f, R) \in Int
  BY SumInt
<1>1. ASSUME NEW T \in SUBSET S, \A U \in SUBSET T : U # T => U \in G
      PROVE  T \in G
  <2>1. CASE T = {}
    <3>1. R \cup T = R
      BY <2>1
    <3> QED
      BY <1>0, <2>1, <3>1, SumEmpty
  <2>2. CASE T # {}
    <3>1. PICK p : p \in T
      BY <2>2
    <3>2. PICK V : V = T \ {p}
      OBVIOUS
    <3>3. PICK A : A = R \cup T
      OBVIOUS
    <3>4. A \ {p} = R \cup V /\ p \in A
      BY <3>1, <3>2, <3>3
    <3>5. IsFiniteSet(T) /\ IsFiniteSet(V) /\ IsFiniteSet(A)
      BY <3>2, <3>3, PickIsFinite, FS_Union
    <3>6. /\ \A x \in T : f[x] \in Int
          /\ \A x \in V : f[x] \in Int
          /\ \A x \in A : f[x] \in Int
      BY <3>2, <3>3
    <3>7. SumFunctionOnSet(f, T) = f[p] + SumFunctionOnSet(f, V)
      BY <3>1, <3>2, <3>5, <3>6, SumRemove
    <3>8. SumFunctionOnSet(f, A) = f[p] + SumFunctionOnSet(f, R \cup V)
      <4>1. SumFunctionOnSet(f, A) = f[p] + SumFunctionOnSet(f, A \ {p})
        BY <3>4, <3>5, <3>6, SumRemove
      <4> QED
        BY <3>4, <4>1
    <3>9. SumFunctionOnSet(f, R \cup V)
            = SumFunctionOnSet(f, R) + SumFunctionOnSet(f, V)
      BY <1>1, <3>1, <3>2
    <3>10. f[p] \in Int /\ SumFunctionOnSet(f, V) \in Int
      BY <3>1, <3>5, <3>6, SumInt
    <3>11. SumFunctionOnSet(f, A)
             = SumFunctionOnSet(f, R) + SumFunctionOnSet(f, T)
      BY <1>0, <3>7, <3>8, <3>9, <3>10
    <3> QED
      BY <3>3, <3>11
  <2> QED
    BY <2>1, <2>2
<1> HIDE DEF G
<1>2. \A T \in SUBSET S : T \in G
  BY <1>1, SubsetInduction
<1> QED
  BY <1>2 DEF G

\* What bounds every element, with a weight and a constant, bounds the sum.
THEOREM SumBound ==
  ASSUME NEW S, IsFiniteSet(S), NEW f, NEW g,
         \A x \in S : f[x] \in Int /\ g[x] \in Int,
         NEW a \in Int, NEW b \in Int, NEW c \in Int,
         \A x \in S : a * f[x] <= b * g[x] + c
  PROVE  a * SumFunctionOnSet(f, S)
           <= b * SumFunctionOnSet(g, S) + c * Cardinality(S)
<1> DEFINE G == {T \in SUBSET S :
                   a * SumFunctionOnSet(f, T)
                     <= b * SumFunctionOnSet(g, T) + c * Cardinality(T)}
<1>1. ASSUME NEW T \in SUBSET S, \A U \in SUBSET T : U # T => U \in G
      PROVE  T \in G
  <2>1. CASE T = {}
    BY <2>1, SumEmpty, FS_EmptySet
  <2>2. CASE T # {}
    <3>1. PICK p : p \in T
      BY <2>2
    <3>2. PICK V : V = T \ {p}
      OBVIOUS
    <3>3. IsFiniteSet(T) /\ IsFiniteSet(V)
      BY <3>2, PickIsFinite
    <3>4. /\ \A x \in T : f[x] \in Int /\ g[x] \in Int
          /\ \A x \in V : f[x] \in Int /\ g[x] \in Int
      BY <3>2
    <3>5. SumFunctionOnSet(f, T) = f[p] + SumFunctionOnSet(f, V)
      BY <3>1, <3>2, <3>3, <3>4, SumRemove
    <3>6. SumFunctionOnSet(g, T) = g[p] + SumFunctionOnSet(g, V)
      BY <3>1, <3>2, <3>3, <3>4, SumRemove
    <3>7. SumFunctionOnSet(f, V) \in Int /\ SumFunctionOnSet(g, V) \in Int
      BY <3>3, <3>4, SumInt
    <3>8. Cardinality(T) = Cardinality(V) + 1 /\ Cardinality(V) \in Nat
      BY <3>1, <3>2, <3>3, FS_RemoveElement, FS_CardinalityType
    <3>9. a * SumFunctionOnSet(f, V)
            <= b * SumFunctionOnSet(g, V) + c * Cardinality(V)
      BY <1>1, <3>1, <3>2
    <3>10. a * f[p] <= b * g[p] + c /\ f[p] \in Int /\ g[p] \in Int
      BY <3>1
    <3>11. \A x, y \in Int, k, l, m \in Int, n \in Nat :
             a * x <= b * y + c /\ a * k <= b * l + c * n
               => a * (x + k) <= b * (y + l) + c * (n + 1)
      OBVIOUS
    <3> QED
      BY <3>5, <3>6, <3>7, <3>8, <3>9, <3>10, <3>11
  <2> QED
    BY <2>1, <2>2
<1> HIDE DEF G
<1>2. \A T \in SUBSET S : T \in G
  BY <1>1, SubsetInduction
<1> QED
  BY <1>2 DEF G

\* A sum of naturals is one.
THEOREM SumNat ==
  ASSUME NEW S, IsFiniteSet(S), NEW f, \A x \in S : f[x] \in Nat
  PROVE  SumFunctionOnSet(f, S) \in Nat
<1>1. SumFunctionOnSet(f, S) \in Int
  BY SumInt
<1>2. Cardinality(S) \in Nat
  BY FS_CardinalityType
<1>3. PICK a \in Int, b \in Int : a = 0 /\ b = 1
  OBVIOUS
<1>4. \A x \in S : a * f[x] <= b * f[x] + a /\ f[x] \in Int
  BY <1>3
<1>5. a * SumFunctionOnSet(f, S)
        <= b * SumFunctionOnSet(f, S) + a * Cardinality(S)
  BY <1>4, SumBound
<1> QED
  BY <1>1, <1>2, <1>3, <1>5

\* Of naturals, a part sums up to no more than the whole, and to as much if
\* the rest is zero.
THEOREM SumPart ==
  ASSUME NEW S, IsFiniteSet(S), NEW T \in SUBSET S,
         NEW f, \A x \in S : f[x] \in Nat
  PROVE  /\ SumFunctionOnSet(f, T) <= SumFunctionOnSet(f, S)
         /\ (\A x \in S \ T : f[x] = 0)
              => SumFunctionOnSet(f, T) = SumFunctionOnSet(f, S)
<1>1. PICK R : R = S \ T
  OBVIOUS
<1>2. /\ IsFiniteSet(R) /\ IsFiniteSet(T)
      /\ T \cup R = S /\ T \cap R = {}
  BY <1>1, PickIsFinite
<1>3. /\ \A x \in R : f[x] \in Nat /\ f[x] \in Int
      /\ \A x \in T : f[x] \in Nat
      /\ \A x \in S : f[x] \in Int
  BY <1>1
<1>4. SumFunctionOnSet(f, S) = SumFunctionOnSet(f, T) + SumFunctionOnSet(f, R)
  BY <1>2, <1>3, SumUnion
<1>5. SumFunctionOnSet(f, T) \in Nat /\ SumFunctionOnSet(f, R) \in Nat
  BY <1>2, <1>3, SumNat
<1>6. ASSUME \A x \in R : f[x] = 0
      PROVE  SumFunctionOnSet(f, R) = 0
  <2>1. PICK a \in Int, b \in Int : a = 0 /\ b = 1
    OBVIOUS
  <2>2. \A x \in R : b * f[x] <= a * f[x] + a /\ f[x] \in Int
    BY <1>3, <1>6, <2>1
  <2>3. b * SumFunctionOnSet(f, R)
          <= a * SumFunctionOnSet(f, R) + a * Cardinality(R)
    BY <1>2, <2>2, SumBound
  <2>4. Cardinality(R) \in Nat
    BY <1>2, FS_CardinalityType
  <2> QED
    BY <1>5, <2>1, <2>3, <2>4
<1> QED
  BY <1>1, <1>4, <1>5, <1>6

\* Of naturals, none is more than the sum.
THEOREM SumMember ==
  ASSUME NEW S, IsFiniteSet(S), NEW f, \A x \in S : f[x] \in Nat, NEW x \in S
  PROVE  f[x] <= SumFunctionOnSet(f, S)
<1>1. PICK R : R = S \ {x}
  OBVIOUS
<1>2. IsFiniteSet(R) /\ \A y \in R : f[y] \in Nat
  BY <1>1, PickIsFinite
<1>3. SumFunctionOnSet(f, R) \in Nat
  BY <1>2, SumNat
<1>4. \A y \in S : f[y] \in Int
  OBVIOUS
<1>5. SumFunctionOnSet(f, S) = f[x] + SumFunctionOnSet(f, R)
  BY <1>1, <1>4, SumRemove
<1> QED
  BY <1>3, <1>5

\* A sum that changes at one place.
LEMMA SumGrows ==
  ASSUME NEW S, IsFiniteSet(S), NEW f, NEW g, NEW x \in S,
         \A y \in S : f[y] \in Int /\ g[y] \in Int,
         \A y \in S \ {x} : g[y] = f[y], NEW d \in Int, g[x] = f[x] + d
  PROVE  SumFunctionOnSet(g, S) = SumFunctionOnSet(f, S) + d
<1>1. PICK R : R = S \ {x}
  OBVIOUS
<1>2. IsFiniteSet(R) /\ R \in SUBSET S
  BY <1>1, FS_Subset
<1>3. SumFunctionOnSet(f, S) = f[x] + SumFunctionOnSet(f, R)
  BY <1>1, SumRemove
<1>4. SumFunctionOnSet(g, S) = g[x] + SumFunctionOnSet(g, R)
  BY <1>1, SumRemove
<1>5. SumFunctionOnSet(f, R) = SumFunctionOnSet(g, R)
  BY <1>1, <1>2, SumAgree
<1>6. SumFunctionOnSet(f, R) \in Int
  BY <1>1, <1>2, SumInt
<1> QED
  BY <1>3, <1>4, <1>5, <1>6

\* A sum of nothing but zeros.
LEMMA SumZero ==
  ASSUME NEW S, IsFiniteSet(S), NEW f, \A x \in S : f[x] = 0
  PROVE  SumFunctionOnSet(f, S) = 0
<1>1. SumFunctionOnSet(f, {}) = 0
  BY SumEmpty
<1>2. \A x \in S : f[x] \in Nat
  OBVIOUS
<1>3. {} \in SUBSET S /\ \A x \in S \ {} : f[x] = 0
  OBVIOUS
<1> QED
  BY <1>1, <1>2, <1>3, SumPart

-----------------------------------------------------------------------------
\* The greatest of a finite set of integers.
LEMMA MaxOfSet ==
  ASSUME NEW S \in SUBSET Int, IsFiniteSet(S), S # {}
  PROVE  Max(S) \in S /\ \A x \in S : x <= Max(S)
<1> DEFINE G == {T \in SUBSET S : T # {} => \E m \in T : \A x \in T : m >= x}
<1>1. ASSUME NEW T \in SUBSET S, \A U \in SUBSET T : U # T => U \in G,
             T # {}
      PROVE  \E m \in T : \A x \in T : m >= x
  <2>1. PICK p \in T : TRUE
    BY <1>1
  <2>2. PICK U : U = T \ {p}
    OBVIOUS
  <2>3. U \in G
    BY <1>1, <2>1, <2>2
  <2>4. CASE U = {}
    BY <2>2, <2>4
  <2>5. CASE U # {}
    <3>1. PICK m \in U : \A x \in U : m >= x
      BY <2>3, <2>5
    <3>2. CASE m >= p
      BY <2>2, <3>1, <3>2
    <3>3. CASE p >= m
      <4>1. \A x \in T : p >= x
        BY <2>2, <3>1, <3>3
      <4> QED
        BY <4>1
    <3> QED
      BY <2>2, <3>1, <3>2, <3>3
  <2> QED
    BY <2>4, <2>5
<1>2. \A T \in SUBSET S : (\A U \in SUBSET T : U # T => U \in G) => T \in G
  BY <1>1
<1> HIDE DEF G
<1>3. S \in G
  BY <1>2, SubsetInduction
<1>4. \E m \in S : \A x \in S : m >= x
  BY <1>3 DEF G
<1> QED
  BY <1>4 DEF Max

\* It is in each part of the set that is not empty.
LEMMA LastIn ==
  ASSUME NEW S \in SUBSET Int, IsFiniteSet(S), NEW s \in SUBSET S, s # {}
  PROVE  Max(s) \in s
<1>1. s \in SUBSET Int /\ IsFiniteSet(s)
  BY FS_Subset
<1> QED
  BY <1>1, MaxOfSet

\* The first n numbers.
LEMMA FirstAreFinite ==
  ASSUME NEW n \in Nat, NEW X, X = 1..n
  PROVE  X \in SUBSET Int /\ IsFiniteSet(X)
<1>1. n \in Int /\ 1 \in Int
  OBVIOUS
<1>2. IsFiniteSet(1..n)
  BY ONLY <1>1, FS_Interval
<1>3. 1..n \in SUBSET Int
  OBVIOUS
<1> QED
  BY <1>2, <1>3
=============================================================================
