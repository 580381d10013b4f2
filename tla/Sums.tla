--------------------------------- MODULE Sums ----------------------------------
(***************************************************************************)
(* What MapThenFoldSet computes when it adds up: the sum of w over S is    *)
(* the value at S of a function defined by recursion over the subsets of   *)
(* S, which takes out an arbitrary element at a time.  For a finite S that *)
(* function exists, and the order of the elements does not matter.  The    *)
(* induction is over a set of subsets, so that it needs no operator as a   *)
(* parameter.                                                              *)
(***************************************************************************)
EXTENDS Integers, FiniteSetTheorems, TLAPS

Pick(S) == CHOOSE x \in S : TRUE

Rest(S) == S \ {Pick(S)}

\* The function it, unfolded once.
Unfolded(w, it, S) ==
  [s \in SUBSET S |-> IF s = {} THEN 0 ELSE w[Pick(s)] + it[Rest(s)]]

Folded(w, S) == CHOOSE it : it = Unfolded(w, it, S)

SumOf(w, S) == Folded(w, S)[S]

Weights(w, S) == \A x \in S : w[x] \in Nat

--------------------------------------------------------------------------------
\* Induction over the subsets of a finite set, for the set of the good ones.
LEMMA SubsetInduction ==
  ASSUME NEW S, IsFiniteSet(S), NEW good,
         \A T \in SUBSET S : (\A U \in SUBSET T : U # T => U \in good) => T \in good
  PROVE  \A T \in SUBSET S : T \in good
<1> DEFINE bad == {T \in SUBSET S : T \notin good}
<1> SUFFICES ASSUME bad # {} PROVE FALSE
  OBVIOUS
<1>1. IsWellFoundedOn(StrictSubsetOrdering(S), FiniteSubsetsOf(S))
  BY FS_StrictSubsetOrderingWellFounded
<1>2. FiniteSubsetsOf(S) = SUBSET S
  BY FS_FiniteSubsetsOfFinite
<1>3. PICK T \in bad : \A U \in bad : ~ (<<U, T>> \in StrictSubsetOrdering(S))
  <2>1. bad \subseteq FiniteSubsetsOf(S)
    BY <1>2
  <2> HIDE DEF bad
  <2> QED BY <1>1, <2>1, WFMin
<1>4. \A U \in SUBSET T : U # T => U \in good
  BY <1>3 DEF StrictSubsetOrdering
<1> QED BY <1>3, <1>4

LEMMA PickIn ==
  ASSUME NEW S, S # {}
  PROVE  Pick(S) \in S /\ Rest(S) \in SUBSET S /\ Rest(S) # S
BY DEF Pick, Rest

\* Two functions that satisfy the recursion agree where both are defined.
LEMMA FoldsAgree ==
  ASSUME NEW w, NEW S, NEW T, IsFiniteSet(S), NEW f, NEW g,
         f = Unfolded(w, f, S), g = Unfolded(w, g, T)
  PROVE  \A s \in SUBSET S : s \in SUBSET T => f[s] = g[s]
<1> DEFINE good == {s \in SUBSET S : s \in SUBSET T => f[s] = g[s]}
<1>1. ASSUME NEW s \in SUBSET S, \A u \in SUBSET s : u # s => u \in good PROVE s \in good
  <2> SUFFICES ASSUME s \in SUBSET T PROVE f[s] = g[s]
    OBVIOUS
  <2>1. /\ f[s] = IF s = {} THEN 0 ELSE w[Pick(s)] + f[Rest(s)]
        /\ g[s] = IF s = {} THEN 0 ELSE w[Pick(s)] + g[Rest(s)]
    BY DEF Unfolded
  <2>2. s # {} => f[Rest(s)] = g[Rest(s)]
    BY <1>1, PickIn
  <2> QED BY <2>1, <2>2
<1>2. \A s \in SUBSET S : s \in good
  <2> HIDE DEF good
  <2> QED BY <1>1, SubsetInduction
<1> QED BY <1>2

\* The recursion has a solution over every finite set: put together from the
\* solutions over the smaller ones.
LEMMA FoldExists ==
  ASSUME NEW w, NEW S, IsFiniteSet(S)
  PROVE  \A T \in SUBSET S : Folded(w, T) = Unfolded(w, Folded(w, T), T)
<1> DEFINE good == {T \in SUBSET S : Folded(w, T) = Unfolded(w, Folded(w, T), T)}
<1>1. ASSUME NEW T \in SUBSET S, \A U \in SUBSET T : U # T => U \in good PROVE T \in good
  <2> DEFINE f == [s \in SUBSET T |-> IF s = {} THEN 0 ELSE w[Pick(s)] + SumOf(w, Rest(s))]
  <2>1. ASSUME NEW u \in SUBSET T, u # T PROVE f[u] = SumOf(w, u)
    <3>1. Folded(w, u) = Unfolded(w, Folded(w, u), u)
      BY <1>1, <2>1
    <3>2. Folded(w, u)[u] = IF u = {} THEN 0 ELSE w[Pick(u)] + Folded(w, u)[Rest(u)]
      BY <3>1 DEF Unfolded
    <3>3. ASSUME u # {} PROVE Folded(w, u)[Rest(u)] = Folded(w, Rest(u))[Rest(u)]
      <4>1. Rest(u) \in SUBSET u /\ Rest(u) \in SUBSET T /\ Rest(u) # T
        BY <3>3, PickIn
      <4>2. Folded(w, Rest(u)) = Unfolded(w, Folded(w, Rest(u)), Rest(u))
        BY <1>1, <4>1
      <4>3. IsFiniteSet(u)
        BY FS_Subset
      <4> QED BY <3>1, <4>1, <4>2, <4>3, FoldsAgree
    <3> QED BY <3>2, <3>3 DEF SumOf
  <2>2. \A s \in SUBSET T : s # {} => f[Rest(s)] = SumOf(w, Rest(s))
    <3> HIDE DEF f
    <3> QED BY <2>1, PickIn
  <2>3. f = Unfolded(w, f, T)
    BY <2>2 DEF Unfolded
  <2> QED BY <2>3 DEF Folded
<1>2. \A T \in SUBSET S : T \in good
  <2> HIDE DEF good
  <2> QED BY <1>1, SubsetInduction
<1> QED BY <1>2

LEMMA SumUnfolds ==
  ASSUME NEW w, NEW S, IsFiniteSet(S)
  PROVE  SumOf(w, S) = IF S = {} THEN 0 ELSE w[Pick(S)] + SumOf(w, Rest(S))
<1>1. Folded(w, S) = Unfolded(w, Folded(w, S), S)
  BY FoldExists
<1>2. Folded(w, S)[S] = IF S = {} THEN 0 ELSE w[Pick(S)] + Folded(w, S)[Rest(S)]
  BY <1>1 DEF Unfolded
<1>3. ASSUME S # {} PROVE Folded(w, S)[Rest(S)] = Folded(w, Rest(S))[Rest(S)]
  <2>1. Rest(S) \in SUBSET S
    BY <1>3, PickIn
  <2>2. Folded(w, Rest(S)) = Unfolded(w, Folded(w, Rest(S)), Rest(S))
    BY <2>1, FoldExists
  <2> QED BY <1>1, <2>1, <2>2, FoldsAgree
<1> QED BY <1>2, <1>3 DEF SumOf

--------------------------------------------------------------------------------
LEMMA SumType ==
  ASSUME NEW w, NEW S, IsFiniteSet(S), Weights(w, S)
  PROVE  SumOf(w, S) \in Nat
<1> DEFINE good == {T \in SUBSET S : SumOf(w, T) \in Nat}
<1>1. ASSUME NEW T \in SUBSET S, \A U \in SUBSET T : U # T => U \in good PROVE T \in good
  <2>1. IsFiniteSet(T)
    BY FS_Subset
  <2>2. SumOf(w, T) = IF T = {} THEN 0 ELSE w[Pick(T)] + SumOf(w, Rest(T))
    BY <2>1, SumUnfolds
  <2>3. T # {} => w[Pick(T)] \in Nat /\ SumOf(w, Rest(T)) \in Nat
    BY <1>1, PickIn DEF Weights
  <2> QED BY <2>2, <2>3
<1>2. \A T \in SUBSET S : T \in good
  <2> HIDE DEF good
  <2> QED BY <1>1, SubsetInduction
<1> QED BY <1>2

\* Any element may be taken out first, also of a part.
LEMMA SumTakesOutOfPart ==
  ASSUME NEW w, NEW S, IsFiniteSet(S), Weights(w, S)
  PROVE  \A T \in SUBSET S : \A x \in T : SumOf(w, T) = w[x] + SumOf(w, T \ {x})
<1> DEFINE good == {T \in SUBSET S : \A x \in T : SumOf(w, T) = w[x] + SumOf(w, T \ {x})}
<1>1. ASSUME NEW T \in SUBSET S, \A U \in SUBSET T : U # T => U \in good PROVE T \in good
  <2> SUFFICES ASSUME NEW x \in T PROVE SumOf(w, T) = w[x] + SumOf(w, T \ {x})
    OBVIOUS
  <2> DEFINE p == Pick(T)
  <2>1. p \in T
    BY PickIn
  <2>2. SumOf(w, T) = w[p] + SumOf(w, T \ {p})
    <3>1. IsFiniteSet(T)
      BY FS_Subset
    <3> QED BY <3>1, SumUnfolds DEF Rest
  <2>3. CASE x = p
    BY <2>2, <2>3
  <2>4. CASE x # p
    <3>1. SumOf(w, T \ {p}) = w[x] + SumOf(w, (T \ {x}) \ {p})
      <4>1. SumOf(w, T \ {p}) = w[x] + SumOf(w, (T \ {p}) \ {x})
        BY <1>1, <2>1, <2>4
      <4>2. (T \ {p}) \ {x} = (T \ {x}) \ {p}
        OBVIOUS
      <4> QED BY <4>1, <4>2
    <3>2. SumOf(w, T \ {x}) = w[p] + SumOf(w, (T \ {x}) \ {p})
      BY <1>1, <2>1, <2>4
    <3>3. w[p] \in Nat /\ w[x] \in Nat
      BY <2>1 DEF Weights
    <3>4. SumOf(w, (T \ {x}) \ {p}) \in Nat
      <4>1. IsFiniteSet((T \ {x}) \ {p}) /\ Weights(w, (T \ {x}) \ {p})
        BY FS_Subset DEF Weights
      <4> QED BY <4>1, SumType
    <3> HIDE DEF p, good
    <3> QED BY <2>2, <3>1, <3>2, <3>3, <3>4
  <2> QED BY <2>3, <2>4
<1>2. \A T \in SUBSET S : T \in good
  <2> HIDE DEF good
  <2> QED BY <1>1, SubsetInduction
<1> QED BY <1>2

LEMMA SumTakesOut ==
  ASSUME NEW w, NEW S, IsFiniteSet(S), Weights(w, S), NEW x \in S
  PROVE  SumOf(w, S) = w[x] + SumOf(w, S \ {x})
<1>1. S \in SUBSET S
  OBVIOUS
<1> QED BY <1>1, SumTakesOutOfPart

LEMMA SumOfNothing == \A w : SumOf(w, {}) = 0
BY FS_EmptySet, SumUnfolds

\* What an element contributes to the part of a set that lies in A.
LEMMA SumCut ==
  ASSUME NEW w, NEW T, IsFiniteSet(T), Weights(w, T), NEW x \in T, NEW A
  PROVE  /\ x \in A => SumOf(w, T \cap A) = w[x] + SumOf(w, (T \ {x}) \cap A)
         /\ x \notin A => SumOf(w, T \cap A) = SumOf(w, (T \ {x}) \cap A)
         /\ SumOf(w, (T \ {x}) \cap A) \in Nat
<1>1. /\ IsFiniteSet(T \cap A) /\ Weights(w, T \cap A)
      /\ IsFiniteSet((T \ {x}) \cap A) /\ Weights(w, (T \ {x}) \cap A)
  BY FS_Subset DEF Weights
<1>2. SumOf(w, (T \ {x}) \cap A) \in Nat
  BY <1>1, SumType
<1>3. ASSUME x \in A PROVE SumOf(w, T \cap A) = w[x] + SumOf(w, (T \ {x}) \cap A)
  <2>1. (T \cap A) \ {x} = (T \ {x}) \cap A
    OBVIOUS
  <2>2. SumOf(w, T \cap A) = w[x] + SumOf(w, (T \cap A) \ {x})
    BY <1>1, <1>3, SumTakesOut
  <2> QED BY <2>1, <2>2
<1>4. ASSUME x \notin A PROVE SumOf(w, T \cap A) = SumOf(w, (T \ {x}) \cap A)
  <2>1. T \cap A = (T \ {x}) \cap A
    BY <1>4
  <2> QED BY <2>1
<1> QED BY <1>2, <1>3, <1>4

\* A part of a set sums up to no more than the set, and a union to no more than
\* its two parts together.
LEMMA SumOfPart ==
  ASSUME NEW w, NEW S, IsFiniteSet(S), Weights(w, S), NEW A \in SUBSET S
  PROVE  SumOf(w, A) =< SumOf(w, S)
<1> DEFINE good == {T \in SUBSET S : SumOf(w, T \cap A) =< SumOf(w, T)}
<1>1. ASSUME NEW T \in SUBSET S, \A U \in SUBSET T : U # T => U \in good PROVE T \in good
  <2> SUFFICES SumOf(w, T \cap A) =< SumOf(w, T)
    OBVIOUS
  <2>1. CASE T = {}
    <3>1. T \cap A = T
      BY <2>1
    <3>2. SumOf(w, T) = 0
      BY <2>1, SumOfNothing
    <3> QED BY <3>1, <3>2
  <2>2. ASSUME NEW x \in T PROVE SumOf(w, T \cap A) =< SumOf(w, T)
    <3>1. IsFiniteSet(T) /\ Weights(w, T) /\ w[x] \in Nat
      BY FS_Subset DEF Weights
    <3>2. SumOf(w, (T \ {x}) \cap A) =< SumOf(w, T \ {x})
      BY <1>1
    <3>3. /\ x \in A => SumOf(w, T \cap A) = w[x] + SumOf(w, (T \ {x}) \cap A)
          /\ x \notin A => SumOf(w, T \cap A) = SumOf(w, (T \ {x}) \cap A)
          /\ SumOf(w, (T \ {x}) \cap A) \in Nat
      BY <3>1, SumCut
    <3>4. SumOf(w, T) = w[x] + SumOf(w, T \ {x})
      BY <3>1, SumTakesOut
    <3>5. SumOf(w, T \ {x}) \in Nat
      <4>1. IsFiniteSet(T \ {x}) /\ Weights(w, T \ {x})
        BY <3>1, FS_Subset DEF Weights
      <4> QED BY <4>1, SumType
    <3> HIDE DEF good
    <3> QED BY <3>1, <3>2, <3>3, <3>4, <3>5
  <2> QED BY <2>1, <2>2
<1>2. \A T \in SUBSET S : T \in good
  <2> HIDE DEF good
  <2> QED BY <1>1, SubsetInduction
<1>3. S \cap A = A
  OBVIOUS
<1>4. SumOf(w, S \cap A) =< SumOf(w, S)
  BY <1>2
<1> QED BY <1>3, <1>4

LEMMA SumOfUnion ==
  ASSUME NEW w, NEW S, IsFiniteSet(S), Weights(w, S), NEW A \in SUBSET S, NEW B \in SUBSET S,
         \A x \in S : x \in A \/ x \in B
  PROVE  SumOf(w, S) =< SumOf(w, A) + SumOf(w, B)
<1> DEFINE good == {T \in SUBSET S : SumOf(w, T) =< SumOf(w, T \cap A) + SumOf(w, T \cap B)}
<1>1. ASSUME NEW T \in SUBSET S, \A U \in SUBSET T : U # T => U \in good PROVE T \in good
  <2> SUFFICES SumOf(w, T) =< SumOf(w, T \cap A) + SumOf(w, T \cap B)
    OBVIOUS
  <2>1. CASE T = {}
    <3>1. T \cap A = T /\ T \cap B = T
      BY <2>1
    <3>2. SumOf(w, T) = 0
      BY <2>1, SumOfNothing
    <3> QED BY <3>1, <3>2
  <2>2. ASSUME NEW x \in T PROVE SumOf(w, T) =< SumOf(w, T \cap A) + SumOf(w, T \cap B)
    <3>1. IsFiniteSet(T) /\ Weights(w, T) /\ w[x] \in Nat
      BY FS_Subset DEF Weights
    <3>2. SumOf(w, T \ {x}) =< SumOf(w, (T \ {x}) \cap A) + SumOf(w, (T \ {x}) \cap B)
      BY <1>1
    <3>3. /\ x \in A => SumOf(w, T \cap A) = w[x] + SumOf(w, (T \ {x}) \cap A)
          /\ x \notin A => SumOf(w, T \cap A) = SumOf(w, (T \ {x}) \cap A)
          /\ SumOf(w, (T \ {x}) \cap A) \in Nat
      BY <3>1, SumCut
    <3>4. /\ x \in B => SumOf(w, T \cap B) = w[x] + SumOf(w, (T \ {x}) \cap B)
          /\ x \notin B => SumOf(w, T \cap B) = SumOf(w, (T \ {x}) \cap B)
          /\ SumOf(w, (T \ {x}) \cap B) \in Nat
      BY <3>1, SumCut
    <3>5. SumOf(w, T) = w[x] + SumOf(w, T \ {x})
      BY <3>1, SumTakesOut
    <3>6. SumOf(w, T \ {x}) \in Nat
      <4>1. IsFiniteSet(T \ {x}) /\ Weights(w, T \ {x})
        BY <3>1, FS_Subset DEF Weights
      <4> QED BY <4>1, SumType
    <3>7. x \in A \/ x \in B
      OBVIOUS
    <3> HIDE DEF good
    <3> QED BY <3>1, <3>2, <3>3, <3>4, <3>5, <3>6, <3>7
  <2> QED BY <2>1, <2>2
<1>2. \A T \in SUBSET S : T \in good
  <2> HIDE DEF good
  <2> QED BY <1>1, SubsetInduction
<1>3. S \cap A = A /\ S \cap B = B
  OBVIOUS
<1>4. SumOf(w, S) =< SumOf(w, S \cap A) + SumOf(w, S \cap B)
  BY <1>2
<1> QED BY <1>3, <1>4

\* Heavier elements have the heavier sum; equal ones the same.
LEMMA SumIsMonotone ==
  ASSUME NEW w, NEW v, NEW S, IsFiniteSet(S), Weights(w, S), Weights(v, S),
         \A x \in S : w[x] =< v[x]
  PROVE  SumOf(w, S) =< SumOf(v, S)
<1> DEFINE good == {T \in SUBSET S : SumOf(w, T) =< SumOf(v, T)}
<1>1. ASSUME NEW T \in SUBSET S, \A U \in SUBSET T : U # T => U \in good PROVE T \in good
  <2>1. IsFiniteSet(T)
    BY FS_Subset
  <2>2. /\ SumOf(w, T) = IF T = {} THEN 0 ELSE w[Pick(T)] + SumOf(w, Rest(T))
        /\ SumOf(v, T) = IF T = {} THEN 0 ELSE v[Pick(T)] + SumOf(v, Rest(T))
    BY <2>1, SumUnfolds
  <2>3. ASSUME T # {}
        PROVE  /\ w[Pick(T)] =< v[Pick(T)]
               /\ w[Pick(T)] \in Nat /\ v[Pick(T)] \in Nat
               /\ SumOf(w, Rest(T)) =< SumOf(v, Rest(T))
               /\ SumOf(w, Rest(T)) \in Nat /\ SumOf(v, Rest(T)) \in Nat
    <3>1. Pick(T) \in S /\ Rest(T) \in SUBSET T /\ Rest(T) # T
      BY <2>3, PickIn
    <3>2. IsFiniteSet(Rest(T)) /\ Weights(w, Rest(T)) /\ Weights(v, Rest(T))
      BY <2>1, <3>1, FS_Subset DEF Weights
    <3> QED BY <1>1, <3>1, <3>2, SumType DEF Weights
  <2> QED BY <2>2, <2>3
<1>2. \A T \in SUBSET S : T \in good
  <2> HIDE DEF good
  <2> QED BY <1>1, SubsetInduction
<1> QED BY <1>2

LEMMA SumOfSame ==
  ASSUME NEW w, NEW v, NEW S, IsFiniteSet(S), Weights(w, S), \A x \in S : w[x] = v[x]
  PROVE  SumOf(w, S) = SumOf(v, S)
<1>1. Weights(v, S) /\ \A x \in S : w[x] =< v[x] /\ v[x] =< w[x]
  BY DEF Weights
<1>2. SumOf(w, S) =< SumOf(v, S) /\ SumOf(v, S) =< SumOf(w, S)
  BY <1>1, SumIsMonotone
<1>3. SumOf(w, S) \in Nat /\ SumOf(v, S) \in Nat
  BY <1>1, SumType
<1> QED BY <1>2, <1>3

\* Summing the images of an injection is summing its arguments.
LEMMA SumOfImages ==
  ASSUME NEW w, NEW S, IsFiniteSet(S), Weights(w, S), NEW g, NEW v,
         \A x, y \in S : g[x] = g[y] => x = y,
         \A x \in S : v[g[x]] = w[x]
  PROVE  /\ IsFiniteSet({g[x] : x \in S})
         /\ Weights(v, {g[x] : x \in S})
         /\ SumOf(v, {g[x] : x \in S}) = SumOf(w, S)
<1> DEFINE image(T) == {g[x] : x \in T}
           good == {T \in SUBSET S : IsFiniteSet(image(T)) /\ SumOf(v, image(T)) = SumOf(w, T)}
<1>1. \A T \in SUBSET S : Weights(v, image(T))
  BY DEF Weights
<1>2. ASSUME NEW T \in SUBSET S, \A U \in SUBSET T : U # T => U \in good PROVE T \in good
  <2>1. CASE T = {}
    <3>1. image(T) = {}
      BY <2>1
    <3>2. IsFiniteSet({}) /\ SumOf(v, {}) = 0 /\ SumOf(w, {}) = 0
      BY FS_EmptySet, SumOfNothing
    <3> QED BY <2>1, <3>1, <3>2
  <2>2. ASSUME NEW x \in T PROVE T \in good
    <3>1. IsFiniteSet(image(T \ {x})) /\ SumOf(v, image(T \ {x})) = SumOf(w, T \ {x})
      BY <1>2
    <3>2. image(T) = image(T \ {x}) \cup {g[x]} /\ g[x] \notin image(T \ {x})
      OBVIOUS
    <3>3. image(T) \ {g[x]} = image(T \ {x}) /\ g[x] \in image(T)
      BY <3>2
    <3>4. Weights(v, image(T))
      BY <1>1
    <3> HIDE DEF image, good
    <3>5. IsFiniteSet(image(T))
      <4>1. IsFiniteSet(image(T \ {x}) \cup {g[x]})
        BY <3>1, FS_AddElement
      <4> QED BY <3>2, <4>1
    <3>6. SumOf(v, image(T)) = v[g[x]] + SumOf(v, image(T \ {x}))
      <4>1. SumOf(v, image(T)) = v[g[x]] + SumOf(v, image(T) \ {g[x]})
        BY <3>3, <3>4, <3>5, SumTakesOut
      <4> QED BY <3>3, <4>1
    <3>7. SumOf(w, T) = w[x] + SumOf(w, T \ {x})
      BY SumTakesOutOfPart
    <3> QED BY <3>1, <3>5, <3>6, <3>7 DEF good
  <2> QED BY <2>1, <2>2
<1>3. \A T \in SUBSET S : T \in good
  <2> HIDE DEF good
  <2> QED BY <1>2, SubsetInduction
<1> QED BY <1>1, <1>3

\* What sets that overlap cover together sums up to no more than their sums.
LEMMA SumOfCover ==
  ASSUME NEW w, NEW S, IsFiniteSet(S), Weights(w, S),
         NEW Q, IsFiniteSet(Q), NEW A, \A q \in Q : A[q] \in SUBSET S
  PROVE  LET v == [q \in Q |-> SumOf(w, A[q])]
         IN  Weights(v, Q) /\ SumOf(w, UNION {A[q] : q \in Q}) =< SumOf(v, Q)
<1> DEFINE v == [q \in Q |-> SumOf(w, A[q])]
           cover(T) == UNION {A[q] : q \in T}
           good == {T \in SUBSET Q : SumOf(w, cover(T)) =< SumOf(v, T)}
<1>1. \A T \in SUBSET S : IsFiniteSet(T) /\ Weights(w, T) /\ SumOf(w, T) \in Nat
  <2>1. \A T \in SUBSET S : IsFiniteSet(T) /\ Weights(w, T)
    BY FS_Subset DEF Weights
  <2> QED BY <2>1, SumType
<1>2. Weights(v, Q)
  BY <1>1 DEF Weights
<1>3. ASSUME NEW T \in SUBSET Q, \A U \in SUBSET T : U # T => U \in good PROVE T \in good
  <2>1. CASE T = {}
    <3>1. cover(T) = {}
      BY <2>1
    <3>2. SumOf(w, {}) = 0 /\ SumOf(v, {}) = 0
      BY SumOfNothing
    <3> HIDE DEF cover, v
    <3> QED BY <2>1, <3>1, <3>2
  <2>2. ASSUME NEW q \in T PROVE T \in good
    <3>1. SumOf(w, cover(T \ {q})) =< SumOf(v, T \ {q})
      BY <1>3
    <3>2. /\ cover(T) = A[q] \cup cover(T \ {q})
          /\ A[q] \in SUBSET S /\ cover(T \ {q}) \in SUBSET S /\ cover(T) \in SUBSET S
      OBVIOUS
    <3>3. v[q] = SumOf(w, A[q])
      OBVIOUS
    <3> HIDE DEF cover, v, good
    <3>4. SumOf(w, cover(T)) =< SumOf(w, A[q]) + SumOf(w, cover(T \ {q}))
      BY <1>1, <3>2, SumOfUnion
    <3>5. SumOf(v, T) = v[q] + SumOf(v, T \ {q})
      BY <1>2, SumTakesOutOfPart
    <3>6. SumOf(v, T \ {q}) \in Nat
      <4>1. IsFiniteSet(T \ {q}) /\ Weights(v, T \ {q})
        BY <1>2, FS_Subset DEF Weights
      <4> QED BY <4>1, SumType
    <3>7. /\ SumOf(w, cover(T)) \in Nat /\ SumOf(w, A[q]) \in Nat
          /\ SumOf(w, cover(T \ {q})) \in Nat
      BY <1>1, <3>2
    <3>8. SumOf(w, cover(T)) =< SumOf(v, T)
      BY <3>1, <3>3, <3>4, <3>5, <3>6, <3>7
    <3> QED BY <3>8 DEF good
  <2> QED BY <2>1, <2>2
<1>4. \A T \in SUBSET Q : T \in good
  <2> HIDE DEF good
  <2> QED BY <1>3, SubsetInduction
<1> QED BY <1>2, <1>4
================================================================================
