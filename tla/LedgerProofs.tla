------------------------------ MODULE LedgerProofs ------------------------------
(***************************************************************************)
(* Theorems about Ledger: what the queries of store.py add up, for every   *)
(* number of events and outcomes, every cost and every window.             *)
(*                                                                         *)
(* The library defines a sum by recursion over the subsets of a set.  What *)
(* holds of all finite sets is proved by well-foundedness: the strict      *)
(* subsets of a finite set are well-founded, so a set of counterexamples   *)
(* would have a minimal one (SubsetInduction).                             *)
(***************************************************************************)
EXTENDS Ledger, FiniteSetTheorems, TLAPS

-----------------------------------------------------------------------------
(* Strong induction over the subsets of a finite set.                      *)
LEMMA SubsetInduction ==
  ASSUME NEW S, IsFiniteSet(S), NEW C,
         \A T \in SUBSET S : (\A U \in SUBSET T : U # T => U \in C) => T \in C
  PROVE  SUBSET S \subseteq C
<1> SUFFICES ASSUME ~ SUBSET S \subseteq C
             PROVE  FALSE
  OBVIOUS
<1> DEFINE Missing == {T \in SUBSET S : T \notin C}
           R == StrictSubsetOrdering(S)
<1>1. Missing \subseteq FiniteSubsetsOf(S) /\ Missing # {}
  BY FS_FiniteSubsetsOfFinite
<1>2. IsWellFoundedOn(R, FiniteSubsetsOf(S))
  BY FS_StrictSubsetOrderingWellFounded
<1> HIDE DEF Missing, R
<1>3. PICK T \in Missing : \A U \in Missing : ~ (<<U, T>> \in R)
  BY <1>1, <1>2, WFMin
<1>4. ASSUME NEW U \in SUBSET T, U # T
      PROVE  U \in C
  <2>1. T \in SUBSET S /\ U \in SUBSET S
    BY DEF Missing
  <2>2. <<U, T>> \in R
    BY <1>4, <2>1 DEF R, StrictSubsetOrdering
  <2> QED  BY <1>3, <2>1, <2>2 DEF Missing
<1> QED  BY <1>4 DEF Missing

-----------------------------------------------------------------------------
\* The member the library's CHOOSE takes out of s.
Some(s) == CHOOSE x \in s : TRUE

\* iter solves the library's recursion for f over the subsets of S.
Sums(f, S, iter) ==
  iter = [s \in SUBSET S |-> IF s = {} THEN 0 ELSE f[Some(s)] + iter[s \ {Some(s)}]]

Iter(f, S) == CHOOSE iter : Sums(f, S, iter)

(* The library's sum is the last value of its recursion over subsets.      *)
LEMMA SumIsIter ==
  ASSUME NEW f, NEW S
  PROVE  SumFunctionOnSet(f, S) = Iter(f, S)[S]
BY DEF SumFunctionOnSet, FoldFunctionOnSet, MapThenFoldSet, Iter, Sums, Some

(* A non-empty set has the member Some picks.                              *)
LEMMA SomeIsMember == \A s : s # {} => Some(s) \in s
BY DEF Some

(* The recursion over subsets has at most one solution.                    *)
LEMMA SumsUnique ==
  ASSUME NEW f, NEW S, IsFiniteSet(S), NEW g, NEW h, Sums(f, S, g), Sums(f, S, h)
  PROVE  g = h
<1> DEFINE C == {T \in SUBSET S : g[T] = h[T]}
<1>1. ASSUME NEW T \in SUBSET S, \A U \in SUBSET T : U # T => U \in C
      PROVE  T \in C
  <2>1. CASE T = {}
    BY <2>1 DEF Sums
  <2>2. CASE T # {}
    <3>1. T \ {Some(T)} \in SUBSET T /\ T \ {Some(T)} # T
      BY <2>2, SomeIsMember
    <3>2. T \ {Some(T)} \in C
      BY <1>1, <3>1
    <3>3. g[T] = f[Some(T)] + g[T \ {Some(T)}] /\ h[T] = f[Some(T)] + h[T \ {Some(T)}]
      BY <2>2 DEF Sums
    <3> QED  BY <3>2, <3>3
  <2> QED  BY <2>1, <2>2
<1> HIDE DEF C
<1>2. SUBSET S \subseteq C
  BY <1>1, SubsetInduction
<1>3. \A T \in SUBSET S : g[T] = h[T]
  BY <1>2 DEF C
<1> QED  BY <1>3 DEF Sums

(* A solution for S, cut down to the subsets of T, is a solution for T.    *)
LEMMA SumsRestrict ==
  ASSUME NEW f, NEW S, NEW g, Sums(f, S, g), NEW T \in SUBSET S
  PROVE  Sums(f, T, [s \in SUBSET T |-> g[s]])
<1> DEFINE h == [s \in SUBSET T |-> g[s]]
<1>1. ASSUME NEW s \in SUBSET T
      PROVE  h[s] = IF s = {} THEN 0 ELSE f[Some(s)] + h[s \ {Some(s)}]
  <2>1. s \in SUBSET S /\ s \ {Some(s)} \in SUBSET T
    OBVIOUS
  <2>2. g[s] = IF s = {} THEN 0 ELSE f[Some(s)] + g[s \ {Some(s)}]
    BY <2>1 DEF Sums
  <2> QED  BY <2>1, <2>2
<1> QED  BY <1>1 DEF Sums

(* The recursion over subsets has a solution for every finite set.         *)
LEMMA SumsExist ==
  ASSUME NEW f, NEW S, IsFiniteSet(S)
  PROVE  \A T \in SUBSET S : Sums(f, T, Iter(f, T))
<1> DEFINE C == {T \in SUBSET S : Sums(f, T, Iter(f, T))}
           V(T) == Iter(f, T)[T]
<1>1. ASSUME NEW T \in SUBSET S, \A U \in SUBSET T : U # T => U \in C
      PROVE  T \in C
  <2> DEFINE next(s) == s \ {Some(s)}
             h == [s \in SUBSET T |-> IF s = {} THEN 0 ELSE f[Some(s)] + V(next(s))]
  <2>1. ASSUME NEW s \in SUBSET T, s # T
        PROVE  V(s) = IF s = {} THEN 0 ELSE f[Some(s)] + V(next(s))
    <3>1. Sums(f, s, Iter(f, s))
      BY <1>1, <2>1
    <3>2. V(s) = IF s = {} THEN 0 ELSE f[Some(s)] + Iter(f, s)[next(s)]
      BY <3>1 DEF Sums
    <3>3. CASE s = {}
      BY <3>2, <3>3
    <3>4. CASE s # {}
      <4>1. next(s) \in SUBSET s /\ next(s) # T /\ next(s) \in SUBSET T
        BY <3>4, SomeIsMember
      <4>2. Sums(f, next(s), Iter(f, next(s)))
        BY <1>1, <4>1
      <4>3. Sums(f, next(s), [r \in SUBSET next(s) |-> Iter(f, s)[r]])
        BY <3>1, <4>1, SumsRestrict
      <4>4. IsFiniteSet(next(s))
        BY FS_Subset, <4>1
      <4> HIDE DEF next
      <4>5. Iter(f, next(s)) = [r \in SUBSET next(s) |-> Iter(f, s)[r]]
        BY <4>2, <4>3, <4>4, SumsUnique
      <4>6. V(next(s)) = Iter(f, s)[next(s)]
        BY <4>5
      <4> QED  BY <3>2, <3>4, <4>6
    <3> QED  BY <3>3, <3>4
  <2>2. ASSUME NEW s \in SUBSET T, s # {}
        PROVE  h[next(s)] = V(next(s))
    <3>1. next(s) \in SUBSET T /\ next(s) # T
      BY <2>2, SomeIsMember
    <3> QED  BY <2>1, <3>1
  <2>3. Sums(f, T, h)
    <3>1. \A s \in SUBSET T : h[s] = IF s = {} THEN 0 ELSE f[Some(s)] + h[next(s)]
      BY <2>2
    <3> QED  BY <3>1 DEF Sums
  <2> HIDE DEF h
  <2>4. Sums(f, T, Iter(f, T))
    BY <2>3 DEF Iter
  <2> QED  BY <2>4
<1> HIDE DEF C
<1>2. SUBSET S \subseteq C
  BY <1>1, SubsetInduction
<1> QED  BY <1>2 DEF C

(* The recursion equation of the library's sum.                            *)
LEMMA SumEquation ==
  ASSUME NEW f, NEW S, IsFiniteSet(S)
  PROVE  SumFunctionOnSet(f, S) =
           IF S = {} THEN 0 ELSE f[Some(S)] + SumFunctionOnSet(f, S \ {Some(S)})
<1> DEFINE rest == S \ {Some(S)}
<1>1. Sums(f, S, Iter(f, S)) /\ Sums(f, rest, Iter(f, rest))
  BY SumsExist
<1>2. Sums(f, rest, [s \in SUBSET rest |-> Iter(f, S)[s]])
  BY <1>1, SumsRestrict
<1>3. IsFiniteSet(rest)
  BY FS_Subset
<1>4. Iter(f, S)[S] = IF S = {} THEN 0 ELSE f[Some(S)] + Iter(f, S)[rest]
  BY <1>1 DEF Sums
<1> HIDE DEF rest
<1>5. Iter(f, rest) = [s \in SUBSET rest |-> Iter(f, S)[s]]
  BY <1>1, <1>2, <1>3, SumsUnique
<1>6. Iter(f, rest)[rest] = Iter(f, S)[rest]
  BY <1>5
<1> QED  BY <1>4, <1>6, SumIsIter DEF rest

(* The sum over nothing.                                                   *)
LEMMA SumEmpty == \A f : SumFunctionOnSet(f, {}) = 0
BY SumEquation, FS_EmptySet

\* f has natural values on S.  Named, like Splits, so that a lemma's
\* hypothesis is one atom to the provers.
NatOn(f, S) == \A x \in S : f[x] \in Nat

\* A and B are two disjoint parts that make up S.
Splits(S, A, B) == S = A \cup B /\ A \cap B = {}

(* A sum of natural numbers is one.                                        *)
LEMMA SumType ==
  ASSUME NEW f, NEW S, IsFiniteSet(S), NatOn(f, S)
  PROVE  SumFunctionOnSet(f, S) \in Nat
<1> DEFINE C == {T \in SUBSET S : SumFunctionOnSet(f, T) \in Nat}
<1>1. ASSUME NEW T \in SUBSET S, \A U \in SUBSET T : U # T => U \in C
      PROVE  T \in C
  <2>1. IsFiniteSet(T)
    BY FS_Subset
  <2>2. CASE T = {}
    BY <2>2, SumEmpty
  <2>3. CASE T # {}
    <3>1. Some(T) \in T /\ T \ {Some(T)} \in SUBSET T /\ T \ {Some(T)} # T
      BY <2>3, SomeIsMember
    <3>2. SumFunctionOnSet(f, T \ {Some(T)}) \in Nat /\ f[Some(T)] \in Nat
      BY <1>1, <3>1 DEF NatOn
    <3> QED  BY <2>1, <2>3, <3>2, SumEquation
  <2> QED  BY <2>2, <2>3
<1> HIDE DEF C
<1>2. SUBSET S \subseteq C
  BY <1>1, SubsetInduction
<1> QED  BY <1>2 DEF C

(* Any member can be taken out first.                                      *)
LEMMA SumRemove ==
  ASSUME NEW f, NEW S, IsFiniteSet(S), NatOn(f, S)
  PROVE  \A x \in S : SumFunctionOnSet(f, S) = f[x] + SumFunctionOnSet(f, S \ {x})
<1> DEFINE C == {T \in SUBSET S : \A x \in T :
                   SumFunctionOnSet(f, T) = f[x] + SumFunctionOnSet(f, T \ {x})}
<1>1. ASSUME NEW T \in SUBSET S, \A U \in SUBSET T : U # T => U \in C
      PROVE  T \in C
  <2> SUFFICES ASSUME NEW x \in T
               PROVE  SumFunctionOnSet(f, T) = f[x] + SumFunctionOnSet(f, T \ {x})
    OBVIOUS
  <2> DEFINE c == Some(T)
  <2>1. c \in T
    BY SomeIsMember
  <2> HIDE DEF c
  <2>2. SumFunctionOnSet(f, T) = f[c] + SumFunctionOnSet(f, T \ {c})
    <3>1. IsFiniteSet(T)
      BY FS_Subset
    <3> QED  BY <3>1, SumEquation DEF c
  <2>3. CASE c = x
    BY <2>2, <2>3
  <2>4. CASE c # x
    <3>1. SumFunctionOnSet(f, T \ {c}) = f[x] + SumFunctionOnSet(f, (T \ {c}) \ {x})
      <4>1. T \ {c} \in SUBSET T /\ T \ {c} # T /\ x \in T \ {c}
        BY <2>1, <2>4
      <4> QED  BY <1>1, <4>1
    <3>2. SumFunctionOnSet(f, T \ {x}) = f[c] + SumFunctionOnSet(f, (T \ {x}) \ {c})
      <4>1. T \ {x} \in SUBSET T /\ T \ {x} # T /\ c \in T \ {x}
        BY <2>1, <2>4
      <4> QED  BY <1>1, <4>1
    <3>3. (T \ {c}) \ {x} = (T \ {x}) \ {c}
      OBVIOUS
    <3>4. SumFunctionOnSet(f, (T \ {x}) \ {c}) \in Nat
      <4>1. IsFiniteSet((T \ {x}) \ {c})
        BY FS_Subset
      <4> QED  BY <4>1, SumType DEF NatOn
    <3>5. f[c] \in Nat /\ f[x] \in Nat
      BY <2>1 DEF NatOn
    <3>6. SumFunctionOnSet(f, T \ {x}) = f[c] + SumFunctionOnSet(f, (T \ {c}) \ {x})
      BY <3>2, <3>3, Zenon
    <3>7. SumFunctionOnSet(f, (T \ {c}) \ {x}) \in Nat
      BY <3>3, <3>4, Zenon
    <3> QED  BY <2>2, <3>1, <3>5, <3>6, <3>7
  <2> QED  BY <2>3, <2>4
<1> HIDE DEF C
<1>2. SUBSET S \subseteq C
  BY <1>1, SubsetInduction
<1> QED  BY <1>2 DEF C

(* One member more adds its value.                                         *)
LEMMA SumAdd ==
  ASSUME NEW f, NEW S, IsFiniteSet(S), NEW x, x \notin S, NatOn(f, S \cup {x})
  PROVE  SumFunctionOnSet(f, S \cup {x}) = f[x] + SumFunctionOnSet(f, S)
<1>1. IsFiniteSet(S \cup {x})
  BY FS_AddElement
<1>2. (S \cup {x}) \ {x} = S
  OBVIOUS
<1> QED  BY <1>1, <1>2, SumRemove

(* Two functions that agree on S have one sum.                             *)
LEMMA SumSame ==
  ASSUME NEW f, NEW g, NEW S, IsFiniteSet(S), \A x \in S : f[x] = g[x]
  PROVE  SumFunctionOnSet(f, S) = SumFunctionOnSet(g, S)
<1> DEFINE C == {T \in SUBSET S : SumFunctionOnSet(f, T) = SumFunctionOnSet(g, T)}
<1>1. ASSUME NEW T \in SUBSET S, \A U \in SUBSET T : U # T => U \in C
      PROVE  T \in C
  <2>1. IsFiniteSet(T)
    BY FS_Subset
  <2>2. CASE T = {}
    BY <2>2, SumEmpty
  <2>3. CASE T # {}
    <3>1. Some(T) \in T /\ T \ {Some(T)} \in SUBSET T /\ T \ {Some(T)} # T
      BY <2>3, SomeIsMember
    <3>2. SumFunctionOnSet(f, T \ {Some(T)}) = SumFunctionOnSet(g, T \ {Some(T)})
      BY <1>1, <3>1
    <3> QED  BY <2>1, <2>3, <3>1, <3>2, SumEquation
  <2> QED  BY <2>2, <2>3
<1> HIDE DEF C
<1>2. SUBSET S \subseteq C
  BY <1>1, SubsetInduction
<1> QED  BY <1>2 DEF C

(* A way to prove that a property of finite sets is kept by their sums:    *)
(* add the members one by one.                                             *)
LEMMA AddingInduction ==
  ASSUME NEW S, IsFiniteSet(S), NEW C, {} \in C,
         \A T \in SUBSET S : \A x \in S \ T : T \in C => T \cup {x} \in C
  PROVE  SUBSET S \subseteq C
<1>1. ASSUME NEW T \in SUBSET S, \A U \in SUBSET T : U # T => U \in C
      PROVE  T \in C
  <2>1. CASE T = {}
    BY <2>1
  <2>2. CASE T # {}
    <3>1. PICK x : x \in T
      BY <2>2
    <3>2. T \ {x} \in SUBSET T /\ T \ {x} # T /\ (T \ {x}) \cup {x} = T
      BY <3>1
    <3>3. T \ {x} \in C /\ T \ {x} \in SUBSET S /\ x \in S \ (T \ {x})
      BY <1>1, <3>1, <3>2
    <3>4. (T \ {x}) \cup {x} \in C
      BY <3>3
    <3> QED  BY <3>2, <3>4
  <2> QED  BY <2>1, <2>2
<1> QED  BY <1>1, SubsetInduction

(* A sum can be split in two.                                              *)
LEMMA SumSplit ==
  ASSUME NEW f, NEW S, NEW A, NEW B, IsFiniteSet(S), NatOn(f, S), Splits(S, A, B)
  PROVE  SumFunctionOnSet(f, S) = SumFunctionOnSet(f, A) + SumFunctionOnSet(f, B)
<1>0. \A x \in S : f[x] \in Nat
  BY DEF NatOn
<1> DEFINE Sum(T) == SumFunctionOnSet(f, T)
           C == {T \in SUBSET S : Sum(T) = Sum(T \cap A) + Sum(T \ A)}
<1>1. {} \in C
  <2>1. {} \cap A = {} /\ {} \ A = {}
    OBVIOUS
  <2> QED  BY <2>1, SumEmpty
<1>2. ASSUME NEW T \in SUBSET S, NEW x \in S \ T, T \in C
      PROVE  T \cup {x} \in C
  <2>1. IsFiniteSet(T) /\ IsFiniteSet(T \cap A) /\ IsFiniteSet(T \ A)
    BY FS_Subset
  <2>2. Sum(T \cup {x}) = f[x] + Sum(T)
    BY <2>1, SumAdd DEF NatOn
  <2>3. Sum(T) = Sum(T \cap A) + Sum(T \ A)
    BY <1>2
  <2>4. Sum(T \cap A) \in Nat /\ Sum(T \ A) \in Nat /\ f[x] \in Nat
    BY <2>1, SumType DEF NatOn
  <2>5. CASE x \in A
    <3>1. (T \cup {x}) \cap A = (T \cap A) \cup {x} /\ (T \cup {x}) \ A = T \ A
      BY <2>5
    <3>2. Sum((T \cap A) \cup {x}) = f[x] + Sum(T \cap A)
      BY <2>1, SumAdd DEF NatOn
    <3> HIDE DEF Sum
    <3>3. Sum((T \cup {x}) \cap A) = f[x] + Sum(T \cap A) /\ Sum((T \cup {x}) \ A) = Sum(T \ A)
      BY <3>1, <3>2, Zenon
    <3>4. Sum(T \cup {x}) = Sum((T \cup {x}) \cap A) + Sum((T \cup {x}) \ A)
      BY <2>2, <2>3, <2>4, <3>3
    <3> QED  BY <3>4 DEF Sum
  <2>6. CASE x \notin A
    <3>1. (T \cup {x}) \cap A = T \cap A /\ (T \cup {x}) \ A = (T \ A) \cup {x}
      BY <2>6
    <3>2. Sum((T \ A) \cup {x}) = f[x] + Sum(T \ A)
      BY <2>1, SumAdd DEF NatOn
    <3> HIDE DEF Sum
    <3>3. Sum((T \cup {x}) \ A) = f[x] + Sum(T \ A) /\ Sum((T \cup {x}) \cap A) = Sum(T \cap A)
      BY <3>1, <3>2, Zenon
    <3>4. Sum(T \cup {x}) = Sum((T \cup {x}) \cap A) + Sum((T \cup {x}) \ A)
      BY <2>2, <2>3, <2>4, <3>3
    <3> QED  BY <3>4 DEF Sum
  <2> QED  BY <2>5, <2>6
<1> HIDE DEF C
<1>3. SUBSET S \subseteq C
  BY <1>1, <1>2, AddingInduction
<1>4. Sum(S) = Sum(S \cap A) + Sum(S \ A)
  BY <1>3 DEF C
<1>5. S \cap A = A /\ S \ A = B
  BY DEF Splits
<1> QED  BY <1>4, <1>5, Zenon

(* More cannot cost less.                                                  *)
LEMMA SumMonotone ==
  ASSUME NEW f, NEW S, NEW A, IsFiniteSet(S), NatOn(f, S), A \subseteq S
  PROVE  SumFunctionOnSet(f, A) <= SumFunctionOnSet(f, S)
<1>1. Splits(S, A, S \ A)
  BY DEF Splits
<1>2. SumFunctionOnSet(f, S) = SumFunctionOnSet(f, A) + SumFunctionOnSet(f, S \ A)
  BY <1>1, SumSplit
<1>3. SumFunctionOnSet(f, A) \in Nat /\ SumFunctionOnSet(f, S \ A) \in Nat
  <2>1. IsFiniteSet(A) /\ IsFiniteSet(S \ A)
    BY FS_Subset
  <2> QED  BY <2>1, SumType DEF NatOn
<1>4. \A a, b, c \in Nat : c = a + b => a <= c
  OBVIOUS
<1> QED  BY <1>2, <1>3, <1>4

\* The members of S labelled v.
Group(S, lab, v) == {x \in S : lab[x] = v}

(* Summing group by group.                                                 *)
LEMMA SumByGroups ==
  ASSUME NEW f, NEW S, IsFiniteSet(S), NatOn(f, S),
         NEW lab, NEW V, IsFiniteSet(V), NEW g,
         \A v \in V : g[v] = SumFunctionOnSet(f, Group(S, lab, v))
  PROVE  SumFunctionOnSet(g, V) = SumFunctionOnSet(f, {x \in S : lab[x] \in V})
<1> DEFINE In(W) == {x \in S : lab[x] \in W}
           C == {W \in SUBSET V : SumFunctionOnSet(g, W) = SumFunctionOnSet(f, In(W))}
<1>0. \A v \in V : g[v] \in Nat
  <2> TAKE v \in V
  <2>1. IsFiniteSet(Group(S, lab, v))
    BY FS_Subset DEF Group
  <2> QED  BY <2>1, SumType DEF Group, NatOn
<1>1. {} \in C
  <2>1. In({}) = {}
    OBVIOUS
  <2> QED  BY <2>1, SumEmpty
<1>2. ASSUME NEW W \in SUBSET V, NEW v \in V \ W, W \in C
      PROVE  W \cup {v} \in C
  <2>1. IsFiniteSet(W) /\ IsFiniteSet(In(W)) /\ IsFiniteSet(Group(S, lab, v))
    BY FS_Subset DEF Group
  <2>2. SumFunctionOnSet(g, W \cup {v}) = g[v] + SumFunctionOnSet(g, W)
    BY <1>0, <2>1, SumAdd DEF NatOn
  <2>3. /\ IsFiniteSet(In(W \cup {v}))
        /\ NatOn(f, In(W \cup {v}))
        /\ Splits(In(W \cup {v}), In(W), Group(S, lab, v))
    BY FS_Subset DEF Group, NatOn, Splits
  <2>4. SumFunctionOnSet(f, In(W \cup {v})) =
          SumFunctionOnSet(f, In(W)) + SumFunctionOnSet(f, Group(S, lab, v))
    BY <2>3, SumSplit
  <2>5. SumFunctionOnSet(f, In(W)) \in Nat
    BY <2>1, SumType DEF NatOn
  <2>6. g[v] \in Nat /\ g[v] = SumFunctionOnSet(f, Group(S, lab, v))
    BY <1>0
  <2>7. SumFunctionOnSet(g, W) = SumFunctionOnSet(f, In(W))
    BY <1>2
  <2> HIDE DEF In
  <2>8. SumFunctionOnSet(f, In(W \cup {v})) = SumFunctionOnSet(f, In(W)) + g[v]
    BY <2>4, <2>6
  <2>9. SumFunctionOnSet(g, W \cup {v}) = SumFunctionOnSet(f, In(W \cup {v}))
    BY <2>2, <2>5, <2>6, <2>7, <2>8
  <2> QED  BY <2>9
<1> HIDE DEF C
<1>3. SUBSET V \subseteq C
  BY <1>1, <1>2, AddingInduction
<1> QED  BY <1>3 DEF C

(* The values a function takes on a finite set are finitely many.          *)
LEMMA FiniteImage ==
  ASSUME NEW S, IsFiniteSet(S), NEW b
  PROVE  IsFiniteSet({b[x] : x \in S})
<1> DEFINE C == {T \in SUBSET S : IsFiniteSet({b[x] : x \in T})}
<1>1. {} \in C
  <2>1. {b[x] : x \in {}} = {}
    OBVIOUS
  <2> QED  BY <2>1, FS_EmptySet
<1>2. ASSUME NEW T \in SUBSET S, NEW x \in S \ T, T \in C
      PROVE  T \cup {x} \in C
  <2>1. {b[y] : y \in T \cup {x}} = {b[y] : y \in T} \cup {b[x]}
    OBVIOUS
  <2>2. IsFiniteSet({b[y] : y \in T} \cup {b[x]})
    BY <1>2, FS_AddElement
  <2> QED  BY <2>1, <2>2
<1> HIDE DEF C
<1>3. SUBSET S \subseteq C
  BY <1>1, <1>2, AddingInduction
<1> QED  BY <1>3 DEF C

(* Counting is adding ones.                                                *)
LEMMA CountIsSum ==
  ASSUME NEW S, IsFiniteSet(S), NEW A \in SUBSET S
  PROVE  Cardinality(A) = SumFunctionOnSet([x \in S |-> 1], A)
<1> DEFINE one == [x \in S |-> 1]
           C == {T \in SUBSET S : Cardinality(T) = SumFunctionOnSet(one, T)}
<1>1. {} \in C
  BY SumEmpty, FS_EmptySet
<1>2. ASSUME NEW T \in SUBSET S, NEW x \in S \ T, T \in C
      PROVE  T \cup {x} \in C
  <2>1. IsFiniteSet(T)
    BY FS_Subset
  <2>2. Cardinality(T \cup {x}) = Cardinality(T) + 1 /\ Cardinality(T) \in Nat
    BY <2>1, FS_AddElement, FS_CardinalityType
  <2>3. NatOn(one, T \cup {x}) /\ one[x] = 1
    BY DEF NatOn
  <2> HIDE DEF one
  <2>4. SumFunctionOnSet(one, T \cup {x}) = 1 + SumFunctionOnSet(one, T)
    BY <2>1, <2>3, SumAdd
  <2> QED  BY <1>2, <2>2, <2>4
<1> HIDE DEF C
<1>3. SUBSET S \subseteq C
  BY <1>1, <1>2, AddingInduction
<1> QED  BY <1>3 DEF C

(* Counting group by group.                                                *)
LEMMA CountByGroups ==
  ASSUME NEW S, IsFiniteSet(S), NEW lab, NEW V, IsFiniteSet(V), NEW g,
         \A v \in V : g[v] = Cardinality(Group(S, lab, v)),
         \A x \in S : lab[x] \in V
  PROVE  SumFunctionOnSet(g, V) = Cardinality(S)
<1> DEFINE one == [x \in S |-> 1]
<1>1. NatOn(one, S)
  BY DEF NatOn
<1>2. \A A \in SUBSET S : Cardinality(A) = SumFunctionOnSet(one, A)
  BY CountIsSum
<1> HIDE DEF one
<1>3. \A v \in V : g[v] = SumFunctionOnSet(one, Group(S, lab, v))
  BY <1>2 DEF Group
<1>4. SumFunctionOnSet(g, V) = SumFunctionOnSet(one, {x \in S : lab[x] \in V})
  BY <1>1, <1>3, SumByGroups
<1>5. {x \in S : lab[x] \in V} = S
  OBVIOUS
<1>6. Cardinality(S) = SumFunctionOnSet(one, S)
  BY <1>2
<1> QED  BY <1>4, <1>5, <1>6, Zenon

-----------------------------------------------------------------------------
\* computed_cost as a function on events.
Cost(evs) == [e \in evs |-> e.computed_cost]

\* Finitely many events with natural costs: what their spend needs.
Priced(evs) == IsFiniteSet(evs) /\ NatOn(Cost(evs), evs)

(* The spend of part of a ledger is a sum of the whole ledger's costs.     *)
LEMMA SpendIsSum ==
  ASSUME NEW S, Priced(S), NEW A \in SUBSET S
  PROVE  Spend(A) = SumFunctionOnSet(Cost(S), A)
<1>1. Spend(A) = SumFunctionOnSet(Cost(A), A)
  BY DEF Spend, SumFunction, Cost
<1>2. IsFiniteSet(A)
  BY FS_Subset DEF Priced
<1>3. \A x \in A : Cost(A)[x] = Cost(S)[x]
  BY DEF Cost
<1> HIDE DEF Cost
<1> QED  BY <1>1, <1>2, <1>3, SumSame

(* No events cost nothing.                                                 *)
LEMMA SpendOfNothing == Spend({}) = 0
BY SumEmpty DEF Spend, SumFunction

(* Any part of a priced set of events is one.                              *)
LEMMA PartOfPriced ==
  ASSUME NEW S, Priced(S), NEW A \in SUBSET S
  PROVE  Priced(A)
BY FS_Subset DEF Priced, NatOn, Cost

(* Spend is a natural number.                                              *)
LEMMA SpendType ==
  ASSUME NEW S, Priced(S)
  PROVE  Spend(S) \in Nat
BY SpendIsSum, SumType DEF Priced

(* Spend of two disjoint sets of events adds up.                           *)
LEMMA SpendSplit ==
  ASSUME NEW S, NEW A, NEW B, Priced(S), Splits(S, A, B)
  PROVE  Spend(S) = Spend(A) + Spend(B)
<1>1. A \in SUBSET S /\ B \in SUBSET S /\ S \in SUBSET S
  BY DEF Splits
<1>2. /\ Spend(A) = SumFunctionOnSet(Cost(S), A)
      /\ Spend(B) = SumFunctionOnSet(Cost(S), B)
      /\ Spend(S) = SumFunctionOnSet(Cost(S), S)
  BY <1>1, SpendIsSum
<1>3. SumFunctionOnSet(Cost(S), S) = SumFunctionOnSet(Cost(S), A) + SumFunctionOnSet(Cost(S), B)
  BY SumSplit DEF Priced
<1> QED  BY <1>2, <1>3

(* More events never cost less.                                            *)
LEMMA SpendMonotone ==
  ASSUME NEW S, NEW A \in SUBSET S, Priced(S)
  PROVE  Spend(A) <= Spend(S)
<1>1. Spend(A) = SumFunctionOnSet(Cost(S), A) /\ Spend(S) = SumFunctionOnSet(Cost(S), S)
  BY SpendIsSum
<1> QED  BY <1>1, SumMonotone DEF Priced

(* Spend can be added up group by group.                                   *)
LEMMA SpendByGroups ==
  ASSUME NEW S, Priced(S), NEW lab, NEW V, IsFiniteSet(V), NEW g,
         \A v \in V : g[v] = Spend(Group(S, lab, v))
  PROVE  SumFunctionOnSet(g, V) = Spend({x \in S : lab[x] \in V})
<1>1. \A v \in V : g[v] = SumFunctionOnSet(Cost(S), Group(S, lab, v))
  <2> TAKE v \in V
  <2>1. Group(S, lab, v) \in SUBSET S
    BY DEF Group
  <2> QED  BY <2>1, SpendIsSum
<1>2. SumFunctionOnSet(g, V) = SumFunctionOnSet(Cost(S), {x \in S : lab[x] \in V})
  BY <1>1, SumByGroups DEF Priced
<1>3. {x \in S : lab[x] \in V} \in SUBSET S
  OBVIOUS
<1>4. Spend({x \in S : lab[x] \in V}) = SumFunctionOnSet(Cost(S), {x \in S : lab[x] \in V})
  BY <1>3, SpendIsSum
<1> QED  BY <1>2, <1>4, Zenon

-----------------------------------------------------------------------------
(* Division with remainder.                                                *)
LEMMA DivMod == ASSUME NEW n \in Nat, NEW d \in Nat \ {0}
 PROVE /\ n \div d \in Nat /\ n % d \in Nat /\ n % d < d /\ n = d * (n \div d) + (n % d)
OBVIOUS

(* A rounded quotient is within one half of it.                            *)
LEMMA NearestIs ==
  ASSUME NEW n \in Nat, NEW d \in Nat \ {0}
  PROVE  /\ Nearest(n, d) \in Nat
         /\ 2 * (d * Nearest(n, d)) <= 2 * n + d
         /\ 2 * n <= 2 * (d * Nearest(n, d)) + d
<1>1. PICK q \in Nat, r \in Nat : q = n \div d /\ r = n % d /\ r < d /\ n = d * q + r
  BY DivMod
<1>2. Nearest(n, d) = IF 2 * r > d \/ (2 * r = d /\ q % 2 = 1) THEN q + 1 ELSE q
  BY <1>1 DEF Nearest
<1>3. d * (q + 1) = d * q + d /\ d * q \in Nat
  BY <1>1
<1>4. CASE 2 * r > d \/ (2 * r = d /\ q % 2 = 1)
  <2>1. Nearest(n, d) = q + 1
    BY <1>2, <1>4
  <2>2. 2 * r >= d
    BY <1>1, <1>4
  <2> QED  BY <1>1, <1>3, <2>1, <2>2
<1>5. CASE ~ (2 * r > d \/ (2 * r = d /\ q % 2 = 1))
  <2>1. Nearest(n, d) = q
    BY <1>2, <1>5
  <2>2. 2 * r <= d
    BY <1>1, <1>5
  <2> QED  BY <1>1, <1>3, <2>1, <2>2
<1> QED  BY <1>4, <1>5

(* Rounding keeps the order.                                               *)
LEMMA NearestGrows ==
  ASSUME NEW n \in Nat, NEW m \in Nat, NEW d \in Nat \ {0}, n <= m
  PROVE  Nearest(n, d) <= Nearest(m, d)
<1>1. CASE n = m
  BY <1>1, NearestIs
<1>2. CASE n < m
  <2>1. PICK a \in Nat, b \in Nat : a = Nearest(n, d) /\ b = Nearest(m, d)
    BY NearestIs
  <2>2. 2 * (d * a) <= 2 * n + d /\ 2 * m <= 2 * (d * b) + d
    BY <2>1, NearestIs
  <2>3. d * a \in Nat /\ d * b \in Nat
    BY <2>1
  <2>4. d * a < d * b + d
    BY <1>2, <2>2, <2>3
  <2>5. a >= b + 1 => d * a >= d * b + d
    BY <2>1
  <2> QED  BY <2>1, <2>3, <2>4, <2>5
<1> QED  BY <1>1, <1>2

\* x / n is within half a k-th of (a / k) / n, multiplied out.
Within(k, x, a, n) == 2 * k * x <= 2 * a + k * n /\ 2 * a <= 2 * k * x + k * n

(* What is within its bounds stays so when added up.                       *)
LEMMA WithinAdds ==
  ASSUME NEW k \in Nat, NEW x \in Nat, NEW a \in Nat, NEW n \in Nat,
         NEW y \in Nat, NEW b \in Nat, NEW m \in Nat, Within(k, x, a, n), Within(k, y, b, m)
  PROVE  Within(k, x + y, a + b, n + m)
<1>1. 2 * k * (x + y) = 2 * k * x + 2 * k * y /\ k * (n + m) = k * n + k * m
  OBVIOUS
<1>2. 2 * k * x \in Nat /\ 2 * k * y \in Nat /\ k * n \in Nat /\ k * m \in Nat
  OBVIOUS
<1> QED  BY <1>1, <1>2 DEF Within

(* Sums of what is within its bounds are within theirs.                    *)
LEMMA SumWithin ==
  ASSUME NEW S, IsFiniteSet(S), NEW x, NEW a, NEW n, NEW k \in Nat,
         NatOn(x, S), NatOn(a, S), NatOn(n, S), \A v \in S : Within(k, x[v], a[v], n[v])
  PROVE  Within(k, SumFunctionOnSet(x, S), SumFunctionOnSet(a, S), SumFunctionOnSet(n, S))
<1> DEFINE Sum(f, T) == SumFunctionOnSet(f, T)
           C == {T \in SUBSET S : Within(k, Sum(x, T), Sum(a, T), Sum(n, T))}
<1>1. {} \in C
  <2>1. Within(k, 0, 0, 0)
    BY DEF Within
  <2> QED  BY <2>1, SumEmpty
<1>2. ASSUME NEW T \in SUBSET S, NEW v \in S \ T, T \in C
      PROVE  T \cup {v} \in C
  <2>1. IsFiniteSet(T)
    BY FS_Subset
  <2>2. /\ Sum(x, T \cup {v}) = x[v] + Sum(x, T)
        /\ Sum(a, T \cup {v}) = a[v] + Sum(a, T)
        /\ Sum(n, T \cup {v}) = n[v] + Sum(n, T)
    BY <2>1, SumAdd DEF NatOn
  <2>3. Sum(x, T) \in Nat /\ Sum(a, T) \in Nat /\ Sum(n, T) \in Nat
    BY <2>1, SumType DEF NatOn
  <2>4. x[v] \in Nat /\ a[v] \in Nat /\ n[v] \in Nat
    BY DEF NatOn
  <2>5. Within(k, x[v], a[v], n[v]) /\ Within(k, Sum(x, T), Sum(a, T), Sum(n, T))
    BY <1>2
  <2> HIDE DEF Sum
  <2>6. Within(k, x[v] + Sum(x, T), a[v] + Sum(a, T), n[v] + Sum(n, T))
    BY <2>3, <2>4, <2>5, WithinAdds
  <2> QED  BY <2>2, <2>6
<1> HIDE DEF C
<1>3. SUBSET S \subseteq C
  BY <1>1, <1>2, AddingInduction
<1> QED  BY <1>3 DEF C

-----------------------------------------------------------------------------
(* The domain of a query's answer, and its rows.                           *)
LEMMA RowsOfQuery ==
  ASSUME NEW evs, NEW st, NEW dim, NEW since, NEW until
  PROVE  SpendAndUnitCostBy(evs, st, dim, since, until)
           = [v \in {e[dim] : e \in Between(evs, since, until)} |->
                SliceRow(Slice(Between(evs, since, until), dim, v), st)]
BY DEF SpendAndUnitCostBy

(* A row the query does not return is the row of a slice without events    *)
(* (store.py:199-205 groups only what is there).                           *)
LEMMA MissingRowIsZero ==
  ASSUME NEW evs, NEW st, NEW dim, NEW since, NEW until, NEW v
  PROVE  RowOr0(SpendAndUnitCostBy(evs, st, dim, since, until), v)
           = SliceRow(Slice(Between(evs, since, until), dim, v), st)
<1> DEFINE rows == SpendAndUnitCostBy(evs, st, dim, since, until)
           W == Between(evs, since, until)
<1>1. /\ DOMAIN rows = {e[dim] : e \in W}
      /\ \A x \in DOMAIN rows : rows[x] = SliceRow(Slice(W, dim, x), st)
  BY RowsOfQuery
<1>2. CASE v \in DOMAIN rows
  BY <1>1, <1>2 DEF RowOr0
<1>3. CASE v \notin DOMAIN rows
  <2>1. Slice(W, dim, v) = {}
    BY <1>1, <1>3 DEF Slice
  <2>2. OfSucceeded({}, st) = {} /\ OutcomesIn({}) = {} /\ Cardinality({}) = 0
    BY FS_EmptySet DEF OfSucceeded, OutcomesIn
  <2>3. SliceRow({}, st) = [total_spend |-> 0, attributed |-> 0, succeeded_outcomes |-> 0, total_outcomes |-> 0]
    BY <2>2, SpendOfNothing DEF SliceRow
  <2>4. RowOr0(rows, v) = [total_spend |-> 0, attributed |-> 0, succeeded_outcomes |-> 0, total_outcomes |-> 0]
    BY <1>3 DEF RowOr0
  <2> HIDE DEF rows, W
  <2>5. RowOr0(rows, v) = SliceRow(Slice(W, dim, v), st)
    BY <2>1, <2>3, <2>4, Zenon
  <2> QED  BY <2>5 DEF rows, W
<1> QED  BY <1>2, <1>3

-----------------------------------------------------------------------------
\* The outcomes with a row.
Opened == {id \in Labels : status[id] # NoRow.status}

(* The ledger's inductive invariant.  The sums need finitely many events,  *)
(* the contract's quotient finitely many outcomes and that an event without*)
(* an outcome never counts as succeeded; OutcomeIds itself may be infinite.*)
LedgerInv ==
  /\ LedgerTypeOK
  /\ IsFiniteSet(events)
  /\ IsFiniteSet(Opened)
  /\ Opened \subseteq OutcomeIds

(* The empty ledger satisfies the invariant.                               *)
LEMMA LedgerInitHolds == LedgerInit => LedgerInv
<1> SUFFICES ASSUME LedgerInit
             PROVE  LedgerInv
  OBVIOUS
<1>1. Opened = {}
  BY DEF LedgerInit, Opened
<1> QED  BY <1>1, FS_EmptySet DEF LedgerInit, LedgerInv, LedgerTypeOK

(* Every write of the ledger keeps the invariant.                          *)
LEMMA LedgerStepHolds ==
  ASSUME LedgerInv, [LedgerNext]_ledgerVars
  PROVE  LedgerInv'
<1> USE DEF LedgerInv, LedgerTypeOK
<1>1. ASSUME NEW oid \in Labels, NEW f \in Features, NEW m \in ModelTiers,
             NEW c \in CostsOfCalls, NEW t \in Instants, RecordEvent(oid, f, m, c, t)
      PROVE  LedgerInv'
  <2> DEFINE n == Cardinality(events)
             e == [event_id |-> n + 1, outcome_id |-> oid, feature |-> f,
                   model_tier |-> m, computed_cost |-> c, timestamp |-> t]
  <2>1. n \in Nat /\ n < MaxEvents
    BY <1>1, FS_CardinalityType DEF RecordEvent
  <2>2. n + 1 \in 1 .. MaxEvents
    BY <2>1, LedgerAssumption
  <2>3. e \in LedgerEvents
    BY <2>2 DEF LedgerEvents
  <2>4. events' = events \cup {e} /\ status' = status
    BY <1>1 DEF RecordEvent
  <2>5. IsFiniteSet(events')
    BY <2>4, FS_AddElement
  <2>6. Opened' = Opened
    BY <2>4 DEF Opened
  <2> QED  BY <2>3, <2>4, <2>5, <2>6
<1>2. ASSUME NEW id \in OutcomeIds, OpenOutcome(id)
      PROVE  LedgerInv'
  <2>1. id \in Labels /\ Opened' = Opened \cup {id}
    BY <1>2 DEF OpenOutcome, Opened, Labels, NoRow, PENDING
  <2>2. IsFiniteSet(Opened')
    BY <2>1, FS_AddElement
  <2> QED  BY <1>2, <2>1, <2>2 DEF OpenOutcome
<1>3. ASSUME NEW id \in OutcomeIds, NEW s \in RESOLVED_STATUSES, CloseOutcome(id, s)
      PROVE  LedgerInv'
  <2>1. Opened' = Opened
    BY <1>3 DEF CloseOutcome, Opened, Labels, NoRow, PENDING, RESOLVED_STATUSES, SUCCEEDED, FAILED, ABANDONED
  <2> QED  BY <1>3, <2>1 DEF CloseOutcome
<1>4. CASE UNCHANGED ledgerVars
  BY <1>4 DEF ledgerVars, Opened
<1> QED  BY <1>1, <1>2, <1>3, <1>4 DEF LedgerNext

(* Whatever is recorded, opened and closed, the tables keep their types:   *)
(* a row of outcomes has one of the four statuses (store.py:73-146).       *)
THEOREM LedgerTypeCorrect == LedgerSpec => []LedgerTypeOK
<1>1. LedgerInv => LedgerTypeOK
  BY DEF LedgerInv
<1> QED  BY <1>1, LedgerStepHolds, LedgerInitHolds, PTL DEF LedgerSpec

(* Every window of the ledger has finitely many events with natural costs. *)
LEMMA LedgerIsPriced ==
  ASSUME LedgerInv
  PROVE  /\ Priced(events)
         /\ \A since, until : Priced(Between(events, since, until))
<1>1. Priced(events)
  BY LedgerAssumption DEF LedgerInv, LedgerTypeOK, LedgerEvents, Priced, NatOn, Cost
<1>2. \A since, until : Between(events, since, until) \in SUBSET events
  BY DEF Between
<1> QED  BY <1>1, <1>2, PartOfPriced

(* Attribution loses nothing, for any ledger: along either dimension the   *)
(* slices' spend adds up to total_spend of the same window                 *)
(* (store.py:173-240).                                                     *)
THEOREM LedgerSlicesSumToTotal == LedgerSpec => []SlicesSumToTotal
<1>1. ASSUME LedgerInv
      PROVE  SlicesSumToTotal
  <2> SUFFICES ASSUME NEW dim \in Dims, NEW since \in Starts
               PROVE  LET rows == By(dim, since, Unbounded) IN
                        SumFunction([v \in DOMAIN rows |-> rows[v].total_spend]) = TotalSpend(events, since)
    BY DEF SlicesSumToTotal
  <2> DEFINE rows == By(dim, since, Unbounded)
             W == Between(events, since, Unbounded)
             lab == [e \in W |-> e[dim]]
             V == {lab[e] : e \in W}
             g == [v \in DOMAIN rows |-> rows[v].total_spend]
  <2>1. Priced(W) /\ IsFiniteSet(W)
    BY <1>1, LedgerIsPriced DEF Priced
  <2>2. IsFiniteSet(V)
    <3> HIDE DEF lab, W
    <3> QED  BY <2>1, FiniteImage
  <2>3. DOMAIN rows = V /\ \A v \in V : rows[v] = SliceRow(Slice(W, dim, v), status)
    <3>1. rows = [v \in {e[dim] : e \in W} |-> SliceRow(Slice(W, dim, v), status)]
      BY RowsOfQuery, Zenon DEF By
    <3>2. {e[dim] : e \in W} = V
      OBVIOUS
    <3> HIDE DEF rows, V, W
    <3> QED  BY <3>1, <3>2
  <2>4. \A v \in V : Group(W, lab, v) = Slice(W, dim, v)
    BY DEF Group, Slice
  <2>5. \A v \in V : g[v] = Spend(Group(W, lab, v))
    <3> HIDE DEF W, lab, V, rows
    <3>1. \A v \in V : g[v] = Spend(Slice(W, dim, v))
      BY <2>3 DEF SliceRow
    <3> QED  BY <2>4, <3>1
  <2>6. {x \in W : lab[x] \in V} = W
    OBVIOUS
  <2>7. SumFunctionOnSet(g, V) = Spend({x \in W : lab[x] \in V})
    <3> HIDE DEF W, lab, V, g
    <3> QED  BY <2>1, <2>2, <2>5, SpendByGroups
  <2>8. SumFunction(g) = SumFunctionOnSet(g, V)
    BY <2>3 DEF SumFunction
  <2>9. SumFunction(g) = Spend(W)
    <3> HIDE DEF W, lab, V, g
    <3> QED  BY <2>6, <2>7, <2>8, Zenon
  <2> QED  BY <2>9 DEF TotalSpend
<1>2. LedgerInv /\ [LedgerNext]_ledgerVars => LedgerInv'
  BY LedgerStepHolds
<1> QED  BY <1>1, <1>2, LedgerInitHolds, PTL DEF LedgerSpec

(* The fields of a recorded event that the queries compute with.           *)
LEMMA EventFields ==
  ASSUME LedgerInv, NEW e \in events
  PROVE  e.timestamp \in Nat /\ e.computed_cost \in Nat /\ e.outcome_id \in Labels
BY LedgerAssumption DEF LedgerInv, LedgerTypeOK, LedgerEvents

(* A slice of a window is part of the ledger.                              *)
LEMMA WindowAndSlice ==
  ASSUME NEW evs, NEW since, NEW until, NEW dim, NEW v
  PROVE  Slice(Between(evs, since, until), dim, v) \subseteq evs
BY DEF Slice, Between

(* For any instants, a baseline and the window that follows it share no    *)
(* event and miss none: no call is paid twice or never between two windows *)
(* (store.py:182-205, budgets.py:86-97).                                   *)
THEOREM LedgerWindowsPartition == LedgerSpec => []WindowsPartition
<1>1. ASSUME LedgerInv
      PROVE  WindowsPartition
  <2> SUFFICES ASSUME NEW dim \in Dims, NEW since \in Starts, NEW mid \in Instants, since <= mid,
                      NEW v \in DOMAIN By(dim, since, Unbounded)
               PROVE  By(dim, since, Unbounded)[v].total_spend
                        = RowOr0(By(dim, since, mid), v).total_spend
                          + RowOr0(By(dim, mid, Unbounded), v).total_spend
    BY DEF WindowsPartition
  <2> DEFINE S(from, to) == Slice(Between(events, from, to), dim, v)
  <2>1. \A from, to : RowOr0(By(dim, from, to), v) = SliceRow(S(from, to), status)
    BY MissingRowIsZero DEF By
  <2>2. \A from, to : RowOr0(By(dim, from, to), v).total_spend = Spend(S(from, to))
    BY <2>1 DEF SliceRow
  <2>3. By(dim, since, Unbounded)[v].total_spend = Spend(S(since, Unbounded))
    BY <2>2 DEF RowOr0
  <2>4. Splits(S(since, Unbounded), S(since, mid), S(mid, Unbounded))
    <3>1. since \in Int /\ mid \in Nat /\ mid # Unbounded
      BY LedgerAssumption DEF Starts, Unbounded
    <3>2. \A e \in events : e.timestamp \in Nat
      BY <1>1, EventFields
    <3>3. \A e \in events :
            (since # Unbounded => e.timestamp >= since) <=>
              \/ (since # Unbounded => e.timestamp >= since) /\ e.timestamp < mid
              \/ e.timestamp >= mid
      BY <3>1, <3>2
    <3> QED  BY <3>1, <3>2, <3>3 DEF Splits, Slice, Between
  <2>5. Priced(S(since, Unbounded))
    BY <1>1, LedgerIsPriced, WindowAndSlice, PartOfPriced
  <2> HIDE DEF S
  <2>6. Spend(S(since, Unbounded)) = Spend(S(since, mid)) + Spend(S(mid, Unbounded))
    BY <2>4, <2>5, SpendSplit
  <2> QED  BY <2>2, <2>3, <2>6
<1> QED  BY <1>1, LedgerStepHolds, LedgerInitHolds, PTL DEF LedgerSpec

-----------------------------------------------------------------------------
(* An event counts as attributed when its outcome is one of the succeeded  *)
(* ones.                                                                   *)
LEMMA OfSucceededIs ==
  ASSUME LedgerInv, NEW A \in SUBSET events
  PROVE  OfSucceeded(A, status) = {e \in A : e.outcome_id \in {id \in OutcomeIds : status[id] = SUCCEEDED}}
<1>1. \A id \in Labels : status[id] = SUCCEEDED => id \in OutcomeIds
  BY DEF LedgerInv, Opened, NoRow, SUCCEEDED
<1>2. \A e \in A : e.outcome_id \in Labels
  BY EventFields
<1> QED  BY <1>1, <1>2 DEF OfSucceeded, CountsTowardDenominator

(* Only finitely many outcomes have succeeded.                             *)
LEMMA SucceededFinite ==
  ASSUME LedgerInv
  PROVE  IsFiniteSet({id \in OutcomeIds : status[id] = SUCCEEDED})
<1>1. {id \in OutcomeIds : status[id] = SUCCEEDED} \subseteq Opened
  BY DEF Opened, Labels, NoRow, SUCCEEDED
<1> QED  BY <1>1, FS_Subset DEF LedgerInv

(* outcome-contract.md's numerator, outcome by outcome, is what the query  *)
(* adds up event by event.                                                 *)
LEMMA NumeratorIsAttributed ==
  ASSUME LedgerInv, NEW A \in SUBSET events
  PROVE  ContractNumerator(A) = Spend(OfSucceeded(A, status))
<1> DEFINE Succ == {id \in OutcomeIds : status[id] = SUCCEEDED}
           lab == [e \in A |-> e.outcome_id]
           g == [id \in Succ |-> Spend({e \in A : e.outcome_id = id})]
<1>1. ContractNumerator(A) = SumFunctionOnSet(g, Succ)
  BY DEF ContractNumerator, SumFunction
<1>2. \A id \in Succ : Group(A, lab, id) = {e \in A : e.outcome_id = id}
  BY DEF Group
<1>3. \A id \in Succ : g[id] = Spend(Group(A, lab, id))
  <2> HIDE DEF lab, Succ
  <2> QED  BY <1>2
<1>4. Priced(A)
  BY LedgerIsPriced, PartOfPriced
<1>5. IsFiniteSet(Succ)
  BY SucceededFinite
<1>6. SumFunctionOnSet(g, Succ) = Spend({e \in A : lab[e] \in Succ})
  <2> HIDE DEF lab, Succ, g
  <2> QED  BY <1>3, <1>4, <1>5, SpendByGroups
<1>7. {e \in A : lab[e] \in Succ} = OfSucceeded(A, status)
  <2>1. {e \in A : lab[e] \in Succ} = {e \in A : e.outcome_id \in Succ}
    OBVIOUS
  <2> QED  BY <2>1, OfSucceededIs
<1> HIDE DEF lab, Succ, g
<1> QED  BY <1>1, <1>6, <1>7, Zenon

(* Finitely many events name finitely many outcomes.                       *)
LEMMA OutcomesFinite ==
  ASSUME LedgerInv, NEW A \in SUBSET events
  PROVE  IsFiniteSet(OutcomesIn(A))
<1> DEFINE b == [e \in A |-> e.outcome_id]
<1>1. OutcomesIn(A) = {b[e] : e \in A}
  BY DEF OutcomesIn
<1>2. IsFiniteSet(A)
  BY FS_Subset DEF LedgerInv
<1> HIDE DEF b
<1> QED  BY <1>1, <1>2, FiniteImage

(* No event is ever deleted from the ledger.                               *)
LEMMA LedgerGrows ==
  ASSUME [LedgerNext]_ledgerVars
  PROVE  events \subseteq events'
BY DEF LedgerNext, RecordEvent, OpenOutcome, CloseOutcome, ledgerVars

(* Without bounds the window is the whole ledger.                          *)
LEMMA OpenWindow == Between(events, Unbounded, Unbounded) = events
BY DEF Between

(* What a row divides is the contract's quotient over the events of its    *)
(* slice.                                                                  *)
LEMMA RowIsTheContracts ==
  ASSUME LedgerInv, NEW S \in SUBSET events
  PROVE  /\ SliceRow(S, status).attributed = ContractNumerator(S)
         /\ SliceRow(S, status).succeeded_outcomes =
              Cardinality({id \in OutcomeIds : status[id] = SUCCEEDED
                             /\ \E e \in S : e.outcome_id = id})
         /\ SliceRow(S, status).attributed \in Nat
         /\ SliceRow(S, status).succeeded_outcomes \in Nat
<1>1. SliceRow(S, status).attributed = ContractNumerator(S)
  BY NumeratorIsAttributed DEF SliceRow
<1>2. OutcomesIn(OfSucceeded(S, status)) =
        {id \in OutcomeIds : status[id] = SUCCEEDED /\ \E e \in S : e.outcome_id = id}
  BY OfSucceededIs DEF OutcomesIn
<1>3. SliceRow(S, status).succeeded_outcomes = Cardinality(OutcomesIn(OfSucceeded(S, status)))
  BY DEF SliceRow
<1>4. SliceRow(S, status).succeeded_outcomes =
        Cardinality({id \in OutcomeIds : status[id] = SUCCEEDED /\ \E e \in S : e.outcome_id = id})
  BY <1>2, <1>3, Zenon
<1>5. OfSucceeded(S, status) \in SUBSET events
  BY DEF OfSucceeded
<1>6. SliceRow(S, status).attributed \in Nat
  <2>1. Priced(OfSucceeded(S, status))
    BY <1>5, LedgerIsPriced, PartOfPriced
  <2> QED  BY <2>1, SpendType DEF SliceRow
<1>7. SliceRow(S, status).succeeded_outcomes \in Nat
  BY <1>3, <1>5, OutcomesFinite, FS_CardinalityType
<1> QED  BY <1>1, <1>4, <1>6, <1>7

(* For any ledger the query's cost per outcome is the contract's quotient: *)
(* every attempt of a succeeded outcome in the numerator, each such        *)
(* outcome once in the denominator (store.py:207-229,                      *)
(* outcome-contract.md:79-87).                                             *)
THEOREM LedgerUnitCostIsTheContracts == LedgerSpec => []UnitCostIsTheContracts
<1>1. ASSUME LedgerInv
      PROVE  UnitCostIsTheContracts
  <2> SUFFICES ASSUME NEW dim \in Dims, NEW v \in DOMAIN By(dim, Unbounded, Unbounded)
               PROVE  LET row == By(dim, Unbounded, Unbounded)[v] IN
                      /\ row.attributed = ContractNumerator(Slice(events, dim, v))
                      /\ row.succeeded_outcomes =
                           Cardinality({id \in OutcomeIds : status[id] = SUCCEEDED
                                          /\ \E e \in Slice(events, dim, v) : e.outcome_id = id})
    BY DEF UnitCostIsTheContracts
  <2> DEFINE S == Slice(events, dim, v)
             row == By(dim, Unbounded, Unbounded)[v]
  <2>1. row = SliceRow(S, status)
    BY OpenWindow, MissingRowIsZero DEF By, RowOr0
  <2>2. S \in SUBSET events
    BY DEF Slice
  <2> HIDE DEF S, row
  <2>3. /\ row.attributed = ContractNumerator(S)
        /\ row.succeeded_outcomes =
             Cardinality({id \in OutcomeIds : status[id] = SUCCEEDED /\ \E e \in S : e.outcome_id = id})
    BY <1>1, <2>1, <2>2, RowIsTheContracts
  <2> QED  BY <2>3 DEF S, row
<1> QED  BY <1>1, LedgerStepHolds, LedgerInitHolds, PTL DEF LedgerSpec

-----------------------------------------------------------------------------
(* For buckets of any width: their attributed cost adds up to the slice's. *)
LEMMA BucketsAddUp ==
  ASSUME LedgerInv, NEW dim, NEW v, NEW width, NEW since
  PROVE  LET series == UnitCostTimeseries(events, status, dim, v, width, since) IN
           SumFunction([k \in DOMAIN series |-> series[k].attributed])
             = Spend(OfSucceeded(Slice(Between(events, since, Unbounded), dim, v), status))
<1> DEFINE R == Slice(Between(events, since, Unbounded), dim, v)
           P == OfSucceeded(R, status)
           lab == [e \in R |-> (e.timestamp - since) \div width]
           V == {lab[e] : e \in R}
           series == UnitCostTimeseries(events, status, dim, v, width, since)
           g == [k \in DOMAIN series |-> series[k].attributed]
<1>1. Priced(R) /\ IsFiniteSet(R) /\ P \in SUBSET R /\ Priced(P)
  <2>1. Priced(R)
    BY LedgerIsPriced, WindowAndSlice, PartOfPriced
  <2>2. P \in SUBSET R
    BY DEF OfSucceeded
  <2> HIDE DEF P, R
  <2> QED  BY <2>1, <2>2, PartOfPriced DEF Priced
<1>2. series = [k \in V |-> SliceRow(Group(R, lab, k), status)]
  <2>1. series = [k \in {(e.timestamp - since) \div width : e \in R} |->
                    SliceRow({e \in R : (e.timestamp - since) \div width = k}, status)]
    BY Zenon DEF UnitCostTimeseries
  <2>2. V = {(e.timestamp - since) \div width : e \in R}
    OBVIOUS
  <2>3. \A k : Group(R, lab, k) = {e \in R : (e.timestamp - since) \div width = k}
    BY DEF Group
  <2> HIDE DEF R, lab, V, series
  <2> QED  BY <2>1, <2>2, <2>3
<1>3. \A k \in V : OfSucceeded(Group(R, lab, k), status) = Group(P, lab, k)
  BY DEF OfSucceeded, Group
<1>4. IsFiniteSet(V)
  <2> HIDE DEF lab, R
  <2> QED  BY <1>1, FiniteImage
<1> HIDE DEF R, V, lab, series, P
<1>5. DOMAIN series = V /\ \A k \in V : g[k] = Spend(Group(P, lab, k))
  <2>1. \A k \in V : g[k] = Spend(OfSucceeded(Group(R, lab, k), status))
    BY <1>2 DEF SliceRow
  <2> QED  BY <1>2, <1>3, <2>1
<1>6. SumFunction(g) = SumFunctionOnSet(g, V)
  BY <1>5 DEF SumFunction
<1> HIDE DEF g
<1>7. SumFunctionOnSet(g, V) = Spend({x \in P : lab[x] \in V})
  BY <1>1, <1>4, <1>5, SpendByGroups
<1>8. {x \in P : lab[x] \in V} = P
  BY <1>1 DEF V
<1>9. SumFunction(g) = Spend(P)
  BY <1>6, <1>7, <1>8, Zenon
<1> QED  BY <1>9 DEF g, series, P, R

(* For any ledger the timeseries cuts a slice into buckets without losing  *)
(* or repeating an event (store.py:242-273).                               *)
THEOREM LedgerBucketsPartition == LedgerSpec => []BucketsPartition
<1>1. ASSUME LedgerInv
      PROVE  BucketsPartition
  <2> SUFFICES ASSUME NEW dim \in Dims, NEW since \in Instants, NEW width \in {1, 2},
                      NEW v \in DOMAIN By(dim, since, Unbounded)
               PROVE  LET series == UnitCostTimeseries(events, status, dim, v, width, since) IN
                        SumFunction([k \in DOMAIN series |-> series[k].attributed])
                          = By(dim, since, Unbounded)[v].attributed
    BY DEF BucketsPartition
  <2> DEFINE R == Slice(Between(events, since, Unbounded), dim, v)
  <2>1. By(dim, since, Unbounded)[v] = SliceRow(R, status)
    BY MissingRowIsZero DEF By, RowOr0
  <2>2. By(dim, since, Unbounded)[v].attributed = Spend(OfSucceeded(R, status))
    BY <2>1 DEF SliceRow
  <2> QED  BY <1>1, <2>2, BucketsAddUp
<1> QED  BY <1>1, LedgerStepHolds, LedgerInitHolds, PTL DEF LedgerSpec

-----------------------------------------------------------------------------
(* A step that records an event records one and does nothing else.         *)
LEMMA NewEvent ==
  ASSUME [LedgerNext]_ledgerVars, NEW e \in events' \ events
  PROVE  events' = events \cup {e} /\ status' = status
BY DEF LedgerNext, RecordEvent, OpenOutcome, CloseOutcome, ledgerVars

(* For any ledger and any price of the call, one more attempt of an        *)
(* outcome that succeeds never lowers its slice's cost per outcome and     *)
(* touches no other slice (store.py:207-229).                              *)
THEOREM LedgerRetriesRaise == LedgerSpec => RetriesRaiseUnitCost
<1>1. LedgerInv /\ LedgerInv' /\ [LedgerNext]_ledgerVars =>
        [\A e \in events' \ events : \A dim \in Dims :
           LET before == By(dim, Unbounded, Unbounded)
               after  == SpendAndUnitCostBy(events', status', dim, Unbounded, Unbounded) IN
             /\ \A v \in DOMAIN before \ {e[dim]} : after[v] = before[v]
             /\ status[e.outcome_id] = SUCCEEDED
                /\ (\E f \in events : f.outcome_id = e.outcome_id /\ f[dim] = e[dim])
                  => AtLeastUnitCost(after[e[dim]], before[e[dim]])]_ledgerVars
  <2> SUFFICES ASSUME LedgerInv, LedgerInv', [LedgerNext]_ledgerVars,
                      NEW e \in events' \ events, NEW dim \in Dims
               PROVE  LET before == By(dim, Unbounded, Unbounded)
                          after  == SpendAndUnitCostBy(events', status', dim, Unbounded, Unbounded) IN
                        /\ \A v \in DOMAIN before \ {e[dim]} : after[v] = before[v]
                        /\ status[e.outcome_id] = SUCCEEDED
                           /\ (\E f \in events : f.outcome_id = e.outcome_id /\ f[dim] = e[dim])
                             => AtLeastUnitCost(after[e[dim]], before[e[dim]])
    OBVIOUS
  <2> DEFINE before == By(dim, Unbounded, Unbounded)
             after  == SpendAndUnitCostBy(events', status', dim, Unbounded, Unbounded)
             Old(v) == Slice(events, dim, v)
             New(v) == Slice(events', dim, v)
  <2>1. events' = events \cup {e} /\ status' = status
    BY NewEvent
  <2>2. before = [v \in {f[dim] : f \in events} |-> SliceRow(Old(v), status)]
    BY RowsOfQuery DEF By, Between
  <2>3. after = [v \in {f[dim] : f \in events'} |-> SliceRow(New(v), status)]
    BY <2>1, RowsOfQuery DEF Between
  <2>4. ASSUME NEW v \in DOMAIN before \ {e[dim]}
        PROVE  after[v] = before[v]
    <3>1. New(v) = Old(v)
      BY <2>1, <2>4 DEF Slice
    <3>2. v \in {f[dim] : f \in events} /\ v \in {f[dim] : f \in events'}
      BY <2>1, <2>2
    <3> HIDE DEF New, Old, before, after
    <3> QED  BY <2>2, <2>3, <3>1, <3>2
  <2>5. ASSUME status[e.outcome_id] = SUCCEEDED,
               NEW f \in events, f.outcome_id = e.outcome_id, f[dim] = e[dim]
        PROVE  AtLeastUnitCost(after[e[dim]], before[e[dim]])
    <3> DEFINE v == e[dim]
               P == OfSucceeded(Old(v), status)
               Q == OfSucceeded(New(v), status)
    <3>1. Q = P \cup {e} /\ P \cap {e} = {}
      BY <2>1, <2>5 DEF OfSucceeded, Slice, CountsTowardDenominator
    <3>2. OutcomesIn(Q) = OutcomesIn(P)
      BY <2>1, <2>5 DEF OfSucceeded, Slice, CountsTowardDenominator, OutcomesIn
    <3>3. Priced(Q) /\ IsFiniteSet(P)
      <4>1. Q \in SUBSET events' /\ P \in SUBSET events
        BY DEF OfSucceeded, Slice
      <4>2. Priced(events')
        BY LedgerAssumption DEF LedgerInv, LedgerTypeOK, LedgerEvents, Priced, NatOn, Cost
      <4> HIDE DEF P, Q
      <4> QED  BY <4>1, <4>2, LedgerIsPriced, PartOfPriced DEF Priced
    <3>4. P \in SUBSET Q
      BY <3>1
    <3> HIDE DEF P, Q
    <3>5. Spend(P) <= Spend(Q) /\ Spend(P) \in Nat /\ Spend(Q) \in Nat
      BY <3>3, <3>4, SpendMonotone, SpendType, PartOfPriced
    <3>6. Cardinality(OutcomesIn(P)) \in Nat
      <4>1. P \in SUBSET events
        BY DEF P, OfSucceeded, Slice
      <4> QED  BY <4>1, OutcomesFinite, FS_CardinalityType
    <3>7. /\ before[v].attributed = Spend(P) /\ after[v].attributed = Spend(Q)
          /\ before[v].succeeded_outcomes = Cardinality(OutcomesIn(P))
          /\ after[v].succeeded_outcomes = Cardinality(OutcomesIn(P))
      <4>1. v \in {x[dim] : x \in events} /\ v \in {x[dim] : x \in events'}
        BY <2>1, <2>5
      <4>2. before[v] = SliceRow(Old(v), status) /\ after[v] = SliceRow(New(v), status)
        <5> HIDE DEF before, after, Old, New
        <5> QED  BY <2>2, <2>3, <4>1
      <4> QED  BY <3>2, <4>2 DEF SliceRow, P, Q
    <3>8. \A a, b, n \in Nat : a <= b => b * n >= a * n
      OBVIOUS
    <3> QED  BY <3>5, <3>6, <3>7, <3>8 DEF AtLeastUnitCost
  <2> HIDE DEF before, after
  <2>6. /\ \A v \in DOMAIN before \ {e[dim]} : after[v] = before[v]
        /\ status[e.outcome_id] = SUCCEEDED
           /\ (\E f \in events : f.outcome_id = e.outcome_id /\ f[dim] = e[dim])
             => AtLeastUnitCost(after[e[dim]], before[e[dim]])
    BY <2>4, <2>5
  <2> QED  BY <2>6 DEF before, after
<1>2. LedgerInv /\ [LedgerNext]_ledgerVars => LedgerInv'
  BY LedgerStepHolds
<1> QED  BY <1>1, <1>2, LedgerInitHolds, PTL DEF LedgerSpec, RetriesRaiseUnitCost

=============================================================================
