--------------------------- MODULE ContextProofs ---------------------------
(***************************************************************************)
(* Theorems about Context: for any threads, dimensions, values and depth,  *)
(* the tokens of dimensions() give every call the labels of lexical        *)
(* scoping.                                                                *)
(*                                                                         *)
(* The argument: entering and leaving a block keep what every dimension    *)
(* was just inside each of the blocks that stay open (EnterKeeps and       *)
(* LeaveKeeps), so the levels read off the tokens are the scopes.          *)
(***************************************************************************)
EXTENDS Context, SequenceTheorems, WellFoundedInduction, TLAPS

-----------------------------------------------------------------------------
(* The levels as a function of one thread's variables and tokens.          *)

\* The blocks after the k-th, up to the m-th, that set d.
Sets(bs, k, m, d) == {j \in k + 1 .. m : d \in DOMAIN bs[j]}

Undone(cur, bs, k, d) ==
  IF Sets(bs, k, Len(bs), d) = {} THEN cur[d] ELSE bs[Min(Sets(bs, k, Len(bs), d))][d]

HasEnds(S) ==
  S # {} => (\E x \in S : \A y \in S : x <= y) /\ (\E x \in S : \A y \in S : x >= y)

ThreadOK(cur, bs) ==
  /\ cur \in [Dims -> Values]
  /\ bs \in Seq(Overrides)
  /\ \A d \in Dims : Undone(cur, bs, 0, d) = Sentinels[d]

\* The inductive invariant.
ContextInv ==
  /\ ContextTypeOK
  /\ \A w \in Threads : ThreadOK(current[w], blocks[w])

(* A set of natural numbers has a first member.                            *)
LEMMA HasFirst ==
  ASSUME NEW S \in SUBSET Nat, S # {}
  PROVE  \E x \in S : \A y \in S : x <= y
<1> DEFINE R == {ss \in Nat \X Nat : ss[1] < ss[2]}
<1>1. IsWellFoundedOn(R, Nat)
  BY NatLessThanWellFounded, Zenon DEF OpToRel
<1>2. \A x, y \in Nat : x < y => <<x, y>> \in R
  OBVIOUS
<1> HIDE DEF R
<1>3. PICK x \in S : \A y \in S : ~ (<<y, x>> \in R)
  BY <1>1, WFMin
<1>4. ASSUME NEW y \in S
      PROVE  x <= y
  <2>1. x \in Nat /\ y \in Nat
    OBVIOUS
  <2>2. ~ (y < x)
    BY <1>2, <1>3, <2>1
  <2> QED  BY <2>1, <2>2
<1> QED  BY <1>4

(* A bounded one has a last member as well.                                *)
LEMMA BoundedHasEnds ==
  ASSUME NEW n \in Nat, NEW S \in SUBSET (0 .. n)
  PROVE  HasEnds(S)
<1> SUFFICES ASSUME S # {}
             PROVE  /\ \E x \in S : \A y \in S : x <= y
                    /\ \E x \in S : \A y \in S : x >= y
  BY DEF HasEnds
<1>1. \E x \in S : \A y \in S : x <= y
  BY HasFirst
<1> DEFINE T == {n - x : x \in S}
<1>2. T \in SUBSET Nat /\ T # {}
  <2>1. \A x \in S : n - x \in Nat
    OBVIOUS
  <2> QED  BY <2>1
<1>3. PICK t \in T : \A u \in T : t <= u
  <2> HIDE DEF T
  <2> QED  BY <1>2, HasFirst
<1>4. PICK x \in S : t = n - x
  OBVIOUS
<1>5. \A y \in S : n - y \in T
  OBVIOUS
<1> HIDE DEF T
<1>6. \A y \in S : n - x <= n - y
  BY <1>3, <1>4, <1>5
<1>7. \A y \in S : x >= y
  BY <1>6
<1> QED  BY <1>1, <1>7

(* Blocks that set a dimension: if there are any, one is the outermost and *)
(* one the innermost.                                                      *)
LEMMA SetsHaveEnds ==
  ASSUME NEW bs, Len(bs) \in Nat, NEW k \in 0 .. Len(bs), NEW m \in 0 .. Len(bs), NEW d
  PROVE  HasEnds(Sets(bs, k, m, d))
<1> DEFINE S == Sets(bs, k, m, d)
<1>1. m \in Nat /\ S \in SUBSET (0 .. m)
  BY DEF Sets
<1> HIDE DEF S
<1>2. HasEnds(S)
  BY <1>1, BoundedHasEnds
<1> QED  BY <1>2 DEF S

LEMMA LeastIsMember ==
  ASSUME NEW S, HasEnds(S), S # {}
  PROVE  Min(S) \in S /\ \A y \in S : Min(S) <= y
BY DEF HasEnds, Min

LEMMA GreatestIsMember ==
  ASSUME NEW S, HasEnds(S), S # {}
  PROVE  Scopes!Max(S) \in S /\ \A y \in S : Scopes!Max(S) >= y
BY DEF HasEnds, Scopes!Max

LEMMA LeastIs ==
  ASSUME NEW S \in SUBSET Nat, NEW x \in S, \A y \in S : x <= y
  PROVE  Min(S) = x
<1>1. Min(S) \in S /\ \A y \in S : Min(S) <= y
  BY DEF Min
<1>2. Min(S) \in Nat /\ x \in Nat /\ Min(S) <= x /\ x <= Min(S)
  BY <1>1
<1> QED  BY <1>2

LEMMA LevelIsUndone ==
  ASSUME NEW w \in Threads, NEW k, NEW d
  PROVE  JustInside(w, k, d) = Undone(current[w], blocks[w], k, d)
<1>1. Inner(w, k, d) = Sets(blocks[w], k, Len(blocks[w]), d)
  BY DEF Inner, Sets
<1> QED  BY <1>1 DEF JustInside, Undone

(* What a level holds is a value.                                          *)
LEMMA LevelIsValue ==
  ASSUME NEW cur \in [Dims -> Values], NEW bs \in Seq(Overrides),
         NEW k \in 0 .. Len(bs), NEW d \in Dims
  PROVE  Undone(cur, bs, k, d) \in Values
<1> DEFINE S == Sets(bs, k, Len(bs), d)
<1>1. CASE S = {}
  BY <1>1 DEF Undone
<1>2. CASE S # {}
  <2>1. HasEnds(S)
    BY LenProperties, SetsHaveEnds
  <2>2. Min(S) \in S
    <3> HIDE DEF S
    <3> QED  BY <1>2, <2>1, LeastIsMember
  <2>3. Min(S) \in 1 .. Len(bs) /\ d \in DOMAIN bs[Min(S)]
    BY <2>2 DEF Sets
  <2>4. bs[Min(S)] \in Overrides
    BY <2>3, ElementOfSeq
  <2>5. bs[Min(S)][d] \in Values
    BY <2>3, <2>4 DEF Overrides
  <2> QED  BY <1>2, <2>5 DEF Undone
<1> QED  BY <1>1, <1>2

-----------------------------------------------------------------------------
(* Entering a block with arguments o.                                      *)
Tokens(cur, o) == [d \in DOMAIN o |-> cur[d]]

LEMMA EnterTypes ==
  ASSUME NEW cur \in [Dims -> Values], NEW bs \in Seq(Overrides), NEW o \in Overrides
  PROVE  /\ Override(cur, o) \in [Dims -> Values]
         /\ Tokens(cur, o) \in Overrides
         /\ Append(bs, Tokens(cur, o)) \in Seq(Overrides)
         /\ Len(Append(bs, Tokens(cur, o))) = Len(bs) + 1
         /\ \A j \in 1 .. Len(bs) : Append(bs, Tokens(cur, o))[j] = bs[j]
         /\ Append(bs, Tokens(cur, o))[Len(bs) + 1] = Tokens(cur, o)
<1>1. PICK ds \in SUBSET Dims : o \in [ds -> Values]
  BY DEF Overrides
<1>2. Override(cur, o) \in [Dims -> Values]
  BY <1>1 DEF Override
<1>3. Tokens(cur, o) \in [ds -> Values]
  BY <1>1 DEF Tokens
<1>4. Tokens(cur, o) \in Overrides
  BY <1>3 DEF Overrides
<1> QED  BY <1>2, <1>4, AppendProperties

LEMMA EnterKeeps ==
  ASSUME NEW cur \in [Dims -> Values], NEW bs \in Seq(Overrides), NEW o \in Overrides
  PROVE  LET bs2 == Append(bs, Tokens(cur, o)) IN
         /\ \A k \in 0 .. Len(bs), d \in Dims :
              Undone(Override(cur, o), bs2, k, d) = Undone(cur, bs, k, d)
         /\ \A d \in Dims : Undone(Override(cur, o), bs2, Len(bs2), d) = Override(cur, o)[d]
<1> DEFINE bs2 == Append(bs, Tokens(cur, o))
           n == Len(bs)
<1>1. /\ Len(bs2) = n + 1 /\ n \in Nat
      /\ \A j \in 1 .. n : bs2[j] = bs[j]
      /\ bs2[n + 1] = Tokens(cur, o)
  BY EnterTypes, LenProperties
<1>2. DOMAIN bs2[n + 1] = DOMAIN o
  BY <1>1 DEF Tokens
<1> HIDE DEF bs2, n
<1>3. \A k, m \in 0 .. n, d \in Dims : Sets(bs2, k, m, d) = Sets(bs, k, m, d)
  BY <1>1 DEF Sets
<1>4. \A k \in 0 .. n, d \in Dims :
        Sets(bs2, k, n + 1, d) = Sets(bs, k, n, d) \cup (IF d \in DOMAIN o THEN {n + 1} ELSE {})
  BY <1>1, <1>2 DEF Sets
<1>5. \A m \in 0 .. n + 1, d \in Dims : Sets(bs2, n + 1, m, d) = {}
  BY <1>1 DEF Sets
<1>6. \A k, m \in 0 .. n, d \in Dims : HasEnds(Sets(bs, k, m, d)) /\ Sets(bs, k, m, d) \subseteq 1 .. n
  <2> SUFFICES ASSUME NEW k \in 0 .. n, NEW m \in 0 .. n, NEW d \in Dims
               PROVE  HasEnds(Sets(bs, k, m, d)) /\ Sets(bs, k, m, d) \subseteq 1 .. n
    OBVIOUS
  <2>1. HasEnds(Sets(bs, k, m, d))
    BY <1>1, SetsHaveEnds DEF n
  <2>2. Sets(bs, k, m, d) \subseteq 1 .. n
    BY <1>1 DEF Sets
  <2> QED  BY <2>1, <2>2
<1>7. ASSUME NEW k \in 0 .. n, NEW d \in Dims
      PROVE  Undone(Override(cur, o), bs2, k, d) = Undone(cur, bs, k, d)
  <2> DEFINE S == Sets(bs, k, n, d)
             S2 == Sets(bs2, k, n + 1, d)
  <2>1. HasEnds(S) /\ S \subseteq 1 .. n /\ S2 = S \cup (IF d \in DOMAIN o THEN {n + 1} ELSE {})
    BY <1>1, <1>4, <1>6
  <2>2. /\ Undone(cur, bs, k, d) = IF S = {} THEN cur[d] ELSE bs[Min(S)][d]
        /\ Undone(Override(cur, o), bs2, k, d) =
             IF S2 = {} THEN Override(cur, o)[d] ELSE bs2[Min(S2)][d]
    BY <1>1 DEF Undone, n
  <2>3. Override(cur, o)[d] = IF d \in DOMAIN o THEN o[d] ELSE cur[d]
    BY DEF Override
  <2> HIDE DEF S, S2
  <2>4. CASE S = {} /\ d \notin DOMAIN o
    BY <2>1, <2>2, <2>3, <2>4
  <2>5. CASE S = {} /\ d \in DOMAIN o
    <3>1. S2 = {n + 1}
      BY <2>1, <2>5
    <3>2. Min(S2) = n + 1
      BY <1>1, <3>1, LeastIs
    <3>3. bs2[n + 1][d] = cur[d]
      BY <1>1, <2>5 DEF Tokens
    <3> QED  BY <2>2, <2>5, <3>1, <3>2, <3>3
  <2>6. CASE S # {}
    <3>1. Min(S) \in S /\ \A y \in S : Min(S) <= y
      BY <2>1, <2>6, LeastIsMember
    <3>2. S2 \in SUBSET Nat /\ Min(S) \in S2
      BY <1>1, <2>1, <3>1
    <3>3. \A y \in S2 : y \in S \/ y = n + 1
      BY <2>1
    <3>4. Min(S) \in 1 .. n
      BY <2>1, <3>1
    <3>5. \A y \in S2 : Min(S) <= y
      BY <1>1, <3>1, <3>3, <3>4
    <3>6. Min(S2) = Min(S)
      BY <3>2, <3>5, LeastIs
    <3>7. bs2[Min(S)] = bs[Min(S)]
      BY <1>1, <2>1, <3>1
    <3> QED  BY <2>2, <2>6, <3>2, <3>6, <3>7
  <2> QED  BY <2>4, <2>5, <2>6
<1>8. \A d \in Dims : Undone(Override(cur, o), bs2, Len(bs2), d) = Override(cur, o)[d]
  BY <1>1, <1>5 DEF Undone
<1> QED  BY <1>7, <1>8 DEF bs2, n

-----------------------------------------------------------------------------
(* Leaving the innermost block.                                            *)
Outer(bs) == SubSeq(bs, 1, Len(bs) - 1)

LEMMA LeaveTypes ==
  ASSUME NEW cur \in [Dims -> Values], NEW bs \in Seq(Overrides), bs # <<>>
  PROVE  /\ Len(bs) \in Nat \ {0}
         /\ Override(cur, bs[Len(bs)]) \in [Dims -> Values]
         /\ Outer(bs) \in Seq(Overrides)
         /\ Len(Outer(bs)) = Len(bs) - 1
         /\ \A j \in 1 .. Len(bs) - 1 : Outer(bs)[j] = bs[j]
<1>1. Len(bs) \in Nat \ {0}
  BY EmptySeq, LenProperties
<1>2. bs[Len(bs)] \in Overrides
  BY <1>1, ElementOfSeq
<1>3. Override(cur, bs[Len(bs)]) \in [Dims -> Values]
  BY <1>2 DEF Override, Overrides
<1>4. /\ Outer(bs) \in Seq(Overrides)
      /\ Len(Outer(bs)) = Len(bs) - 1
      /\ \A j \in 1 .. Len(bs) - 1 : Outer(bs)[j] = bs[j]
  <2> DEFINE n == Len(bs) - 1
  <2>1. n \in Nat /\ n + 1 = Len(bs)
    BY <1>1
  <2> HIDE DEF n
  <2>2. \A j \in 1 .. n : bs[j] \in Overrides
    BY <2>1, ElementOfSeq
  <2>3. /\ SubSeq(bs, 1, n) \in Seq(Overrides)
        /\ Len(SubSeq(bs, 1, n)) = IF 1 <= n THEN n - 1 + 1 ELSE 0
        /\ \A j \in 1 .. n - 1 + 1 : SubSeq(bs, 1, n)[j] = bs[1 + j - 1]
    BY <2>1, <2>2, SubSeqProperties
  <2>4. Len(SubSeq(bs, 1, n)) = n
    BY <2>1, <2>3
  <2>5. ASSUME NEW j \in 1 .. n
        PROVE  SubSeq(bs, 1, n)[j] = bs[j]
    <3>1. j \in 1 .. n - 1 + 1 /\ 1 + j - 1 = j
      BY <2>1
    <3> QED  BY <2>3, <3>1
  <2> QED  BY <2>3, <2>4, <2>5 DEF Outer, n
<1> QED  BY <1>1, <1>3, <1>4

LEMMA LeaveKeeps ==
  ASSUME NEW cur \in [Dims -> Values], NEW bs \in Seq(Overrides), bs # <<>>
  PROVE  \A k \in 0 .. Len(bs) - 1, d \in Dims :
           Undone(Override(cur, bs[Len(bs)]), Outer(bs), k, d) = Undone(cur, bs, k, d)
<1> DEFINE bs2 == Outer(bs)
           n == Len(bs)
           cur2 == Override(cur, bs[n])
<1>1. /\ n \in Nat \ {0} /\ Len(bs2) = n - 1
      /\ \A j \in 1 .. n - 1 : bs2[j] = bs[j]
  BY LeaveTypes
<1>2. \A d \in Dims : cur2[d] = IF d \in DOMAIN bs[n] THEN bs[n][d] ELSE cur[d]
  BY DEF Override
<1> HIDE DEF bs2, n, cur2
<1>3. \A k, m \in 0 .. n - 1, d \in Dims : Sets(bs2, k, m, d) = Sets(bs, k, m, d)
  BY <1>1 DEF Sets
<1>4. \A k \in 0 .. n - 1, d \in Dims :
        Sets(bs, k, n, d) = Sets(bs, k, n - 1, d) \cup (IF d \in DOMAIN bs[n] THEN {n} ELSE {})
  BY <1>1 DEF Sets
<1>5. \A k, m \in 0 .. n, d \in Dims : HasEnds(Sets(bs, k, m, d)) /\ Sets(bs, k, m, d) \subseteq 1 .. m
  <2> SUFFICES ASSUME NEW k \in 0 .. n, NEW m \in 0 .. n, NEW d \in Dims
               PROVE  HasEnds(Sets(bs, k, m, d)) /\ Sets(bs, k, m, d) \subseteq 1 .. m
    OBVIOUS
  <2>1. HasEnds(Sets(bs, k, m, d))
    BY <1>1, SetsHaveEnds DEF n
  <2>2. Sets(bs, k, m, d) \subseteq 1 .. m
    BY <1>1 DEF Sets
  <2> QED  BY <2>1, <2>2
<1>6. ASSUME NEW k \in 0 .. n - 1, NEW d \in Dims
      PROVE  Undone(cur2, bs2, k, d) = Undone(cur, bs, k, d)
  <2> DEFINE S == Sets(bs, k, n, d)
             S2 == Sets(bs2, k, n - 1, d)
  <2>1. k \in 0 .. n /\ n - 1 \in 0 .. n /\ n - 1 \in 0 .. n - 1 /\ n \in 0 .. n
    BY <1>1
  <2>2. /\ HasEnds(S2) /\ S2 \subseteq 1 .. n - 1
        /\ S = S2 \cup (IF d \in DOMAIN bs[n] THEN {n} ELSE {})
    BY <1>3, <1>4, <1>5, <2>1
  <2>3. /\ Undone(cur, bs, k, d) = IF S = {} THEN cur[d] ELSE bs[Min(S)][d]
        /\ Undone(cur2, bs2, k, d) = IF S2 = {} THEN cur2[d] ELSE bs2[Min(S2)][d]
    BY <1>1 DEF Undone, n
  <2> HIDE DEF S, S2
  <2>4. CASE S2 = {} /\ d \notin DOMAIN bs[n]
    BY <1>2, <2>2, <2>3, <2>4
  <2>5. CASE S2 = {} /\ d \in DOMAIN bs[n]
    <3>1. S = {n}
      BY <2>2, <2>5
    <3>2. Min(S) = n
      BY <1>1, <3>1, LeastIs
    <3> QED  BY <1>2, <2>3, <2>5, <3>1, <3>2
  <2>6. CASE S2 # {}
    <3>1. Min(S2) \in S2 /\ \A y \in S2 : Min(S2) <= y
      BY <2>2, <2>6, LeastIsMember
    <3>2. S \in SUBSET Nat /\ Min(S2) \in S
      BY <1>1, <2>2, <3>1
    <3>3. \A y \in S : y \in S2 \/ y = n
      BY <2>2
    <3>4. Min(S2) \in 1 .. n - 1
      BY <2>2, <3>1
    <3>5. \A y \in S : Min(S2) <= y
      BY <1>1, <3>1, <3>3, <3>4
    <3>6. Min(S) = Min(S2)
      BY <3>2, <3>5, LeastIs
    <3>7. bs2[Min(S2)] = bs[Min(S2)]
      BY <1>1, <3>4
    <3> QED  BY <2>3, <2>6, <3>2, <3>6, <3>7
  <2> QED  BY <2>4, <2>5, <2>6
<1> QED  BY <1>6 DEF bs2, n, cur2

-----------------------------------------------------------------------------
LEMMA InitHolds == Init => ContextInv
<1> SUFFICES ASSUME Init
             PROVE  ContextInv
  OBVIOUS
<1> USE ContextAssumption
<1>1. ContextTypeOK
  BY EmptySeq DEF Init, ContextTypeOK
<1>2. ASSUME NEW w \in Threads
      PROVE  ThreadOK(current[w], blocks[w])
  <2>1. /\ current[w] = Sentinels /\ blocks[w] = <<>> /\ Len(blocks[w]) = 0
        /\ blocks[w] \in Seq(Overrides)
    BY EmptySeq DEF Init
  <2>2. \A k, m \in 0 .. 0, d \in Dims : Sets(blocks[w], k, m, d) = {}
    BY DEF Sets
  <2>3. \A d \in Dims : Undone(current[w], blocks[w], 0, d) = Sentinels[d]
    BY <2>1, <2>2 DEF Undone
  <2> QED  BY <2>1, <2>3 DEF ThreadOK
<1> QED  BY <1>1, <1>2 DEF ContextInv

LEMMA EnterHolds ==
  ASSUME ContextInv, NEW w \in Threads, NEW o \in Overrides, Enter(w, o)
  PROVE  ContextInv'
<1>1. /\ current' = [current EXCEPT ![w] = Override(@, o)]
      /\ blocks' = [blocks EXCEPT ![w] = Append(@, Tokens(current[w], o))]
      /\ label' = label
  BY DEF Enter, Tokens
<1>2. ThreadOK(current[w], blocks[w]) /\ ContextTypeOK
  BY DEF ContextInv
<1>3. ThreadOK(Override(current[w], o), Append(blocks[w], Tokens(current[w], o)))
  <2>1. 0 \in 0 .. Len(blocks[w])
    BY <1>2, LenProperties DEF ThreadOK
  <2> QED  BY <1>2, <2>1, EnterTypes, EnterKeeps DEF ThreadOK
<1>4. ContextTypeOK'
  BY <1>1, <1>2, <1>3 DEF ContextTypeOK, ThreadOK
<1>5. \A v \in Threads : ThreadOK(current[v], blocks[v])'
  BY <1>1, <1>2, <1>3 DEF ContextInv, ContextTypeOK
<1> QED  BY <1>4, <1>5 DEF ContextInv

LEMMA LeaveHolds ==
  ASSUME ContextInv, NEW w \in Threads, Leave(w)
  PROVE  ContextInv'
<1>1. /\ blocks[w] # <<>>
      /\ current' = [current EXCEPT ![w] = Override(@, blocks[w][Len(blocks[w])])]
      /\ blocks' = [blocks EXCEPT ![w] = Outer(@)]
      /\ label' = label
  BY DEF Leave, Outer
<1>2. ThreadOK(current[w], blocks[w]) /\ ContextTypeOK
  BY DEF ContextInv
<1>3. ThreadOK(Override(current[w], blocks[w][Len(blocks[w])]), Outer(blocks[w]))
  <2>1. 0 \in 0 .. Len(blocks[w]) - 1
    BY <1>1, <1>2, LeaveTypes DEF ThreadOK
  <2> QED  BY <1>1, <1>2, <2>1, LeaveTypes, LeaveKeeps DEF ThreadOK
<1>4. ContextTypeOK'
  BY <1>1, <1>2, <1>3 DEF ContextTypeOK, ThreadOK
<1>5. \A v \in Threads : ThreadOK(current[v], blocks[v])'
  BY <1>1, <1>2, <1>3 DEF ContextInv, ContextTypeOK
<1> QED  BY <1>4, <1>5 DEF ContextInv

LEMMA CallHolds ==
  ASSUME ContextInv, NEW w \in Threads, Call(w)
  PROVE  ContextInv'
<1>1. ContextTypeOK'
  BY DEF ContextInv, ContextTypeOK, Call
<1>2. \A v \in Threads : ThreadOK(current[v], blocks[v])'
  BY DEF ContextInv, Call
<1> QED  BY <1>1, <1>2 DEF ContextInv

(* ContextInv: what a thread's tokens undo to is the sentinels, and every  *)
(* variable and token is a value (context.py:62-75).                       *)
THEOREM ContextInvariant == ContextSpec => []ContextInv
<1>1. ContextInv /\ [Next]_contextVars => ContextInv'
  <2> SUFFICES ASSUME ContextInv, [Next]_contextVars
               PROVE  ContextInv'
    OBVIOUS
  <2>1. ASSUME NEW w \in Threads, NEW o \in Overrides, Enter(w, o)
        PROVE  ContextInv'
    BY <2>1, EnterHolds
  <2>2. ASSUME NEW w \in Threads, Leave(w)
        PROVE  ContextInv'
    BY <2>2, LeaveHolds
  <2>3. ASSUME NEW w \in Threads, Call(w)
        PROVE  ContextInv'
    BY <2>3, CallHolds
  <2>4. CASE UNCHANGED contextVars
    BY <2>4 DEF contextVars, ContextInv, ContextTypeOK
  <2> QED  BY <2>1, <2>2, <2>3, <2>4 DEF Next
<1> QED  BY <1>1, InitHolds, PTL DEF ContextSpec

(* Variables and tokens are always values: a block never remembers a       *)
(* missing one (context.py:18-22, 68-71).                                  *)
THEOREM ContextTypeCorrect == ContextSpec => []ContextTypeOK
<1>1. ContextInv => ContextTypeOK
  BY DEF ContextInv
<1> QED  BY <1>1, ContextInvariant, PTL

(* Undoing the open blocks of any thread, however deep and whatever the    *)
(* others do, leaves only sentinels (context.py:69-75).                    *)
THEOREM NothingEverLeaks == ContextSpec => []NothingLeaks
<1>1. ContextInv => NothingLeaks
  BY LevelIsUndone DEF ContextInv, NothingLeaks, ThreadOK
<1> QED  BY <1>1, ContextInvariant, PTL

-----------------------------------------------------------------------------
(* The scopes that the tokens stand for.                                   *)
Levels(cur, bs) == [k \in 1 .. Len(bs) |-> [d \in DOMAIN bs[k] |-> Undone(cur, bs, k, d)]]

LEMMA LevelsType ==
  ASSUME NEW cur, NEW bs, ThreadOK(cur, bs)
  PROVE  /\ Levels(cur, bs) \in Seq(Overrides)
         /\ Len(Levels(cur, bs)) = Len(bs)
         /\ Len(bs) \in Nat
<1>1. Len(bs) \in Nat
  BY LenProperties DEF ThreadOK
<1>2. ASSUME NEW k \in 1 .. Len(bs)
      PROVE  [d \in DOMAIN bs[k] |-> Undone(cur, bs, k, d)] \in Overrides
  <2>1. PICK ds \in SUBSET Dims : bs[k] \in [ds -> Values]
    <3>1. bs[k] \in Overrides
      BY ElementOfSeq DEF ThreadOK
    <3> QED  BY <3>1 DEF Overrides
  <2>2. k \in 0 .. Len(bs)
    BY <1>1
  <2>3. \A d \in ds : Undone(cur, bs, k, d) \in Values
    BY <2>2, LevelIsValue DEF ThreadOK
  <2>4. [d \in DOMAIN bs[k] |-> Undone(cur, bs, k, d)] \in [ds -> Values]
    BY <2>1, <2>3
  <2> QED  BY <2>4 DEF Overrides
<1>3. Levels(cur, bs) \in [1 .. Len(bs) -> Overrides]
  BY <1>2 DEF Levels
<1> QED  BY <1>1, <1>3

LEMMA EnterLevels ==
  ASSUME NEW cur, NEW bs, ThreadOK(cur, bs), NEW o \in Overrides
  PROVE  Levels(Override(cur, o), Append(bs, Tokens(cur, o))) = Append(Levels(cur, bs), o)
<1> DEFINE cur2 == Override(cur, o)
           bs2 == Append(bs, Tokens(cur, o))
           n == Len(bs)
<1>1. /\ n \in Nat /\ Len(bs2) = n + 1
      /\ \A j \in 1 .. n : bs2[j] = bs[j]
      /\ DOMAIN bs2[n + 1] = DOMAIN o
  BY LenProperties, EnterTypes DEF ThreadOK, Tokens
<1>2. /\ \A k \in 0 .. n, d \in Dims : Undone(cur2, bs2, k, d) = Undone(cur, bs, k, d)
      /\ \A d \in Dims : Undone(cur2, bs2, n + 1, d) = cur2[d]
  BY <1>1, EnterKeeps DEF ThreadOK
<1>3. \A d \in Dims : cur2[d] = IF d \in DOMAIN o THEN o[d] ELSE cur[d]
  BY DEF Override
<1> HIDE DEF cur2, bs2, n
<1>4. PICK ds \in SUBSET Dims : o \in [ds -> Values]
  BY DEF Overrides
<1>5. /\ Levels(cur, bs) \in Seq(Overrides) /\ Len(Levels(cur, bs)) = n
  BY LevelsType DEF n
<1>6. /\ Append(Levels(cur, bs), o) \in Seq(Overrides)
      /\ Len(Append(Levels(cur, bs), o)) = n + 1
      /\ \A j \in 1 .. n : Append(Levels(cur, bs), o)[j] = Levels(cur, bs)[j]
      /\ Append(Levels(cur, bs), o)[n + 1] = o
  BY <1>1, <1>5, AppendProperties
<1>7. Append(Levels(cur, bs), o) \in [1 .. n + 1 -> Overrides]
  BY <1>6, LenProperties
<1>8. ASSUME NEW k \in 1 .. n + 1
      PROVE  [d \in DOMAIN bs2[k] |-> Undone(cur2, bs2, k, d)] = Append(Levels(cur, bs), o)[k]
  <2>1. CASE k = n + 1
    <3>1. [d \in DOMAIN bs2[k] |-> Undone(cur2, bs2, k, d)] = [d \in ds |-> o[d]]
      BY <1>1, <1>2, <1>3, <1>4, <2>1
    <3> QED  BY <1>4, <1>6, <2>1, <3>1
  <2>2. CASE k \in 1 .. n
    <3>1. k \in 0 .. n
      BY <1>1, <2>2
    <3>2. DOMAIN bs[k] \subseteq Dims
      <4>1. bs[k] \in Overrides
        BY <2>2, ElementOfSeq DEF ThreadOK, n
      <4> QED  BY <4>1 DEF Overrides
    <3>3. [d \in DOMAIN bs2[k] |-> Undone(cur2, bs2, k, d)] = [d \in DOMAIN bs[k] |-> Undone(cur, bs, k, d)]
      BY <1>1, <1>2, <2>2, <3>1, <3>2
    <3>4. Levels(cur, bs)[k] = [d \in DOMAIN bs[k] |-> Undone(cur, bs, k, d)]
      BY <2>2 DEF Levels, n
    <3> QED  BY <1>6, <2>2, <3>3, <3>4
  <2>3. k = n + 1 \/ k \in 1 .. n
    BY <1>1
  <2> QED  BY <2>1, <2>2, <2>3
<1>9. Levels(cur2, bs2) = Append(Levels(cur, bs), o)
  BY <1>1, <1>7, <1>8 DEF Levels
<1> QED  BY <1>9 DEF cur2, bs2

LEMMA LeaveLevels ==
  ASSUME NEW cur, NEW bs, ThreadOK(cur, bs), bs # <<>>
  PROVE  /\ Levels(Override(cur, bs[Len(bs)]), Outer(bs)) = Outer(Levels(cur, bs))
         /\ Levels(cur, bs) # <<>>
<1> DEFINE cur2 == Override(cur, bs[Len(bs)])
           bs2 == Outer(bs)
           n == Len(bs) - 1
           s == Levels(cur, bs)
<1>1. /\ n \in Nat /\ Len(bs) = n + 1 /\ Len(bs2) = n
      /\ \A j \in 1 .. n : bs2[j] = bs[j]
  BY LeaveTypes DEF ThreadOK
<1>2. \A k \in 0 .. n, d \in Dims : Undone(cur2, bs2, k, d) = Undone(cur, bs, k, d)
  BY LeaveKeeps DEF ThreadOK
<1>3. s \in Seq(Overrides) /\ Len(s) = n + 1
  BY <1>1, LevelsType
<1> HIDE DEF cur2, bs2, n, s
<1>4. s # <<>>
  BY <1>1, <1>3
<1>5. /\ Outer(s) \in Seq(Overrides)
      /\ Len(Outer(s)) = n
      /\ \A j \in 1 .. n : Outer(s)[j] = s[j]
  <2>1. Len(s) - 1 = n
    BY <1>1, <1>3
  <2> QED  BY <1>3, <1>4, <2>1, LeaveTypes DEF ThreadOK
<1>6. Outer(s) \in [1 .. n -> Overrides]
  BY <1>5, LenProperties
<1>7. ASSUME NEW k \in 1 .. n
      PROVE  [d \in DOMAIN bs2[k] |-> Undone(cur2, bs2, k, d)] = Outer(s)[k]
  <2>1. k \in 0 .. n /\ k \in 1 .. Len(bs)
    BY <1>1
  <2>2. DOMAIN bs[k] \subseteq Dims
    <3>1. bs[k] \in Overrides
      BY <2>1, ElementOfSeq DEF ThreadOK
    <3> QED  BY <3>1 DEF Overrides
  <2>3. [d \in DOMAIN bs2[k] |-> Undone(cur2, bs2, k, d)] = [d \in DOMAIN bs[k] |-> Undone(cur, bs, k, d)]
    BY <1>1, <1>2, <2>1, <2>2
  <2>4. s[k] = [d \in DOMAIN bs[k] |-> Undone(cur, bs, k, d)]
    BY <2>1 DEF Levels, s
  <2> QED  BY <1>5, <2>3, <2>4
<1>8. Levels(cur2, bs2) = Outer(s)
  BY <1>1, <1>6, <1>7 DEF Levels
<1> QED  BY <1>4, <1>8 DEF cur2, bs2, s

\* What the variables say is what the nesting says.
LEMMA CallLevels ==
  ASSUME NEW cur, NEW bs, ThreadOK(cur, bs)
  PROVE  Scopes!Effective(Levels(cur, bs)) = cur
<1> DEFINE n == Len(bs)
           s == Levels(cur, bs)
<1>1. n \in Nat /\ Len(s) = n /\ \A k \in 1 .. n : DOMAIN s[k] = DOMAIN bs[k]
  BY LevelsType DEF Levels
<1>2. \A k \in 1 .. n, d \in Dims : d \in DOMAIN bs[k] => s[k][d] = Undone(cur, bs, k, d)
  BY DEF Levels
<1> HIDE DEF n, s
<1>3. ASSUME NEW d \in Dims
      PROVE  (IF Scopes!Setting(s, d) = {} THEN Sentinels[d]
                ELSE s[Scopes!Max(Scopes!Setting(s, d))][d]) = cur[d]
  <2> DEFINE S == Sets(bs, 0, n, d)
  <2>1. Scopes!Setting(s, d) = S
    BY <1>1 DEF Scopes!Setting, Sets
  <2>2. HasEnds(S) /\ Undone(cur, bs, 0, d) = Sentinels[d]
    BY <1>1, SetsHaveEnds DEF ThreadOK, n
  <2>3. CASE S = {}
    BY <2>1, <2>2, <2>3 DEF Undone, n
  <2>4. CASE S # {}
    <3> DEFINE top == Scopes!Max(S)
    <3>1. top \in S /\ \A y \in S : top >= y
      <4> HIDE DEF S
      <4> QED  BY <2>2, <2>4, GreatestIsMember
    <3> HIDE DEF top
    <3>2. top \in 1 .. n /\ d \in DOMAIN bs[top]
      BY <1>1, <3>1 DEF Sets
    <3>3. Sets(bs, top, n, d) = {}
      BY <1>1, <3>1, <3>2 DEF Sets
    <3>4. s[top][d] = cur[d]
      BY <1>2, <3>2, <3>3 DEF Undone, n
    <3> QED  BY <2>1, <2>4, <3>4 DEF top
  <2> QED  BY <2>3, <2>4
<1>4. cur \in [Dims -> Values]
  BY DEF ThreadOK
<1>5. Scopes!Effective(s) = [d \in Dims |-> cur[d]]
  BY <1>3 DEF Scopes!Effective
<1> QED  BY <1>4, <1>5 DEF s

-----------------------------------------------------------------------------
\* The two readings of the open blocks, of all threads.
ScopesOf == [w \in Threads |->
               [k \in 1 .. Len(blocks[w]) |->
                  [d \in DOMAIN blocks[w][k] |-> JustInside(w, k, d)]]]

LevelsOf == [w \in Threads |-> Levels(current[w], blocks[w])]

LEMMA ScopesAreLevels == ScopesOf = LevelsOf
BY LevelIsUndone DEF ScopesOf, LevelsOf, Levels

LEMMA EnterIsEnter ==
  ASSUME ContextInv, NEW w \in Threads, NEW o \in Overrides, Enter(w, o)
  PROVE  /\ Len(LevelsOf[w]) < MaxDepth
         /\ LevelsOf' = [LevelsOf EXCEPT ![w] = Append(@, o)]
         /\ label' = label
<1>1. /\ Len(blocks[w]) < MaxDepth
      /\ current' = [current EXCEPT ![w] = Override(@, o)]
      /\ blocks' = [blocks EXCEPT ![w] = Append(@, Tokens(current[w], o))]
      /\ label' = label
  BY DEF Enter, Tokens
<1>2. ThreadOK(current[w], blocks[w]) /\ ContextTypeOK
  BY DEF ContextInv
<1>3. LevelsOf[w] = Levels(current[w], blocks[w])
  BY DEF LevelsOf
<1>4. Levels(current'[w], blocks'[w]) = Append(LevelsOf[w], o)
  BY <1>1, <1>2, <1>3, EnterLevels DEF ContextTypeOK
<1>5. \A v \in Threads : v # w => current'[v] = current[v] /\ blocks'[v] = blocks[v]
  BY <1>1, <1>2 DEF ContextTypeOK
<1>6. LevelsOf' = [LevelsOf EXCEPT ![w] = Append(@, o)]
  BY <1>4, <1>5 DEF LevelsOf
<1> QED  BY <1>1, <1>2, <1>3, <1>6, LevelsType

LEMMA LeaveIsLeave ==
  ASSUME ContextInv, NEW w \in Threads, Leave(w)
  PROVE  /\ LevelsOf[w] # <<>>
         /\ LevelsOf' = [LevelsOf EXCEPT ![w] = Outer(@)]
         /\ label' = label
<1>1. /\ blocks[w] # <<>>
      /\ current' = [current EXCEPT ![w] = Override(@, blocks[w][Len(blocks[w])])]
      /\ blocks' = [blocks EXCEPT ![w] = Outer(@)]
      /\ label' = label
  BY DEF Leave, Outer
<1>2. ThreadOK(current[w], blocks[w]) /\ ContextTypeOK
  BY DEF ContextInv
<1>3. LevelsOf[w] = Levels(current[w], blocks[w])
  BY DEF LevelsOf
<1>4. Levels(current'[w], blocks'[w]) = Outer(LevelsOf[w]) /\ LevelsOf[w] # <<>>
  BY <1>1, <1>2, <1>3, LeaveLevels DEF ContextTypeOK
<1>5. \A v \in Threads : v # w => current'[v] = current[v] /\ blocks'[v] = blocks[v]
  BY <1>1, <1>2 DEF ContextTypeOK
<1>6. LevelsOf' = [LevelsOf EXCEPT ![w] = Outer(@)]
  BY <1>4, <1>5 DEF LevelsOf
<1> QED  BY <1>1, <1>4, <1>6

LEMMA CallIsCall ==
  ASSUME ContextInv, NEW w \in Threads, Call(w)
  PROVE  /\ label' = [label EXCEPT ![w] = Scopes!Effective(LevelsOf[w])]
         /\ LevelsOf' = LevelsOf
<1>1. Scopes!Effective(LevelsOf[w]) = current[w]
  BY CallLevels DEF ContextInv, LevelsOf
<1> QED  BY <1>1 DEF Call, LevelsOf

(* The tokens implement lexical scoping, for any number of threads, any    *)
(* dimensions and any depth: what a call is labelled with is what the      *)
(* nesting of its own thread's blocks says (context.py:43-75).             *)
THEOREM TokensImplementScopes == ContextSpec => ImplementsScopes
<1>1. ScopesOf = LevelsOf /\ ScopesOf' = LevelsOf'
  <2>1. ScopesOf = LevelsOf
    BY ScopesAreLevels
  <2>2. (ScopesOf = LevelsOf)'
    BY <2>1, PTL
  <2> QED  BY <2>1, <2>2
<1>2. Init => Scopes!Init
  <2> SUFFICES ASSUME Init
               PROVE  Scopes!Init
    OBVIOUS
  <2>1. ScopesOf = [w \in Threads |-> <<>>]
    BY EmptySeq DEF Init, ScopesOf
  <2> QED  BY <2>1 DEF Init, Scopes!Init, ScopesOf
<1>3. ContextInv /\ [Next]_contextVars => [Scopes!Next]_<<ScopesOf, label>>
  <2> SUFFICES ASSUME ContextInv, [Next]_contextVars
               PROVE  [Scopes!Next]_<<ScopesOf, label>>
    OBVIOUS
  <2>1. ASSUME NEW w \in Threads, NEW o \in Overrides, Enter(w, o)
        PROVE  Scopes!Enter(w, o) /\ o \in Scopes!Overrides
    <3>1. /\ Len(ScopesOf[w]) < MaxDepth
          /\ ScopesOf' = [ScopesOf EXCEPT ![w] = Append(@, o)]
          /\ label' = label
      BY <1>1, <2>1, EnterIsEnter
    <3> QED  BY <3>1 DEF Scopes!Enter, Scopes!Overrides, Overrides, ScopesOf
  <2>2. ASSUME NEW w \in Threads, Leave(w)
        PROVE  Scopes!Leave(w)
    <3>1. /\ ScopesOf[w] # <<>>
          /\ ScopesOf' = [ScopesOf EXCEPT ![w] = Outer(@)]
          /\ label' = label
      BY <1>1, <2>2, LeaveIsLeave
    <3> QED  BY <3>1 DEF Scopes!Leave, Outer, ScopesOf
  <2>3. ASSUME NEW w \in Threads, Call(w)
        PROVE  Scopes!Call(w)
    <3>1. /\ label' = [label EXCEPT ![w] = Scopes!Effective(ScopesOf[w])]
          /\ ScopesOf' = ScopesOf
      BY <1>1, <2>3, CallIsCall
    <3> QED  BY <3>1 DEF Scopes!Call, ScopesOf
  <2>4. CASE UNCHANGED contextVars
    <3>1. UNCHANGED <<LevelsOf, label>>
      BY <2>4 DEF contextVars, LevelsOf
    <3> QED  BY <1>1, <3>1
  <2> QED  BY <2>1, <2>2, <2>3, <2>4 DEF Next, Scopes!Next
<1>4. ContextInv /\ [Next]_contextVars => [Scopes!Next]_<<[w \in Threads |->
               [k \in 1 .. Len(blocks[w]) |->
                  [d \in DOMAIN blocks[w][k] |-> JustInside(w, k, d)]]], label>>
  BY <1>3 DEF ScopesOf
<1> QED  BY <1>2, <1>4, ContextInvariant, PTL DEF ContextSpec, ImplementsScopes, Scopes!Spec

=============================================================================
