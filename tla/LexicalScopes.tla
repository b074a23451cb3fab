--------------------------- MODULE LexicalScopes ---------------------------
(***************************************************************************)
(* What costkit/context.py promises its callers: dimensions are lexically  *)
(* scoped.  Each thread has the blocks it is inside of, and a model call   *)
(* is labelled, dimension by dimension, by the innermost block that sets   *)
(* the dimension, and by the sentinel when none does.                      *)
(***************************************************************************)
EXTENDS Naturals, Sequences, FiniteSetsExt

CONSTANTS Threads,
          Dims,       \* the five dimensions
          Values,     \* what they can be set to
          Sentinels,  \* [Dims -> Values]: the value of a dimension nobody set
          MaxDepth    \* in Nat; bound: blocks one inside the other

VARIABLES scopes,     \* scopes[w]: what each open block sets, outermost first
          label       \* label[w]: the dimensions of the last call of w

\* Any of the dimensions, each with a value: the arguments that are not None.
Overrides == UNION {[ds -> Values] : ds \in SUBSET Dims}

Setting(s, d) == {k \in 1 .. Len(s) : d \in DOMAIN s[k]}

Effective(s) == [d \in Dims |-> IF Setting(s, d) = {} THEN Sentinels[d] ELSE s[Max(Setting(s, d))][d]]

-----------------------------------------------------------------------------
Init ==
  /\ scopes = [w \in Threads |-> <<>>]
  /\ label = [w \in Threads |-> Sentinels]

Enter(w, o) ==
  /\ Len(scopes[w]) < MaxDepth
  /\ scopes' = [scopes EXCEPT ![w] = Append(@, o)]
  /\ UNCHANGED label

Leave(w) ==
  /\ scopes[w] # <<>>
  /\ scopes' = [scopes EXCEPT ![w] = SubSeq(@, 1, Len(@) - 1)]
  /\ UNCHANGED label

Call(w) ==
  /\ label' = [label EXCEPT ![w] = Effective(scopes[w])]
  /\ UNCHANGED scopes

Next == \E w \in Threads : (\E o \in Overrides : Enter(w, o)) \/ Leave(w) \/ Call(w)

Spec == Init /\ [][Next]_<<scopes, label>>

=============================================================================
