------------------------------ MODULE Context ------------------------------
(***************************************************************************)
(* costkit/context.py: dimensions() as it is written, with one context     *)
(* variable per dimension and a list of tokens per block.  A token is the  *)
(* value its variable had when the block set it.                           *)
(*                                                                         *)
(* A thread of the console's pool runs each request in a copy of the event *)
(* loop's context, where nobody sets a dimension.  Leave is the `finally': *)
(* it runs at the end of the block and when an exception passes through.   *)
(* A block sets each variable at most once, so the order in which one      *)
(* block's tokens are reset does not matter.                               *)
(***************************************************************************)
EXTENDS Naturals, Sequences, FiniteSetsExt

CONSTANTS Threads, Dims, Values, Sentinels, MaxDepth

ASSUME ContextAssumption == Sentinels \in [Dims -> Values] /\ MaxDepth \in Nat

VARIABLES current,    \* current[w]: the context variables as thread w gets them
          blocks,     \* blocks[w]: the tokens of its open blocks, outermost first
          label       \* label[w]: the Dimensions its last model call was given

contextVars == <<current, blocks, label>>

\* A partial map of the dimensions: a block's arguments, or its tokens.
Overrides == UNION {[ds -> Values] : ds \in SUBSET Dims}

Override(values, o) == [d \in Dims |-> IF d \in DOMAIN o THEN o[d] ELSE values[d]]

-----------------------------------------------------------------------------
Init ==
  /\ current = [w \in Threads |-> Sentinels]
  /\ blocks = [w \in Threads |-> <<>>]
  /\ label = [w \in Threads |-> Sentinels]

\* Mutants of Enter: a token keeps old_value, which is missing for a variable
\* that was never set; plain module variables, shared by the threads.
EnterRawToken(w, o) ==
  /\ Len(blocks[w]) < MaxDepth
  /\ current' = [current EXCEPT ![w] = Override(@, o)]
  /\ blocks' = [blocks EXCEPT ![w] = Append(@, [d \in DOMAIN o |->
                   IF current[w][d] = Sentinels[d] THEN "missing" ELSE current[w][d]])]
  /\ UNCHANGED label

EnterShared(w, o) ==
  /\ Len(blocks[w]) < MaxDepth
  /\ current' = [v \in Threads |-> Override(current[v], o)]
  /\ blocks' = [blocks EXCEPT ![w] = Append(@, [d \in DOMAIN o |-> current[w][d]])]
  /\ UNCHANGED label

\* dimensions() up to its yield: set each argument, keep the tokens.
Enter(w, o) ==
  /\ Len(blocks[w]) < MaxDepth
  /\ current' = [current EXCEPT ![w] = Override(@, o)]
  /\ blocks' = [blocks EXCEPT ![w] = Append(@, [d \in DOMAIN o |-> current[w][d]])]
  /\ UNCHANGED label

\* Mutants of Leave: the variables go back to their defaults; an exception
\* skips the reset.
LeaveToSentinels(w) ==
  /\ blocks[w] # <<>>
  /\ current' = [current EXCEPT ![w] =
                   Override(@, [d \in DOMAIN blocks[w][Len(blocks[w])] |-> Sentinels[d]])]
  /\ blocks' = [blocks EXCEPT ![w] = SubSeq(@, 1, Len(@) - 1)]
  /\ UNCHANGED label

LeaveWithoutReset(w) ==
  /\ blocks[w] # <<>>
  /\ blocks' = [blocks EXCEPT ![w] = SubSeq(@, 1, Len(@) - 1)]
  /\ UNCHANGED <<current, label>>

\* The finally clause: reset every token of the block.
Leave(w) ==
  /\ blocks[w] # <<>>
  /\ current' = [current EXCEPT ![w] = Override(@, blocks[w][Len(blocks[w])])]
  /\ blocks' = [blocks EXCEPT ![w] = SubSeq(@, 1, Len(@) - 1)]
  /\ UNCHANGED label

\* boundary.call begins: current().
Call(w) ==
  /\ label' = [label EXCEPT ![w] = current[w]]
  /\ UNCHANGED <<current, blocks>>

Next == \E w \in Threads : (\E o \in Overrides : Enter(w, o)) \/ Leave(w) \/ Call(w)

ContextSpec == Init /\ [][Next]_contextVars

-----------------------------------------------------------------------------
(* The variables keep their types; a token is a value, never missing.      *)
ContextTypeOK ==
  /\ current \in [Threads -> [Dims -> Values]]
  /\ blocks \in [Threads -> Seq(Overrides)]
  /\ label \in [Threads -> [Dims -> Values]]

\* The blocks of w inside its k-th that set d.
Inner(w, k, d) == {j \in k + 1 .. Len(blocks[w]) : d \in DOMAIN blocks[w][j]}

\* What d was just inside the k-th block of w, outside all of them if k = 0:
\* the first block further in that set d remembers it.
JustInside(w, k, d) ==
  IF Inner(w, k, d) = {} THEN current[w][d] ELSE blocks[w][Min(Inner(w, k, d))][d]

(* A task lends nothing to the next one: whatever is nested, on whichever  *)
(* thread, undoing the open blocks leaves only sentinels, so a call made   *)
(* outside every block is counted as unattributed and never charged to an  *)
(* outcome that is over (context.py:69-75, cost-event-schema.md's "always  *)
(* an explicit, countable value").                                         *)
NothingLeaks == \A w \in Threads, d \in Dims : JustInside(w, 0, d) = Sentinels[d]

(* Tokens implement lexical scoping: although a block keeps only what its  *)
(* variables were, every call is labelled as the nesting of its own        *)
(* thread's blocks says (context.py:43-75).  What a block set is read off  *)
(* the tokens of the blocks inside it.                                     *)
Scopes == INSTANCE LexicalScopes WITH
  scopes <- [w \in Threads |->
               [k \in 1 .. Len(blocks[w]) |->
                  [d \in DOMAIN blocks[w][k] |-> JustInside(w, k, d)]]]
ImplementsScopes == Scopes!Spec

=============================================================================
