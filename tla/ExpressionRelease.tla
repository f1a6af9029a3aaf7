--------------------------- MODULE ExpressionRelease ---------------------------
(****************************************************************************)
(* Destruction of owned expressions (src/owned.rs).  A TensorExpression is  *)
(* a handle on a shared Owned description, whose operands are handles in    *)
(* turn.  Dropping a handle works off a list instead of recursing: the last *)
(* handle on a description detaches its operands onto the list before the   *)
(* description itself is destroyed.  Threads drop and clone handles on the  *)
(* same descriptions concurrently; the strong count is Arc's.               *)
(****************************************************************************)
EXTENDS Naturals, Sequences, FiniteSets, SequencesExt, FiniteSetsExt

CONSTANTS
  Nodes,     \* the Owned descriptions
  Operands,  \* Operands[n]: the handles that n's expression holds
  Threads,
  Held,      \* Held[t][n]: the handles on n that t starts with
  MaxHeld    \* bound on the handles that one thread holds on one description

ASSUME ReleaseAssumption ==
  /\ Operands \in [Nodes -> Seq(Nodes)]
  /\ Held \in [Threads -> [Nodes -> Nat]]
  /\ IsFiniteSet(Nodes)
  /\ IsFiniteSet(Threads)

VARIABLES
  strong,   \* strong[n]: Arc's count
  live,     \* the descriptions not yet destroyed
  handles,  \* handles[t][n]: the handles on n that t owns
  work,     \* work[t]: the lists of t's nested drops, the innermost last
  taken     \* taken[t]: the description whose last handle t has just released

vars == <<strong, live, handles, work, taken>>

Positions(list, n) == {k \in DOMAIN list : list[k] = n}

(* The handles on n that exist: owned by threads, waiting on their lists or *)
(* held by descriptions.                                                    *)
OwnedHandles(n, owned) ==
  UNION {{<<"owned", t, i, 0>> : i \in 1..owned[t][n]} : t \in Threads}
ListedHandles(n, lists) ==
  UNION {UNION {{<<"listed", t, j, k>> : k \in Positions(lists[t][j], n)} :
                  j \in DOMAIN lists[t]} : t \in Threads}
OperandHandles(n, alive) ==
  UNION {{<<"operand", m, k, 0>> : k \in Positions(Operands[m], n)} : m \in alive}

Handles(n, alive, owned, lists) ==
  OwnedHandles(n, owned) \cup ListedHandles(n, lists) \cup OperandHandles(n, alive)

References(n, alive, owned, lists) == Cardinality(Handles(n, alive, owned, lists))

(* Every description is in use: nothing can reach another one.              *)
NoLists == [t \in Threads |-> <<>>]
ASSUME HeldAssumption == \A n \in Nodes : Handles(n, Nodes, Held, NoLists) # {}

Init ==
  /\ live = Nodes
  /\ handles = Held
  /\ work = NoLists
  /\ taken = [t \in Threads |-> <<>>]
  /\ strong = [n \in Nodes |-> References(n, Nodes, Held, NoLists)]

--------------------------------------------------------------------------------
Idle(t) == work[t] = <<>>

(* A clone shares the description.                                          *)
Clone(t, n) ==
  /\ Idle(t) /\ handles[t][n] \in 1..(MaxHeld - 1)
  /\ handles' = [handles EXCEPT ![t][n] = @ + 1]
  /\ strong' = [strong EXCEPT ![n] = @ + 1]
  /\ UNCHANGED <<live, work, taken>>

(* Drop::drop detaches the handle's own source onto a new list.             *)
Release(t, n) ==
  /\ Idle(t) /\ handles[t][n] > 0
  /\ handles' = [handles EXCEPT ![t][n] = @ - 1]
  /\ work' = [work EXCEPT ![t] = <<<<n>>>>]
  /\ UNCHANGED <<strong, live, taken>>

Innermost(t) == Last(work[t])
Draining(t) == work[t] # <<>> /\ taken[t] = <<>>

(* Faulty: a handle that is not the only one is dropped after a failed      *)
(* try_unwrap, where it may have become the last.                           *)
DecrementRetried(t) ==
  /\ Draining(t) /\ Innermost(t) # <<>>
  /\ LET n == Last(Innermost(t))
         rest == Append(Front(work[t]), Front(Innermost(t)))
     IN IF Len(work[t]) = 1 /\ strong[n] > 1
        THEN /\ work' = [work EXCEPT ![t] = Append(rest, <<n>>)]
             /\ UNCHANGED <<strong, taken>>
        ELSE /\ work' = [work EXCEPT ![t] = rest]
             /\ strong' = [strong EXCEPT ![n] = @ - 1]
             /\ taken' = [taken EXCEPT ![t] = IF strong[n] = 1 THEN <<n>> ELSE <<>>]
  /\ UNCHANGED <<live, handles>>

(* Faulty: a handle that is not the only one is put back for another try.   *)
DecrementSpinning(t) ==
  /\ Draining(t) /\ Innermost(t) # <<>>
  /\ strong[Last(Innermost(t))] = 1
  /\ LET n == Last(Innermost(t))
     IN /\ work' = [work EXCEPT ![t] = Append(Front(@), Front(Innermost(t)))]
        /\ strong' = [strong EXCEPT ![n] = 0]
        /\ taken' = [taken EXCEPT ![t] = <<n>>]
  /\ UNCHANGED <<live, handles>>

(* Arc::into_inner decrements the count and learns whether it was the last. *)
Decrement(t) ==
  /\ Draining(t) /\ Innermost(t) # <<>>
  /\ LET n == Last(Innermost(t))
     IN /\ work' = [work EXCEPT ![t] = Append(Front(@), Front(Innermost(t)))]
        /\ strong' = [strong EXCEPT ![n] = @ - 1]
        /\ taken' = [taken EXCEPT ![t] = IF strong[n] = 1 THEN <<n>> ELSE <<>>]
  /\ UNCHANGED <<live, handles>>

(* Faulty: a repeated operand is detached once for each of its uses, twice. *)
DetachedTwice(n) == Operands[n] \o Operands[n]

(* detach_sources of every operation.                                       *)
Detached(n) == Operands[n]

(* The last handle's thread detaches the operands and then destroys the     *)
(* description; what was not detached is dropped by a nested list.          *)
Destroy(t) ==
  /\ taken[t] # <<>>
  /\ LET n == taken[t][1]
         left == SubSeq(Operands[n], Len(Detached(n)) + 1, Len(Operands[n]))
         lists == Append(Front(work[t]), Innermost(t) \o Detached(n))
     IN /\ live' = live \ {n}
        /\ work' = [work EXCEPT ![t] = IF left = <<>> THEN lists ELSE Append(lists, left)]
  /\ taken' = [taken EXCEPT ![t] = <<>>]
  /\ UNCHANGED <<strong, handles>>

Return(t) ==
  /\ Draining(t) /\ Innermost(t) = <<>>
  /\ work' = [work EXCEPT ![t] = Front(@)]
  /\ UNCHANGED <<strong, live, handles, taken>>

Drop(t) == Decrement(t) \/ Destroy(t) \/ Return(t)

Next == \E t \in Threads : Drop(t) \/ \E n \in Nodes : Clone(t, n) \/ Release(t, n)

Spec == Init /\ [][Next]_vars

(* A thread that is dropping a handle runs.                                 *)
FairSpec == Spec /\ \A t \in Threads : WF_vars(Drop(t))

--------------------------------------------------------------------------------
(* What each variable holds.                                                *)
TypeOK ==
  /\ strong \in [Nodes -> Nat]
  /\ live \subseteq Nodes
  /\ handles \in [Threads -> [Nodes -> Nat]]
  /\ work \in [Threads -> Seq(Seq(Nodes))]
  /\ taken \in [Threads -> Seq(Nodes)]

(* However threads race for the last handles, the count is the number of    *)
(* handles there are: nothing is destroyed while a handle on it exists, and *)
(* nothing without handles survives, but for what a thread is destroying.   *)
CountsAreExact ==
  LET dying == {taken[t][1] : t \in {u \in Threads : taken[u] # <<>>}}
  IN \A n \in Nodes :
       /\ strong[n] = References(n, live, handles, work)
       /\ strong[n] > 0 <=> n \in live \ dying

(* No description is destroyed from within another one's destructor, so the *)
(* stack does not grow with the depth of the expression.                    *)
DestructionIsFlat == \A t \in Threads : taken[t] # <<>> => Len(work[t]) = 1

(* Every drop ends: its loop runs out of handles, whatever the other threads*)
(* release or clone meanwhile.                                              *)
EveryDropEnds == \A t \in Threads : []<>(Idle(t))
================================================================================
