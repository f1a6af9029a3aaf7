--------------------------- MODULE InOrderEvaluation ---------------------------
(****************************************************************************)
(* What evaluating one bounded batch promises its caller, with no frames,   *)
(* no polls and no channels: storage is read leaf by leaf in operand order, *)
(* a completed evaluation has read exactly the leaves of its expression,    *)
(* and an evaluation that fails or is dropped keeps nothing it read.        *)
(* EvaluationDriver implements this specification.                          *)
(****************************************************************************)
EXTENDS Naturals, Sequences

CONSTANT Orders    \* the leaves of each expression, in operand order

VARIABLES order,   \* those of the expression that is evaluated
          reads,   \* the leaves whose values the evaluation holds, in order
          outcome  \* "open", "ok" (the caller has the value) or "abandoned"

vars == <<order, reads, outcome>>

Init == /\ order \in Orders
        /\ reads = <<>>
        /\ outcome = "open"

(* The next leaf, and no other, is read. *)
Read == /\ outcome = "open"
        /\ Len(reads) < Len(order)
        /\ reads' = Append(reads, order[Len(reads) + 1])
        /\ UNCHANGED <<order, outcome>>

(* The caller receives a value only when nothing is left to read. *)
Complete == /\ outcome = "open"
            /\ reads = order
            /\ outcome' = "ok"
            /\ UNCHANGED <<order, reads>>

(* A failure or a cancellation releases what was read. *)
Abandon == /\ outcome = "open"
           /\ outcome' = "abandoned"
           /\ reads' = <<>>
           /\ UNCHANGED order

Next == Read \/ Complete \/ Abandon

Spec == Init /\ [][Next]_vars
================================================================================
