--------------------------- MODULE SparseExpressions ---------------------------
(****************************************************************************)
(* The sparse elements of an elementwise expression: its construction,      *)
(* which refuses what would not be sparse (src/unary.rs, src/binary.rs,     *)
(* src/selection.rs, src/owned.rs), and the stream that evaluates the       *)
(* candidates of CandidateUnion and leaves out zeros (sparse_stream and     *)
(* sparse_elements of src/expression.rs), or, for a reduction, takes them   *)
(* all and what no candidate names to be an implicit zero (src/reduce.rs).  *)
(*                                                                          *)
(* Logical coordinates are their row-major places.  A value is a member of  *)
(* Values, and the kernels of the backend are a table.                      *)
(****************************************************************************)
EXTENDS CandidateUnion

CONSTANTS
  Size,          \* the elements of the expression
  Values,        \* what an element can be
  Zero,          \* TensorElement::ZERO
  Zeros,         \* the values that are equal to it, of either sign
  Kernel(_, _)   \* UnaryOp::apply and BinaryOp::apply: of an operation and values

Places == 0..(Size - 1)

(* What a node is: a tensor or another computed view, which has elements of *)
(* its own; an elementwise operation, a selection; or an owned expression,  *)
(* as it is, made dense, or seen through a mapping.                         *)
Own == {"tensor", "computed"}
Owned == {"owned", "dense", "mapped"}

(* layout: what is sparse, if its operands are.                             *)
SparseFrom(e, n, sparse) ==
  CASE e.operation[n] \in Own -> n \in e.sparse
    [] e.operation[n] = "dense" -> FALSE
    [] OTHER -> \A k \in DOMAIN sparse : sparse[k]

SparseNodes(e) ==
  LET sparse[n \in DOMAIN e.operands] ==
        SparseFrom(e, n, [k \in DOMAIN e.operands[n] |-> sparse[e.operands[n][k]]])
  IN {n \in DOMAIN e.operands : sparse[n]}

OperandsAreSparse(e, n) == \A k \in DOMAIN e.operands[n] : e.operands[n][k] \in SparseNodes(e)

(* Faulty: that of a selection is its first branch's.                       *)
ZeroOfThen(operation, zeros) ==
  CASE operation = "where" -> zeros[2]
    [] operation \in Owned -> zeros[1]
    [] OTHER -> Kernel(operation, zeros)

(* The value of omitted elements, from those of the operands.               *)
ZeroOf(operation, zeros) ==
  CASE operation = "where" -> zeros[3]
    [] operation \in Owned -> zeros[1]
    [] OTHER -> Kernel(operation, zeros)

(* implicit_zero, which dense nodes and those with elements of their own    *)
(* leave at zero.                                                           *)
ImplicitZeros(e) ==
  LET zero[n \in DOMAIN e.operands] ==
        IF e.operation[n] \in Own \/ (e.operation[n] \notin Owned \union {"where"} /\ ~OperandsAreSparse(e, n))
        THEN Zero
        ELSE ZeroOf(e.operation[n], [k \in DOMAIN e.operands[n] |-> zero[e.operands[n][k]]])
  IN zero

(* WouldDensify: a node that sparse operands do not make sparse.            *)
WouldDensify(e, n) == OperandsAreSparse(e, n) /\ ImplicitZeros(e)[n] \notin Zeros

(* The mapping of an owned expression: it is seen backwards.                *)
Mapped(p) == Size - 1 - p

(* What build computes for a place, from the elements of the operands.      *)
ValueAt(e, n, operand, p) ==
  CASE e.operation[n] \in Own -> e.elements[n][p]
    [] e.operation[n] = "mapped" -> operand[1][Mapped(p)]
    [] e.operation[n] \in Owned \ {"mapped"} -> operand[1][p]
    [] e.operation[n] = "where" -> IF operand[1][p] \in Zeros THEN operand[3][p] ELSE operand[2][p]
    [] OTHER -> Kernel(e.operation[n], [k \in DOMAIN operand |-> operand[k][p]])

Evaluated(e) ==
  LET value[n \in DOMAIN e.operands] ==
        LET operand == [k \in DOMAIN e.operands[n] |-> value[e.operands[n][k]]]
        IN [p \in Places |-> ValueAt(e, n, operand, p)]
  IN value

(* Slice::stream: all places.                                               *)
Everything ==
  [k \in 1..((Size + MaxBatch - 1) \div MaxBatch) |->
    [j \in 1..Min({MaxBatch, Size - (k - 1) * MaxBatch}) |-> (k - 1) * MaxBatch + j - 1]]

(* ordered_step: a dense selection, operation or owned expression, another  *)
(* computed view, and an owned expression seen through a mapping answer     *)
(* with all of the slice; a unary operation always refers to its source.    *)
Answering(e) ==
  {n \in DOMAIN e.operands :
    \/ e.operation[n] \in {"computed", "mapped"}
    \/ n \notin SparseNodes(e) /\ (e.operation[n] \in {"tensor"} \union Owned \/ Len(e.operands[n]) > 1)}

(* The input of the walk over an expression; requests[n] are those of the   *)
(* sparse tensor n in order, native[n] those as it is stored.               *)
Described(e) ==
  LET streams(requests) ==
        [n \in DOMAIN e.operands |->
          IF n \in Answering(e) THEN Everything ELSE IF n \in DOMAIN requests THEN requests[n] ELSE <<>>]
  IN [root |-> e.root, operands |-> e.operands, prefer |-> e.prefer, preferring |-> e.preferring,
      select |-> e.select, whole |-> Answering(e),
      streams |-> streams(e.requests), native |-> streams(e.native),
      expression |-> e]

(* Tensors and other computed views have elements, the others operands, of  *)
(* which a selection has three and an owned expression one; kernels compute *)
(* values; and request discovery names every element that a sparse tensor   *)
(* stores, and nothing outside of its shape.                                *)
Expressible(e) ==
  /\ \A n \in DOMAIN e.operands :
       /\ e.operands[n] = <<>> <=> e.operation[n] \in Own
       /\ e.operation[n] \in Own => e.elements[n] \in [Places -> Values]
       /\ e.operation[n] = "tensor" /\ n \in e.sparse => n \in DOMAIN e.requests
       /\ e.operation[n] \in Owned => Len(e.operands[n]) = 1
       /\ e.operation[n] = "where" => Len(e.operands[n]) = 3
       /\ e.operation[n] \notin Own \union Owned \union {"where"} =>
            \A v \in [DOMAIN e.operands[n] -> Values] : Kernel(e.operation[n], v) \in Values
  /\ DOMAIN e.native = DOMAIN e.requests
  /\ \A n \in DOMAIN e.requests :
       /\ Named(e.requests[n]) \union Named(e.native[n]) \subseteq Places
       /\ \A p \in Places : e.elements[n][p] # Zero => p \in Named(e.requests[n]) /\ p \in Named(e.native[n])

ASSUME ExpressionAssumption ==
  /\ Size \in Nat
  /\ Zero \in Zeros /\ Zeros \subseteq Values
  /\ \A i \in Inputs : i = Described(i.expression) /\ Expressible(i.expression)

VARIABLES
  built,     \* the nodes constructed, from the operands up
  evaluated, \* the candidate requests evaluated
  elements   \* the elements delivered, or accumulated: places and values

reading == <<built, evaluated, elements>>

Expression == input.expression

ExpressionInit ==
  /\ input \in Inputs
  /\ phase = "build"
  /\ AtRoot
  /\ built = {} /\ evaluated = 0 /\ elements = <<>>

(* A node whose operands exist is constructed, and last the root.           *)
Constructible ==
  {n \in DOMAIN input.operands \ built : ToSet(input.operands[n]) \subseteq built}

Construct ==
  /\ phase = "build"
  /\ \E n \in Constructible :
       /\ ~WouldDensify(Expression, n)
       /\ built' = built \union {n}
       /\ phase' = IF n = input.root THEN Beginning ELSE "build"
  /\ UNCHANGED <<input, walking, merging, evaluated, elements>>

RefuseConstruction ==
  /\ phase = "build"
  /\ \E n \in Constructible : WouldDensify(Expression, n)
  /\ phase' = "refused"
  /\ UNCHANGED <<input, walking, merging, reading>>

(* sparse_elements leaves out zeros, a reduction accumulates them as well.  *)
Taken(element) == input.select \/ element[2] \notin Zeros

TakenOf(batch) ==
  LET taken[k \in 0..Len(batch)] ==
        IF k = 0 THEN <<>>
        ELSE IF Taken(batch[k]) THEN Append(taken[k - 1], batch[k]) ELSE taken[k - 1]
  IN taken[Len(batch)]

(* A request is evaluated before the next is asked for, or fails.           *)
Discover ==
  /\ phase # "build" /\ evaluated = Len(emitted)
  /\ Next
  /\ UNCHANGED reading

Evaluate ==
  /\ evaluated < Len(emitted)
  /\ LET request == emitted[evaluated + 1]
         values == Evaluated(Expression)[input.root]
         batch == [k \in DOMAIN request |-> <<request[k], values[request[k]]>>]
     IN elements' = elements \o TakenOf(batch)
  /\ evaluated' = evaluated + 1
  /\ UNCHANGED <<vars, built>>

FailEvaluation ==
  /\ evaluated < Len(emitted)
  /\ phase' = "failed"
  /\ evaluated' = Len(emitted)
  /\ UNCHANGED <<input, walking, merging, built, elements>>

ExpressionNext == Construct \/ RefuseConstruction \/ Discover \/ Evaluate \/ FailEvaluation

ExpressionSpec == ExpressionInit /\ [][ExpressionNext]_<<vars, reading>>

--------------------------------------------------------------------------------
(* The stream delivers the elements of the expression that are not zero, in *)
(* order and each once, and all of them if it ends well: no element is      *)
(* missing because no operand's candidates name it.  What a reduction takes *)
(* the elements to be that no candidate names is what they are, down to the *)
(* sign of zero (new, implicit_zero, ordered_step, selection_step,          *)
(* sparse_elements).                                                        *)
SparseStreamIsExact ==
  LET values == Evaluated(Expression)[input.root]
      wanted == {p \in Places : values[p] \notin Zeros}
      delivered == [k \in DOMAIN elements |-> elements[k][1]]
      done == IF evaluated = 0 \/ phase = "failed" \/ Native THEN -1 ELSE Last(emitted[evaluated])
      discovered == phase \notin {"build", "refused", "select", "walk", "failed"} /\ ~input.prefer
  IN /\ \A k \in DOMAIN elements : elements[k][2] = values[elements[k][1]]
     /\ IsInjective(delivered)
     /\ ~Native => \A k \in 1..(Len(delivered) - 1) : delivered[k] < delivered[k + 1]
     /\ {p \in wanted : p <= done} \subseteq ToSet(delivered)
     /\ ~input.select => ToSet(delivered) \subseteq wanted
     /\ phase = "ended" /\ evaluated = Len(emitted) => wanted \subseteq ToSet(delivered)
     /\ discovered => \A p \in Places \ Candidates : values[p] = ImplicitZeros(Expression)[input.root]
================================================================================
