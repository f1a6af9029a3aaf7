--------------------------- MODULE MCEvaluationDriver --------------------------
(****************************************************************************)
(* Small expressions for EvaluationDriver.                                  *)
(****************************************************************************)
EXTENDS EvaluationDriver, SequencesExt

(* root: where(c, neg a, sum a) in which the sum asks for a twice and c, a  *)
(* share nothing: nested operations, a shared leaf and repeated calls.      *)
(* deep: add(a, where(..)), one frame more than root, whose addition ends a *)
(* leaf before it asks for the operand that is too high.                    *)
ModelCalls ==
  [n \in {"root", "where", "neg", "sum", "a", "c", "deep", "add"} |->
    CASE n = "root" -> <<"where">>
      [] n = "where" -> <<"c", "neg", "sum">>
      [] n = "neg" -> <<"a">>
      [] n = "sum" -> <<"a", "a">>
      [] n = "deep" -> <<"add">>
      [] n = "add" -> <<"a", "where">>
      [] OTHER -> <<>>]

ModelNodes == DOMAIN ModelCalls
ModelRoots == {"root", "deep"}

(* The leaves an expression reads and the frames it needs, by recursion.    *)
RECURSIVE Traversal(_, _)
Traversal(calls, n) ==
  IF calls[n] = <<>> THEN <<n>>
  ELSE FlattenSeq([k \in DOMAIN calls[n] |-> Traversal(calls, calls[n][k])])

RECURSIVE Levels(_, _)
Levels(calls, n) ==
  1 + Max({0} \union {Levels(calls, calls[n][k]) : k \in DOMAIN calls[n]})

PartialOf(calls) ==
  [n \in DOMAIN calls |->
    [k \in 0..Len(calls[n]) |->
      FlattenSeq([j \in 1..k |-> Traversal(calls, calls[n][j])])]]

HeightOf(calls) == [n \in DOMAIN calls |-> Levels(calls, n)]

ModelPartial == PartialOf(ModelCalls)
ModelHeight == HeightOf(ModelCalls)

================================================================================
