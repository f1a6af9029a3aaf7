-------------------------- MODULE MCExpressionRelease --------------------------
(****************************************************************************)
(* where(c, neg x, c) over a shared x and a shared, repeated c; one thread  *)
(* owns the whole, another an operand of it, and both may clone.            *)
(****************************************************************************)
EXTENDS ExpressionRelease, TLC

SmallNodes == {"where", "neg", "x", "c"}
SmallOperands ==
  [n \in SmallNodes |->
    CASE n = "where" -> <<"c", "neg", "c">>
      [] n = "neg" -> <<"x">>
      [] OTHER -> <<>>]

NoHandles == [n \in SmallNodes |-> 0]
SmallHeld ==
  "t1" :> [NoHandles EXCEPT !["where"] = 1, !["x"] = 1]
    @@ "t2" :> [NoHandles EXCEPT !["where"] = 1, !["neg"] = 1]
================================================================================
