-------------------------- MODULE MCSparseExpressions --------------------------
(****************************************************************************)
(* Expressions over sparse tensors a, b and c, a dense one d, and a sparse  *)
(* computed view v, over six places with two to a request: selections and   *)
(* operations that share operands, that are sparse, dense or refused, one   *)
(* that is too large to walk, a chain of operations that just can be        *)
(* followed and one that cannot, and leaves that fail or are empty.         *)
(****************************************************************************)
EXTENDS SparseExpressions

(* Zero of either sign, and what is above and below it.                     *)
SmallValues == {"zero", "-zero", "one", "-one"}
SmallZeros == {"zero", "-zero"}
Negated(v) == CASE v = "zero" -> "-zero" [] v = "-zero" -> "zero" [] v = "one" -> "-one" [] v = "-one" -> "one"
Negative(v) == v \in {"-zero", "-one"}
Nonzero(v) == v \notin SmallZeros

(* The backend's kernels; the argument of a complex number is that of its   *)
(* real part, and what is not a number is taken as one.                     *)
SmallKernel(operation, v) ==
  CASE operation = "negate" -> Negated(v[1])
    [] operation = "angle" -> IF Negative(v[1]) THEN "one" ELSE "zero"
    [] operation = "exp" -> "one"
    [] operation = "add" ->
         (CASE ~Nonzero(v[1]) /\ ~Nonzero(v[2]) -> IF v[1] = v[2] THEN v[1] ELSE "zero"
            [] ~Nonzero(v[1]) -> v[2]
            [] ~Nonzero(v[2]) -> v[1]
            [] OTHER -> IF v[1] = v[2] THEN v[1] ELSE "zero")
    [] operation = "mul" ->
         LET negative == Negative(v[1]) # Negative(v[2])
         IN IF Nonzero(v[1]) /\ Nonzero(v[2]) THEN IF negative THEN "-one" ELSE "one"
            ELSE IF negative THEN "-zero" ELSE "zero"
    [] operation = "eq" -> IF v[1] = v[2] \/ ~(Nonzero(v[1]) \/ Nonzero(v[2])) THEN "one" ELSE "zero"

(* Every node: its operation and operands.                                  *)
Node(operation, operands) == [operation |-> operation, operands |-> operands]
Table ==
  [n \in {"a", "b", "c", "d", "v", "-a", "-b", "add", "where", "large", "product", "mixed", "turned",
          "sum", "exp", "equal", "filled", "filled exp", "argument", "signed", "bad", "computed",
          "2", "3", "4", "5", "6", "7"} |->
    CASE n \in {"a", "b", "c", "d"} -> Node("tensor", <<>>)
      [] n = "v" -> Node("computed", <<>>)
      [] n = "-a" -> Node("negate", <<"a">>)
      [] n = "-b" -> Node("negate", <<"b">>)
      [] n = "add" -> Node("add", <<"a", "b">>)
      [] n = "where" -> Node("where", <<"c", "add", "a">>)
      [] n = "large" -> Node("add", <<"where", "b">>)
      [] n = "product" -> Node("mul", <<"a", "-b">>)
      [] n = "mixed" -> Node("add", <<"a", "d">>)
      [] n = "turned" -> Node("mapped", <<"-b">>)
      [] n = "sum" -> Node("add", <<"turned", "-a">>)
      [] n = "exp" -> Node("exp", <<"a">>)
      [] n = "equal" -> Node("eq", <<"a", "b">>)
      [] n = "filled" -> Node("dense", <<"a">>)
      [] n = "filled exp" -> Node("exp", <<"filled">>)
      [] n = "argument" -> Node("angle", <<"a">>)
      [] n = "signed" -> Node("where", <<"c", "a", "-b">>)
      [] n = "bad" -> Node("angle", <<"signed">>)
      [] n = "computed" -> Node("angle", <<"v">>)
      [] n = "2" -> Node("negate", <<"-a">>)
      [] n = "3" -> Node("negate", <<"2">>)
      [] n = "4" -> Node("negate", <<"3">>)
      [] n = "5" -> Node("negate", <<"4">>)
      [] n = "6" -> Node("negate", <<"5">>)
      [] n = "7" -> Node("negate", <<"6">>)]

Under(root) ==
  LET grown(nodes) == nodes \union UNION {ToSet(Table[n].operands) : n \in nodes}
      grownTwice(nodes) == grown(grown(nodes))
  IN grownTwice(grownTwice(grownTwice(grown({root}))))

Options1 == {<<<<0, 2>>, <<3>>>>, <<<<1>>, Error>>, <<<<1, 3>>, <<4>>>>}
Options2 == {<<>>, <<<<0>>, <<2, 3>>>>, <<<<2>>>>, <<<<3>>, <<4, 5>>>>}
Options3 == {<<<<1, 2>>>>, <<<<3>>>>, <<Error>>}

(* What a tensor stores at the places it is asked for: stored zeros, values *)
(* that cancel each other's, and negative zeros.                            *)
Given(n, p) ==
  CASE n = "a" -> IF p = 2 THEN "zero" ELSE "one"
    [] n = "b" -> IF p = 3 THEN "-one" ELSE IF p = 4 THEN "-zero" ELSE "one"
    [] n = "c" -> IF p = 1 THEN "zero" ELSE "one"
    [] n = "d" -> IF p % 2 = 0 THEN "-one" ELSE "zero"
    [] n = "v" -> IF p = 1 THEN "one" ELSE "-zero"

(* A tensor's blocks are stored in another order than its elements have.    *)
Expressed(root, a, b, c, select, prefer, preferring) ==
  LET nodes == Under(root)
      requests == [n \in {"a", "b", "c"} \intersect nodes |-> CASE n = "a" -> a [] n = "b" -> b [] n = "c" -> c]
      stored(items) == Reverse([k \in DOMAIN items |-> IF items[k] = Error THEN Error ELSE Reverse(items[k])])
  IN [root |-> root, select |-> select, prefer |-> prefer, preferring |-> preferring \intersect nodes,
      operands |-> [n \in nodes |-> Table[n].operands],
      operation |-> [n \in nodes |-> Table[n].operation],
      sparse |-> {"a", "b", "c", "v"} \intersect nodes,
      requests |-> requests,
      native |-> [n \in DOMAIN requests |-> stored(requests[n])],
      elements |-> [n \in {"a", "b", "c", "d", "v"} \intersect nodes |-> [p \in Places |->
        IF n \in DOMAIN requests /\ \A k \in DOMAIN requests[n] :
             requests[n][k] = Error \/ p \notin ToSet(requests[n][k])
        THEN Zero ELSE Given(n, p)]]]

SmallExpressions ==
  {Expressed(root, a, b, c, select, FALSE, {}) :
     root \in DOMAIN Table \ {"add", "c", "d", "b"}, a \in Options1, b \in Options2, c \in Options3,
     select \in BOOLEAN}
    \union {Expressed(root, <<>>, <<>>, <<>>, FALSE, TRUE, p) :
              root \in {"where", "large", "b", "mixed", "sum"}, p \in SUBSET {"a", "b", "c"}}

SmallInputs == {Described(e) : e \in SmallExpressions}
================================================================================
