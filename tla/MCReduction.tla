------------------------------ MODULE MCReduction ------------------------------
(****************************************************************************)
(* Batches of three.  Groups of one and two positions are packed in         *)
(* requests that repeat them; groups of four and five, and the whole of a   *)
(* tensor of two, are streamed, where not repeated with every set of        *)
(* candidates that covers what is not zero.                                 *)
(****************************************************************************)
EXTENDS Reduction

(* Batches of MaxBatch candidates, in order.                                *)
Chunked(S) ==
  LET rank(p) == Cardinality({q \in S : q < p})
  IN [k \in 1..((Cardinality(S) + MaxBatch - 1) \div MaxBatch) |->
       {p \in S : rank(p) \div MaxBatch = k - 1}]

Input(kind, groups, size, source, candidates, fails) ==
  [kind |-> kind, groups |-> groups, size |-> size, source |-> source,
   selected |-> [g \in DOMAIN source |-> Chunked(candidates)], fails |-> fails]

Nonzero(f) == {p \in DOMAIN f : f[p] # Zero}

Packed(size) ==
  {Input("axis", groups, size, source, 1..size, fails) :
     groups \in {<<2>>, <<1, 2, 1>>, <<1, 1, 2, 2, 1>>},
     source \in [1..2 -> [1..size -> Values]], fails \in 0..2}

Streamed(size) ==
  UNION {{Input(kind, <<1>>, size, <<f>>, c, fails) :
            kind \in {"axis", "terminal"}, fails \in 0..2,
            c \in {c \in SUBSET (1..size) : Nonzero(f) \subseteq c}} :
         f \in [1..size -> {0, 1}]}

Repeated ==
  {Input("axis", <<1, 2, 1>>, 4, <<f, g>>, 1..4, fails) :
     f, g \in [1..4 -> {0, 1}], fails \in {0, 4}}

Tested ==
  {Input(kind, <<1>>, 5, <<f>>, 1..5, fails) :
     kind \in {"all", "any"}, f \in [1..5 -> {0, 1}], fails \in 0..2}

AllInputs == Packed(1) \union Packed(2) \union Streamed(2) \union Streamed(5)
               \union Repeated \union Tested
================================================================================
