-------------------------- MODULE MCTensorConstruction -------------------------
(****************************************************************************)
(* Sparse input over edge blocks that are contiguous, over blocks that      *)
(* interleave and over scalar blocks; dense input over two blocks of which  *)
(* one is padded.                                                           *)
(****************************************************************************)
EXTENDS TensorConstruction

Input(kind, shape, block) == [kind |-> kind, shape |-> shape, block |-> block]

SmallInputs ==
  {Input("elements", <<2, 3>>, <<1, 2>>),
   Input("elements", <<1, 2, 3>>, <<1, 2, 2>>),
   Input("elements", <<2, 2>>, <<1, 1>>),
   Input("values", <<3, 2>>, <<2, 2>>),
   Input("copy", <<3>>, <<2>>)}
================================================================================
