--------------------------- MODULE MCTensorLifecycle ---------------------------
(****************************************************************************)
(* Two data files and a few writes for TensorLifecycle.                     *)
(****************************************************************************)
EXTENDS TensorLifecycle
================================================================================
