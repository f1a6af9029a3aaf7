----------------------------- MODULE MCDenseStorage ----------------------------
(****************************************************************************)
(* Four tasks over three files, with windows of two: two readers with a     *)
(* writer of two blocks and another of the block between them, and two      *)
(* readers with a fill.                                                     *)
(****************************************************************************)
EXTENDS DenseStorage, TLC

Write(b, patch) == [id |-> b, patch |-> patch]

Both == Writing(<<Write(0, 0 :> 1), Write(2, 1 :> 1)>>)
All == Reading({0, 1, 2})

TaskJobs ==
  {[t1 |-> All, t2 |-> All, t3 |-> Both, t4 |-> Writing(<<Write(1, 1 :> 1)>>)],
   [t1 |-> Reading({0, 1}), t2 |-> Reading({1}), t3 |-> Writing(<<Write(2, 1 :> 1)>>), t4 |-> Filling(1)]}

Fresh == {[b \in 0..2 |-> [o \in {0, 1} |-> 0]]}

Files ==
  {[b \in 0..2 |-> "sound"], (0 :> "sound") @@ (1 :> "short") @@ (2 :> "missing")}
================================================================================
