---------------------------- MODULE MCSparseStorage ----------------------------
(****************************************************************************)
(* A tensor of four blocks of two values; the last block is at the edge and *)
(* its second position is padding.                                          *)
(****************************************************************************)
EXTENDS SparseStorage, TLC

Edge == [b \in 0..3 |-> IF b = 3 THEN {0} ELSE {0, 1}]

Pair(x, y) == (0 :> x) @@ (1 :> y)

(* Blocks occupied, absent, empty (block 2) and with a nonzero padding      *)
(* (block 3).                                                               *)
Tables ==
  {<<r0, Pair(1, 0), r2, r3>> :
     r0 \in {Absent, Pair(1, 0)}, r2 \in {Absent, Pair(0, 0)},
     r3 \in {Absent, Pair(1, 0), Pair(0, 1)}}
LoadedTables == {[b \in 0..3 |-> r[b + 1]] : r \in Tables}

Write(b, patch) == [id |-> b, patch |-> patch]

WriteJobs ==
  {Writing(<<Write(0, 0 :> 1), Write(1, 0 :> 0)>>),  \* write_values over two blocks
   Writing(<<Write(0, 1 :> 1)>>),                    \* write_value beside it
   Writing(<<Write(3, Pair(0, 1))>>),                \* a replacement with a bad padding
   Filling(1)}
ReadJobs == {Reading({0, 1, 3}), Reading({0, 1})}
ScanJobs == {Scanning(0, 4, <<>>), Scanning(0, 4, 0 :> 0), Scanning(2, 2, <<>>)}
AllJobs == WriteJobs \union ReadJobs \union ScanJobs
================================================================================
