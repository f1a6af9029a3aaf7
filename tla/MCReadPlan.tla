------------------------------- MODULE MCReadPlan ------------------------------
(****************************************************************************)
(* Every tensor of one or two axes of at most three, and of three axes of   *)
(* at most two, under every block shape with extents up to one more; views  *)
(* of up to three transforms over three tensors whose blocks do not divide  *)
(* them, and requests that cross rows and blocks in either direction,       *)
(* repeat elements, or leave some out.                                      *)
(****************************************************************************)
EXTENDS BlockCursor

Stored(shape, block, views) == [shape |-> shape, block |-> block, views |-> views]

Extents(rank, most) == [1..rank -> 1..most]
AllGeometries ==
  UNION {{Stored(s, b, 0) : s \in Extents(r[1], r[2]), b \in Extents(r[1], r[2] + 1)} :
           r \in {<<1, 3>>, <<2, 3>>, <<3, 2>>}}

SmallBases ==
  AllGeometries
    \union {Stored(<<2, 3>>, <<2, 2>>, 3), Stored(<<5>>, <<2>>, 3), Stored(<<2, 2, 2>>, <<1, 2, 2>>, 3)}

SmallShapes == {<<6>>, <<3, 2>>, <<2, 1, 3>>, <<8>>, <<4, 2>>, <<2, 3>>, <<2, 5>>}

SmallRanges ==
  [dim \in 1..8 |->
    {bound \in {At(0), At(dim - 1), In(1, dim, 1), In(0, dim, 2), In(1, dim, 2),
                Of(<<dim - 1, 0>>), Of(<<0, dim - 1, dim - 1>>)} : Accepts(dim, bound)}]

Reversed(n) == [k \in 1..n |-> n - k]
Outer(n) == IF n = 1 THEN <<0>> ELSE <<n - 1, 0>>
Ends(n) == <<0, n - 1, n \div 2>>

SmallRequests(shape) ==
  LET size == Product(shape)
      all == [i \in Axes(shape) |-> [k \in 1..shape[i] |-> k - 1]]
      coord(flat) == Decode(shape, flat)
  IN {LinearRequest(0, size), LinearRequest(size \div 2, size - size \div 2),
      Rectangles(<<[i \in Axes(shape) |-> Reversed(shape[i])], all>>),
      Rectangles(<<[i \in Axes(shape) |->
                      IF i = Len(shape) THEN Ends(shape[i]) ELSE Outer(shape[i])]>>),
      Explicit(<<coord(size - 1), coord(0), coord(0)>>),
      FlatRuns(<<Run(0, size - 1, 1 - size, IF size > 1 THEN 2 ELSE 1)>>)}
================================================================================
