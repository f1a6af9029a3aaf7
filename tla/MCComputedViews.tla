----------------------------- MODULE MCComputedViews ---------------------------
(****************************************************************************)
(* Products of two and three axes, transforms and a diagonal, in tiles of   *)
(* five by five and batches of 25: views of up to two transforms, and       *)
(* requests that cross rows and tiles, repeat elements and leave some out.  *)
(****************************************************************************)
EXTENDS ComputedViews

Computed(operation, shape, inner) ==
  [shape |-> shape, block |-> shape, views |-> 2, operation |-> operation, inner |-> inner]

SmallBases ==
  {Computed("product", <<7, 6>>, 7), Computed("product", <<2, 3, 5>>, 2),
   Computed("fourier", <<2, 3, 8>>, 0), Computed("diagonal", <<2, 3>>, 0)}

SmallShapes == {<<42>>, <<14, 3>>, <<3, 2, 3>>, <<6, 8>>}
SmallRanges ==
  [dim \in 1..42 |->
    {bound \in {At(dim - 1), In(1, dim, 2), Of(<<dim - 1, 0, 0>>)} : Accepts(dim, bound)}]

Wanted(shape, flats) ==
  Explicit([k \in DOMAIN flats |-> Decode(shape, flats[k])])

SmallRequests(shape) ==
  LET size == Product(shape)
      all == [i \in Axes(shape) |-> [k \in 1..shape[i] |-> k - 1]]
      some(i) == IF shape[i] > 2 THEN <<shape[i] - 1, 0, 0>> ELSE all[i]
      near == Min({4, size - 1})
  IN {LinearRequest(near, Min({9, size - near})),
      LinearRequest(size \div 4, Min({25, size - size \div 4})),
      Rectangles(<<[i \in Axes(shape) |-> some(i)]>>),
      Rectangles([k \in 1..2 |-> [i \in Axes(shape) |->
        IF i = Len(shape) THEN all[i] ELSE <<(k + shape[i]) % shape[i]>>]]),
      Wanted(shape, [k \in 1..5 |-> (5 * (k - 1)) % (size - size \div 16)]),
      Wanted(shape, [k \in 1..7 |-> (3 * k * k) % size]),
      FlatRuns(<<Run(0, size - 1, -2, 2), Run(2, 0, 0, 2)>>)}
================================================================================
