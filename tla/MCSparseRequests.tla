--------------------------- MODULE MCSparseRequests ----------------------------
(****************************************************************************)
(* Views of a tensor of two rows of six and of one of rank three: the whole,*)
(* transposed, one row, every second column; selections by range, by step   *)
(* and by index; blocks that are runs of the storage and blocks that are    *)
(* not.  A request holds four positions.                                    *)
(****************************************************************************)
EXTENDS SparseRequests

View(logical, origins, bases, steps) ==
  [logical |-> logical, origins |-> origins,
   axes |-> [k \in DOMAIN bases |-> [base |-> bases[k], step |-> steps[k]]]]

FlatViews ==
  {View(<<2, 6>>, <<0, 0>>, <<1, 2>>, <<1, 1>>),
   View(<<6, 2>>, <<0, 0>>, <<2, 1>>, <<1, 1>>),
   View(<<6>>, <<1, 0>>, <<2>>, <<1>>),
   View(<<2, 3>>, <<0, 1>>, <<1, 2>>, <<1, 2>>)}
FlatBlocks == {<<1, 4>>, <<2, 2>>, <<1, 2>>}

DeepViews ==
  {View(<<2, 2, 3>>, <<0, 0, 0>>, <<1, 2, 3>>, <<1, 1, 1>>),
   View(<<2, 3>>, <<0, 1, 0>>, <<1, 3>>, <<1, 1>>)}
DeepBlocks == {<<1, 1, 3>>, <<1, 2, 2>>}

(* Every index, every second one from the second on, the first and last.    *)
Selections(dim) ==
  {Span(0, 1, dim), Span(1, 2, dim \div 2), Selected(<<0, dim - 1>>)}
Slices(logical) ==
  {s \in [DOMAIN logical -> UNION {Selections(logical[k]) : k \in DOMAIN logical}] :
     \A k \in DOMAIN logical : s[k] \in Selections(logical[k])}

Input(layout, shape, block, view, slice, ordered) ==
  [layout |-> layout, shape |-> shape, block |-> block, logical |-> view.logical,
   origins |-> view.origins, axes |-> view.axes, slice |-> slice, ordered |-> ordered]

InputsOver(shape, blocks, views) ==
  UNION {{Input("sparse", shape, b, v, s, o) : s \in Slices(v.logical), o \in BOOLEAN} :
           b \in blocks, v \in views}

SmallInputs ==
  InputsOver(<<2, 6>>, FlatBlocks, FlatViews) \union InputsOver(<<2, 2, 3>>, DeepBlocks, DeepViews)
    \union {Input("dense", <<2, 6>>, <<2, 2>>, v, s, FALSE) :
              v \in {View(<<2, 6>>, <<0, 0>>, <<1, 2>>, <<1, 1>>)}, s \in Slices(<<2, 6>>)}
================================================================================
