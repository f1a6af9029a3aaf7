----------------------------- MODULE CoordinateMap -----------------------------
(****************************************************************************)
(* Views of a stored tensor (src/mapping.rs, src/view.rs): a coordinate map *)
(* sends a logical coordinate to a place of the base tensor, as an offset   *)
(* and one contribution per axis, and every transform of a view computes    *)
(* the next map from the last one.  The state is a map together with the    *)
(* meaning of the transforms that led to it, composed one by one.           *)
(*                                                                          *)
(* A transform that the code refuses leaves the view as it was, and is not  *)
(* a step.  Arithmetic is exact: the code checks every operation.           *)
(****************************************************************************)
EXTENDS Integers, Geometry

CONSTANTS
  Bases,   \* the stored tensors: records of a shape, a block shape and a bound
           \* (views): how many transforms a view of it is made of
  Shapes,  \* the shapes that views are reshaped and broadcast to
  Ranges,  \* Ranges[dim]: the bounds by which an axis of extent dim is sliced
  MaxRank  \* bound: the axes of a view

(* AxisRange::At, In and Of.                                                *)
At(index) == [kind |-> "at", index |-> index]
In(start, stop, step) == [kind |-> "in", start |-> start, stop |-> stop, step |-> step]
Of(indices) == [kind |-> "of", indices |-> indices]

AxisRange ==
  [kind : {"at"}, index : Nat] \union [kind : {"in"}, start : Nat, stop : Nat, step : Nat]
    \union [kind : {"of"}, indices : Seq(Nat)]

(* Bounds that the code accepts: within the extent, and not empty.          *)
Accepts(dim, bound) ==
  CASE bound.kind = "at" -> bound.index < dim
    [] bound.kind = "in" -> bound.step > 0 /\ bound.start < bound.stop /\ bound.stop <= dim
    [] bound.kind = "of" -> bound.indices # <<>> /\ \A k \in DOMAIN bound.indices : bound.indices[k] < dim

ASSUME MapAssumption ==
  /\ MaxRank \in Nat
  /\ \A b \in Bases : /\ b.views \in Nat /\ b.shape \in Seq(Nat \ {0})
                      /\ b.block \in Seq(Nat \ {0}) /\ Len(b.block) = Len(b.shape)
  /\ Shapes \subseteq Seq(Nat \ {0})
  /\ \A dim \in DOMAIN Ranges : \A bound \in Ranges[dim] : bound \in AxisRange /\ Accepts(dim, bound)

VARIABLES
  base,     \* the tensor the view is of
  map,      \* the CoordinateMap: its offset, its axes and its shape
  meaning,  \* history: the base place of every logical coordinate
  depth     \* history: the number of transforms

viewing == <<base, map, meaning, depth>>

(* AxisContrib.                                                             *)
Stride(step) == [kind |-> "stride", step |-> step]
Broadcast(offset) == [kind |-> "broadcast", offset |-> offset]
Gather(offsets) ==
  [kind |-> "gather", offsets |-> offsets,
   start |-> 0, step |-> 1, reversed |-> FALSE, len |-> Len(offsets)]

Rank(m) == Len(m.shape)
Origin(m) == [i \in 1..Rank(m) |-> 0]
Pick(s, chosen) == [k \in DOMAIN chosen |-> s[chosen[k]]]
PlaceIn(s, x) == CHOOSE k \in DOMAIN s : s[k] = x

(* The axes up to n that are in a set, in order.                            *)
Kept(n, axes) ==
  LET kept[i \in 0..n] ==
        IF i = 0 THEN <<>> ELSE IF i \in axes THEN Append(kept[i - 1], i) ELSE kept[i - 1]
  IN kept[n]

Identity(shape) ==
  [offset |-> 0, axes |-> [i \in Axes(shape) |-> Stride(Strides(shape)[i])], shape |-> shape]

(* decode_flat *)
Decode(shape, flat) == [i \in Axes(shape) |-> (flat \div Strides(shape)[i]) % shape[i]]

ViewInit ==
  /\ base \in Bases
  /\ map = Identity(base.shape)
  /\ meaning = [c \in Coords(base.shape) |-> Linear(base.shape, c)]
  /\ depth = 0

--------------------------------------------------------------------------------
(* GatherOffsets: a window of a shared table, possibly reversed.            *)
Entry(g, index) ==
  IF g.reversed THEN g.start - index * g.step ELSE g.start + index * g.step
GatherAt(g, index) == g.offsets[Entry(g, index) + 1]

GatherSlice(g, start, step, len) ==
  [g EXCEPT !.start = Entry(g, start), !.step = IF len <= 1 THEN 1 ELSE g.step * step, !.len = len]

(* Faulty: the window is turned around where it starts.                     *)
FlippedAtStart(g) == [g EXCEPT !.reversed = ~g.reversed]

Flipped(g) == [g EXCEPT !.start = Entry(g, g.len - 1), !.reversed = ~g.reversed]

(* What an axis adds to the offset at an index: in flat_offset, and when it *)
(* is sliced at the index (slice_bound_at).                                 *)
Contribution(axis, index) ==
  CASE axis.kind = "stride" -> index * axis.step
    [] axis.kind = "broadcast" -> axis.offset
    [] axis.kind = "gather" -> GatherAt(axis, index)

FlatOffset(m, coord) ==
  m.offset + Total([i \in 1..Rank(m) |-> Contribution(m.axes[i], coord[i])])

--------------------------------------------------------------------------------
(* A transform replaces the map; coordinates c of the new view are the      *)
(* coordinates before[c] of the old one.                                    *)
Become(m, before) ==
  /\ depth < base.views /\ Rank(m) <= MaxRank
  /\ map' = m
  /\ meaning' = [c \in Coords(m.shape) |-> meaning[before[c]]]
  /\ depth' = depth + 1
  /\ UNCHANGED base

IsCContiguous(m) ==
  Rank(m) > 0 /\ \A i \in 1..Rank(m) : m.axes[i] = Stride(Strides(m.shape)[i])

Reshape ==
  \E shape \in Shapes :
    /\ Product(shape) = Product(map.shape)
    /\ IsCContiguous(map)
    /\ Become([Identity(shape) EXCEPT !.offset = map.offset],
              [c \in Coords(shape) |-> Decode(map.shape, Linear(shape, c))])

(* An axis of extent one is repeated, whatever it was.                      *)
Repeated(axis) ==
  Broadcast(IF axis.kind = "stride" THEN 0 ELSE Contribution(axis, 0))

BroadcastTo ==
  \E shape \in Shapes :
    LET added == Len(shape) - Rank(map)
        axis(i) == IF map.shape[i] = 1 THEN Repeated(map.axes[i]) ELSE map.axes[i]
    IN /\ added >= 0
       /\ \A i \in 1..Rank(map) : map.shape[i] \in {1, shape[i + added]}
       /\ Become([offset |-> map.offset,
                   axes |-> [i \in 1..Len(shape) |->
                     IF i <= added THEN Broadcast(0) ELSE axis(i - added)],
                   shape |-> shape],
                 [c \in Coords(shape) |-> [i \in 1..Rank(map) |->
                   IF map.shape[i] = 1 THEN 0 ELSE c[i + added]]])

(* slice_bound_in and slice_bound_of.                                       *)
Extent(bound) ==
  IF bound.kind = "in" THEN DivCeil(bound.stop - bound.start, bound.step) ELSE Len(bound.indices)

Shift(axis, bound) ==
  CASE bound.kind = "at" -> Contribution(axis, bound.index)
    [] bound.kind = "in" /\ axis.kind = "stride" -> bound.start * axis.step
    [] OTHER -> 0

Narrowed(axis, bound) ==
  CASE axis.kind = "broadcast" -> axis
    [] axis.kind # "broadcast" /\ bound.kind = "of" ->
         Gather([k \in DOMAIN bound.indices |-> Contribution(axis, bound.indices[k])])
    [] axis.kind = "stride" /\ bound.kind = "in" -> Stride(axis.step * bound.step)
    [] axis.kind = "gather" /\ bound.kind = "in" ->
         GatherSlice(axis, bound.start, bound.step, Extent(bound))

IndexOf(bound, index) ==
  CASE bound.kind = "at" -> bound.index
    [] bound.kind = "in" -> bound.start + index * bound.step
    [] bound.kind = "of" -> bound.indices[index + 1]

(* One axis is sliced at a time; the other axes are kept whole.             *)
Slice ==
  \E a \in {i \in 1..Rank(map) : map.shape[i] \in DOMAIN Ranges} : \E bound \in Ranges[map.shape[a]] :
    LET range == [[i \in 1..Rank(map) |-> In(0, map.shape[i], 1)] EXCEPT ![a] = bound]
        kept == Kept(Rank(map), {i \in 1..Rank(map) : range[i].kind # "at"})
        shape == [k \in DOMAIN kept |-> Extent(range[kept[k]])]
    IN Become([offset |-> map.offset +
                 Total([i \in 1..Rank(map) |-> Shift(map.axes[i], range[i])]),
               axes |-> [k \in DOMAIN kept |-> Narrowed(map.axes[kept[k]], range[kept[k]])],
               shape |-> shape],
              [c \in Coords(shape) |-> [i \in 1..Rank(map) |->
                IF range[i].kind = "at" THEN range[i].index ELSE IndexOf(range[i], c[PlaceIn(kept, i)])]])

Transpose ==
  \E permutation \in Bijection(1..Rank(map), 1..Rank(map)) :
    Become([offset |-> map.offset, axes |-> Pick(map.axes, permutation),
            shape |-> Pick(map.shape, permutation)],
           [c \in Coords(Pick(map.shape, permutation)) |->
             [i \in 1..Rank(map) |-> c[PlaceIn(permutation, i)]]])

(* flip_axis_contrib *)
Flip ==
  \E a \in 1..Rank(map) :
    LET axis == map.axes[a]
        last == map.shape[a] - 1
    IN Become([offset |-> map.offset + IF axis.kind = "stride" THEN last * axis.step ELSE 0,
               axes |-> [map.axes EXCEPT ![a] =
                 CASE axis.kind = "stride" -> Stride(-axis.step)
                   [] axis.kind = "broadcast" -> axis
                   [] axis.kind = "gather" -> Flipped(axis)],
               shape |-> map.shape],
              [c \in Coords(map.shape) |-> [c EXCEPT ![a] = last - @]])

Squeeze ==
  \E removed \in SUBSET {i \in 1..Rank(map) : map.shape[i] = 1} :
    LET kept == Kept(Rank(map), 1..Rank(map) \ removed)
    IN /\ removed # {} /\ kept # <<>>
       /\ Become([offset |-> map.offset +
                    Total([i \in 1..Rank(map) |->
                      IF i \in removed THEN Contribution(map.axes[i], 0) ELSE 0]),
                  axes |-> Pick(map.axes, kept), shape |-> Pick(map.shape, kept)],
                 [c \in Coords(Pick(map.shape, kept)) |->
                   [i \in 1..Rank(map) |-> IF i \in removed THEN 0 ELSE c[PlaceIn(kept, i)]]])

Unsqueeze ==
  \E inserted \in SUBSET (1..Rank(map)) \ {{}} :
    LET at(i) == i + Cardinality({j \in inserted : j <= i})
        old(k) == {i \in 1..Rank(map) : at(i) = k}
        shape == [k \in 1..(Rank(map) + Cardinality(inserted)) |->
                   IF old(k) = {} THEN 1 ELSE map.shape[Min(old(k))]]
    IN Become([offset |-> map.offset,
               axes |-> [k \in DOMAIN shape |->
                 IF old(k) = {} THEN Stride(Strides(shape)[k]) ELSE map.axes[Min(old(k))]],
               shape |-> shape],
              [c \in Coords(shape) |-> [i \in 1..Rank(map) |-> c[at(i)]]])

ViewNext ==
  \/ Reshape \/ BroadcastTo \/ Slice \/ Transpose \/ Flip \/ Squeeze \/ Unsqueeze

ViewSpec == ViewInit /\ [][ViewNext]_viewing

--------------------------------------------------------------------------------
(* What is derived from a map.                                              *)

(* Faulty: repeated indices of a gather are forgotten.                      *)
WritesAnyGather(m) == \A i \in 1..Rank(m) : m.axes[i].kind # "broadcast"

SupportsWriteThrough(m) == \A i \in 1..Rank(m) : m.axes[i].kind = "stride"
IsBaseMapping(m) == m.offset = 0 /\ m.shape = base.shape /\ IsCContiguous(m)

(* flat_bounds *)
Reach(m) ==
  LET steps(i) == {Contribution(m.axes[i], k) : k \in 0..(m.shape[i] - 1)}
      ends(i) == IF m.axes[i].kind = "stride"
                 THEN {0, m.axes[i].step * (m.shape[i] - 1)} ELSE steps(i)
  IN [lo |-> m.offset + Total([i \in 1..Rank(m) |-> Min(ends(i))]),
      hi |-> m.offset + Total([i \in 1..Rank(m) |-> Max(ends(i))])]

(* Faulty: the coordinate is thought to grow with the place.                *)
SpanUnwrapped(len, start, end) == [lo |-> start % len, hi |-> end % len]

Span(len, start, end) ==
  IF start \div len = end \div len
  THEN [lo |-> start % len, hi |-> end % len]
  ELSE [lo |-> 0, hi |-> len - 1]

(* logical_block_range: an interval of blocks around the places in reach.   *)
BlockRange ==
  LET spans == [i \in Axes(base.shape) |->
                 Span(base.shape[i], Reach(map).lo \div Strides(base.shape)[i],
                                     Reach(map).hi \div Strides(base.shape)[i])]
  IN BlockId(base.shape, base.block, [i \in Axes(base.shape) |-> spans[i].lo])
       .. BlockId(base.shape, base.block, [i \in Axes(base.shape) |-> spans[i].hi])

(* storage_slice: each axis is a forward step on a base axis of its own,    *)
(* one with the same stride if possible, or else the last that can be.      *)
Irregular == <<>>
Eligible(origins, taken, axis, dim, b) ==
  /\ axis.kind = "stride" /\ axis.step > 0
  /\ \A k \in DOMAIN taken : taken[k].axis # b
  /\ axis.step % Strides(base.shape)[b] = 0
  /\ origins[b] + (axis.step \div Strides(base.shape)[b]) * (dim - 1) < base.shape[b]

StorageSlice(m) ==
  LET origins == Decode(base.shape, FlatOffset(m, Origin(m)))
      choose[i \in 0..Rank(m)] ==
        IF i = 0 THEN <<>>
        ELSE LET taken == choose[i - 1]
                 able == {b \in Axes(base.shape) : Eligible(origins, taken, m.axes[i], m.shape[i], b)}
                 exact == {b \in able : m.axes[i].step = Strides(base.shape)[b]}
                 b == IF exact # {} THEN Min(exact) ELSE Max(able)
             IN IF Len(taken) < i - 1 \/ able = {} THEN taken
                ELSE Append(taken, [axis |-> b, step |-> m.axes[i].step \div Strides(base.shape)[b]])
  IN IF Len(choose[Rank(m)]) < Rank(m) THEN Irregular
     ELSE <<[origins |-> origins, axes |-> choose[Rank(m)]]>>

--------------------------------------------------------------------------------
(* However views are stacked on views, the map sends each coordinate where  *)
(* the transforms, one after the other, send it, and inside the tensor      *)
(* (flat_offset; slices, reversals and tables of tables included).          *)
MapsCompose ==
  /\ DOMAIN meaning = Coords(map.shape)
  /\ \A c \in Coords(map.shape) : FlatOffset(map, c) = meaning[c]

(* What Construction::new calls contiguous never returns to a block that    *)
(* row-major input has left, and the block shapes that are chosen for a     *)
(* tensor fit the capacity and are contiguous, for any capacity and any     *)
(* leading axes that a block may not span.                                  *)
ContiguousMeansOrdered ==
  /\ Contiguous(base.shape, base.block) =>
       \A flat \in 1..(Product(base.shape) - 1) :
         BlockId(base.shape, base.block, Decode(base.shape, flat - 1))
           <= BlockId(base.shape, base.block, Decode(base.shape, flat))
  /\ \A prefix \in 0..Len(base.shape), capacity \in 1..(Product(base.shape) + 1) :
       LET chosen == NewBlockShape(base.shape, prefix, capacity)
       IN Product(chosen) <= capacity /\ Contiguous(base.shape, chosen)

(* A view is written through only if no two of its elements are stored as   *)
(* one, and is taken for the base tensor only if it is the identity         *)
(* (supports_write_through, is_base_mapping).                               *)
WritesReachOneElement ==
  /\ SupportsWriteThrough(map) =>
       \A c, d \in Coords(map.shape) : c # d => meaning[c] # meaning[d]
  /\ IsBaseMapping(map) => \A c \in Coords(map.shape) : meaning[c] = Linear(base.shape, c)

(* What lock reservations and the occupancy index are told of a view covers *)
(* it: its interval of blocks holds all its elements, and a storage slice,  *)
(* if there is one, names its base coordinates exactly (logical_block_range,*)
(* storage_slice).                                                          *)
SummariesAgree ==
  \A c \in Coords(map.shape) :
    LET coord == Decode(base.shape, meaning[c])
        slice == StorageSlice(map)
    IN /\ BlockId(base.shape, base.block, coord) \in BlockRange
       /\ slice # Irregular =>
            coord = [b \in Axes(base.shape) |->
              slice[1].origins[b] + Total([i \in 1..Rank(map) |->
                IF slice[1].axes[i].axis = b THEN slice[1].axes[i].step * c[i] ELSE 0])]
================================================================================
