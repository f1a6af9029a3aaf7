---------------------------- MODULE SparseRequests -----------------------------
(****************************************************************************)
(* Discovery of what to read from sparse storage (src/storage.rs,           *)
(* src/slice.rs): a selection of a view is turned into bounded requests     *)
(* that name only positions of occupied blocks.  The cursor takes occupied  *)
(* block numbers from a stream, maps each block's region to the view,       *)
(* clips the selection to it, and packs the rectangles it gets into         *)
(* requests, carrying over the one that does not fit.                       *)
(*                                                                          *)
(* A selection is a sequence of axes, as the view's coordinates are; ranges *)
(* are sorted and without duplicates (src/traits.rs, sparse_range).         *)
(****************************************************************************)
EXTENDS Geometry

CONSTANTS
  Inputs,    \* records of storage, a view of it and a selection of the view
  MaxBatch   \* MAX_BATCH_ELEMENTS

(* An input has the storage's layout, shape and block shape; the view's     *)
(* logical shape, origins (one per storage axis) and axes (the base and     *)
(* the step of each logical axis); the selection; and whether requests      *)
(* must be in logical order.                                                *)
ASSUME RequestAssumption ==
  /\ MaxBatch \in Nat \ {0}
  /\ \A i \in Inputs :
       /\ Product(i.block) <= MaxBatch
       /\ Len(i.axes) = Len(i.logical) /\ Len(i.slice) = Len(i.logical)

VARIABLES
  input,     \* the storage, the view and the selection
  occupied,  \* the occupied blocks
  keys,      \* the block numbers that the occupancy stream has yet to deliver
  open,      \* Cursor.keys is Some
  pending,   \* Cursor.pending: the rectangles of the last block
  overflow,  \* Cursor.overflow: at most one rectangle that did not fit
  batch,     \* the rectangles of the request being packed
  emitted,   \* the requests delivered, each a sequence of rectangles
  phase      \* "fill", "emit", "ended" or "failed"

vars == <<input, occupied, keys, open, pending, overflow, batch, emitted, phase>>

Minus(x, y) == IF x > y THEN x - y ELSE 0

--------------------------------------------------------------------------------
(* Axis: a stepped span or explicit indices.                                *)
Span(start, step, len) == [kind |-> "span", start |-> start, step |-> step, len |-> len]
Selected(values) == [kind |-> "selected", values |-> values]

AxisLen(axis) == IF axis.kind = "span" THEN axis.len ELSE Len(axis.values)
At(axis, i) == IF axis.kind = "span" THEN axis.start + axis.step * i ELSE axis.values[i + 1]
Size(axes) == Product([a \in DOMAIN axes |-> AxisLen(axes[a])])

(* Part of an axis, from an index on.                                       *)
Part(axis, first, len) ==
  IF axis.kind = "span" THEN Span(axis.start + axis.step * first, axis.step, len)
  ELSE Selected(SubSeq(axis.values, first + 1, first + len))

(* Slice::intersect, on one axis.                                           *)
Clipped(axis, lo, hi) ==
  IF axis.kind = "span"
  THEN LET first == Min({DivCeil(Minus(lo, axis.start), axis.step), axis.len})
           end == Min({DivCeil(Minus(hi, axis.start), axis.step), axis.len})
       IN Part(axis, first, Minus(end, first))
  ELSE Selected(SelectSeq(axis.values, LAMBDA v : v >= lo /\ v < hi))

--------------------------------------------------------------------------------
(* SliceRequests: the rectangles of a selection, in row-major order of      *)
(* their origins.  Chunks are as large as a request allows, from the last   *)
(* axis.                                                                    *)
Chunks(axes) ==
  FoldRight(LAMBDA axis, acc :
              LET chunk == Min({AxisLen(axis), MaxBatch \div acc.capacity})
              IN [chunks |-> <<chunk>> \o acc.chunks,
                  capacity |-> acc.capacity * Max({chunk, 1})],
            axes, [chunks |-> <<>>, capacity |-> 1]).chunks

Requests(axes) ==
  [axes |-> axes, chunks |-> Chunks(axes), origins |-> [a \in DOMAIN axes |-> 0],
   done |-> Size(axes) = 0]

NoRequests == [axes |-> <<>>, chunks |-> <<>>, origins |-> <<>>, done |-> TRUE]

NextRectangle(r) ==
  [a \in DOMAIN r.axes |->
    Part(r.axes[a], r.origins[a], Min({r.chunks[a], AxisLen(r.axes[a]) - r.origins[a]}))]

Advanced(r) ==
  LET more == {a \in DOMAIN r.axes : r.chunks[a] < AxisLen(r.axes[a]) - r.origins[a]}
  IN [r EXCEPT
       !.done = more = {},
       !.origins = [a \in DOMAIN r.axes |->
         IF more = {} \/ a > Max(more) THEN 0
         ELSE IF a = Max(more) THEN r.origins[a] + r.chunks[a] ELSE r.origins[a]]]

--------------------------------------------------------------------------------
(* StorageSlice::bounds: the view's indices that fall into a block's        *)
(* region, if its fixed coordinates do.                                     *)
InView(i, regions) ==
  \A base \in Axes(i.shape) :
    \/ \E k \in DOMAIN i.axes : i.axes[k].base = base
    \/ i.origins[base] \in regions[base].lo..(regions[base].hi - 1)

ViewBounds(i, regions) ==
  [k \in DOMAIN i.axes |->
    LET base == i.axes[k].base
        Index(at) == DivCeil(Minus(at, i.origins[base]), i.axes[k].step)
    IN [lo |-> Index(regions[base].lo), hi |-> Index(regions[base].hi)]]

(* The requests of one occupied block.                                      *)
BlockRequests(i, id) ==
  LET regions == BlockBounds(i.shape, i.block, id)
      bounds == ViewBounds(i, regions)
  IN IF InView(i, regions)
     THEN Requests([k \in DOMAIN i.slice |-> Clipped(i.slice[k], bounds[k].lo, bounds[k].hi)])
     ELSE NoRequests

(* The storage coordinate of a view's coordinate.                           *)
Stored(i, coord) ==
  [base \in Axes(i.shape) |->
    i.origins[base] + Total([k \in DOMAIN i.axes |->
      IF i.axes[k].base = base THEN i.axes[k].step * coord[k] ELSE 0])]

(* The block numbers between the selection's first and last block.          *)
Corner(i, at) == BlockId(i.shape, i.block, Stored(i, [k \in DOMAIN i.slice |-> At(i.slice[k], at[k])]))
Window(i) ==
  Corner(i, [k \in DOMAIN i.slice |-> 0])..
    Corner(i, [k \in DOMAIN i.slice |-> AxisLen(i.slice[k]) - 1])

(* Faulty: the block shape is not looked at.                                *)
IndexedAnyway(i) ==
  \A k \in 1..(Len(i.axes) - 1) : i.axes[k].base < i.axes[k + 1].base

(* ordered_requests: block order is logical order if the view keeps the     *)
(* order of axes and a block is one run of the storage's row-major order.   *)
IndexedInOrder(i) ==
  /\ \A k \in 1..(Len(i.axes) - 1) : i.axes[k].base < i.axes[k + 1].base
  /\ \A j, k \in Axes(i.shape) : j < k /\ i.block[j] > 1 => i.block[k] >= i.shape[k]

(* Requests for every position: dense storage, small selections, and order  *)
(* that the index cannot give.                                              *)
Direct(i) ==
  \/ i.layout = "dense"
  \/ i.ordered /\ ~IndexedInOrder(i)
  \/ Size(i.slice) <= MaxBatch

Init ==
  /\ input \in Inputs
  /\ occupied \in SUBSET (0..(BlockCount(input.shape, input.block) - 1))
  /\ open = ~Direct(input)
  /\ keys = IF Direct(input) THEN {} ELSE occupied \intersect Window(input)
  /\ pending = IF Direct(input) THEN Requests(input.slice) ELSE NoRequests
  /\ overflow = <<>>
  /\ batch = <<>>
  /\ emitted = <<>>
  /\ phase = "fill"

--------------------------------------------------------------------------------
BatchLen == Total([k \in DOMAIN batch |-> Size(batch[k])])

Available == overflow # <<>> \/ ~pending.done
Rectangle == IF overflow # <<>> THEN overflow[1] ELSE NextRectangle(pending)
Consumed == IF overflow # <<>> THEN pending ELSE Advanced(pending)

(* Slice::stream: each rectangle is a request.                              *)
EmitDirect ==
  /\ phase = "fill" /\ Direct(input) /\ ~pending.done
  /\ emitted' = Append(emitted, <<NextRectangle(pending)>>)
  /\ pending' = Advanced(pending)
  /\ UNCHANGED <<input, occupied, keys, open, overflow, batch, phase>>

EndDirect ==
  /\ phase = "fill" /\ Direct(input) /\ pending.done
  /\ phase' = "ended"
  /\ UNCHANGED <<input, occupied, keys, open, pending, overflow, batch, emitted>>

Filling == phase = "fill" /\ ~Direct(input)

Fits(rectangle) == Size(rectangle) <= MaxBatch - BatchLen

Pack ==
  /\ Filling /\ Available
  /\ Fits(Rectangle)
  /\ batch' = Append(batch, Rectangle)
  /\ phase' = IF BatchLen + Size(Rectangle) = MaxBatch THEN "emit" ELSE "fill"
  /\ overflow' = <<>>
  /\ pending' = Consumed
  /\ UNCHANGED <<input, occupied, keys, open, emitted>>

(* Faulty: the rectangle that does not fit is taken and forgotten.          *)
CarryNothing ==
  /\ Filling /\ Available
  /\ ~Fits(Rectangle)
  /\ overflow' = <<>>
  /\ pending' = Consumed
  /\ phase' = "emit"
  /\ UNCHANGED <<input, occupied, keys, open, batch, emitted>>

(* The rectangle that does not fit waits for the next request.              *)
Carry ==
  /\ Filling /\ Available
  /\ ~Fits(Rectangle)
  /\ overflow' = <<Rectangle>>
  /\ pending' = Consumed
  /\ phase' = "emit"
  /\ UNCHANGED <<input, occupied, keys, open, batch, emitted>>

TakeKey ==
  /\ Filling /\ ~Available /\ open /\ keys # {}
  /\ keys' = keys \ {Min(keys)}
  /\ pending' = BlockRequests(input, Min(keys))
  /\ UNCHANGED <<input, occupied, open, overflow, batch, emitted, phase>>

KeysFail ==
  /\ Filling /\ ~Available /\ open
  /\ phase' = "failed"
  /\ UNCHANGED <<input, occupied, keys, open, pending, overflow, batch, emitted>>

(* The stream has ended, now or before.                                     *)
KeysEnd ==
  /\ Filling /\ ~Available /\ keys = {}
  /\ open' = FALSE
  /\ phase' = "emit"
  /\ UNCHANGED <<input, occupied, keys, pending, overflow, batch, emitted>>

Emit ==
  /\ phase = "emit" /\ batch # <<>>
  /\ emitted' = Append(emitted, batch)
  /\ batch' = <<>>
  /\ phase' = "fill"
  /\ UNCHANGED <<input, occupied, keys, open, pending, overflow>>

End ==
  /\ phase = "emit" /\ batch = <<>>
  /\ phase' = "ended"
  /\ UNCHANGED <<input, occupied, keys, open, pending, overflow, batch, emitted>>

Next ==
  \/ EmitDirect \/ EndDirect
  \/ Pack \/ Carry \/ TakeKey \/ KeysFail \/ KeysEnd \/ Emit \/ End

Spec == Init /\ [][Next]_vars

--------------------------------------------------------------------------------
(* The row-major places that a rectangle names, in Cartesian's order.       *)
Coordinate(axes, index) ==
  LET lens == [a \in DOMAIN axes |-> AxisLen(axes[a])]
  IN [a \in DOMAIN axes |-> At(axes[a], (index \div Strides(lens)[a]) % lens[a])]
Places(axes) ==
  [k \in 1..Size(axes) |-> Linear(input.logical, Coordinate(axes, k - 1))]
PlacesOf(request) == FlattenSeq([k \in DOMAIN request |-> Places(request[k])])
Requested == FlattenSeq([k \in DOMAIN emitted |-> PlacesOf(emitted[k])])

(* The selected positions of occupied blocks, or all selected positions if  *)
(* everything is requested.                                                 *)
Wanted ==
  {p \in {Places(input.slice)[k] : k \in 1..Size(input.slice)} :
     Direct(input) \/ \E c \in Coords(input.logical) :
       Linear(input.logical, c) = p /\ BlockId(input.shape, input.block, Stored(input, c)) \in occupied}

(* Each wanted position is requested exactly once, and no other; requests   *)
(* are bounded and never empty, and discovery never holds more than one     *)
(* request and the rectangle that did not fit.                              *)
RequestsAreExact ==
  /\ \A k \in DOMAIN emitted : Len(PlacesOf(emitted[k])) \in 1..MaxBatch
  /\ BatchLen <= MaxBatch /\ Len(overflow) <= 1
  /\ IsInjective(Requested)
  /\ ToSet(Requested) \subseteq Wanted
  /\ phase = "ended" => ToSet(Requested) = Wanted

(* Where order is asked for, requests concatenate to ascending positions:   *)
(* the union of candidates relies on it.                                    *)
OrderedRequestsAscend ==
  input.ordered =>
    \A k \in 1..(Len(Requested) - 1) : Requested[k] < Requested[k + 1]
================================================================================
