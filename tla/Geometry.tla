------------------------------- MODULE Geometry -------------------------------
(****************************************************************************)
(* The storage geometry of src/schema.rs, src/storage.rs and                *)
(* src/storage_read.rs: a tensor of a shape is a grid of blocks of one      *)
(* block shape.  A shape is a sequence of positive dimensions, a coordinate *)
(* a sequence below it.  Blocks at the edge of the grid, and blocks larger  *)
(* than the tensor, have padding.                                           *)
(****************************************************************************)
EXTENDS Naturals, Sequences, SequencesExt, FiniteSetsExt

Product(shape) ==
  LET n == Len(shape)
      upTo[i \in 0..n] == IF i = 0 THEN 1 ELSE upTo[i - 1] * shape[i]
  IN upTo[n]
Total(s) ==
  LET n == Len(s)
      upTo[i \in 0..n] == IF i = 0 THEN 0 ELSE upTo[i - 1] + s[i]
  IN upTo[n]
Axes(shape) == DOMAIN shape

(* contiguous_strides: row-major.                                           *)
Strides(shape) ==
  [i \in Axes(shape) |-> Product(SubSeq(shape, i + 1, Len(shape)))]

Dot(coord, strides) == Total([i \in DOMAIN coord |-> coord[i] * strides[i]])

Coords(shape) == {c \in [Axes(shape) -> 0..(Max({1} \union {shape[i] : i \in Axes(shape)}) - 1)] :
                    \A i \in Axes(shape) : c[i] < shape[i]}

(* The place of a coordinate in row-major order.                            *)
Linear(shape, coord) == Dot(coord, Strides(shape))

(* decode_flat: the coordinate at a place.                                  *)
CoordAt(shape, place) == [i \in Axes(shape) |-> (place \div Strides(shape)[i]) % shape[i]]

(* greedy_block_shape: from the last axis, as much of each as the capacity  *)
(* has room for.                                                            *)
Greedy(shape, capacity) ==
  LET n == Len(shape)
      left[k \in 0..n] ==  \* what the last k axes leave of the capacity
        IF k = 0 THEN capacity ELSE left[k - 1] \div Min({shape[n - k + 1], left[k - 1]})
  IN [i \in Axes(shape) |-> Min({shape[i], left[n - i]})]

(* StorageSchema::new: the region that a block may cover has extent one on  *)
(* the first `prefix` axes; a dense tensor has none, a scalar-sparse one    *)
(* has all of them.                                                         *)
Region(shape, prefix) == [i \in Axes(shape) |-> IF i <= prefix THEN 1 ELSE shape[i]]
NewBlockShape(shape, prefix, capacity) == Greedy(Region(shape, prefix), capacity)

DivCeil(n, d) == (n + d - 1) \div d
Grid(shape, block) == [i \in Axes(shape) |-> DivCeil(shape[i], block[i])]
BlockCount(shape, block) == Product(Grid(shape, block))

(* block_position *)
BlockId(shape, block, coord) ==
  Dot([i \in Axes(shape) |-> coord[i] \div block[i]], Strides(Grid(shape, block)))
Offset(block, coord) == Dot([i \in DOMAIN block |-> coord[i] % block[i]], Strides(block))

(* block_bounds *)
BlockBounds(shape, block, id) ==
  [i \in Axes(shape) |->
    LET lo == ((id \div Strides(Grid(shape, block))[i]) % Grid(shape, block)[i]) * block[i]
    IN [lo |-> lo, hi |-> lo + Min({block[i], shape[i] - lo})]]

(* Faulty: the axis after the first that a block spans is not looked at.    *)
ContiguousButNext(shape, block) ==
  \A i \in Axes(shape) :
    block[i] > 1 /\ (\A k \in 1..(i - 1) : block[k] = 1)
      => \A k \in (i + 2)..Len(shape) : block[k] = shape[k]

(* Construction::new: row-major input completes one block after another if  *)
(* blocks span every axis after the first one they span at all.             *)
Contiguous(shape, block) ==
  \A i \in Axes(shape) :
    block[i] > 1 /\ (\A k \in 1..(i - 1) : block[k] = 1)
      => \A k \in (i + 1)..Len(shape) : block[k] = shape[k]
================================================================================
