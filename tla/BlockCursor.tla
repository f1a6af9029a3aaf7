----------------------------- MODULE BlockCursor ------------------------------
(****************************************************************************)
(* The stored tensor that the views of ReadPlan are of: its blocks, and the *)
(* odometer of src/storage.rs that walks the valid positions of a block in  *)
(* logical order.  The odometer keeps a coordinate and moves the offset     *)
(* along with it instead of computing one from the other; padding           *)
(* validation, fills and block reads depend on the walk naming every valid  *)
(* offset once.                                                             *)
(****************************************************************************)
EXTENDS ReadPlan

(* BlockCursor: its coordinate, its offset, and whether it is done.         *)
Cursor(coord, offset, done) == [coord |-> coord, offset |-> offset, done |-> done]

First(bounds) == Cursor([i \in DOMAIN bounds |-> bounds[i].lo], 0, FALSE)

(* Faulty: turning an axis back takes a whole block extent off the offset.  *)
TurnedBackWhole(block, bounds, i) == block[i] - 1

(* What the coordinate of a turned axis loses.                              *)
TurnedBack(block, bounds, i) == bounds[i].hi - bounds[i].lo - 1

(* advance() moves the last axis that can move and turns back those after;  *)
(* if none can, all are turned back and the walk is done.                   *)
Advance(block, bounds, c) ==
  LET axis == Max({0} \union {i \in DOMAIN bounds : c.coord[i] + 1 < bounds[i].hi})
      lost == [i \in DOMAIN bounds |->
                IF i > axis THEN TurnedBack(block, bounds, i) * Strides(block)[i] ELSE 0]
      gained == IF axis = 0 THEN 0 ELSE Strides(block)[axis]
  IN Cursor([i \in DOMAIN bounds |->
              IF i > axis THEN bounds[i].lo ELSE IF i = axis THEN c.coord[i] + 1 ELSE c.coord[i]],
            c.offset + gained - Total(lost), axis = 0)

(* The cursor before each step, as long as a block has positions.           *)
Walk(shape, block, id) ==
  LET bounds == BlockBounds(shape, block, id)
      at[n \in 0..Product(block)] ==
        IF n = 0 THEN First(bounds) ELSE Advance(block, bounds, at[n - 1])
  IN at

(* offsets(): what the walk returns until it is done.                       *)
Offsets(shape, block, id) ==
  LET at == Walk(shape, block, id)
      steps == Min({n \in DOMAIN at : at[n].done})
  IN [k \in 1..steps |-> at[k - 1].offset]

--------------------------------------------------------------------------------
(* Every coordinate has a place of its own within the grid of blocks, also  *)
(* where blocks do not divide the shape or are larger than it, and the walk *)
(* over a block returns exactly the offsets of its coordinates in row-major *)
(* order: what it leaves out is padding (from_block_schema, block_position, *)
(* BlockCursor::advance).                                                   *)
WalksValidOffsets ==
  LET rowMajor == [k \in 1..Product(base.shape) |-> Decode(base.shape, k - 1)]
      blocks == 0..(BlockCount(base.shape, base.block) - 1)
  IN /\ \A c \in Coords(base.shape) :
          /\ BlockId(base.shape, base.block, c) \in blocks
          /\ Offset(base.block, c) < Product(base.block)
     /\ \A id \in blocks :
          LET own == SelectSeq(rowMajor, LAMBDA c : BlockId(base.shape, base.block, c) = id)
              offsets == Offsets(base.shape, base.block, id)
          IN /\ offsets = [k \in DOMAIN own |-> Offset(base.block, own[k])]
             /\ IsInjective(offsets)
================================================================================
