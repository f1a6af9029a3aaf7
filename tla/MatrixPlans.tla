------------------------------ MODULE MatrixPlans -----------------------------
(****************************************************************************)
(* What a matrix product computes for a batch of its elements, and how a    *)
(* read of the whole product is cut into batches (src/matmul.rs,            *)
(* src/request.rs).  The output is divided into square tiles; for the       *)
(* elements that are wanted of a tile, rectangles of whole rows and columns *)
(* are computed, and their values scattered to the positions of the batch.  *)
(*                                                                          *)
(* The product is the base of ReadPlan's views: base.shape is its shape.    *)
(* Values that are stored in BTreeMaps are taken in the order of their keys.*)
(****************************************************************************)
EXTENDS ReadPlan

CONSTANTS
  TileSide,  \* TILE_SIDE
  MaxBatch   \* MAX_BATCH_ELEMENTS

ASSUME TileAssumption ==
  /\ TileSide \in Nat \ {0}
  /\ MaxBatch \in Nat
  /\ TileSide * TileSide <= MaxBatch

MaxAmplification == 2  \* MAX_RECTANGLE_AMPLIFICATION

(* Vectors in lexicographic order.                                          *)
Before(a, b) ==
  \E i \in 1..Min({Len(b), Len(a) + 1}) :
    /\ \A j \in 1..(i - 1) : a[j] = b[j]
    /\ i > Len(a) \/ a[i] < b[i]
InKeyOrder(keys) == SetToSortSeq(keys, Before)
Ascending(S) == SetToSortSeq(S, <)

IndexIn(s, v) == (CHOOSE k \in DOMAIN s : s[k] = v) - 1

(* The coordinates of the product at the positions of a request.            *)
VisitMapped(m, request) ==
  LET coords == Coordinates(m.shape, request)
  IN [k \in DOMAIN coords |-> Decode(base.shape, FlatOffset(m, coords[k]))]

(* A wanted element: its position in the batch, its tile, row and column.   *)
Point(position, coord) ==
  LET rank == Len(coord)
  IN [position |-> position, row |-> coord[rank - 1], column |-> coord[rank],
      tile |-> SubSeq(coord, 1, rank - 2)
                 \o <<coord[rank - 1] \div TileSide, coord[rank] \div TileSide>>]

Prefix(tile) == SubSeq(tile, 1, Len(tile) - 2)

(* Rectangle: the rows and columns to compute, and the positions that the   *)
(* values at these offsets go to.                                           *)
Rectangle(prefix, rows, columns, scatter) ==
  [prefix |-> prefix, rows |-> rows, columns |-> columns, scatter |-> scatter]

OffsetIn(rows, columns, row, column) ==
  IndexIn(rows, row) * Len(columns) + IndexIn(columns, column)

--------------------------------------------------------------------------------
(* plan_rectangles, for the points of one tile: one rectangle, or one for   *)
(* all rows that want the same columns.                                     *)
ColumnsOf(points, row) == Ascending({p.column : p \in {q \in points : q.row = row}})

Grouped(points) ==
  LET rows == {p.row : p \in points}
      lists == {ColumnsOf(points, r) : r \in rows}
  IN [k \in 1..Cardinality(lists) |->
       LET columns == InKeyOrder(lists)[k]
       IN [columns |-> columns,
           rows |-> Ascending({r \in rows : ColumnsOf(points, r) = columns})]]

(* Faulty: the area is compared with all requests, repeated ones too.       *)
WholeForRepeated(points) ==
  Cardinality({p.row : p \in points}) * Cardinality({p.column : p \in points})
    <= MaxAmplification * Cardinality(points)

Whole(points) ==
  Cardinality({p.row : p \in points}) * Cardinality({p.column : p \in points})
    <= MaxAmplification * Cardinality({<<p.row, p.column>> : p \in points})

PlanRectangles(prefix, points) ==
  LET groups == IF Whole(points)
                THEN <<[columns |-> Ascending({p.column : p \in points}),
                        rows |-> Ascending({p.row : p \in points})]>>
                ELSE Grouped(points)
  IN [k \in DOMAIN groups |->
       LET rows == groups[k].rows
           columns == groups[k].columns
       IN Rectangle(prefix, rows, columns,
            {<<p.position, OffsetIn(rows, columns, p.row, p.column)>> :
               p \in {q \in points : q.row \in ToSet(rows)}})]

(* plan_tiles and what plan_request makes of it, for any mapping.           *)
PlanTiles(m, request) ==
  LET mapped == VisitMapped(m, request)
      points == {Point(k, mapped[k]) : k \in DOMAIN mapped}
      tiles == InKeyOrder({p.tile : p \in points})
  IN FlattenSeq([t \in DOMAIN tiles |->
       PlanRectangles(Prefix(tiles[t]), {p \in points : p.tile = tiles[t]})])

--------------------------------------------------------------------------------
(* cartesian_plans: rectangles of the product itself are cut at the tiles.  *)
AxisTiles(axis) == Ascending({axis[k] \div TileSide : k \in DOMAIN axis})
Selected(axis, tile) == Ascending({axis[k] : k \in {j \in DOMAIN axis : axis[j] \div TileSide = tile}})

CartesianPlans(rectangles) ==
  LET size(r) == Product(ExtentsOf(rectangles[r]))
      plans(r) ==
        LET axes == rectangles[r]
            rank == Len(axes)
            prefixes == Coordinates(<<>>, Rectangles(<<SubSeq(axes, 1, rank - 2)>>))
            row == axes[rank - 1]
            column == axes[rank]
            start(p) == Total([k \in 1..(r - 1) |-> size(k)]) + (p - 1) * Len(row) * Len(column)
            cut(p, i, j) ==
              LET rows == Selected(row, i)
                  columns == Selected(column, j)
              IN Rectangle(prefixes[p], rows, columns,
                   {<<start(p) + (a - 1) * Len(column) + b, OffsetIn(rows, columns, row[a], column[b])>> :
                      a \in {k \in DOMAIN row : row[k] \div TileSide = i},
                      b \in {k \in DOMAIN column : column[k] \div TileSide = j}})
        IN FlattenSeq([p \in DOMAIN prefixes |->
             FlattenSeq([i \in DOMAIN AxisTiles(row) |->
               [j \in DOMAIN AxisTiles(column) |->
                 cut(p, AxisTiles(row)[i], AxisTiles(column)[j])]])])
  IN FlattenSeq([r \in DOMAIN rectangles |-> plans(r)])

(* Faulty: a piece is scattered as if its columns were all there are.       *)
SpanFromFirst(rows, columns, piece) ==
  {<<piece.position + k, IndexIn(rows, piece.row) * Len(columns) + k>> : k \in 0..(piece.len - 1)}

(* Scatter::Spans: the columns of a piece follow one another.               *)
SpanScatter(rows, columns, piece) ==
  {<<piece.position + k, OffsetIn(rows, columns, piece.row, piece.column) + k>> :
     k \in 0..(piece.len - 1)}

(* linear_plans: a span is cut at the ends of rows, these at the tiles, and *)
(* all that lies in a tile becomes one rectangle.                           *)
LinearPlans(request) ==
  LET shape == base.shape
      rank == Len(shape)
      segments == LinearSegments(request.start, request.len, shape[rank])
      pieces(s) ==
        LET coord == Decode(shape, segments[s].flat)
            first == coord[rank]
            last == first + segments[s].len - 1
            position == segments[s].flat - request.start + 1
            piece(t) ==
              LET low == Max({first, t * TileSide})
                  high == Min({last, t * TileSide + TileSide - 1})
              IN [position |-> position + low - first, row |-> coord[rank - 1],
                  column |-> low, len |-> high - low + 1,
                  tile |-> Point(0, [coord EXCEPT ![rank] = low]).tile]
        IN {piece(t) : t \in (first \div TileSide)..(last \div TileSide)}
      all == UNION {pieces(s) : s \in DOMAIN segments}
      tiles == InKeyOrder({p.tile : p \in all})
  IN [t \in DOMAIN tiles |->
       LET own == {p \in all : p.tile = tiles[t]}
           rows == Ascending({p.row : p \in own})
           columns == Ascending(UNION {p.column..(p.column + p.len - 1) : p \in own})
       IN Rectangle(Prefix(tiles[t]), rows, columns,
                    UNION {SpanScatter(rows, columns, p) : p \in own})]

(* plan_request *)
PlanRequest(m, request) ==
  IF IsIdentity(m) /\ request.kind = "rectangles" THEN CartesianPlans(request.rectangles)
  ELSE IF IsIdentity(m) /\ request.kind = "linear" THEN LinearPlans(request)
  ELSE PlanTiles(m, request)

--------------------------------------------------------------------------------
(* contraction_step: how many contraction indices are asked for at once.    *)
ContractionStep(plan) == MaxBatch \div Max({Len(plan.rows), Len(plan.columns)})

(* operand_request: the rows of the left operand, or columns of the right,  *)
(* at some contraction indices.                                             *)
OperandRequest(plan, start, count, left) ==
  LET prefix == [i \in DOMAIN plan.prefix |-> <<plan.prefix[i]>>]
      contraction == [k \in 1..count |-> start + k - 1]
  IN Rectangles(<<prefix \o IF left THEN <<plan.rows, contraction>> ELSE <<contraction, plan.columns>>>>)

--------------------------------------------------------------------------------
RequestLen(request) ==
  CASE request.kind = "linear" -> request.len
    [] request.kind = "explicit" -> Len(request.coords)
    [] request.kind = "runs" -> Total([r \in DOMAIN request.runs |-> request.runs[r].len])
    [] request.kind = "rectangles" ->
         Total([r \in DOMAIN request.rectangles |-> Product(ExtentsOf(request.rectangles[r]))])

(* linear_requests: a shape in spans.                                       *)
LinearRequests(shape) ==
  [k \in 1..DivCeil(Product(shape), MaxBatch) |->
    LinearRequest((k - 1) * MaxBatch, Min({MaxBatch, Product(shape) - (k - 1) * MaxBatch}))]

(* A tile goes into the request being packed, or is the first of the next.  *)
Packed(requests, tile) ==
  LET last == Last(requests)
  IN IF requests # <<>> /\ RequestLen(Rectangles(last)) + Product(ExtentsOf(tile)) <= MaxBatch
     THEN Append(Front(requests), Append(last, tile))
     ELSE Append(requests, <<tile>>)

(* tiled_requests: the tiles of a shape in row-major order, several to a    *)
(* request.                                                                 *)
TiledRequests(shape) ==
  LET side(i) == IF i + 2 > Len(shape) THEN TileSide ELSE 1
      grid == [i \in Axes(shape) |-> DivCeil(shape[i], side(i))]
      tile(n) ==
        [i \in Axes(shape) |->
          LET start == Decode(grid, n)[i] * side(i)
          IN [k \in 1..Min({side(i), shape[i] - start}) |-> start + k - 1]]
      packs == FoldLeft(Packed, <<>>, [n \in 1..Product(grid) |-> tile(n - 1)])
  IN [k \in DOMAIN packs |-> Rectangles(packs[k])]

(* preferred_step of a product.                                             *)
Preferred(shape) == IF Len(shape) < 2 THEN LinearRequests(shape) ELSE TiledRequests(shape)
================================================================================
