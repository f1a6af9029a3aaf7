-------------------------------- MODULE ReadPlan --------------------------------
(****************************************************************************)
(* How a request for elements of a view becomes runs in blocks: requests    *)
(* are turned into arithmetic progressions of places (src/request.rs),      *)
(* progressions are split where a coordinate carries or a block ends, and   *)
(* joined again where they happen to go on (src/storage_read.rs).  These    *)
(* are functions of a view, and the views are those of CoordinateMap.       *)
(*                                                                          *)
(* An axis of a rectangle is the sequence of the indices it selects; a span *)
(* is one whose indices are evenly spaced.                                  *)
(****************************************************************************)
EXTENDS CoordinateMap

CONSTANTS
  Requests(_)  \* the requests for elements of a view of a shape

LinearRequest(start, len) == [kind |-> "linear", start |-> start, len |-> len]
Rectangles(rectangles) == [kind |-> "rectangles", rectangles |-> rectangles]
Explicit(coords) == [kind |-> "explicit", coords |-> coords]
FlatRuns(runs) == [kind |-> "runs", runs |-> runs]

Run(output, start, step, len) == [output |-> output, start |-> start, step |-> step, len |-> len]
Places(run) == [k \in 1..run.len |-> run.start + (k - 1) * run.step]

ExtentsOf(rectangle) == [a \in DOMAIN rectangle |-> Len(rectangle[a])]

(* Cursor: the coordinates of a request, in order.                          *)
Coordinates(shape, request) ==
  LET corner(rectangle, index) ==
        LET digits == Decode(ExtentsOf(rectangle), index)
        IN [a \in DOMAIN rectangle |-> rectangle[a][digits[a] + 1]]
  IN CASE request.kind = "explicit" -> request.coords
       [] request.kind = "linear" ->
            [k \in 1..request.len |-> Decode(shape, request.start + k - 1)]
       [] request.kind = "rectangles" ->
            FlattenSeq([r \in DOMAIN request.rectangles |->
              LET rectangle == request.rectangles[r]
              IN [k \in 1..Product(ExtentsOf(rectangle)) |-> corner(rectangle, k - 1)]])
       [] request.kind = "runs" ->
            FlattenSeq([r \in DOMAIN request.runs |->
              [k \in 1..request.runs[r].len |-> Decode(shape, Places(request.runs[r])[k])]])

--------------------------------------------------------------------------------
(* linear_segments: a span of places cut at the ends of rows.               *)
LinearSegments(start, len, width) ==
  LET from[done \in 0..len] ==
        IF done = len THEN <<>>
        ELSE LET count == Min({len - done, width - ((start + done) % width)})
             IN <<[flat |-> start + done, len |-> count]>> \o from[done + count]
  IN from[0]

(* Axis::segments: the longest evenly spaced pieces of a selection.         *)
Segments(indices) ==
  LET from[i \in 1..(Len(indices) + 1)] ==
        IF i > Len(indices) THEN <<>>
        ELSE LET step == IF i = Len(indices) THEN 0 ELSE indices[i + 1] - indices[i]
                 breaks == {e \in (i + 1)..Len(indices) : indices[e] - indices[e - 1] # step}
                 end == Min(breaks \union {Len(indices) + 1})
             IN <<[start |-> indices[i], step |-> step, len |-> end - i]>> \o from[end]
  IN from[1]

(* The last axis along which something varies.                              *)
Varying(extents) == Max({1} \union {a \in DOMAIN extents : extents[a] > 1})

(* Outputs follow one another.                                              *)
Numbered(pieces) ==
  [k \in DOMAIN pieces |->
    Run(Total([j \in 1..(k - 1) |-> pieces[j].len]), pieces[k].start, pieces[k].step, pieces[k].len)]

(* progressions, of a linear request and of one rectangle.                  *)
LinearProgressions(shape, request, offset, strides) ==
  LET v == Varying(shape)
      segments == LinearSegments(request.start, request.len, shape[v])
  IN [k \in DOMAIN segments |->
       [start |-> offset + Dot(Decode(shape, segments[k].flat), strides),
        step |-> strides[v], len |-> segments[k].len]]

RectangleProgressions(rectangle, offset, strides) ==
  LET v == Varying(ExtentsOf(rectangle))
      prefixes == ExtentsOf(SubSeq(rectangle, 1, v - 1))
      segments == Segments(rectangle[v])
      coord(prefix, start) ==
        [a \in DOMAIN rectangle |->
          IF a = v THEN start
          ELSE IF a > v THEN rectangle[a][1]
          ELSE rectangle[a][Decode(prefixes, prefix)[a] + 1]]
  IN FlattenSeq([p \in 1..Product(prefixes) |->
       [k \in DOMAIN segments |->
         [start |-> offset + Dot(coord(p - 1, segments[k].start), strides),
          step |-> segments[k].step * strides[v], len |-> segments[k].len]]])

Progressions(shape, request, offset, strides) ==
  Numbered(
    IF shape = <<>>
    THEN <<[start |-> offset, step |-> 0, len |-> Len(Coordinates(shape, request))]>>
    ELSE IF request.kind = "linear" THEN LinearProgressions(shape, request, offset, strides)
    ELSE FlattenSeq([r \in DOMAIN request.rectangles |->
           RectangleProgressions(request.rectangles[r], offset, strides)]))

(* affine: what a map without gathers is.                                   *)
Affine(m) == \A i \in 1..Rank(m) : m.axes[i].kind # "gather"
AffineOffset(m) == FlatOffset(m, Origin(m))
AffineStrides(m) == [i \in 1..Rank(m) |-> IF m.axes[i].kind = "stride" THEN m.axes[i].step ELSE 0]

(* Requests in flat form and explicit ones are resolved one by one.         *)
Compact(m, request) == request.kind \in {"linear", "rectangles"} /\ Affine(m)
Resolved(m, request) ==
  LET coords == Coordinates(m.shape, request)
  IN [k \in DOMAIN coords |-> Run(k - 1, FlatOffset(m, coords[k]), 0, 1)]

Progressing(m, request) ==
  IF Compact(m, request)
  THEN Progressions(m.shape, request, AffineOffset(m), AffineStrides(m))
  ELSE Resolved(m, request)

(* push_progression, push_run: a piece that goes on evenly joins the last.  *)
Pushed(runs, next) ==
  LET last == Last(runs)
      step == IF last.len = 1 THEN next.start - last.start ELSE last.step
  IN IF /\ runs # <<>>
        /\ last.output + last.len = next.output
        /\ next.len = 1 \/ next.step = step
        /\ last.start + step * last.len = next.start
     THEN Append(Front(runs), [last EXCEPT !.step = step, !.len = @ + next.len])
     ELSE Append(runs, next)

(* BatchRequest::mapped: the same elements, as runs of the base tensor.     *)
Mapped(m, request) == FlatRuns(FoldLeft(Pushed, <<>>, Progressing(m, request)))

--------------------------------------------------------------------------------
Sign(n) == IF n < 0 THEN -1 ELSE IF n = 0 THEN 0 ELSE 1
Magnitude(p) == IF p.len = 1 THEN 0 ELSE Sign(p.step) * p.step

(* The digits of a step, which hold until a coordinate carries or borrows.  *)
Digits(p) == [i \in Axes(base.shape) |-> (Magnitude(p) \div Strides(base.shape)[i]) % base.shape[i]]

(* Faulty: a descent is thought to have the room of an ascent.              *)
RoomAbove(c, i, step) ==
  LET low == (c \div base.block[i]) * base.block[i]
  IN Min({base.block[i] - 1, base.shape[i] - 1 - low}) - (c - low)

(* How far an index can move before it leaves its block.                    *)
Room(c, i, step) ==
  LET low == (c \div base.block[i]) * base.block[i]
      high == low + Min({base.block[i] - 1, base.shape[i] - 1 - low})
  IN IF step < 0 THEN c - low ELSE high - c

(* split: a progression as runs of constant stride, each inside a block.    *)
Split(p) ==
  LET stride == Sign(p.step) * Dot(Digits(p), Strides(base.block))
      from[done \in 0..p.len] ==
        IF done = p.len THEN <<>>
        ELSE LET coord == Decode(base.shape, p.start + done * p.step)
                 moving == {i \in Axes(base.shape) : Digits(p)[i] > 0}
                 count == Min({p.len - done} \union
                   {Room(coord[i], i, p.step) \div Digits(p)[i] + 1 : i \in moving})
                 run == Run(p.output + done, Offset(base.block, coord),
                            IF count = 1 THEN 0 ELSE stride, count)
             IN <<[block |-> BlockId(base.shape, base.block, coord), run |-> run]>>
                  \o from[done + count]
  IN from[0]

(* plan: the runs of each block.  Flat runs of the tensor itself are split  *)
(* as they are.                                                             *)
IsIdentity(m) == m = Identity(base.shape)

Plan(m, request) ==
  LET progressions ==
        IF request.kind = "runs" /\ IsIdentity(m) THEN request.runs ELSE Progressing(m, request)
      pieces == FlattenSeq([k \in DOMAIN progressions |-> Split(progressions[k])])
      own(b) == SelectSeq(pieces, LAMBDA piece : piece.block = b)
      runs(b) == FoldLeft(Pushed, <<>>, [k \in DOMAIN own(b) |-> own(b)[k].run])
  IN UNION {{[block |-> b, run |-> run] : run \in ToSet(runs(b))} :
              b \in {piece.block : piece \in ToSet(pieces)}}

(* Run::scatter: the outputs, and where each is taken from.                 *)
Scattered(plan) ==
  UNION {{[output |-> p.run.output + k, block |-> p.block, offset |-> Places(p.run)[k]] :
            k \in 1..p.run.len} : p \in plan}

(* Whether a request is planned through the view's map, or mapped first by  *)
(* an operation and planned on the tensor itself, each output is taken      *)
(* once, from the block and offset of its element, and nothing else is read *)
(* (plan, split, push_run, progressions, mapped).                           *)
ReadsAreExact ==
  \A request \in Requests(map.shape) :
    LET coords == Coordinates(map.shape, request)
        place(k) == Decode(base.shape, meaning[coords[k]])
        wanted ==
          {[output |-> k, block |-> BlockId(base.shape, base.block, place(k)),
            offset |-> Offset(base.block, place(k))] : k \in DOMAIN coords}
    IN \A plan \in {Plan(map, request), Plan(Identity(base.shape), Mapped(map, request))} :
         /\ Scattered(plan) = wanted
         /\ FoldSet(LAMBDA p, n : n + p.run.len, 0, plan) = Len(coords)
================================================================================
