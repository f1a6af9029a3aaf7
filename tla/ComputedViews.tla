----------------------------- MODULE ComputedViews -----------------------------
(****************************************************************************)
(* Reading a view of a computed tensor: a matrix product (src/matmul.rs), a *)
(* Fourier transform (src/fft.rs) or a diagonal (src/matrix.rs).  The       *)
(* requests of the read are evaluated one after the other; build turns each *)
(* into bounded requests for the operands, asks for them in turn, and puts  *)
(* what it computes at the positions of the batch.                          *)
(*                                                                          *)
(* The computed tensor is the base of the view.  Values are symbols: of an  *)
(* operand, the coordinate; of a product, the terms added up, in order; of  *)
(* a transform, the values transformed and the frequency.                   *)
(****************************************************************************)
EXTENDS MatrixPlans

(* A base has an operation, "product", "fourier" or "diagonal", and for a   *)
(* product the extent that is contracted; rows of transforms fit a batch.   *)
ASSUME BaseAssumption ==
  \A b \in Bases :
    /\ b.operation \in {"product", "fourier", "diagonal"}
    /\ b.operation = "product" => Len(b.shape) >= 2 /\ b.inner \in Nat \ {0}
    /\ b.operation = "fourier" => Last(b.shape) <= MaxBatch

VARIABLES
  phase,    \* "view", "next", "plan", "left", "right", "scatter", "ended" or "failed"
  whole,    \* whether the read is of the whole view, by preferred requests
  requests, \* the requests to evaluate, the first one in progress
  work,     \* what is left to compute for it: rectangles, packs, or coordinates
  start,    \* the contraction indices done
  left,     \* the batch of the left operand
  running,  \* accumulated, a sequence of values, or empty if none yet
  values,   \* the batch being filled
  output    \* the elements read: coordinates and values

computing == <<work, start, left, running, values>>
reading == <<phase, whole, requests, output, computing>>

Unset == "unset"

ComputedInit ==
  /\ ViewInit
  /\ phase = "view" /\ whole = FALSE /\ requests = <<>> /\ output = <<>>
  /\ work = <<>> /\ start = 0 /\ left = <<>> /\ running = <<>> /\ values = <<>>

Transform ==
  /\ phase = "view"
  /\ ViewNext
  /\ UNCHANGED reading

(* A read of a view begins, of some elements or of all.                     *)
Begin ==
  /\ phase = "view"
  /\ whole' \in BOOLEAN
  /\ IF whole'
     THEN requests' = IF base.operation = "product" THEN Preferred(map.shape)
                      ELSE LinearRequests(map.shape)
     ELSE \E request \in Requests(map.shape) :
            RequestLen(request) <= MaxBatch /\ requests' = <<request>>
  /\ phase' = "next"
  /\ UNCHANGED <<viewing, output, computing>>

--------------------------------------------------------------------------------
(* Fourier groups: the last coordinate is the frequency.                    *)
Width == Last(base.shape)

Group(m, request) ==
  LET mapped == VisitMapped(m, request)
      prefix(c) == Front(c)
      keys == InKeyOrder({prefix(mapped[k]) : k \in DOMAIN mapped})
  IN [g \in DOMAIN keys |->
       [prefix |-> keys[g],
        wanted |-> {<<k, Last(mapped[k])>> : k \in {j \in DOMAIN mapped : prefix(mapped[j]) = keys[g]}}]]

PackLen == MaxBatch \div Width

(* The packs of whole groups that are evaluated one after the other.        *)
Packs(groups) ==
  [p \in 1..DivCeil(Len(groups), PackLen) |->
    SubSeq(groups, (p - 1) * PackLen + 1, Min({p * PackLen, Len(groups)}))]

PackRequest(pack) ==
  Rectangles([g \in DOMAIN pack |->
    [i \in DOMAIN pack[g].prefix |-> <<pack[g].prefix[i]>>] \o <<[k \in 1..Width |-> k - 1]>>])

(* Correlated axes need explicit coordinates.                               *)
DiagonalRequest(m, request) ==
  LET mapped == VisitMapped(m, request)
  IN Explicit([k \in DOMAIN mapped |-> Append(mapped[k], Last(mapped[k]))])

--------------------------------------------------------------------------------
Plans(request) ==
  CASE base.operation = "product" -> PlanRequest(map, request)
    [] base.operation = "fourier" -> Packs(Group(map, request))
    [] base.operation = "diagonal" -> <<DiagonalRequest(map, request)>>

(* evaluate_requests takes the next request, or the read is complete.       *)
Take ==
  /\ phase = "next" /\ requests # <<>>
  /\ work' = Plans(Head(requests))
  /\ values' = [k \in 1..RequestLen(Head(requests)) |-> Unset]
  /\ start' = 0 /\ running' = <<>>
  /\ phase' = "left"
  /\ UNCHANGED <<viewing, whole, requests, left, output>>

End ==
  /\ phase = "next" /\ requests = <<>>
  /\ phase' = "ended"
  /\ UNCHANGED <<viewing, whole, requests, output, computing>>

(* The batch is complete; its elements are delivered.                       *)
Deliver ==
  /\ phase = "left" /\ work = <<>>
  /\ LET coords == Coordinates(map.shape, Head(requests))
     IN output' = output \o [k \in DOMAIN coords |-> <<coords[k], values[k]>>]
  /\ requests' = Tail(requests)
  /\ phase' = "next"
  /\ UNCHANGED <<viewing, whole, computing>>

(* What build asks of its operands next.                                    *)
Count == Min({ContractionStep(Head(work)), base.inner - start})

Asked ==
  CASE base.operation = "product" -> OperandRequest(Head(work), start, Count, phase = "left")
    [] base.operation = "fourier" -> PackRequest(Head(work))
    [] base.operation = "diagonal" -> Head(work)

(* The batch that an operand gives: of each coordinate, in order.           *)
Given == Coordinates(<<>>, Asked)

(* The operand fails, or the request is larger than a batch may be.         *)
Fail ==
  /\ phase \in {"left", "right"} /\ work # <<>>
  /\ phase' = "failed"
  /\ UNCHANGED <<viewing, whole, requests, output, computing>>

(* A transform or a diagonal has one operand.                               *)
Filled(wanted) == [k \in DOMAIN values |->
  IF \E w \in wanted : w[1] = k THEN (CHOOSE w \in wanted : w[1] = k)[2] ELSE values[k]]

Spectrum(pack) ==
  UNION {{<<w[1], <<SubSeq(Given, (g - 1) * Width + 1, g * Width), w[2]>>>> :
            w \in pack[g].wanted} : g \in DOMAIN pack}

Compute ==
  /\ phase = "left" /\ work # <<>> /\ base.operation # "product"
  /\ RequestLen(Asked) <= MaxBatch
  /\ values' = IF base.operation = "diagonal" THEN Given ELSE Filled(Spectrum(Head(work)))
  /\ work' = Tail(work)
  /\ UNCHANGED <<viewing, phase, whole, requests, start, left, running, output>>

(* A product asks for the rows, then for the columns.                       *)
AskLeft ==
  /\ phase = "left" /\ work # <<>> /\ base.operation = "product"
  /\ RequestLen(Asked) <= MaxBatch
  /\ left' = Given
  /\ phase' = "right"
  /\ UNCHANGED <<viewing, whole, requests, work, start, running, values, output>>

(* The backend's product of two batches: rows by columns of sums of terms.  *)
Partial(rows, columns) ==
  LET right == Given
  IN [n \in 1..(rows * columns) |->
       [k \in 1..Count |->
         <<left[((n - 1) \div columns) * Count + k], right[(k - 1) * columns + ((n - 1) % columns) + 1]>>]]

(* combine_partial                                                          *)
Combined(partial) ==
  IF running = <<>> THEN partial ELSE [n \in DOMAIN partial |-> running[n] \o partial[n]]

AskRight ==
  /\ phase = "right"
  /\ RequestLen(Asked) <= MaxBatch
  /\ running' = Combined(Partial(Len(Head(work).rows), Len(Head(work).columns)))
  /\ start' = start + Count
  /\ phase' = IF start' < base.inner THEN "left" ELSE "scatter"
  /\ UNCHANGED <<viewing, whole, requests, work, left, values, output>>

(* Scatter::each                                                            *)
Scatter ==
  /\ phase = "scatter"
  /\ values' = Filled({<<s[1], running[s[2] + 1]>> : s \in Head(work).scatter})
  /\ work' = Tail(work)
  /\ start' = 0 /\ running' = <<>>
  /\ phase' = "left"
  /\ UNCHANGED <<viewing, whole, requests, left, output>>

ComputedNext ==
  \/ Transform \/ Begin \/ Take \/ End \/ Deliver
  \/ Fail \/ Compute \/ AskLeft \/ AskRight \/ Scatter

ComputedSpec == ComputedInit /\ [][ComputedNext]_<<viewing, reading>>

--------------------------------------------------------------------------------
(* What an element of the computed tensor is.                               *)
Expected(coord) ==
  CASE base.operation = "product" ->
         LET rank == Len(coord)
         IN [k \in 1..base.inner |->
              <<[coord EXCEPT ![rank] = k - 1], [coord EXCEPT ![rank - 1] = k - 1]>>]
    [] base.operation = "fourier" ->
         <<[k \in 1..Width |-> [coord EXCEPT ![Len(coord)] = k - 1]], Last(coord)>>
    [] base.operation = "diagonal" -> Append(coord, Last(coord))

(* Whatever the view and the request: each element that is delivered is the *)
(* product over all contraction indices once and in order, the frequency of *)
(* its own group, or its diagonal element; and a read of the whole view     *)
(* delivers each element once (plan_request, Scatter, build, groups,        *)
(* tiled_requests).                                                         *)
ReadsComputeExactly ==
  /\ \A k \in DOMAIN output : output[k][2] = Expected(Decode(base.shape, meaning[output[k][1]]))
  /\ LET coords == [k \in DOMAIN output |-> output[k][1]]
     IN /\ whole => IsInjective(coords)
        /\ whole /\ phase = "ended" => ToSet(coords) = Coords(map.shape)

(* How much of a rectangle is wanted.                                       *)
Area(plan) == Len(plan.rows) * Len(plan.columns)
Uses(plan) == Cardinality({s[2] : s \in plan.scatter})
Planned == IF phase # "next" /\ base.operation = "product" THEN ToSet(work) ELSE {}

(* No request is larger than a batch, neither a read's own nor one that     *)
(* build makes of it, and no rectangle is computed of which less than half  *)
(* is wanted, or a third or less if it is made of a span (contraction_step, *)
(* plan_rectangles, linear_plans, tiled_requests).                          *)
WorkIsBounded ==
  /\ \A k \in DOMAIN requests : RequestLen(requests[k]) \in 1..MaxBatch
  /\ phase \in {"left", "right"} /\ work # <<>> => RequestLen(Asked) <= MaxBatch
  /\ \A plan \in Planned :
       IF Head(requests).kind = "linear" THEN Area(plan) < 3 * Uses(plan)
       ELSE Area(plan) <= MaxAmplification * Uses(plan)

(* What the design says of all rectangles (DESIGN.md, matrix planning, and  *)
(* the comment of MAX_RECTANGLE_AMPLIFICATION): at least half of what is    *)
(* computed is wanted.  The rectangles of linear_plans are not compared.    *)
RectanglesAreAtMostTwice ==
  \A plan \in Planned : Area(plan) <= MaxAmplification * Uses(plan)
================================================================================
