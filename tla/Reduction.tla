-------------------------------- MODULE Reduction ------------------------------
(****************************************************************************)
(* Reductions (src/reduce.rs): a reduced axis view answers a request for    *)
(* output coordinates, each of which stands for a group of source           *)
(* positions; a terminal reduces the whole tensor; all and any stop at the  *)
(* first batch that decides.                                                *)
(*                                                                          *)
(* Groups that fit a batch are packed and read together; a larger one is    *)
(* read by the requests that its source selects, which for a sparse source  *)
(* name candidates only, and the positions that were not named are          *)
(* accounted for as zeros.  All groups of a view have the same length.      *)
(*                                                                          *)
(* A partial result is the bag of the values it has taken in, so that a     *)
(* value left out or taken twice is seen whatever the operation is;         *)
(* combining two partial results adds the bags.                             *)
(****************************************************************************)
EXTENDS Naturals, Sequences, FiniteSets

CONSTANTS
  Inputs,    \* what is reduced: see InputAssumption
  Values,    \* tensor elements
  Zero,      \* Expression::implicit_zero of the source
  MaxBatch,  \* MAX_BATCH_ELEMENTS
  None       \* no partial result

(* The kind of reduction, the groups asked for in order (one for the whole  *)
(* tensor), the length of a group, the source's values by group and         *)
(* position, the batches that the source selects of a group or of the       *)
(* tensor, and the number of the batch whose evaluation fails, or 0.        *)
(* Batches name distinct positions and every one that is not zero: that is  *)
(* what request discovery promises (RequestsAreExact, SparseStreamIsExact). *)
ASSUME InputAssumption ==
  /\ MaxBatch \in Nat \ {0}
  /\ Zero \in Values
  /\ None \notin [Values -> Nat]
  /\ \A i \in Inputs :
       /\ i.kind \in {"axis", "terminal", "all", "any"}
       /\ i.size \in Nat \ {0} /\ i.fails \in Nat
       /\ i.groups \in Seq(DOMAIN i.source)
       /\ i.kind \in {"all", "any"} => i.groups # <<>>
       /\ \A g \in DOMAIN i.source :
            /\ i.source[g] \in [1..i.size -> Values]
            /\ i.selected[g] \in Seq((SUBSET (1..i.size)) \ {{}})
            /\ \A j, k \in DOMAIN i.selected[g] :
                 j # k => i.selected[g][j] \intersect i.selected[g][k] = {}
            /\ \A p \in 1..i.size :
                 i.source[g][p] # Zero => \E k \in DOMAIN i.selected[g] : p \in i.selected[g][k]

VARIABLES
  input,      \* what is reduced
  at,         \* the groups that the cursor has delivered
  pack,       \* the groups packed for one read, by their number in the request
  reading,    \* the batches of a large group that were evaluated
  partial,    \* the partial result of a large group, or None
  remaining,  \* the positions of a large group that have not been taken in
  double,     \* accumulate_zeros' partial result, a repeated zero
  count,      \* accumulate_zeros' count, halved at each step
  output,     \* the results of the groups done
  evaluated,  \* history: the number of batches evaluated
  phase       \* "next", "pack", "stream", "zeros", "done", "failed" or "decided"

vars == <<input, at, pack, reading, partial, remaining, double, count, output, evaluated, phase>>
group == <<reading, partial, remaining, double, count>>

(* ReduceOp::partial and ReduceOp::combine.                                 *)
Bag(values) == [v \in Values |-> Cardinality({p \in DOMAIN values : values[p] = v})]
Combine(b, c) == [v \in Values |-> b[v] + c[v]]
Merged(state, b) == IF state = None THEN b ELSE Combine(state, b)

Fails == input.fails = evaluated + 1

Init ==
  /\ input \in Inputs
  /\ at = 0 /\ pack = <<>> /\ reading = 0
  /\ partial = None /\ remaining = 0 /\ double = None /\ count = 0
  /\ output = <<>> /\ evaluated = 0 /\ phase = "next"

--------------------------------------------------------------------------------
(* ReduceView::build.                                                       *)
Large == input.size > MaxBatch

Packs(total) == total <= MaxBatch

(* Axis views pack small groups; a large group, and any terminal, streams.  *)
TakeGroup ==
  /\ phase = "next" /\ at < Len(input.groups)
  /\ input.kind \in {"axis", "terminal"}
  /\ at' = at + 1
  /\ IF input.kind = "axis" /\ ~Large
     THEN /\ pack' = <<at + 1>> /\ phase' = "pack"
          /\ UNCHANGED group
     ELSE /\ reading' = 0 /\ partial' = None /\ remaining' = input.size
          /\ phase' = "stream"
          /\ UNCHANGED <<pack, double, count>>
  /\ UNCHANGED <<input, output, evaluated>>

Fuller == input.size * Len(pack) < MaxBatch /\ at < Len(input.groups)

(* The next group joins the pack, or waits for the next one (pending).      *)
PackGroup ==
  /\ phase = "pack" /\ Fuller /\ Packs(input.size * (Len(pack) + 1))
  /\ at' = at + 1
  /\ pack' = Append(pack, at + 1)
  /\ UNCHANGED <<input, group, output, evaluated, phase>>

Source(g) == input.source[input.groups[g]]

(* One read of rectangles, split by the groups' lengths.                    *)
Split == [k \in DOMAIN pack |-> Bag(Source(pack[k]))]

ReadPack ==
  /\ phase = "pack" /\ ~(Fuller /\ Packs(input.size * (Len(pack) + 1)))
  /\ evaluated' = evaluated + 1
  /\ IF Fails THEN phase' = "failed" /\ UNCHANGED <<output, pack>>
     ELSE /\ output' = output \o Split
          /\ pack' = <<>> /\ phase' = "next"
  /\ UNCHANGED <<input, at, group>>

--------------------------------------------------------------------------------
(* accumulate and accumulate_zeros, by axis views and terminals.            *)
Selected == input.selected[input.groups[at]]

AccumulateBatch ==
  /\ phase = "stream" /\ reading < Len(Selected)
  /\ evaluated' = evaluated + 1
  /\ LET positions == Selected[reading + 1]
     IN IF Fails \/ Cardinality(positions) > remaining
        THEN phase' = "failed" /\ UNCHANGED group
        ELSE /\ reading' = reading + 1
             /\ remaining' = remaining - Cardinality(positions)
             /\ partial' = Merged(partial, Bag([p \in positions |-> Source(at)[p]]))
             /\ UNCHANGED <<double, count, phase>>
  /\ UNCHANGED <<input, at, pack, output>>

(* The positions that no request named are zeros.                           *)
StartZeros ==
  /\ phase = "stream" /\ reading = Len(Selected)
  /\ double' = Bag(<<Zero>>)
  /\ count' = remaining
  /\ phase' = "zeros"
  /\ UNCHANGED <<input, at, pack, reading, partial, remaining, output, evaluated>>

(* Faulty: the partial result is doubled before it is looked at.            *)
DoubledFirst ==
  /\ double' = Combine(double, double)
  /\ partial' = IF count % 2 = 1 THEN Merged(partial, Combine(double, double)) ELSE partial

(* One bit of the count.                                                    *)
Doubled ==
  /\ partial' = IF count % 2 = 1 THEN Merged(partial, double) ELSE partial
  /\ double' = IF count \div 2 = 0 THEN double ELSE Combine(double, double)

AccumulateZeros ==
  /\ phase = "zeros" /\ count # 0
  /\ Doubled
  /\ count' = count \div 2
  /\ UNCHANGED <<input, at, pack, reading, remaining, output, evaluated, phase>>

FinishGroup ==
  /\ phase = "zeros" /\ count = 0
  /\ output' = Append(output, partial)
  /\ phase' = "next"
  /\ UNCHANGED <<input, at, pack, group, evaluated>>

Finish ==
  /\ phase = "next" /\ at = Len(input.groups)
  /\ input.kind \in {"axis", "terminal"}
  /\ phase' = "done"
  /\ UNCHANGED <<input, at, pack, group, output, evaluated>>

--------------------------------------------------------------------------------
(* all and any, over batches in logical order.                              *)
Decides(v) == IF input.kind = "all" THEN v = Zero ELSE v # Zero

(* linear_requests: the positions of the next batch, in order.              *)
Linear(k) == {p \in 1..input.size : (p - 1) \div MaxBatch = k - 1}

(* Faulty: a last batch that is not full is left out.                       *)
MoreWholeBatches == (reading + 1) * MaxBatch <= input.size

MoreBatches == reading * MaxBatch < input.size

TestBatch ==
  /\ phase = "next" /\ input.kind \in {"all", "any"} /\ MoreBatches
  /\ evaluated' = evaluated + 1
  /\ reading' = reading + 1
  /\ phase' = IF Fails THEN "failed"
              ELSE IF \E p \in Linear(reading + 1) : Decides(Source(1)[p]) THEN "decided"
              ELSE phase
  /\ UNCHANGED <<input, at, pack, partial, remaining, double, count, output>>

(* No batch has decided.                                                    *)
Undecided ==
  /\ phase = "next" /\ input.kind \in {"all", "any"} /\ ~MoreBatches
  /\ phase' = "done"
  /\ UNCHANGED <<input, at, pack, group, output, evaluated>>

Next ==
  \/ TakeGroup \/ PackGroup \/ ReadPack
  \/ AccumulateBatch \/ StartZeros \/ AccumulateZeros \/ FinishGroup
  \/ Finish \/ TestBatch \/ Undecided

Spec == Init /\ [][Next]_vars

--------------------------------------------------------------------------------
(* What the variables hold.                                                 *)
TypeOK ==
  /\ input \in Inputs
  /\ at \in 0..Len(input.groups)
  /\ pack \in Seq(1..Len(input.groups))
  /\ reading \in Nat /\ remaining \in Nat /\ count \in Nat /\ evaluated \in Nat
  /\ partial \in [Values -> Nat] \union {None}
  /\ double \in [Values -> Nat] \union {None}
  /\ output \in Seq([Values -> Nat])
  /\ phase \in {"next", "pack", "stream", "zeros", "done", "failed", "decided"}

(* Each result has taken in every position of its group once, implicit      *)
(* zeros included, and results are in the order of the request, however     *)
(* groups were packed, streamed, selected or repeated; no packed read is    *)
(* larger than a batch; and a reduction fails only if a batch does (build,  *)
(* accumulate, accumulate_zeros, terminal).                                 *)
ResultsAreExact ==
  /\ \A k \in DOMAIN output : output[k] = Bag(Source(k))
  /\ input.size * Len(pack) <= MaxBatch
  /\ phase = "done" /\ input.kind \in {"axis", "terminal"} => Len(output) = Len(input.groups)
  /\ phase = "failed" => input.fails = evaluated

(* all and any answer from the first batch that decides, whatever comes     *)
(* after it, report an error that comes before it, and answer otherwise     *)
(* only when every value was looked at ("logical batches preserve which     *)
(* errors precede a decisive value").                                       *)
BooleansStopAtFirst ==
  input.kind \in {"all", "any"} =>
    LET Deciding == {p \in 1..input.size : Decides(Source(1)[p])}
        Seen == {p \in 1..input.size : p <= reading * MaxBatch}
        Earlier == {p \in 1..input.size : p <= (reading - 1) * MaxBatch}
    IN /\ phase = "decided" => Deciding \intersect Seen # {} /\ input.fails \notin 1..evaluated
       /\ phase = "done" => Deciding = {} /\ input.fails \notin 1..evaluated
       /\ phase \in {"decided", "failed"} => Deciding \intersect Earlier = {}
================================================================================
