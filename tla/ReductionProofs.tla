---------------------------- MODULE ReductionProofs ----------------------------
(****************************************************************************)
(* The safety of Reduction for every source, request, batch size and order  *)
(* of candidates: every result has taken in its group, and all and any stop *)
(* where they should.                                                       *)
(*                                                                          *)
(* ReductionInv is the inductive invariant.  While a group is streamed, the *)
(* partial result is the bag of what its batches named; while zeros are     *)
(* added, the partial result and the count's worth of zeros are the bag of  *)
(* the group, whichever bits of the count have been taken.                  *)
(****************************************************************************)
EXTENDS Reduction, Integers, SequenceTheorems, FiniteSetTheorems, TLAPS

--------------------------------------------------------------------------------
Reduces == input.kind \in {"axis", "terminal"}

Bags == [Values -> Nat]

(* What a bag has of a value, if there is one.                              *)
Amount(b, v) == IF b = None THEN 0 ELSE b[v]

(* The positions that the first n batches name, and how many of a set of    *)
(* positions have a value.                                                  *)
Named(batches, n) == UNION {batches[k] : k \in 1..n}
Having(values, S, v) == Cardinality({p \in S : values[p] = v})

(* The results are those of the first groups, in order.                     *)
ResultsSoFar ==
  /\ Len(output) <= Len(input.groups)
  /\ \A k \in 1..Len(output) : output[k] = Bag(Source(k))

(* The groups that the cursor has delivered are done or in progress.        *)
InStep ==
  Reduces =>
    /\ phase \in {"next", "done"} => pack = <<>> /\ at = Len(output)
    /\ phase = "pack" =>
         /\ at = Len(output) + Len(pack)
         /\ \A k \in 1..Len(pack) : pack[k] = Len(output) + k
    /\ phase \in {"stream", "zeros"} => pack = <<>> /\ at = Len(output) + 1
    /\ phase = "done" => at = Len(input.groups)
    /\ phase # "decided"

(* A group in progress has taken in what its batches named so far.          *)
Streaming ==
  phase = "stream" =>
    /\ reading <= Len(Selected)
    /\ remaining + Cardinality(Named(Selected, reading)) = input.size
    /\ partial = None <=> reading = 0
    /\ \A v \in Values : Amount(partial, v) = Having(Source(at), Named(Selected, reading), v)

(* While zeros are added, what has been taken in and what the count still   *)
(* stands for are the group.                                                *)
Doubling ==
  phase = "zeros" =>
    /\ double # None
    /\ partial = None => count # 0
    /\ \A v \in Values : Amount(partial, v) + count * double[v] = Bag(Source(at))[v]

PacksFit == input.size * Len(pack) <= MaxBatch

FailsOnce == phase = "failed" => input.fails = evaluated

(* all and any look at one batch after the other.                           *)
Deciding == {p \in 1..input.size : Decides(Source(1)[p])}

Testing ==
  ~Reduces =>
    /\ at = 0 /\ output = <<>> /\ pack = <<>>
    /\ phase \in {"next", "done", "decided", "failed"}
    /\ evaluated = reading
    /\ phase # "failed" => input.fails \notin 1..evaluated
    /\ phase \in {"next", "done"} => \A p \in Deciding : reading * MaxBatch < p
    /\ phase = "done" => input.size <= reading * MaxBatch
    /\ phase = "decided" => \E p \in Deciding : p <= reading * MaxBatch
    /\ phase \in {"decided", "failed"} =>
         reading > 0 /\ \A p \in Deciding : (reading - 1) * MaxBatch < p

ReductionInv ==
  /\ TypeOK /\ ResultsSoFar /\ InStep /\ Streaming /\ Doubling
  /\ PacksFit /\ FailsOnce /\ Testing

--------------------------------------------------------------------------------
(* What is known of an input.                                               *)
LEMMA InputFacts ==
  ASSUME input \in Inputs
  PROVE  /\ MaxBatch \in Nat \ {0} /\ Zero \in Values /\ None \notin Bags
         /\ input.kind \in {"axis", "terminal", "all", "any"}
         /\ input.size \in Nat \ {0} /\ input.fails \in Nat
         /\ Len(input.groups) \in Nat
         /\ ~Reduces => Len(input.groups) >= 1
         /\ \A k \in 1..Len(input.groups) : Source(k) \in [1..input.size -> Values]
         /\ at \in 1..Len(input.groups) =>
              /\ Selected \in Seq((SUBSET (1..input.size)) \ {{}})
              /\ \A j, k \in DOMAIN Selected : j # k => Selected[j] \intersect Selected[k] = {}
              /\ \A p \in 1..input.size :
                   Source(at)[p] # Zero => \E k \in DOMAIN Selected : p \in Selected[k]
<1>1. input.groups \in Seq(DOMAIN input.source)
  BY InputAssumption
<1>2. \A k \in 1..Len(input.groups) : input.groups[k] \in DOMAIN input.source
  BY <1>1
<1>3. \A k \in 1..Len(input.groups) : Source(k) \in [1..input.size -> Values]
  BY <1>2, InputAssumption DEF Source
<1>4. ASSUME at \in 1..Len(input.groups)
      PROVE  /\ Selected \in Seq((SUBSET (1..input.size)) \ {{}})
             /\ \A j, k \in DOMAIN Selected : j # k => Selected[j] \intersect Selected[k] = {}
             /\ \A p \in 1..input.size :
                  Source(at)[p] # Zero => \E k \in DOMAIN Selected : p \in Selected[k]
  <2>1. PICK g \in DOMAIN input.source : g = input.groups[at]
    BY <1>2, <1>4
  <2> QED BY <2>1, InputAssumption DEF Selected, Source
<1>5. Len(input.groups) \in Nat /\ (input.groups # <<>> => Len(input.groups) >= 1)
  BY <1>1
<1> QED BY <1>3, <1>4, <1>5, InputAssumption DEF Bags, Reduces

(* How many positions have a value is a number.                             *)
LEMMA HavingNumber ==
  ASSUME NEW S, IsFiniteSet(S), NEW f
  PROVE  \A v : Having(f, S, v) \in Nat
<1> SUFFICES ASSUME NEW v PROVE Having(f, S, v) \in Nat
  OBVIOUS
<1>1. IsFiniteSet({p \in S : f[p] = v})
  BY FS_Subset
<1> QED BY <1>1, FS_CardinalityType DEF Having

(* Bags count the positions of each value.                                  *)
LEMMA BagFacts ==
  ASSUME NEW S, IsFiniteSet(S), NEW f \in [S -> Values]
  PROVE  /\ Bag(f) \in Bags
         /\ \A v \in Values : Bag(f)[v] = Having(f, S, v)
<1>1. \A v : Having(f, S, v) \in Nat
  BY HavingNumber
<1>2. DOMAIN f = S
  OBVIOUS
<1>3. \A v \in Values : Bag(f)[v] = Having(f, S, v)
  BY <1>2 DEF Bag, Having
<1>4. Bag(f) = [v \in Values |-> Having(f, S, v)]
  BY <1>2 DEF Bag, Having
<1> QED BY <1>1, <1>3, <1>4 DEF Bags

(* What is merged into a partial result is added to it.                     *)
LEMMA MergedAmount ==
  ASSUME None \notin Bags, NEW state \in Bags \union {None}, NEW b \in Bags
  PROVE  /\ Merged(state, b) \in Bags /\ Merged(state, b) # None
         /\ \A v \in Values : Amount(Merged(state, b), v) = Amount(state, v) + b[v]
<1>1. CASE state = None
  BY <1>1 DEF Merged, Amount, Bags
<1>2. CASE state # None
  <2>1. Merged(state, b) = [v \in Values |-> state[v] + b[v]]
    BY <1>2 DEF Merged, Combine
  <2>2. \A v \in Values : state[v] \in Nat /\ b[v] \in Nat
    BY <1>2 DEF Bags
  <2>3. Merged(state, b) \in Bags
    BY <2>1, <2>2 DEF Bags
  <2> QED BY <1>2, <2>1, <2>3 DEF Amount
<1> QED BY <1>1, <1>2

(* Intervals and their subsets are finite.                                  *)
LEMMA PartsFinite ==
  ASSUME NEW n \in Nat
  PROVE  /\ IsFiniteSet(1..n) /\ Cardinality(1..n) = n
         /\ \A S \in SUBSET (1..n) :
              IsFiniteSet(S) /\ Cardinality(S) \in Nat /\ Cardinality(S) <= n
<1>1. IsFiniteSet(1..n) /\ Cardinality(1..n) = n
  BY FS_Interval
<1>2. ASSUME NEW S \in SUBSET (1..n)
      PROVE  IsFiniteSet(S) /\ Cardinality(S) \in Nat /\ Cardinality(S) <= n
  BY <1>1, FS_Subset, FS_CardinalityType
<1> QED BY <1>1, <1>2

(* Positions are counted apart.                                             *)
LEMMA HavingApart ==
  ASSUME NEW n \in Nat, NEW f, NEW S \in SUBSET (1..n), NEW P \in SUBSET (1..n),
         S \intersect P = {}
  PROVE  /\ Cardinality(S \union P) = Cardinality(S) + Cardinality(P)
         /\ \A v : Having(f, S \union P, v) = Having(f, S, v) + Having(f, P, v)
<1>1. ASSUME NEW A \in SUBSET (1..n), NEW B \in SUBSET (1..n), A \intersect B = {}
      PROVE  Cardinality(A \union B) = Cardinality(A) + Cardinality(B)
  <2>1. IsFiniteSet(A) /\ IsFiniteSet(B) /\ Cardinality(A) \in Nat /\ Cardinality(B) \in Nat
    BY PartsFinite
  <2>2. Cardinality(A \union B) = Cardinality(A) + Cardinality(B) - Cardinality(A \intersect B)
    BY <2>1, FS_Union
  <2>3. Cardinality(A \intersect B) = 0
    BY <1>1, FS_EmptySet
  <2> QED BY <2>1, <2>2, <2>3
<1>2. ASSUME NEW v PROVE Having(f, S \union P, v) = Having(f, S, v) + Having(f, P, v)
  <2> DEFINE A == {p \in S : f[p] = v}
             B == {p \in P : f[p] = v}
  <2>1. {p \in S \union P : f[p] = v} = A \union B /\ A \intersect B = {}
    OBVIOUS
  <2>2. A \in SUBSET (1..n) /\ B \in SUBSET (1..n)
    OBVIOUS
  <2> HIDE DEF A, B
  <2>3. Cardinality(A \union B) = Cardinality(A) + Cardinality(B)
    BY <1>1, <2>1, <2>2
  <2> QED BY <2>1, <2>3 DEF Having, A, B
<1> QED BY <1>1, <1>2

--------------------------------------------------------------------------------
(* Initially nothing was taken in.                                          *)
LEMMA ReductionInit == Init => ReductionInv
<1> SUFFICES ASSUME Init PROVE ReductionInv
  OBVIOUS
<1>1. input \in Inputs
  BY DEF Init
<1>2. /\ Len(input.groups) \in Nat /\ input.size \in Nat \ {0} /\ MaxBatch \in Nat \ {0}
      /\ input.fails \in Nat
  BY <1>1, InputFacts
<1>3. TypeOK
  BY <1>1, <1>2 DEF Init, TypeOK
<1>4. ResultsSoFar /\ PacksFit
  BY <1>2 DEF Init, ResultsSoFar, PacksFit
<1>5. Testing
  <2>1. \A p \in Deciding : 0 < p
    BY <1>2 DEF Deciding
  <2> QED BY <1>2, <2>1 DEF Init, Testing
<1> QED BY <1>3, <1>4, <1>5 DEF Init, ReductionInv, InStep, Streaming, Doubling, FailsOnce

(* The results stand while nothing is added to them.                        *)
LEMMA ResultsKept ==
  ASSUME ResultsSoFar, input' = input, output' = output
  PROVE  ResultsSoFar'
BY DEF ResultsSoFar, Source

(* all and any have no part in the steps of the others.                     *)
LEMMA TestingKept ==
  ASSUME Reduces, input' = input
  PROVE  Testing'
BY DEF Testing, Reduces

(* The next group is taken.                                                 *)
LEMMA KeepTakeGroup == ASSUME ReductionInv, TakeGroup PROVE ReductionInv'
<1>1. input \in Inputs /\ input' = input /\ Reduces
  BY DEF ReductionInv, TypeOK, TakeGroup, Reduces
<1>2. /\ Len(input.groups) \in Nat /\ input.size \in Nat \ {0} /\ MaxBatch \in Nat \ {0}
      /\ None \notin Bags
  BY <1>1, InputFacts
<1>3. /\ phase = "next" /\ at < Len(input.groups) /\ at \in Nat /\ at' = at + 1
      /\ output' = output /\ evaluated' = evaluated
      /\ pack = <<>> /\ at = Len(output)
  BY <1>1, <1>2 DEF ReductionInv, TypeOK, TakeGroup, InStep
<1>4. ResultsSoFar' /\ Testing'
  BY <1>1, <1>3, ResultsKept, TestingKept DEF ReductionInv
<1>5. CASE input.kind = "axis" /\ ~Large
  <2>1. pack' = <<at + 1>> /\ phase' = "pack" /\ group' = group
    BY <1>5 DEF TakeGroup
  <2>2. input.size <= MaxBatch
    BY <1>2, <1>5 DEF Large
  <2>3. TypeOK'
    BY <1>1, <1>2, <1>3, <2>1 DEF ReductionInv, TypeOK, group
  <2>4. InStep' /\ PacksFit'
    BY <1>1, <1>2, <1>3, <2>1, <2>2 DEF InStep, PacksFit
  <2> QED BY <1>4, <2>1, <2>3, <2>4 DEF ReductionInv, Streaming, Doubling, FailsOnce
<1>6. CASE ~(input.kind = "axis" /\ ~Large)
  <2>1. /\ reading' = 0 /\ partial' = None /\ remaining' = input.size
        /\ phase' = "stream" /\ pack' = pack /\ double' = double /\ count' = count
    BY <1>6 DEF TakeGroup
  <2>2. TypeOK'
    BY <1>1, <1>2, <1>3, <2>1 DEF ReductionInv, TypeOK
  <2>3. InStep' /\ PacksFit'
    BY <1>1, <1>2, <1>3, <2>1 DEF InStep, PacksFit
  <2>4. \A batches : Named(batches, 0) = {}
    BY DEF Named
  <2>5. Cardinality({}) = 0 /\ \A f, v : Having(f, {}, v) = 0
    BY FS_EmptySet DEF Having
  <2>6. Len(Selected') \in Nat
    <3>1. at' \in 1..Len(input.groups)
      BY <1>2, <1>3
    <3>2. PICK k \in 1..Len(input.groups) : k = at'
      BY <3>1
    <3>0. input.groups \in Seq(DOMAIN input.source)
      BY <1>1, InputAssumption
    <3>3. PICK g \in DOMAIN input.source : g = input.groups[k]
      BY <3>0
    <3>4. Selected' = input.selected[g]
      BY <1>1, <3>2, <3>3 DEF Selected
    <3>5. input.selected[g] \in Seq((SUBSET (1..input.size)) \ {{}})
      BY <1>1, InputAssumption
    <3> QED BY <3>4, <3>5
  <2>7. Named(Selected', reading') = {}
    BY <2>1, <2>4
  <2>8. \A v \in Values : Having(Source(at)', Named(Selected', reading'), v) = 0
    BY <2>5, <2>7
  <2>9. \A v \in Values : Amount(partial', v) = 0
    BY <2>1 DEF Amount
  <2>10. remaining' + Cardinality(Named(Selected', reading')) = input'.size
    <3>1. Cardinality(Named(Selected', reading')) = 0
      BY <2>5, <2>7, Zenon
    <3>2. remaining' = input.size /\ input'.size = input.size
      BY <1>1, <2>1
    <3> HIDE DEF Selected
    <3> QED BY <1>2, <3>1, <3>2
  <2>11. Streaming'
    BY <2>1, <2>6, <2>8, <2>9, <2>10 DEF Streaming
  <2> QED BY <1>4, <2>1, <2>2, <2>3, <2>11 DEF ReductionInv, Doubling, FailsOnce
<1> QED BY <1>5, <1>6

(* Another group joins the pack.                                            *)
LEMMA KeepPackGroup == ASSUME ReductionInv, PackGroup PROVE ReductionInv'
<1>1. /\ input \in Inputs /\ input' = input /\ phase = "pack" /\ phase' = "pack"
      /\ at' = at + 1 /\ pack' = Append(pack, at + 1)
      /\ output' = output /\ evaluated' = evaluated /\ group' = group
  BY DEF ReductionInv, TypeOK, PackGroup
<1>2. /\ Len(input.groups) \in Nat /\ input.size \in Nat \ {0} /\ MaxBatch \in Nat \ {0}
      /\ input.kind \in {"axis", "terminal", "all", "any"}
  BY <1>1, InputFacts
<1>3. Reduces
  BY <1>1, <1>2 DEF ReductionInv, Testing, Reduces
<1>4. at < Len(input.groups) /\ at \in Nat /\ pack \in Seq(1..Len(input.groups))
  BY <1>2 DEF ReductionInv, TypeOK, PackGroup, Fuller
<1>5. Len(pack') = Len(pack) + 1 /\ Len(pack) \in Nat
  BY <1>1, <1>4
<1>6. ResultsSoFar' /\ Testing'
  BY <1>1, <1>3, ResultsKept, TestingKept DEF ReductionInv
<1>7. pack' \in Seq(1..Len(input.groups)) /\ at' \in 0..Len(input.groups)
  BY <1>1, <1>2, <1>4
<1>8. TypeOK'
  BY <1>1, <1>7 DEF ReductionInv, TypeOK, group
<1>9. PacksFit'
  BY <1>1, <1>5 DEF PacksFit, PackGroup, Packs
<1>10. InStep'
  <2>1. /\ at = Len(output) + Len(pack) /\ Len(output) \in Nat
        /\ \A k \in 1..Len(pack) : pack[k] = Len(output) + k
    BY <1>1, <1>3 DEF ReductionInv, InStep, TypeOK
  <2>2. ASSUME NEW k \in 1..Len(pack') PROVE pack'[k] = Len(output) + k
    <3>1. /\ k \in Nat
          /\ k <= Len(pack) => k \in 1..Len(pack) /\ Append(pack, at + 1)[k] = pack[k]
          /\ k = Len(pack) + 1 => Append(pack, at + 1)[k] = at + 1
      BY <1>4, <1>5
    <3>2. k <= Len(pack) \/ k = Len(pack) + 1
      BY <1>5
    <3> QED BY <1>1, <1>5, <2>1, <3>1, <3>2
  <2> QED BY <1>1, <1>5, <2>1, <2>2 DEF InStep
<1> QED BY <1>1, <1>6, <1>8, <1>9, <1>10 DEF ReductionInv, Streaming, Doubling, FailsOnce

(* The groups of a pack are reduced and split.                              *)
LEMMA KeepReadPack == ASSUME ReductionInv, ReadPack PROVE ReductionInv'
<1>1. /\ input \in Inputs /\ input' = input /\ phase = "pack"
      /\ at' = at /\ group' = group /\ evaluated' = evaluated + 1
  BY DEF ReductionInv, TypeOK, ReadPack
<1>2. /\ Len(input.groups) \in Nat /\ input.size \in Nat \ {0} /\ MaxBatch \in Nat \ {0}
      /\ input.kind \in {"axis", "terminal", "all", "any"}
      /\ \A k \in 1..Len(input.groups) : Source(k) \in [1..input.size -> Values]
  BY <1>1, InputFacts
<1>3. Reduces
  BY <1>1, <1>2 DEF ReductionInv, Testing, Reduces
<1>4. Testing'
  BY <1>1, <1>3, TestingKept
<1>5. /\ at = Len(output) + Len(pack)
      /\ \A k \in 1..Len(pack) : pack[k] = Len(output) + k
      /\ Len(output) \in Nat /\ Len(pack) \in Nat /\ output \in Seq(Bags)
      /\ at \in 0..Len(input.groups)
  BY <1>1, <1>3 DEF ReductionInv, InStep, TypeOK, Bags
<1>6. CASE Fails
  <2>1. phase' = "failed" /\ output' = output /\ pack' = pack /\ input.fails = evaluated'
    BY <1>1, <1>6 DEF ReadPack, Fails
  <2>2. TypeOK'
    BY <1>1, <2>1 DEF ReductionInv, TypeOK, group
  <2>3. ResultsSoFar'
    BY <1>1, <2>1, ResultsKept DEF ReductionInv
  <2>4. InStep' /\ PacksFit' /\ FailsOnce'
    BY <1>1, <2>1 DEF ReductionInv, InStep, PacksFit, FailsOnce
  <2> QED BY <1>4, <2>1, <2>2, <2>3, <2>4 DEF ReductionInv, Streaming, Doubling
<1>7. CASE ~Fails
  <2>1. phase' = "next" /\ output' = output \o Split /\ pack' = <<>>
    BY <1>7 DEF ReadPack
  <2>2. /\ DOMAIN Split = 1..Len(pack)
        /\ \A k \in 1..Len(pack) : Split[k] = Bag(Source(Len(output) + k)) /\ Split[k] \in Bags
    <3>1. DOMAIN pack = 1..Len(pack)
      BY DEF ReductionInv, TypeOK
    <3>2. ASSUME NEW k \in 1..Len(pack)
          PROVE  Split[k] = Bag(Source(Len(output) + k)) /\ Split[k] \in Bags
      <4>1. Split[k] = Bag(Source(Len(output) + k))
        BY <1>5, <3>1 DEF Split
      <4>2. Source(Len(output) + k) \in [1..input.size -> Values]
        BY <1>2, <1>5
      <4>3. IsFiniteSet(1..input.size)
        <5>1. PICK n \in Nat : n = input.size
          BY <1>2
        <5> QED BY <5>1, PartsFinite
      <4>4. PICK f \in [1..input.size -> Values] : f = Source(Len(output) + k)
        BY <4>2
      <4>5. Bag(f) \in Bags
        BY <4>3, BagFacts
      <4> QED BY <4>1, <4>4, <4>5
    <3> QED BY <3>1, <3>2 DEF Split
  <2>3. Split \in Seq(Bags) /\ Len(Split) = Len(pack)
    <3>1. Split \in [1..Len(pack) -> Bags]
      BY <2>2 DEF Split
    <3> HIDE DEF Split
    <3> QED BY <1>5, <3>1
  <2>4. /\ output \o Split \in Seq(Bags) /\ Len(output \o Split) = at
        /\ \A k \in 1..Len(output) : (output \o Split)[k] = output[k]
        /\ \A k \in 1..Len(pack) : (output \o Split)[Len(output) + k] = Split[k]
    <3> HIDE DEF Split
    <3> QED BY <1>5, <2>3
  <2>5. ASSUME NEW k \in 1..at PROVE (output \o Split)[k] = Bag(Source(k))
    <3>1. CASE k <= Len(output)
      <4>1. k \in 1..Len(output)
        BY <1>5, <3>1
      <4> QED BY <2>4, <4>1 DEF ReductionInv, ResultsSoFar
    <3>2. CASE ~(k <= Len(output))
      <4>1. k - Len(output) \in 1..Len(pack) /\ Len(output) + (k - Len(output)) = k
        BY <1>5, <3>2
      <4>2. PICK j \in 1..Len(pack) : Len(output) + j = k
        BY <4>1
      <4> HIDE DEF Split
      <4> QED BY <2>2, <2>4, <4>2
    <3> QED BY <3>1, <3>2
  <2> HIDE DEF Split
  <2>6. ResultsSoFar'
    <3>1. Len(output') = at /\ Len(output') <= Len(input.groups)
      BY <1>2, <1>5, <2>1, <2>4
    <3>2. \A k \in 1..Len(output') : output'[k] = Bag(Source(k))
      BY <2>1, <2>4, <2>5
    <3> QED BY <1>1, <3>1, <3>2 DEF ResultsSoFar, Source
  <2>7. TypeOK'
    <3>1. output' \in Seq(Bags)
      BY <2>1, <2>4
    <3> QED BY <1>1, <2>1, <3>1 DEF ReductionInv, TypeOK, group, Bags
  <2>8. InStep' /\ PacksFit'
    BY <1>1, <1>2, <2>1, <2>4 DEF InStep, PacksFit
  <2> QED BY <1>4, <2>1, <2>6, <2>7, <2>8 DEF ReductionInv, Streaming, Doubling, FailsOnce
<1> QED BY <1>6, <1>7

(* The batches of a group are named one after the other.                    *)
LEMMA NamedNext ==
  ASSUME NEW n \in Nat, NEW batches \in Seq((SUBSET (1..n)) \ {{}}),
         \A j, k \in DOMAIN batches : j # k => batches[j] \intersect batches[k] = {},
         NEW m \in Nat, m < Len(batches)
  PROVE  /\ Named(batches, m + 1) = Named(batches, m) \union batches[m + 1]
         /\ Named(batches, m) \intersect batches[m + 1] = {}
         /\ Named(batches, m) \in SUBSET (1..n)
         /\ batches[m + 1] \in (SUBSET (1..n)) \ {{}}
<1>1. \A k \in 1..(m + 1) : k \in DOMAIN batches /\ batches[k] \in (SUBSET (1..n)) \ {{}}
  OBVIOUS
<1>2. 1..(m + 1) = (1..m) \union {m + 1} /\ m + 1 \notin 1..m
  OBVIOUS
<1>3. Named(batches, m + 1) = Named(batches, m) \union batches[m + 1]
  BY <1>2 DEF Named
<1>4. Named(batches, m) \intersect batches[m + 1] = {}
  <2>1. \A k \in 1..m : batches[k] \intersect batches[m + 1] = {}
    BY <1>1, <1>2
  <2> QED BY <2>1 DEF Named
<1>5. Named(batches, m) \in SUBSET (1..n)
  BY <1>1, <1>2 DEF Named
<1> QED BY <1>1, <1>2, <1>3, <1>4, <1>5

(* A batch of a group is read and taken in.                                 *)
LEMMA KeepAccumulateBatch == ASSUME ReductionInv, AccumulateBatch PROVE ReductionInv'
<1>1. /\ input \in Inputs /\ input' = input /\ phase = "stream" /\ reading < Len(Selected)
      /\ at' = at /\ pack' = pack /\ output' = output /\ evaluated' = evaluated + 1
  BY DEF ReductionInv, TypeOK, AccumulateBatch
<1>2. /\ Len(input.groups) \in Nat /\ input.size \in Nat \ {0} /\ MaxBatch \in Nat \ {0}
      /\ input.kind \in {"axis", "terminal", "all", "any"} /\ None \notin Bags
      /\ \A k \in 1..Len(input.groups) : Source(k) \in [1..input.size -> Values]
      /\ at \in 1..Len(input.groups) =>
              /\ Selected \in Seq((SUBSET (1..input.size)) \ {{}})
              /\ \A j, k \in DOMAIN Selected : j # k => Selected[j] \intersect Selected[k] = {}
  BY <1>1, InputFacts
<1>3. Reduces
  BY <1>1, <1>2 DEF ReductionInv, Testing, Reduces
<1>4. ResultsSoFar' /\ Testing' /\ PacksFit'
  BY <1>1, <1>3, ResultsKept, TestingKept DEF ReductionInv, PacksFit
<1>5. /\ pack = <<>> /\ at = Len(output) + 1 /\ output \in Seq(Bags)
      /\ at \in 1..Len(input.groups)
      /\ reading \in Nat /\ remaining \in Nat /\ evaluated \in Nat
      /\ partial \in Bags \union {None} /\ double \in Bags \union {None} /\ count \in Nat
  <2>1. /\ output \in Seq(Bags) /\ at \in 0..Len(input.groups)
        /\ reading \in Nat /\ remaining \in Nat /\ evaluated \in Nat
        /\ partial \in Bags \union {None} /\ double \in Bags \union {None} /\ count \in Nat
    BY DEF ReductionInv, TypeOK, Bags
  <2>2. pack = <<>> /\ at = Len(output) + 1
    BY <1>1, <1>3 DEF ReductionInv, InStep
  <2>3. Len(output) \in Nat
    BY <2>1
  <2> QED BY <1>2, <2>1, <2>2, <2>3
<1> PICK n \in Nat : n = input.size
  BY <1>2
<1> PICK f \in [1..n -> Values], batches \in Seq((SUBSET (1..n)) \ {{}}) :
         f = Source(at) /\ batches = Selected
  BY <1>2, <1>5
<1> DEFINE positions == batches[reading + 1]
           S == Named(batches, reading)
           b == Bag([p \in positions |-> f[p]])
<1>7. /\ Named(batches, reading + 1) = S \union positions
      /\ S \intersect positions = {}
      /\ S \in SUBSET (1..n) /\ positions \in (SUBSET (1..n)) \ {{}}
  BY <1>1, <1>2, <1>5, NamedNext
<1> HIDE DEF S, positions
<1>8. /\ Cardinality(S \union positions) = Cardinality(S) + Cardinality(positions)
      /\ \A v : Having(f, S \union positions, v) = Having(f, S, v) + Having(f, positions, v)
  <2>1. S \in SUBSET (1..n) /\ positions \in SUBSET (1..n) /\ S \intersect positions = {}
    BY <1>7
  <2> QED BY ONLY <2>1, n \in Nat, HavingApart, Zenon
<1>9. /\ Cardinality(S) \in Nat /\ Cardinality(positions) \in Nat
      /\ Cardinality(S \union positions) <= n /\ IsFiniteSet(positions)
  BY <1>7, PartsFinite
<1>10. /\ remaining + Cardinality(S) = n
       /\ partial = None <=> reading = 0
       /\ \A v \in Values : Amount(partial, v) = Having(f, S, v)
  BY <1>1 DEF ReductionInv, Streaming, S
<1>11. Cardinality(positions) <= remaining
  BY <1>5, <1>8, <1>9, <1>10
<1>12. CASE Fails
  <2>1. phase' = "failed" /\ group' = group /\ input.fails = evaluated'
    BY <1>1, <1>12 DEF AccumulateBatch, Fails
  <2>2. TypeOK'
    BY <1>1, <1>5, <2>1 DEF ReductionInv, TypeOK, group
  <2>3. InStep' /\ FailsOnce'
    BY <1>1, <2>1 DEF ReductionInv, InStep, Reduces, FailsOnce
  <2> QED BY <1>4, <2>1, <2>2, <2>3 DEF ReductionInv, Streaming, Doubling
<1>13. CASE ~Fails
  <2>1. ~(Cardinality(positions) > remaining)
    BY <1>5, <1>9, <1>11
  <2>2. /\ reading' = reading + 1 /\ phase' = phase
        /\ remaining' = remaining - Cardinality(positions)
        /\ partial' = Merged(partial, b)
        /\ double' = double /\ count' = count
    BY <1>13, <2>1 DEF AccumulateBatch, positions
  <2>3. b \in Bags /\ \A v \in Values : b[v] = Having(f, positions, v)
    <3> DEFINE g == [p \in positions |-> f[p]]
    <3>1. g \in [positions -> Values] /\ \A p \in positions : g[p] = f[p]
      BY <1>7
    <3> HIDE DEF g
    <3>2. Bag(g) \in Bags /\ \A v \in Values : Bag(g)[v] = Having(g, positions, v)
      BY <1>9, <3>1, BagFacts
    <3>3. \A v : {p \in positions : g[p] = v} = {p \in positions : f[p] = v}
      BY <3>1
    <3>4. \A v : Having(g, positions, v) = Having(f, positions, v)
      BY <3>3 DEF Having
    <3> QED BY <3>2, <3>4 DEF g
  <2> HIDE DEF b
  <2>4. /\ partial' \in Bags /\ partial' # None
        /\ \A v \in Values : Amount(partial', v) = Amount(partial, v) + b[v]
    BY <1>2, <1>5, <2>2, <2>3, MergedAmount
  <2>5. remaining' \in Nat /\ remaining' + Cardinality(S \union positions) = n
    BY <1>5, <1>8, <1>9, <1>10, <1>11, <2>2
  <2>6. TypeOK'
    BY <1>1, <1>5, <2>2, <2>4, <2>5 DEF ReductionInv, TypeOK, Bags
  <2>7. \A v \in Values : Amount(partial', v) = Having(f, S \union positions, v)
    BY <1>8, <1>10, <2>3, <2>4
  <2>8. Selected' = batches /\ Source(at)' = f
    BY <1>1 DEF Selected, Source
  <2>9. Named(batches, reading') = S \union positions
    BY <1>7, <2>2
  <2>10. Streaming'
    <3>1. reading' <= Len(batches) /\ reading' # 0
      BY <1>1, <1>5, <2>2
    <3> QED BY <1>1, <2>2, <2>4, <2>5, <2>7, <2>8, <2>9, <3>1 DEF Streaming
  <2>11. InStep'
    BY <1>1, <2>2 DEF ReductionInv, InStep, Reduces
  <2> QED BY <1>1, <1>4, <2>2, <2>6, <2>10, <2>11 DEF ReductionInv, Doubling, FailsOnce
<1> QED BY <1>12, <1>13

(* The bag of one zero.                                                     *)
LEMMA ZeroBag ==
  ASSUME Zero \in Values
  PROVE  /\ Bag(<<Zero>>) \in Bags
         /\ \A v \in Values : Bag(<<Zero>>)[v] = IF v = Zero THEN 1 ELSE 0
<1> DEFINE f == [p \in 1..1 |-> Zero]
<1>1. f \in [1..1 -> Values] /\ f = <<Zero>>
  OBVIOUS
<1>2. IsFiniteSet(1..1)
  BY PartsFinite
<1>3. \A v : {p \in 1..1 : f[p] = v} = IF v = Zero THEN {1} ELSE {}
  OBVIOUS
<1>4. Cardinality({1}) = 1 /\ Cardinality({}) = 0
  BY FS_EmptySet, FS_Singleton
<1> HIDE DEF f
<1>5. Bag(f) \in Bags /\ \A v \in Values : Bag(f)[v] = Having(f, 1..1, v)
  BY <1>1, <1>2, BagFacts
<1>6. \A v : Having(f, 1..1, v) = IF v = Zero THEN 1 ELSE 0
  BY <1>3, <1>4 DEF Having
<1> QED BY <1>1, <1>5, <1>6

(* Positions that all have one value are counted by it.                     *)
LEMMA HavingAlike ==
  ASSUME NEW f, NEW S, NEW z, \A p \in S : f[p] = z
  PROVE  /\ Having(f, S, z) = Cardinality(S)
         /\ \A v : v # z => Having(f, S, v) = 0
<1>1. {p \in S : f[p] = z} = S
  OBVIOUS
<1>2. \A v : v # z => {p \in S : f[p] = v} = {}
  OBVIOUS
<1> QED BY <1>1, <1>2, FS_EmptySet DEF Having

(* The positions that were not named are counted.                           *)
LEMMA KeepStartZeros == ASSUME ReductionInv, StartZeros PROVE ReductionInv'
<1>1. /\ input \in Inputs /\ input' = input /\ phase = "stream" /\ reading = Len(Selected)
      /\ at' = at /\ pack' = pack /\ reading' = reading /\ partial' = partial
      /\ remaining' = remaining /\ output' = output /\ evaluated' = evaluated
      /\ double' = Bag(<<Zero>>) /\ count' = remaining /\ phase' = "zeros"
  BY DEF ReductionInv, TypeOK, StartZeros
<1>2. /\ Len(input.groups) \in Nat /\ input.size \in Nat \ {0} /\ Zero \in Values
      /\ input.kind \in {"axis", "terminal", "all", "any"} /\ None \notin Bags
      /\ \A k \in 1..Len(input.groups) : Source(k) \in [1..input.size -> Values]
      /\ at \in 1..Len(input.groups) =>
           /\ Selected \in Seq((SUBSET (1..input.size)) \ {{}})
           /\ \A p \in 1..input.size :
                Source(at)[p] # Zero => \E k \in DOMAIN Selected : p \in Selected[k]
  BY <1>1, InputFacts
<1>3. Reduces
  BY <1>1, <1>2 DEF ReductionInv, Testing, Reduces
<1>4. ResultsSoFar' /\ Testing' /\ PacksFit'
  BY <1>1, <1>3, ResultsKept, TestingKept DEF ReductionInv, PacksFit
<1>5. /\ at \in 1..Len(input.groups) /\ remaining \in Nat /\ partial \in Bags \union {None}
      /\ reading \in Nat
  <2>1. /\ output \in Seq(Bags) /\ at \in 0..Len(input.groups)
        /\ remaining \in Nat /\ partial \in Bags \union {None} /\ reading \in Nat
    BY DEF ReductionInv, TypeOK, Bags
  <2>2. at = Len(output) + 1
    BY <1>1, <1>3 DEF ReductionInv, InStep
  <2>3. Len(output) \in Nat
    BY <2>1
  <2> QED BY <1>2, <2>1, <2>2, <2>3
<1>6. /\ Bag(<<Zero>>) \in Bags
      /\ \A v \in Values : Bag(<<Zero>>)[v] = IF v = Zero THEN 1 ELSE 0
  BY <1>2, ZeroBag
<1>7. TypeOK'
  BY <1>1, <1>5, <1>6 DEF ReductionInv, TypeOK, Bags
<1>8. InStep'
  BY <1>1 DEF ReductionInv, InStep, Reduces
<1> PICK n \in Nat : n = input.size
  BY <1>2
<1> PICK f \in [1..n -> Values], batches \in Seq((SUBSET (1..n)) \ {{}}) :
         f = Source(at) /\ batches = Selected
  BY <1>2, <1>5
<1> DEFINE S == Named(batches, reading)
           U == (1..n) \ S
<1>9. /\ remaining + Cardinality(S) = n
      /\ partial = None <=> reading = 0
      /\ \A v \in Values : Amount(partial, v) = Having(f, S, v)
  BY <1>1 DEF ReductionInv, Streaming
<1>10. S \in SUBSET (1..n) /\ U \in SUBSET (1..n) /\ S \intersect U = {} /\ S \union U = 1..n
  <2>1. \A k \in 1..Len(batches) : batches[k] \in SUBSET (1..n)
    OBVIOUS
  <2>2. S \in SUBSET (1..n)
    BY <1>1, <2>1 DEF Named
  <2> QED BY <2>2
<1>11. \A p \in U : f[p] = Zero
  <2>1. DOMAIN batches = 1..Len(batches)
    OBVIOUS
  <2>2. \A p \in 1..n : f[p] # Zero => p \in S
    BY <1>1, <1>2, <1>5, <2>1 DEF Named
  <2> QED BY <2>2
<1>12. reading = 0 => S = {}
  BY DEF Named
<1> HIDE DEF S, U
<1>13. /\ Cardinality(1..n) = Cardinality(S) + Cardinality(U)
       /\ \A v : Having(f, 1..n, v) = Having(f, S, v) + Having(f, U, v)
  <2>1. /\ Cardinality(S \union U) = Cardinality(S) + Cardinality(U)
        /\ \A v : Having(f, S \union U, v) = Having(f, S, v) + Having(f, U, v)
    <3>1. S \in SUBSET (1..n) /\ U \in SUBSET (1..n) /\ S \intersect U = {}
      BY <1>10
    <3> QED BY ONLY <3>1, n \in Nat, HavingApart, Zenon
  <2> QED BY <1>10, <2>1
<1>14. Cardinality(1..n) = n /\ Cardinality(S) \in Nat /\ Cardinality(U) \in Nat
  BY <1>10, PartsFinite
<1>15. Cardinality(U) = remaining
  BY <1>5, <1>9, <1>13, <1>14
<1>16. Having(f, U, Zero) = remaining /\ \A v : v # Zero => Having(f, U, v) = 0
  BY <1>11, <1>15, HavingAlike
<1>17. \A v \in Values : Bag(f)[v] = Having(f, 1..n, v) /\ Having(f, S, v) \in Nat
  <2>1. IsFiniteSet(1..n) /\ IsFiniteSet(S)
    BY <1>10, PartsFinite
  <2>2. \A v \in Values : Bag(f)[v] = Having(f, 1..n, v)
    BY <2>1, BagFacts
  <2> QED BY <1>10, <2>1, <2>2, HavingNumber
<1>18. ASSUME NEW v \in Values
       PROVE  Amount(partial', v) + count' * double'[v] = Bag(f)[v]
  <2>1. Amount(partial', v) = Having(f, S, v) /\ count' = remaining
    BY <1>1, <1>9
  <2>2. CASE v = Zero
    <3>1. double'[v] = 1 /\ Having(f, U, v) = remaining
      BY <1>1, <1>6, <1>16, <2>2
    <3> QED BY <1>5, <1>13, <1>17, <2>1, <3>1
  <2>3. CASE v # Zero
    <3>1. double'[v] = 0 /\ Having(f, U, v) = 0
      BY <1>1, <1>6, <1>16, <2>3
    <3> QED BY <1>5, <1>13, <1>17, <2>1, <3>1
  <2> QED BY <2>2, <2>3
<1>19. partial' = None => count' # 0
  <2> SUFFICES ASSUME partial' = None PROVE count' # 0
    OBVIOUS
  <2>1. S = {}
    BY <1>1, <1>9, <1>12
  <2>2. Cardinality(S) = 0
    BY <2>1, FS_EmptySet, Zenon
  <2>3. count' = remaining /\ n # 0
    BY <1>1, <1>2
  <2> QED BY <1>5, <1>9, <2>2, <2>3
<1>20. Doubling'
  <2>1. Source(at)' = f
    BY <1>1 DEF Source
  <2> QED BY <1>1, <1>2, <1>6, <1>18, <1>19, <2>1 DEF Doubling
<1> QED BY <1>1, <1>4, <1>7, <1>8, <1>20 DEF ReductionInv, Streaming, FailsOnce

(* Half of a count, and what is left of it.                                 *)
LEMMA Halves ==
  ASSUME NEW c \in Nat
  PROVE  /\ c \div 2 \in Nat /\ c % 2 \in {0, 1}
         /\ c = 2 * (c \div 2) + (c % 2)
OBVIOUS

(* Half as many of twice as much is as much.                                *)
LEMMA TwiceAsMuch ==
  ASSUME NEW h \in Nat, NEW d \in Nat
  PROVE  /\ h * (d + d) \in Nat /\ h * d \in Nat
         /\ (2 * h) * d = h * (d + d)
         /\ (2 * h + 1) * d = h * (d + d) + d
OBVIOUS

(* One bit of the count is taken.                                           *)
LEMMA KeepAccumulateZeros == ASSUME ReductionInv, AccumulateZeros PROVE ReductionInv'
<1>1. /\ input \in Inputs /\ input' = input /\ phase = "zeros" /\ count # 0
      /\ at' = at /\ pack' = pack /\ reading' = reading
      /\ remaining' = remaining /\ output' = output /\ evaluated' = evaluated
      /\ phase' = phase /\ Doubled /\ count' = count \div 2
  BY DEF ReductionInv, TypeOK, AccumulateZeros
<1>2. /\ Len(input.groups) \in Nat /\ None \notin Bags
      /\ input.kind \in {"axis", "terminal", "all", "any"}
  BY <1>1, InputFacts
<1>3. Reduces
  BY <1>1, <1>2 DEF ReductionInv, Testing, Reduces
<1>4. ResultsSoFar' /\ Testing' /\ PacksFit'
  BY <1>1, <1>3, ResultsKept, TestingKept DEF ReductionInv, PacksFit
<1>5. InStep'
  BY <1>1 DEF ReductionInv, InStep, Reduces
<1>6. /\ partial \in Bags \union {None} /\ double \in Bags /\ count \in Nat
      /\ partial = None => count # 0
      /\ \A v \in Values : Amount(partial, v) + count * double[v] = Bag(Source(at))[v]
  BY <1>1 DEF ReductionInv, TypeOK, Doubling, Bags
<1> PICK h \in Nat, r \in {0, 1} : count = 2 * h + r /\ h = count \div 2 /\ r = count % 2
  BY <1>6, Halves
<1>7. count' = h
  BY <1>1
<1>8. /\ partial' \in Bags \union {None}
      /\ r = 1 => partial' # None
      /\ r = 0 => partial' = partial
      /\ \A v \in Values : Amount(partial', v) = IF r = 1 THEN Amount(partial, v) + double[v]
                                                          ELSE Amount(partial, v)
  <2>1. CASE r = 1
    <3>1. partial' = Merged(partial, double)
      BY <1>1, <2>1 DEF Doubled
    <3> QED BY <1>2, <1>6, <2>1, <3>1, MergedAmount
  <2>2. CASE r = 0
    <3>1. partial' = partial
      BY <1>1, <2>2 DEF Doubled
    <3> QED BY <1>6, <2>2, <3>1
  <2> QED BY <2>1, <2>2
<1>9. /\ double' \in Bags
      /\ \A v \in Values : double'[v] = IF h = 0 THEN double[v] ELSE double[v] + double[v]
  <2>1. double' = IF h = 0 THEN double ELSE Combine(double, double)
    BY <1>1 DEF Doubled
  <2>2. \A v \in Values : double[v] \in Nat
    BY <1>6 DEF Bags
  <2>3. /\ Combine(double, double) = [v \in Values |-> double[v] + double[v]]
        /\ Combine(double, double) \in Bags
    BY <2>2 DEF Combine, Bags
  <2> QED BY <1>6, <2>1, <2>3
<1>10. TypeOK'
  BY <1>1, <1>7, <1>8, <1>9 DEF ReductionInv, TypeOK, Bags
<1>11. ASSUME NEW v \in Values
       PROVE  Amount(partial', v) + count' * double'[v] = Amount(partial, v) + count * double[v]
  <2> PICK a \in Nat, d \in Nat : a = Amount(partial, v) /\ d = double[v]
    <3>1. Amount(partial, v) \in Nat /\ double[v] \in Nat
      BY <1>6 DEF Amount, Bags
    <3> QED BY <3>1
  <2>1. Amount(partial', v) = IF r = 1 THEN a + d ELSE a
    BY <1>8
  <2>2. count' * double'[v] = h * (d + d)
    <3>1. CASE h = 0
      <4>1. double'[v] = d
        BY <1>9, <3>1
      <4>2. 0 * d = 0 /\ 0 * (d + d) = 0
        OBVIOUS
      <4> QED BY <1>7, <3>1, <4>1, <4>2
    <3>2. CASE h # 0
      <4>1. double'[v] = d + d
        BY <1>9, <3>2
      <4> QED BY <1>7, <4>1
    <3> QED BY <3>1, <3>2
  <2>3. count * double[v] = (2 * h + r) * d
    OBVIOUS
  <2> PICK x \in Nat : x = h * (d + d)
    BY TwiceAsMuch
  <2>4. (2 * h + r) * d = IF r = 1 THEN x + d ELSE x
    BY ONLY r \in {0, 1}, h \in Nat, d \in Nat, x = h * (d + d), TwiceAsMuch
  <2>5. Amount(partial', v) + x = a + (2 * h + r) * d
    BY ONLY <2>1, <2>4, r \in {0, 1}, a \in Nat, d \in Nat, x \in Nat
  <2> QED BY <2>2, <2>3, <2>5
<1>12. partial' = None => count' # 0
  <2> SUFFICES ASSUME partial' = None PROVE h # 0
    BY <1>7
  <2>1. r = 0
    BY <1>8
  <2> QED BY <1>1, <2>1
<1>13. Doubling'
  <2>1. \A v \in Values : Bag(Source(at))'[v] = Bag(Source(at))[v]
    BY <1>1 DEF Source
  <2>2. \A v \in Values : Amount(partial', v) + count' * double'[v] = Bag(Source(at))'[v]
    BY <1>6, <1>11, <2>1
  <2> QED BY <1>2, <1>9, <1>12, <2>2 DEF Doubling
<1> QED BY <1>1, <1>4, <1>5, <1>10, <1>13 DEF ReductionInv, Streaming, FailsOnce

(* A group is complete.                                                     *)
LEMMA KeepFinishGroup == ASSUME ReductionInv, FinishGroup PROVE ReductionInv'
<1>1. /\ input \in Inputs /\ input' = input /\ phase = "zeros" /\ count = 0
      /\ at' = at /\ pack' = pack /\ group' = group /\ evaluated' = evaluated
      /\ output' = Append(output, partial) /\ phase' = "next"
  BY DEF ReductionInv, TypeOK, FinishGroup
<1>2. /\ Len(input.groups) \in Nat /\ input.size \in Nat \ {0} /\ None \notin Bags
      /\ input.kind \in {"axis", "terminal", "all", "any"}
      /\ \A k \in 1..Len(input.groups) : Source(k) \in [1..input.size -> Values]
  BY <1>1, InputFacts
<1>3. Reduces
  BY <1>1, <1>2 DEF ReductionInv, Testing, Reduces
<1>4. Testing' /\ PacksFit'
  BY <1>1, <1>3, TestingKept DEF ReductionInv, PacksFit
<1>5. /\ output \in Seq(Bags) /\ Len(output) \in Nat /\ at = Len(output) + 1 /\ pack = <<>>
      /\ at \in 1..Len(input.groups)
  <2>1. output \in Seq(Bags) /\ at \in 0..Len(input.groups)
    BY DEF ReductionInv, TypeOK, Bags
  <2>2. at = Len(output) + 1 /\ pack = <<>>
    BY <1>1, <1>3 DEF ReductionInv, InStep
  <2>3. Len(output) \in Nat
    BY <2>1
  <2> QED BY <1>2, <2>1, <2>2, <2>3
<1>6. /\ partial \in Bags /\ double \in Bags
      /\ \A v \in Values : Amount(partial, v) + 0 * double[v] = Bag(Source(at))[v]
  BY <1>1 DEF ReductionInv, TypeOK, Doubling, Bags
<1>7. partial = Bag(Source(at))
  <2>1. Bag(Source(at)) \in Bags
    <3> PICK n \in Nat : n = input.size
      BY <1>2
    <3> PICK f \in [1..n -> Values] : f = Source(at)
      BY <1>2, <1>5
    <3>1. IsFiniteSet(1..n)
      BY PartsFinite
    <3>2. Bag(f) \in Bags
      BY <3>1, BagFacts
    <3> QED BY <3>2
  <2>2. ASSUME NEW v \in Values PROVE partial[v] = Bag(Source(at))[v]
    <3>1. partial[v] \in Nat /\ double[v] \in Nat /\ Amount(partial, v) = partial[v]
      BY <1>2, <1>6 DEF Amount, Bags
    <3>2. 0 * double[v] = 0
      BY <3>1
    <3> QED BY <1>6, <3>1, <3>2
  <2> PICK b \in Bags : b = Bag(Source(at))
    BY <2>1
  <2> QED BY <1>6, <2>2 DEF Bags
<1>8. /\ output' \in Seq(Bags) /\ Len(output') = at
      /\ \A k \in 1..Len(output) : output'[k] = output[k]
      /\ output'[at] = partial
  BY <1>1, <1>5, <1>6
<1>9. TypeOK'
  BY <1>1, <1>8 DEF ReductionInv, TypeOK, Bags, group
<1>10. ResultsSoFar'
  <2>1. ASSUME NEW k \in 1..Len(output') PROVE output'[k] = Bag(Source(k))
    <3>1. k \in 1..Len(output) \/ k = at
      BY <1>5, <1>8
    <3> QED BY <1>7, <1>8, <3>1 DEF ReductionInv, ResultsSoFar
  <2>2. Len(output') <= Len(input.groups)
    BY <1>2, <1>5, <1>8
  <2> QED BY <1>1, <2>1, <2>2 DEF ResultsSoFar, Source
<1>11. InStep'
  BY <1>1, <1>5, <1>8 DEF InStep
<1> QED BY <1>1, <1>4, <1>9, <1>10, <1>11 DEF ReductionInv, Streaming, Doubling, FailsOnce

(* The request is complete.                                                 *)
LEMMA KeepFinish == ASSUME ReductionInv, Finish PROVE ReductionInv'
<1>1. /\ input \in Inputs /\ input' = input /\ phase = "next" /\ phase' = "done"
      /\ at = Len(input.groups) /\ at' = at /\ pack' = pack /\ group' = group
      /\ output' = output /\ evaluated' = evaluated /\ Reduces
  BY DEF ReductionInv, TypeOK, Finish, Reduces
<1>2. ResultsSoFar' /\ Testing' /\ PacksFit'
  BY <1>1, ResultsKept, TestingKept DEF ReductionInv, PacksFit
<1>3. TypeOK'
  BY <1>1 DEF ReductionInv, TypeOK, group
<1>4. InStep'
  BY <1>1 DEF ReductionInv, InStep
<1> QED BY <1>1, <1>2, <1>3, <1>4 DEF ReductionInv, Streaming, Doubling, FailsOnce

(* The batch that holds a position, by division.                            *)
LEMMA BatchOf ==
  ASSUME NEW m \in Nat \ {0}, NEW p \in Nat \ {0}, NEW k \in Nat
  PROVE  (p - 1) \div m = k <=> k * m < p /\ p <= (k + 1) * m
<1> PICK q \in Nat : q = (p - 1) \div m
  OBVIOUS
<1> PICK r \in Nat : r = (p - 1) % m
  OBVIOUS
<1>1. p - 1 = m * q + r /\ r < m
  OBVIOUS
<1>2. q < k => m * q + m <= m * k
  <2> SUFFICES ASSUME q < k PROVE m * q + m <= m * k
    OBVIOUS
  <2> PICK e \in Nat : k = q + 1 + e
    <3>1. k - (q + 1) \in Nat /\ k = q + 1 + (k - (q + 1))
      OBVIOUS
    <3> QED BY <3>1
  <2>1. m * k = m * q + m + m * e /\ m * e \in Nat
    OBVIOUS
  <2>2. m * q \in Nat
    OBVIOUS
  <2> QED BY <2>1, <2>2
<1>3. k < q => m * k + m <= m * q
  <2> SUFFICES ASSUME k < q PROVE m * k + m <= m * q
    OBVIOUS
  <2> PICK e \in Nat : q = k + 1 + e
    <3>1. q - (k + 1) \in Nat /\ q = k + 1 + (q - (k + 1))
      OBVIOUS
    <3> QED BY <3>1
  <2>1. m * q = m * k + m + m * e /\ m * e \in Nat
    BY ONLY q = k + 1 + e, m \in Nat \ {0}, k \in Nat, e \in Nat
  <2>2. m * k \in Nat
    OBVIOUS
  <2> QED BY ONLY <2>1, <2>2, m \in Nat \ {0}
<1>4. k * m = m * k /\ (k + 1) * m = m * k + m /\ m * k \in Nat /\ m * q \in Nat
  OBVIOUS
<1> PICK x \in Nat, y \in Nat : x = m * k /\ y = m * q
  BY <1>4
<1>5. p = y + r + 1
  BY ONLY <1>1, y = m * q, y \in Nat, r \in Nat, p \in Nat \ {0}
<1>6. q = k <=> x < p /\ p <= x + m
  <2>1. q < k => y + m <= x
    BY <1>2
  <2>2. k < q => x + m <= y
    BY <1>3
  <2>3. q = k => y = x
    OBVIOUS
  <2> QED BY ONLY <1>1, <1>5, <2>1, <2>2, <2>3, q \in Nat, k \in Nat, x \in Nat, y \in Nat,
                   r \in Nat, m \in Nat \ {0}
<1> QED BY <1>4, <1>6

(* all or any looks at one more batch.                                      *)
LEMMA KeepTestBatch == ASSUME ReductionInv, TestBatch PROVE ReductionInv'
<1>1. /\ input \in Inputs /\ input' = input /\ phase = "next" /\ ~Reduces
      /\ MoreBatches /\ at' = at /\ pack' = pack /\ partial' = partial
      /\ remaining' = remaining /\ double' = double /\ count' = count /\ output' = output
      /\ evaluated' = evaluated + 1 /\ reading' = reading + 1
      /\ phase' = IF Fails THEN "failed"
                  ELSE IF \E p \in Linear(reading + 1) : Decides(Source(1)[p]) THEN "decided"
                  ELSE phase
  BY DEF ReductionInv, TypeOK, TestBatch, Reduces
<1>2. /\ input.size \in Nat \ {0} /\ MaxBatch \in Nat \ {0} /\ input.fails \in Nat
  BY <1>1, InputFacts
<1>3. /\ at = 0 /\ output = <<>> /\ pack = <<>> /\ evaluated = reading /\ reading \in Nat
      /\ input.fails \notin 1..evaluated /\ \A p \in Deciding : reading * MaxBatch < p
  BY <1>1 DEF ReductionInv, TypeOK, Testing
<1>4. Deciding' = Deciding /\ ~Reduces'
  BY <1>1 DEF Deciding, Decides, Source, Reduces
<1>5. ResultsSoFar'
  BY <1>1, ResultsKept DEF ReductionInv
<1>6. phase' \in {"next", "decided", "failed"}
  BY <1>1
<1>7. TypeOK'
  BY <1>1, <1>6 DEF ReductionInv, TypeOK
<1>8. FailsOnce'
  BY <1>1 DEF FailsOnce, Fails
<1>9. ~Fails => input.fails \notin 1..evaluated'
  BY <1>1, <1>2, <1>3 DEF Fails
<1>10. \A p \in Linear(reading + 1) :
          reading * MaxBatch < p /\ p <= (reading + 1) * MaxBatch
  <2> SUFFICES ASSUME NEW p \in Linear(reading + 1)
               PROVE  reading * MaxBatch < p /\ p <= (reading + 1) * MaxBatch
    OBVIOUS
  <2>1. p \in Nat \ {0} /\ (p - 1) \div MaxBatch = reading
    BY <1>2, <1>3 DEF Linear
  <2> QED BY <1>2, <1>3, <2>1, BatchOf
<1>11. \A p \in Deciding : p <= (reading + 1) * MaxBatch => p \in Linear(reading + 1)
  <2> SUFFICES ASSUME NEW p \in Deciding, p <= (reading + 1) * MaxBatch
               PROVE  p \in Linear(reading + 1)
    OBVIOUS
  <2>1. p \in 1..input.size /\ p \in Nat \ {0} /\ reading * MaxBatch < p
    BY <1>2, <1>3 DEF Deciding
  <2>2. (p - 1) \div MaxBatch = reading
    BY <1>2, <1>3, <2>1, BatchOf
  <2> QED BY <1>3, <2>1, <2>2 DEF Linear
<1>12. Testing'
  <2>1. phase' = "next" => \A p \in Deciding : reading' * MaxBatch < p
    <3> SUFFICES ASSUME phase' = "next", NEW p \in Deciding, ~(reading' * MaxBatch < p)
                 PROVE  FALSE
      OBVIOUS
    <3>1. p \in Nat /\ Decides(Source(1)[p])
      BY <1>2 DEF Deciding
    <3>2. (reading + 1) * MaxBatch \in Nat
      BY <1>2, <1>3
    <3>3. p <= (reading + 1) * MaxBatch
      BY <1>1, <3>1, <3>2
    <3> QED BY <1>1, <1>11, <3>1, <3>3
  <2>2. phase' = "decided" => \E p \in Deciding : p <= reading' * MaxBatch
    <3> SUFFICES ASSUME phase' = "decided"
                 PROVE  \E p \in Deciding : p <= (reading + 1) * MaxBatch
      BY <1>1
    <3>1. PICK p \in Linear(reading + 1) : Decides(Source(1)[p])
      BY <1>1
    <3>2. p \in Deciding
      BY <3>1 DEF Linear, Deciding
    <3> QED BY <1>10, <3>2
  <2>3. reading' > 0 /\ reading' - 1 = reading
    BY <1>1, <1>3
  <2>4. phase' # "failed" => input'.fails \notin 1..evaluated'
    BY <1>1, <1>9
  <2> QED BY <1>1, <1>3, <1>4, <1>6, <2>1, <2>2, <2>3, <2>4 DEF Testing
<1>13. PacksFit'
  BY <1>1 DEF ReductionInv, PacksFit
<1> QED BY <1>1, <1>4, <1>5, <1>6, <1>7, <1>8, <1>12, <1>13
        DEF ReductionInv, InStep, Streaming, Doubling

(* No batch has decided.                                                    *)
LEMMA KeepUndecided == ASSUME ReductionInv, Undecided PROVE ReductionInv'
<1>1. /\ input \in Inputs /\ input' = input /\ phase = "next" /\ ~Reduces
      /\ ~MoreBatches /\ phase' = "done" /\ at' = at /\ pack' = pack /\ group' = group
      /\ output' = output /\ evaluated' = evaluated
  BY DEF ReductionInv, TypeOK, Undecided, Reduces
<1>2. /\ input.size \in Nat \ {0} /\ MaxBatch \in Nat \ {0}
  BY <1>1, InputFacts
<1>3. ResultsSoFar' /\ PacksFit'
  BY <1>1, ResultsKept DEF ReductionInv, PacksFit
<1>4. TypeOK'
  BY <1>1 DEF ReductionInv, TypeOK, group
<1>5. Deciding' = Deciding /\ ~Reduces'
  BY <1>1 DEF Deciding, Decides, Source, Reduces
<1>6. input.size <= reading * MaxBatch
  <2>1. reading \in Nat
    BY DEF ReductionInv, TypeOK
  <2>2. reading * MaxBatch \in Nat
    BY <1>2, <2>1
  <2> QED BY <1>1, <1>2, <2>2 DEF MoreBatches
<1>7. Testing'
  BY <1>1, <1>5, <1>6 DEF ReductionInv, Testing, group
<1> QED BY <1>1, <1>3, <1>4, <1>5, <1>7
        DEF ReductionInv, InStep, Streaming, Doubling, FailsOnce

(* Every step keeps the invariant.                                          *)
LEMMA ReductionNext == ReductionInv /\ [Next]_vars => ReductionInv'
<1> SUFFICES ASSUME ReductionInv, [Next]_vars PROVE ReductionInv'
  OBVIOUS
<1>1. CASE TakeGroup
  BY <1>1, KeepTakeGroup
<1>2. CASE PackGroup
  BY <1>2, KeepPackGroup
<1>3. CASE ReadPack
  BY <1>3, KeepReadPack
<1>4. CASE AccumulateBatch
  BY <1>4, KeepAccumulateBatch
<1>5. CASE StartZeros
  BY <1>5, KeepStartZeros
<1>6. CASE AccumulateZeros
  BY <1>6, KeepAccumulateZeros
<1>7. CASE FinishGroup
  BY <1>7, KeepFinishGroup
<1>8. CASE Finish
  BY <1>8, KeepFinish
<1>9. CASE TestBatch
  BY <1>9, KeepTestBatch
<1>10. CASE Undecided
  BY <1>10, KeepUndecided
<1>11. CASE UNCHANGED vars
  BY <1>11 DEF vars, ReductionInv, TypeOK, ResultsSoFar, InStep, Streaming, Doubling, PacksFit,
               FailsOnce, Testing, Reduces, Source, Selected, Deciding, Decides
<1> QED BY <1>1, <1>2, <1>3, <1>4, <1>5, <1>6, <1>7, <1>8, <1>9, <1>10, <1>11 DEF Next

(* The invariant holds in every state of a reduction.                       *)
LEMMA ReductionInvariant == Spec => []ReductionInv
<1>1. Init => ReductionInv
  BY ReductionInit
<1>2. ReductionInv /\ [Next]_vars => ReductionInv'
  BY ReductionNext
<1> QED BY <1>1, <1>2, PTL DEF Spec

--------------------------------------------------------------------------------
(* The variables hold what they should.                                     *)
THEOREM ReductionTypes == Spec => []TypeOK
<1>1. ReductionInv => TypeOK
  BY DEF ReductionInv
<1> QED BY <1>1, ReductionInvariant, PTL

(* Whatever the groups, the source, its candidates and the size of a batch, *)
(* every result of build, accumulate and terminal has taken in each         *)
(* position of its group once, implicit zeros included, results are in the  *)
(* order of the request, and a reduction fails only if a batch does.        *)
THEOREM Reduced == Spec => []ResultsAreExact
<1>1. ReductionInv => ResultsAreExact
  <2> SUFFICES ASSUME ReductionInv PROVE ResultsAreExact
    OBVIOUS
  <2>1. DOMAIN output = 1..Len(output)
    BY DEF ReductionInv, TypeOK
  <2>2. \A k \in DOMAIN output : output[k] = Bag(Source(k))
    BY <2>1 DEF ReductionInv, ResultsSoFar
  <2>3. phase = "done" /\ Reduces => Len(output) = Len(input.groups)
    BY DEF ReductionInv, InStep
  <2> QED BY <2>2, <2>3 DEF ReductionInv, PacksFit, FailsOnce, Reduces, ResultsAreExact
<1> QED BY <1>1, ReductionInvariant, PTL

(* Whatever the tensor and the size of a batch, all and any answer from the *)
(* first batch that decides, report an error that comes before it, and      *)
(* answer otherwise only when every value was looked at.                    *)
THEOREM BooleansStop == Spec => []BooleansStopAtFirst
<1>1. ReductionInv => BooleansStopAtFirst
  <2> SUFFICES ASSUME ReductionInv, input.kind \in {"all", "any"} PROVE BooleansStopAtFirst
    BY DEF BooleansStopAtFirst
  <2>1. Testing /\ ~Reduces /\ reading \in Nat
    BY DEF ReductionInv, TypeOK, Reduces
  <2>2. input.size \in Nat \ {0} /\ MaxBatch \in Nat \ {0}
    BY InputFacts DEF ReductionInv, TypeOK
  <2> DEFINE Deciders == {p \in 1..input.size : Decides(Source(1)[p])}
             Seen == {p \in 1..input.size : p <= reading * MaxBatch}
             Earlier == {p \in 1..input.size : p <= (reading - 1) * MaxBatch}
  <2>3. Deciders = Deciding /\ \A p \in Deciding : p \in 1..input.size
    BY DEF Deciding
  <2>4. phase = "decided" => Deciders \intersect Seen # {} /\ input.fails \notin 1..evaluated
    <3> SUFFICES ASSUME phase = "decided"
                 PROVE  Deciders \intersect Seen # {} /\ input.fails \notin 1..evaluated
      OBVIOUS
    <3>1. PICK p \in Deciding : p <= reading * MaxBatch
      BY <2>1 DEF Testing
    <3>2. p \in Deciders \intersect Seen
      BY <2>3, <3>1
    <3> QED BY <2>1, <3>2 DEF Testing
  <2>5. phase = "done" => Deciders = {} /\ input.fails \notin 1..evaluated
    <3> SUFFICES ASSUME phase = "done" PROVE Deciders = {} /\ input.fails \notin 1..evaluated
      OBVIOUS
    <3>1. /\ input.size <= reading * MaxBatch /\ \A p \in Deciding : reading * MaxBatch < p
          /\ input.fails \notin 1..evaluated
      BY <2>1 DEF Testing
    <3> PICK x \in Nat : x = reading * MaxBatch
      BY <2>1, <2>2
    <3>2. \A p \in Deciders : FALSE
      BY <2>2, <2>3, <3>1
    <3> QED BY <3>1, <3>2
  <2>6. phase \in {"decided", "failed"} => Deciders \intersect Earlier = {}
    <3> SUFFICES ASSUME phase \in {"decided", "failed"}, NEW p \in Deciders, p \in Earlier
                 PROVE  FALSE
      OBVIOUS
    <3>1. reading > 0 /\ (reading - 1) * MaxBatch < p
      BY <2>1, <2>3 DEF Testing
    <3> PICK x \in Nat : x = (reading - 1) * MaxBatch
      BY <2>1, <2>2, <3>1
    <3> QED BY <2>2, <3>1
  <2> QED BY <2>4, <2>5, <2>6 DEF BooleansStopAtFirst
<1> QED BY <1>1, ReductionInvariant, PTL
================================================================================
