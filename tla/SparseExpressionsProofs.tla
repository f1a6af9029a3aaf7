------------------------ MODULE SparseExpressionsProofs ------------------------
(****************************************************************************)
(* The walk over an expression, the union of its candidates, the selection  *)
(* that is taken as it is stored, and the sparse elements read, for every   *)
(* acyclic expression, every number of operands, every stream, and all      *)
(* values and kernels.                                                      *)
(*                                                                          *)
(* UnionInv says that every place of every stream is either delivered or    *)
(* left in the stream, and that what is left of any stream comes after what *)
(* is delivered.  WalkInv adds that the leaves in operand order are those   *)
(* seen, those of the node looked at and those of the pending operands.     *)
(* StreamInv adds that the nodes constructed have operands that were not    *)
(* refused, and that the elements are those of the requests read.  By       *)
(* induction over the operands, a node whose element at a place is not its  *)
(* implicit zero has a leaf that names the place.                           *)
(****************************************************************************)
EXTENDS SparseExpressions, Integers, SequenceTheorems, WellFoundedInduction, TLAPS

--------------------------------------------------------------------------------
(* The places that a stream has yet to deliver: at its head, in its current *)
(* request and in its rest.                                                 *)
Left(h, c, r) == ToSet(h) \union ToSet(c) \union Named(r)

(* They ascend, and there are none when the stream is over.                 *)
InOrder(h, c, r, o) ==
  /\ h \in Seq(Nat) /\ Len(h) <= 1 /\ c \in Seq(Nat) /\ r \in Seq(Item) /\ o \in BOOLEAN
  /\ Bounded(r) /\ Ascending(r) /\ Rises(c)
  /\ \A p \in ToSet(h), q \in ToSet(c) \union Named(r) : p < q
  /\ \A p \in ToSet(c), q \in Named(r) : p < q
  /\ o => h = <<>> /\ c = <<>> /\ r = <<>>

(* Every place of the stream s is delivered or left, what is left comes     *)
(* after what is delivered, and so does an error.                           *)
Accounted(s, delivered, h, c, r) ==
  /\ Left(h, c, r) \subseteq Named(s)
  /\ Named(s) \subseteq delivered \union Left(h, c, r)
  /\ \A d \in delivered, p \in Left(h, c, r) : d < p
  /\ Error \in ToSet(s) => Error \in ToSet(r)

(* What the variables hold.                                                 *)
Known ==
  /\ input \in Inputs
  /\ step \in DOMAIN input.operands
  /\ pending \in Seq(DOMAIN input.operands)
  /\ found \in Seq({n \in DOMAIN input.operands : IsLeaf(n)})
  /\ emitted \in Seq(Seq(Nat)) /\ output \in Seq(Nat)

(* Nothing is delivered before the walk has ended, and a walk that begins   *)
(* at an operation finds two leaves.                                        *)
Walking ==
  /\ phase \in {"build", "refused", "select", "walk", "chosen"} => emitted = <<>> /\ output = <<>>
  /\ phase \in {"build", "select"} => pending = <<>> /\ found = <<>>
  /\ phase = "select" => input.select
  /\ phase = "build" => step = input.root
  /\ phase = "walk" /\ input.select =>
       \/ Len(found) + Len(pending) >= 1
       \/ ~IsLeaf(step) /\ Len(input.operands[step]) >= 2

(* The streams of the leaves are merged, or the only one is handed on.      *)
Merging ==
  /\ ~Native
  /\ DOMAIN rest = DOMAIN found /\ DOMAIN coords = DOMAIN found
  /\ DOMAIN head = DOMAIN found /\ DOMAIN over = DOMAIN found
  /\ \A k \in DOMAIN found :
       /\ InOrder(head[k], coords[k], rest[k], over[k])
       /\ Accounted(input.streams[found[k]], ToSet(Delivered), head[k], coords[k], rest[k])
  /\ Rises(Delivered)
  /\ \A d \in ToSet(Delivered) : \E k \in DOMAIN found : d \in Named(input.streams[found[k]])
  /\ Len(output) <= MaxBatch
  /\ phase = "single" => Len(found) = 1 /\ coords[1] = <<>> /\ head[1] = <<>> /\ output = <<>>
  /\ phase = "ended" => \A k \in DOMAIN found : Left(head[k], coords[k], rest[k]) = {} /\ rest[k] = <<>>

(* The selection of one leaf is handed on as it is stored.                  *)
Selecting ==
  /\ Native /\ output = <<>> /\ phase # "merge" /\ DOMAIN rest = {1}
  /\ rest[1] \in Seq(Item) /\ Bounded(rest[1]) /\ Distinct(rest[1])
  /\ IsInjective(Delivered) /\ ToSet(Delivered) \intersect Named(rest[1]) = {}
  /\ Named(input.native[found[1]]) = ToSet(Delivered) \union Named(rest[1])
  /\ Error \in ToSet(input.native[found[1]]) => Error \in ToSet(rest[1])
  /\ phase = "ended" => rest[1] = <<>>

(* No request is empty or too large.                                        *)
RequestsFit == \A k \in DOMAIN emitted : Len(emitted[k]) \in 1..MaxBatch

(* What is delivered is of the one kind or the other.                       *)
Uniting ==
  phase \in {"merge", "single", "ended"} \/ emitted # <<>> \/ output # <<>> =>
    Merging \/ Selecting

(* The parts together.                                                      *)
UnionInv == Known /\ Walking /\ RequestsFit /\ Uniting

--------------------------------------------------------------------------------
(* The numbers are ordered.                                                 *)
LEMMA Ordered == \A a, b \in Nat : ~(b < a) => a <= b
OBVIOUS

(* A non-empty set of numbers has a least one.                              *)
LEMMA LeastNumber ==
  ASSUME NEW S \in SUBSET Nat, S # {}
  PROVE  \E x \in S : \A y \in S : x <= y
<1> DEFINE R == OpToRel(<, Nat)
<1>1. IsWellFoundedOn(R, Nat)
  BY NatLessThanWellFounded
<1>2. \E x \in S : \A y \in S : ~(<<y, x>> \in R)
  <2> HIDE DEF R
  <2> QED BY <1>1, WFMin
<1>3. \A x, y \in S : ~(<<y, x>> \in R) => x <= y
  <2> SUFFICES ASSUME NEW x \in S, NEW y \in S, ~(<<y, x>> \in R) PROVE x <= y
    OBVIOUS
  <2>1. x \in Nat /\ y \in Nat /\ <<y, x>> \in Nat \X Nat
    OBVIOUS
  <2>2. ~(y < x)
    BY <2>1 DEF OpToRel
  <2> QED BY <2>1, <2>2, Ordered
<1> QED BY <1>2, <1>3

(* A set that has 0, and with k also k + 1 up to n, has them all.           *)
LEMMA UpToAll ==
  ASSUME NEW n \in Nat, NEW S, 0 \in S,
         \A k \in 0..n : k < n /\ k \in S => k + 1 \in S
  PROVE  \A k \in 0..n : k \in S
<1> DEFINE Out == {k \in 0..n : k \notin S}
<1> SUFFICES ASSUME Out # {} PROVE FALSE
  OBVIOUS
<1>1. Out \in SUBSET Nat
  OBVIOUS
<1>2. PICK k \in Out : \A j \in Out : k <= j
  BY <1>1, LeastNumber
<1>3. k \in 0..n /\ k \notin S /\ k # 0
  BY <1>2
<1>4. k - 1 \in 0..n /\ ~(k <= k - 1) /\ k - 1 < n /\ (k - 1) + 1 = k
  BY <1>3
<1>5. k - 1 \in S
  BY <1>2, <1>4
<1> QED BY <1>3, <1>4, <1>5

(* A value is defined for every number up to n by a base and a step.        *)
Steps(f, n, base, G) ==
  /\ f[0] = base
  /\ \A k \in 1..n : f[k] = G[<<f[k - 1], k>>]

(* Such values exist for every base and every step of one type.             *)
LEMMA Recursion ==
  ASSUME NEW n \in Nat, NEW A, NEW base \in A, NEW G \in [A \X (1..n) -> A]
  PROVE  \E f \in [0..n -> A] : Steps(f, n, base, G)
<1> DEFINE S == {m \in 0..n : \E f \in [0..m -> A] : Steps(f, m, base, G)}
<1>1. 0 \in S
  <2> DEFINE f == [k \in 0..0 |-> base]
  <2>1. f \in [0..0 -> A] /\ f[0] = base
    OBVIOUS
  <2>2. Steps(f, 0, base, G)
    BY <2>1 DEF Steps
  <2> QED BY <2>1, <2>2
<1>2. \A m \in 0..n : m < n /\ m \in S => m + 1 \in S
  <2> SUFFICES ASSUME NEW m \in 0..n, m < n, m \in S PROVE m + 1 \in S
    OBVIOUS
  <2>1. PICK f \in [0..m -> A] : Steps(f, m, base, G)
    OBVIOUS
  <2> DEFINE h == [k \in 0..(m + 1) |-> IF k <= m THEN f[k] ELSE G[<<f[m], m + 1>>]]
  <2>2. m + 1 \in 1..n /\ f[m] \in A
    OBVIOUS
  <2>3. G[<<f[m], m + 1>>] \in A
    BY <2>2
  <2>4. h \in [0..(m + 1) -> A]
    BY <2>3
  <2>5. /\ \A k \in 0..m : h[k] = f[k]
        /\ h[m + 1] = G[<<f[m], m + 1>>]
    OBVIOUS
  <2> HIDE DEF h
  <2>6. h[0] = base
    BY <2>1, <2>5 DEF Steps
  <2>7. \A k \in 1..(m + 1) : h[k] = G[<<h[k - 1], k>>]
    <3> SUFFICES ASSUME NEW k \in 1..(m + 1) PROVE h[k] = G[<<h[k - 1], k>>]
      OBVIOUS
    <3>1. k - 1 \in 0..m /\ h[k - 1] = f[k - 1]
      BY <2>5
    <3>2. CASE k <= m
      BY <2>1, <2>5, <3>1, <3>2 DEF Steps
    <3>3. CASE k = m + 1
      <4>1. k - 1 = m
        BY <3>3
      <4> QED BY <2>5, <3>1, <3>3, <4>1
    <3> QED BY <3>2, <3>3
  <2>8. Steps(h, m + 1, base, G)
    BY <2>6, <2>7 DEF Steps
  <2> QED BY <2>2, <2>4, <2>8
<1>3. n \in S
  <2>1. n \in 0..n
    OBVIOUS
  <2> HIDE DEF S
  <2> QED BY <1>1, <1>2, <2>1, UpToAll
<1> QED BY <1>3

--------------------------------------------------------------------------------
(* The elements of two sequences, and of the first and the others.          *)
LEMMA SetOfConcat ==
  ASSUME NEW S, NEW s \in Seq(S), NEW t \in Seq(S)
  PROVE  s \o t \in Seq(S) /\ ToSet(s \o t) = ToSet(s) \union ToSet(t)
<1>1. /\ s \o t \in Seq(S) /\ Len(s \o t) = Len(s) + Len(t)
      /\ \A i \in 1..Len(s) : (s \o t)[i] = s[i]
      /\ \A i \in 1..Len(t) : (s \o t)[Len(s) + i] = t[i]
      /\ Len(s) \in Nat /\ Len(t) \in Nat
  OBVIOUS
<1>2. DOMAIN s = 1..Len(s) /\ DOMAIN t = 1..Len(t) /\ DOMAIN (s \o t) = 1..(Len(s) + Len(t))
  OBVIOUS
<1>3. ASSUME NEW x \in ToSet(s \o t) PROVE x \in ToSet(s) \union ToSet(t)
  <2>1. PICK i \in 1..(Len(s) + Len(t)) : x = (s \o t)[i]
    BY <1>2 DEF ToSet
  <2>2. CASE i <= Len(s)
    <3>1. i \in 1..Len(s)
      BY <1>1, <2>2
    <3> QED BY <1>1, <1>2, <2>1, <3>1 DEF ToSet
  <2>3. CASE ~(i <= Len(s))
    <3>1. i - Len(s) \in 1..Len(t) /\ Len(s) + (i - Len(s)) = i
      BY <1>1, <2>3
    <3> QED BY <1>1, <1>2, <2>1, <3>1 DEF ToSet
  <2> QED BY <2>2, <2>3
<1>4. ASSUME NEW i \in 1..Len(s) PROVE s[i] \in ToSet(s \o t)
  <2>1. i \in 1..(Len(s) + Len(t))
    BY <1>1
  <2> QED BY <1>1, <1>2, <2>1 DEF ToSet
<1>5. ASSUME NEW i \in 1..Len(t) PROVE t[i] \in ToSet(s \o t)
  <2>1. Len(s) + i \in 1..(Len(s) + Len(t))
    BY <1>1
  <2> QED BY <1>1, <1>2, <2>1 DEF ToSet
<1>6. ToSet(s) \subseteq ToSet(s \o t) /\ ToSet(t) \subseteq ToSet(s \o t)
  BY <1>2, <1>4, <1>5 DEF ToSet
<1> QED BY <1>1, <1>3, <1>6

(* The same for a sequence of one.                                          *)
LEMMA SetOfAppend ==
  ASSUME NEW S, NEW s \in Seq(S), NEW x \in S
  PROVE  Append(s, x) \in Seq(S) /\ ToSet(Append(s, x)) = ToSet(s) \union {x}
<1> DEFINE t == <<x>>
<1>1. t \in Seq(S) /\ Append(s, x) = s \o t /\ ToSet(t) = {x}
  <2>1. DOMAIN t = {1} /\ t[1] = x
    OBVIOUS
  <2> QED BY <2>1 DEF ToSet
<1> HIDE DEF t
<1>2. s \o t \in Seq(S) /\ ToSet(s \o t) = ToSet(s) \union ToSet(t)
  BY <1>1, SetOfConcat
<1> QED BY <1>1, <1>2

(* An element put at the end of the second of two sequences.                *)
LEMMA AppendLast ==
  ASSUME NEW s \in Seq(Nat), NEW t \in Seq(Nat), NEW x \in Nat
  PROVE  s \o Append(t, x) = (s \o t) \o <<x>>
<1>1. <<x>> \in Seq(Nat)
  OBVIOUS
<1>2. Append(t, x) = t \o <<x>>
  BY AppendIsConcat
<1>3. s \o (t \o <<x>>) = (s \o t) \o <<x>>
  BY <1>1, ConcatAssociative
<1> QED BY <1>2, <1>3

(* A sequence of length one.                                                *)
LEMMA Single ==
  ASSUME NEW S, NEW s \in Seq(S), Len(s) = 1
  PROVE  s[1] \in S /\ s = <<s[1]>>
<1> PICK x \in S : x = s[1]
  OBVIOUS
<1> PICK t \in Seq(S) : t = <<x>> /\ Len(t) = 1 /\ t[1] = x
  OBVIOUS
<1>1. \A i \in 1..Len(s) : s[i] = t[i]
  OBVIOUS
<1>2. s = t
  BY <1>1, SeqEqual
<1> QED BY <1>2

(* A sequence and its first element.                                        *)
LEMMA SetOfSplit ==
  ASSUME NEW S, NEW s \in Seq(S), s # <<>>
  PROVE  /\ Head(s) \in S /\ Tail(s) \in Seq(S)
         /\ DOMAIN s = 1..Len(s) /\ 1 \in DOMAIN s /\ Head(s) = s[1]
         /\ \A i \in DOMAIN Tail(s) : i + 1 \in DOMAIN s /\ i + 1 > 1 /\ Tail(s)[i] = s[i + 1]
         /\ \A j \in DOMAIN s : j = 1 \/ (j - 1 \in DOMAIN Tail(s) /\ Tail(s)[j - 1] = s[j])
         /\ ToSet(s) = {Head(s)} \union ToSet(Tail(s))
<1>1. /\ Head(s) \in S /\ Tail(s) \in Seq(S) /\ Len(s) \in Nat /\ Len(s) >= 1
      /\ DOMAIN s = 1..Len(s) /\ Head(s) = s[1]
      /\ Len(Tail(s)) = Len(s) - 1
      /\ \A i \in 1..(Len(s) - 1) : Tail(s)[i] = s[i + 1]
  OBVIOUS
<1>2. DOMAIN Tail(s) = 1..(Len(s) - 1)
  BY <1>1
<1>3. 1 \in DOMAIN s
  BY <1>1
<1>4. \A i \in DOMAIN Tail(s) : i + 1 \in DOMAIN s /\ i + 1 > 1 /\ Tail(s)[i] = s[i + 1]
  BY <1>1, <1>2
<1>5. ASSUME NEW j \in DOMAIN s, j # 1
      PROVE  j - 1 \in DOMAIN Tail(s) /\ Tail(s)[j - 1] = s[j]
  <2>1. j - 1 \in 1..(Len(s) - 1) /\ (j - 1) + 1 = j
    BY <1>1, <1>5
  <2> QED BY <1>1, <1>2, <2>1
<1>6. ToSet(s) = {Head(s)} \union ToSet(Tail(s))
  <2>1. ASSUME NEW j \in DOMAIN s PROVE s[j] \in {Head(s)} \union ToSet(Tail(s))
    BY <1>1, <1>5 DEF ToSet
  <2>2. ASSUME NEW i \in DOMAIN Tail(s) PROVE Tail(s)[i] \in ToSet(s)
    BY <1>4 DEF ToSet
  <2>3. Head(s) \in ToSet(s)
    BY <1>1, <1>3 DEF ToSet
  <2> QED BY <2>1, <2>2, <2>3 DEF ToSet
<1> QED BY <1>1, <1>3, <1>4, <1>5, <1>6

(* A rising sequence and its first element.                                 *)
LEMMA RisesSplit ==
  ASSUME NEW s \in Seq(Nat), s # <<>>, Rises(s)
  PROVE  Rises(Tail(s)) /\ \A p \in ToSet(Tail(s)) : Head(s) < p
<1>1. /\ Tail(s) \in Seq(Nat) /\ Head(s) = s[1] /\ 1 \in DOMAIN s /\ DOMAIN s = 1..Len(s)
      /\ \A i \in DOMAIN Tail(s) : i + 1 \in DOMAIN s /\ i + 1 > 1 /\ Tail(s)[i] = s[i + 1]
  BY SetOfSplit
<1>2. DOMAIN Tail(s) \in SUBSET Nat
  BY <1>1
<1>3. Rises(Tail(s))
  <2> SUFFICES ASSUME NEW i \in DOMAIN Tail(s), NEW j \in DOMAIN Tail(s), i < j
               PROVE  Tail(s)[i] < Tail(s)[j]
    BY DEF Rises
  <2>1. i + 1 < j + 1 /\ i + 1 \in DOMAIN s /\ j + 1 \in DOMAIN s
    BY <1>1, <1>2
  <2>2. s[i + 1] < s[j + 1]
    BY <2>1 DEF Rises
  <2> QED BY <1>1, <2>2
<1>4. \A i \in DOMAIN Tail(s) : Head(s) < Tail(s)[i]
  BY <1>1, <1>2 DEF Rises
<1> QED BY <1>3, <1>4 DEF ToSet

(* One rising sequence after the other.                                     *)
LEMMA RisesConcat ==
  ASSUME NEW s \in Seq(Nat), NEW t \in Seq(Nat), Rises(s), Rises(t),
         \A p \in ToSet(s), q \in ToSet(t) : p < q
  PROVE  Rises(s \o t)
<1>1. /\ DOMAIN s = 1..Len(s) /\ DOMAIN t = 1..Len(t) /\ DOMAIN (s \o t) = 1..(Len(s) + Len(t))
      /\ \A i \in 1..Len(s) : (s \o t)[i] = s[i]
      /\ \A i \in 1..Len(t) : (s \o t)[Len(s) + i] = t[i]
      /\ Len(s) \in Nat /\ Len(t) \in Nat
  OBVIOUS
<1> SUFFICES ASSUME NEW i \in 1..(Len(s) + Len(t)), NEW j \in 1..(Len(s) + Len(t)), i < j
             PROVE  (s \o t)[i] < (s \o t)[j]
  BY <1>1 DEF Rises
<1>2. CASE j <= Len(s)
  <2>1. i \in 1..Len(s) /\ j \in 1..Len(s)
    BY <1>1, <1>2
  <2> QED BY <1>1, <2>1 DEF Rises
<1>3. CASE ~(j <= Len(s)) /\ i <= Len(s)
  <2>1. i \in 1..Len(s) /\ j - Len(s) \in 1..Len(t) /\ Len(s) + (j - Len(s)) = j
    BY <1>1, <1>3
  <2>2. (s \o t)[i] = s[i] /\ (s \o t)[j] = t[j - Len(s)]
    BY <1>1, <2>1
  <2>3. s[i] \in ToSet(s) /\ t[j - Len(s)] \in ToSet(t)
    BY <1>1, <2>1 DEF ToSet
  <2> QED BY <2>2, <2>3
<1>4. CASE ~(j <= Len(s)) /\ ~(i <= Len(s))
  <2>1. /\ i - Len(s) \in 1..Len(t) /\ Len(s) + (i - Len(s)) = i
        /\ j - Len(s) \in 1..Len(t) /\ Len(s) + (j - Len(s)) = j
        /\ i - Len(s) < j - Len(s)
    BY <1>1, <1>4
  <2>2. (s \o t)[i] = t[i - Len(s)] /\ (s \o t)[j] = t[j - Len(s)]
    BY <1>1, <2>1
  <2> QED BY <1>1, <2>1, <2>2 DEF Rises
<1> QED BY <1>2, <1>3, <1>4

(* One sequence without repetition after another that shares nothing.       *)
LEMMA InjectiveConcat ==
  ASSUME NEW s \in Seq(Nat), NEW t \in Seq(Nat), IsInjective(s), IsInjective(t),
         ToSet(s) \intersect ToSet(t) = {}
  PROVE  IsInjective(s \o t)
<1>1. /\ DOMAIN s = 1..Len(s) /\ DOMAIN t = 1..Len(t) /\ DOMAIN (s \o t) = 1..(Len(s) + Len(t))
      /\ \A i \in 1..Len(s) : (s \o t)[i] = s[i]
      /\ \A i \in 1..Len(t) : (s \o t)[Len(s) + i] = t[i]
      /\ Len(s) \in Nat /\ Len(t) \in Nat
  OBVIOUS
<1>2. ASSUME NEW i \in 1..(Len(s) + Len(t))
      PROVE  \/ i \in 1..Len(s) /\ (s \o t)[i] = s[i] /\ s[i] \in ToSet(s)
             \/ /\ i - Len(s) \in 1..Len(t) /\ (s \o t)[i] = t[i - Len(s)]
                /\ t[i - Len(s)] \in ToSet(t)
  <2>1. CASE i <= Len(s)
    <3>1. i \in 1..Len(s)
      BY <1>1, <2>1
    <3> QED BY <1>1, <3>1 DEF ToSet
  <2>2. CASE ~(i <= Len(s))
    <3>1. i - Len(s) \in 1..Len(t) /\ Len(s) + (i - Len(s)) = i
      BY <1>1, <2>2
    <3> QED BY <1>1, <3>1 DEF ToSet
  <2> QED BY <2>1, <2>2
<1> SUFFICES ASSUME NEW i \in 1..(Len(s) + Len(t)), NEW j \in 1..(Len(s) + Len(t)),
                    (s \o t)[i] = (s \o t)[j]
             PROVE  i = j
  BY <1>1 DEF IsInjective
<1>3. CASE i \in 1..Len(s) /\ j \in 1..Len(s) /\ s[i] = s[j]
  BY <1>1, <1>3 DEF IsInjective
<1>4. CASE i - Len(s) \in 1..Len(t) /\ j - Len(s) \in 1..Len(t) /\ t[i - Len(s)] = t[j - Len(s)]
  <2>1. i - Len(s) = j - Len(s)
    BY <1>1, <1>4 DEF IsInjective
  <2> QED BY <1>1, <2>1
<1> QED BY <1>2, <1>3, <1>4

(* What rises has no repetition.                                            *)
LEMMA RisesInjective ==
  ASSUME NEW s \in Seq(Nat), Rises(s)
  PROVE  IsInjective(s)
<1> SUFFICES ASSUME NEW i \in DOMAIN s, NEW j \in DOMAIN s, s[i] = s[j] PROVE i = j
  BY DEF IsInjective
<1>1. i \in Nat /\ j \in Nat /\ s[i] \in Nat /\ s[j] \in Nat
  OBVIOUS
<1>2. ~(i < j) /\ ~(j < i)
  BY <1>1 DEF Rises
<1> QED BY <1>1, <1>2

(* A place is named by a request.                                           *)
LEMMA InNamed ==
  \A items, p : p \in Named(items) <=> \E k \in Requests(items) : p \in ToSet(items[k])
BY DEF Named

(* The first request of a stream, and the others.                           *)
LEMMA StreamSplit ==
  ASSUME NEW r \in Seq(Item), r # <<>>, Head(r) # Error
  PROVE  /\ Head(r) \in Seq(Nat) /\ Tail(r) \in Seq(Item)
         /\ Named(r) = ToSet(Head(r)) \union Named(Tail(r))
         /\ Error \in ToSet(r) => Error \in ToSet(Tail(r))
         /\ Bounded(r) => Len(Head(r)) \in 1..MaxBatch /\ Bounded(Tail(r))
         /\ Ascending(r) => /\ Rises(Head(r)) /\ Ascending(Tail(r))
                            /\ \A p \in ToSet(Head(r)), q \in Named(Tail(r)) : p < q
         /\ Distinct(r) => /\ IsInjective(Head(r)) /\ Distinct(Tail(r))
                           /\ ToSet(Head(r)) \intersect Named(Tail(r)) = {}
<1> PICK h \in Item, t \in Seq(Item) : h = Head(r) /\ t = Tail(r)
  BY SetOfSplit
<1>1. /\ h \in Item /\ 1 \in DOMAIN r /\ h = r[1] /\ DOMAIN r = 1..Len(r)
      /\ \A i \in DOMAIN t : i + 1 \in DOMAIN r /\ i + 1 > 1 /\ t[i] = r[i + 1]
      /\ \A j \in DOMAIN r : j = 1 \/ (j - 1 \in DOMAIN t /\ t[j - 1] = r[j])
      /\ ToSet(r) = {h} \union ToSet(t)
  BY SetOfSplit
<1>2. h \in Seq(Nat) /\ h # Error
  BY <1>1 DEF Item
<1>3. DOMAIN t \in SUBSET Nat
  OBVIOUS
<1>4. /\ 1 \in Requests(r)
      /\ \A i \in Requests(t) : i \in Nat /\ i + 1 \in Requests(r) /\ 1 < i + 1 /\ t[i] = r[i + 1]
      /\ \A j \in Requests(r) : j = 1 \/ (j - 1 \in Requests(t) /\ t[j - 1] = r[j])
  BY <1>1, <1>2, <1>3 DEF Requests
<1>5. Named(r) = ToSet(h) \union Named(t)
  <2>1. ASSUME NEW p \in Named(r) PROVE p \in ToSet(h) \union Named(t)
    <3>1. PICK j \in Requests(r) : p \in ToSet(r[j])
      BY InNamed
    <3>2. CASE j = 1
      BY <1>1, <3>1, <3>2
    <3>3. CASE j # 1
      <4>1. j - 1 \in Requests(t) /\ t[j - 1] = r[j]
        BY <1>4, <3>3
      <4>2. p \in ToSet(t[j - 1])
        BY <3>1, <4>1
      <4> QED BY <4>1, <4>2, InNamed
    <3> QED BY <3>2, <3>3
  <2>2. ASSUME NEW p \in Named(t) PROVE p \in Named(r)
    <3>1. PICK i \in Requests(t) : p \in ToSet(t[i])
      BY InNamed
    <3>2. i + 1 \in Requests(r) /\ p \in ToSet(r[i + 1])
      BY <1>4, <3>1
    <3> QED BY <3>2, InNamed
  <2>3. ASSUME NEW p \in ToSet(h) PROVE p \in Named(r)
    BY <1>1, <1>4, InNamed
  <2> QED BY <2>1, <2>2, <2>3
<1>6. Error \in ToSet(r) => Error \in ToSet(t)
  BY <1>1, <1>2
<1>7. Bounded(r) => Len(h) \in 1..MaxBatch /\ Bounded(t)
  BY <1>1, <1>4 DEF Bounded
<1>8. ASSUME Ascending(r)
      PROVE  Rises(h) /\ Ascending(t) /\ \A p \in ToSet(h), q \in Named(t) : p < q
  <2>1. Rises(h)
    BY <1>1, <1>4, <1>8 DEF Ascending
  <2>2. \A p \in ToSet(h), q \in Named(t) : p < q
    <3> SUFFICES ASSUME NEW p \in ToSet(h), NEW i \in Requests(t), NEW q \in ToSet(t[i])
                 PROVE  p < q
      BY InNamed
    <3>1. 1 \in Requests(r) /\ i + 1 \in Requests(r) /\ 1 < i + 1 /\ r[1] = h /\ r[i + 1] = t[i]
      BY <1>1, <1>4
    <3> QED BY <1>8, <3>1 DEF Ascending
  <2>3. ASSUME NEW k \in Requests(t) PROVE Rises(t[k])
    BY <1>4, <1>8 DEF Ascending
  <2>4. ASSUME NEW k \in Requests(t), NEW j \in Requests(t), j < k,
               NEW p \in ToSet(t[j]), NEW q \in ToSet(t[k])
        PROVE  p < q
    <3>1. j + 1 < k + 1 /\ j + 1 \in Requests(r) /\ k + 1 \in Requests(r)
      BY <1>4, <2>4
    <3>2. p \in ToSet(r[j + 1]) /\ q \in ToSet(r[k + 1])
      BY <1>4, <2>4
    <3> QED BY <1>8, <3>1, <3>2 DEF Ascending
  <2> QED BY <2>1, <2>2, <2>3, <2>4 DEF Ascending
<1>9. ASSUME Distinct(r)
      PROVE  IsInjective(h) /\ Distinct(t) /\ ToSet(h) \intersect Named(t) = {}
  <2>1. IsInjective(h)
    BY <1>1, <1>4, <1>9 DEF Distinct
  <2>2. ToSet(h) \intersect Named(t) = {}
    <3> SUFFICES ASSUME NEW i \in Requests(t), NEW p \in ToSet(t[i]), p \in ToSet(h)
                 PROVE  FALSE
      BY InNamed
    <3> QED BY <1>1, <1>4, <1>9 DEF Distinct
  <2>3. ASSUME NEW k \in Requests(t) PROVE IsInjective(t[k])
    BY <1>4, <1>9 DEF Distinct
  <2>4. ASSUME NEW k \in Requests(t), NEW j \in Requests(t), j < k
        PROVE  ToSet(t[j]) \intersect ToSet(t[k]) = {}
    <3>1. j + 1 < k + 1 /\ j + 1 \in Requests(r) /\ k + 1 \in Requests(r)
      BY <1>4, <2>4
    <3>2. ToSet(r[j + 1]) \intersect ToSet(r[k + 1]) = {}
      BY <1>9, <3>1 DEF Distinct
    <3> QED BY <1>4, <3>2
  <2> QED BY <2>1, <2>2, <2>3, <2>4 DEF Distinct
<1> QED BY <1>1, <1>2, <1>5, <1>6, <1>7, <1>8, <1>9

--------------------------------------------------------------------------------
(* The first sequences of a sequence of them, one after the other.          *)
IsParts(g, s, n) == g = [i \in 1..n |-> IF i = 1 THEN s[i] ELSE g[i - 1] \o s[i]]
Parts(s) == CHOOSE g : IsParts(g, s, Len(s))

(* FlattenSeq is the last of them, each of which is the one before it and a *)
(* sequence.                                                                *)
LEMMA PartsOf ==
  ASSUME NEW S, NEW s \in Seq(Seq(S)), s # <<>>
  PROVE  /\ FlattenSeq(s) = Parts(s)[Len(s)]
         /\ Parts(s)[1] = s[1]
         /\ \A k \in 2..Len(s) : Parts(s)[k] = Parts(s)[k - 1] \o s[k]
         /\ \A k \in 1..Len(s) : Parts(s)[k] \in Seq(S)
<1> PICK n \in Nat : n = Len(s) /\ n >= 1
  OBVIOUS
<1> DEFINE A == Seq(S)
           G == [z \in A \X (1..n) |-> z[1] \o s[z[2]]]
<1>1. \A k \in 1..n : s[k] \in A
  OBVIOUS
<1>2. G \in [A \X (1..n) -> A]
  <2>1. \A z \in A \X (1..n) : z[1] \o s[z[2]] \in A
    BY <1>1
  <2> QED BY <2>1
<1>3. \A x \in A, k \in 1..n : G[<<x, k>>] = x \o s[k]
  OBVIOUS
<1> HIDE DEF G
<1>4. PICK f \in [0..n -> A] : Steps(f, n, <<>>, G)
  <2>1. <<>> \in A
    OBVIOUS
  <2> HIDE DEF A
  <2> QED BY <1>2, <2>1, Recursion
<1>5. f[0] = <<>> /\ \A k \in 1..n : f[k - 1] \in A /\ f[k] = f[k - 1] \o s[k]
  <2> SUFFICES ASSUME NEW k \in 1..n PROVE f[k - 1] \in A /\ f[k] = f[k - 1] \o s[k]
    BY <1>4 DEF Steps
  <2>1. f[k] = G[<<f[k - 1], k>>]
    BY <1>4 DEF Steps
  <2>2. f[k - 1] \in A
    <3>1. k - 1 \in 0..n
      OBVIOUS
    <3> HIDE DEF A
    <3> QED BY <1>4, <3>1
  <2> QED BY <1>3, <2>1, <2>2
<1> DEFINE F == [k \in 1..n |-> f[k]]
<1>6. IsParts(F, s, n)
  <2> DEFINE h == [i \in 1..n |-> IF i = 1 THEN s[i] ELSE F[i - 1] \o s[i]]
  <2>1. \A i \in 1..n : F[i] = h[i]
    <3> SUFFICES ASSUME NEW i \in 1..n PROVE F[i] = h[i]
      OBVIOUS
    <3>1. F[i] = f[i - 1] \o s[i]
      BY <1>5
    <3>2. CASE i = 1
      <4>1. s[1] \in Seq(S)
        BY <1>1
      <4>2. <<>> \o s[1] = s[1]
        BY <4>1
      <4>3. f[i - 1] = <<>>
        BY <1>5, <3>2
      <4> QED BY <3>1, <3>2, <4>2, <4>3
    <3>3. CASE i # 1
      <4>1. i - 1 \in 1..n
        BY <3>3
      <4>2. F[i - 1] = f[i - 1]
        BY <4>1
      <4> QED BY <3>1, <3>3, <4>2
    <3> QED BY <3>2, <3>3
  <2>2. F = [i \in 1..n |-> F[i]] /\ h = [i \in 1..n |-> h[i]]
    OBVIOUS
  <2> HIDE DEF F
  <2>3. F = h
    <3> HIDE DEF h
    <3> QED BY <2>1, <2>2
  <2> QED BY <2>3 DEF IsParts
<1>7. IsParts(Parts(s), s, n)
  <2> HIDE DEF F
  <2> QED BY <1>6 DEF Parts
<1> PICK g : g = Parts(s)
  OBVIOUS
<1>8. g[1] = s[1] /\ \A k \in 2..n : g[k] = g[k - 1] \o s[k]
  <2>1. g = [i \in 1..n |-> IF i = 1 THEN s[i] ELSE g[i - 1] \o s[i]]
    BY <1>7 DEF IsParts
  <2>2. \A i \in 1..n : g[i] = IF i = 1 THEN s[i] ELSE g[i - 1] \o s[i]
    BY <2>1
  <2>3. 1 \in 1..n /\ \A k \in 2..n : k \in 1..n /\ k # 1
    OBVIOUS
  <2> QED BY <2>2, <2>3
<1>9. \A k \in 1..n : g[k] \in A
  <2> DEFINE Upto == {k \in 0..n : k = 0 \/ g[k] \in A}
  <2>1. 0 \in Upto
    OBVIOUS
  <2>2. \A k \in 0..n : k < n /\ k \in Upto => k + 1 \in Upto
    <3> SUFFICES ASSUME NEW k \in 0..n, k < n, k = 0 \/ g[k] \in A PROVE k + 1 \in Upto
      OBVIOUS
    <3>1. CASE k = 0
      <4>1. g[1] \in A
        BY <1>1, <1>8
      <4> QED BY <3>1, <4>1
    <3>2. CASE k # 0
      <4>1. k + 1 \in 2..n /\ k + 1 \in 1..n /\ (k + 1) - 1 = k
        BY <3>2
      <4>2. g[k + 1] = g[k] \o s[k + 1] /\ s[k + 1] \in A
        <5> HIDE DEF A
        <5> QED BY <1>1, <1>8, <4>1
      <4>3. g[k] \in A
        BY <3>2
      <4>4. g[k + 1] \in A
        BY <4>2, <4>3
      <4> QED BY <4>4
    <3> QED BY <3>1, <3>2
  <2>3. \A k \in 0..n : k \in Upto
    <3> HIDE DEF Upto
    <3> QED BY <2>1, <2>2, UpToAll
  <2> QED BY <2>3
<1>10. FlattenSeq(s) = g[n]
  BY DEF FlattenSeq, Parts, IsParts
<1> QED BY <1>8, <1>9, <1>10

(* One more sequence is put at the end.                                     *)
LEMMA FlattenAppendOf ==
  ASSUME NEW S, NEW s \in Seq(Seq(S)), NEW t \in Seq(S)
  PROVE  /\ FlattenSeq(s) \in Seq(S)
         /\ FlattenSeq(Append(s, t)) = FlattenSeq(s) \o t
<1> PICK u \in Seq(Seq(S)) : u = Append(s, t)
  BY SetOfAppend, Zenon
<1>1. /\ u # <<>> /\ Len(u) = Len(s) + 1 /\ Len(s) \in Nat
      /\ u[Len(s) + 1] = t /\ \A k \in 1..Len(s) : u[k] = s[k]
  OBVIOUS
<1>2. /\ FlattenSeq(u) = Parts(u)[Len(u)] /\ Parts(u)[1] = u[1]
      /\ \A k \in 2..Len(u) : Parts(u)[k] = Parts(u)[k - 1] \o u[k]
  BY <1>1, PartsOf
<1>3. CASE s = <<>>
  <2>1. FlattenSeq(s) = <<>>
    BY <1>3 DEF FlattenSeq
  <2>2. FlattenSeq(u) = t
    BY <1>1, <1>2, <1>3
  <2> QED BY <2>1, <2>2
<1>4. CASE s # <<>>
  <2> PICK n \in Nat : n = Len(s) /\ n >= 1
    BY <1>4
  <2>1. /\ FlattenSeq(s) = Parts(s)[n] /\ Parts(s)[1] = s[1]
        /\ \A k \in 2..n : Parts(s)[k] = Parts(s)[k - 1] \o s[k]
        /\ \A k \in 1..n : Parts(s)[k] \in Seq(S)
    BY <1>4, PartsOf
  <2> DEFINE Upto == {k \in 0..n : k = 0 \/ Parts(u)[k] = Parts(s)[k]}
  <2>2. 0 \in Upto
    OBVIOUS
  <2>3. \A k \in 0..n : k < n /\ k \in Upto => k + 1 \in Upto
    <3> SUFFICES ASSUME NEW k \in 0..n, k < n, k = 0 \/ Parts(u)[k] = Parts(s)[k]
                 PROVE  k + 1 \in Upto
      OBVIOUS
    <3>1. CASE k = 0
      <4>1. Parts(u)[1] = Parts(s)[1]
        BY <1>1, <1>2, <2>1
      <4> QED BY <3>1, <4>1
    <3>2. CASE k # 0
      <4>1. k + 1 \in 2..n /\ k + 1 \in 2..Len(u) /\ (k + 1) - 1 = k /\ k + 1 \in 1..Len(s)
        BY <1>1, <3>2
      <4>2. Parts(u)[k + 1] = Parts(u)[k] \o u[k + 1] /\ Parts(s)[k + 1] = Parts(s)[k] \o s[k + 1]
        BY <1>2, <2>1, <4>1
      <4>3. Parts(u)[k + 1] = Parts(s)[k + 1]
        BY <1>1, <3>2, <4>1, <4>2
      <4> QED BY <4>3
    <3> QED BY <3>1, <3>2
  <2>4. \A k \in 0..n : k \in Upto
    <3> HIDE DEF Upto
    <3> QED BY <2>2, <2>3, UpToAll
  <2>5. Parts(u)[n] = FlattenSeq(s)
    BY <2>1, <2>4
  <2>6. n + 1 \in 2..Len(u) /\ Len(u) = n + 1 /\ (n + 1) - 1 = n
    BY <1>1
  <2>7. FlattenSeq(u) = Parts(u)[n] \o t
    BY <1>1, <1>2, <2>6
  <2> QED BY <2>1, <2>5, <2>7
<1> QED BY <1>3, <1>4

(* The same for places.                                                     *)
LEMMA FlattenAppend ==
  ASSUME NEW s \in Seq(Seq(Nat)), NEW t \in Seq(Nat)
  PROVE  /\ FlattenSeq(s) \in Seq(Nat)
         /\ FlattenSeq(Append(s, t)) = FlattenSeq(s) \o t
BY FlattenAppendOf

(* The length of a sequence, its last element and those before it, and the  *)
(* sequence backwards.                                                      *)
LEMMA LengthFacts ==
  ASSUME NEW S, NEW s \in Seq(S)
  PROVE  /\ Len(s) \in Nat
         /\ s # <<>> => /\ Len(s) >= 1 /\ Last(s) \in S
                        /\ Front(s) \in Seq(S) /\ Len(Front(s)) = Len(s) - 1
         /\ Reverse(s) \in Seq(S) /\ Len(Reverse(s)) = Len(s)
<1> PICK n \in Nat : n = Len(s)
  OBVIOUS
<1>1. ASSUME s # <<>>
      PROVE  n >= 1 /\ Last(s) \in S /\ Front(s) \in Seq(S) /\ Len(Front(s)) = n - 1
  <2>1. n >= 1
    BY <1>1
  <2>2. Last(s) \in S
    BY <2>1 DEF Last
  <2>3. SubSeq(s, 1, n - 1) \in Seq(S) /\ Len(SubSeq(s, 1, n - 1)) = n - 1
    BY <2>1
  <2> QED BY <2>1, <2>2, <2>3 DEF Front
<1>2. Reverse(s) \in Seq(S) /\ Len(Reverse(s)) = n
  <2>1. \A i \in 1..n : s[(n - i) + 1] \in S
    OBVIOUS
  <2> DEFINE v == [i \in 1..n |-> s[(n - i) + 1]]
  <2>2. v \in [1..n -> S]
    BY <2>1
  <2>3. v = Reverse(s)
    BY DEF Reverse
  <2> HIDE DEF v
  <2>4. v \in Seq(S) /\ Len(v) = n
    BY <2>2
  <2> QED BY <2>3, <2>4
<1> QED BY <1>1, <1>2

--------------------------------------------------------------------------------
(* What is known of an input.                                               *)
LEMMA InputFacts ==
  ASSUME input \in Inputs
  PROVE  /\ MaxBatch \in Nat \ {0} /\ NodeLimit \in Nat \ {0} /\ Error \notin Seq(Nat)
         /\ input.root \in DOMAIN input.operands
         /\ \A n \in DOMAIN input.operands : input.operands[n] \in Seq(DOMAIN input.operands)
         /\ ~(input.prefer /\ input.select)
BY CandidateAssumption

(* What is known of a node that answers.                                    *)
LEMMA LeafFacts ==
  ASSUME input \in Inputs, NEW n \in DOMAIN input.operands, IsLeaf(n)
  PROVE  /\ input.streams[n] \in Seq(Item) /\ input.native[n] \in Seq(Item)
         /\ Bounded(input.streams[n]) /\ Bounded(input.native[n])
         /\ Ascending(input.streams[n]) /\ Distinct(input.native[n])
BY CandidateAssumption DEF IsLeaf

(* Initially nothing was found.                                             *)
LEMMA UnionInit == ExpressionInit => UnionInv
<1> SUFFICES ASSUME ExpressionInit PROVE UnionInv
  OBVIOUS
<1>1. /\ input \in Inputs /\ phase = "build" /\ step = input.root /\ pending = <<>>
      /\ found = <<>> /\ output = <<>> /\ emitted = <<>>
  BY DEF ExpressionInit, AtRoot
<1>2. input.root \in DOMAIN input.operands
  BY <1>1, InputFacts
<1>3. Known
  BY <1>1, <1>2 DEF Known
<1> QED BY <1>1, <1>3 DEF UnionInv, Walking, RequestsFit, Uniting

(* Construction ends at the root.                                           *)
LEMMA KeepConstruct == ASSUME UnionInv, Construct PROVE UnionInv'
<1>1. /\ phase = "build" /\ phase' \in {"build", Beginning}
      /\ input' = input /\ walking' = walking /\ merging' = merging
  BY DEF Construct
<1>2. /\ step' = step /\ pending' = pending /\ visited' = visited /\ found' = found
      /\ emitted' = emitted /\ output' = output
  BY <1>1 DEF walking, merging
<1>3. Known'
  BY <1>1, <1>2 DEF UnionInv, Known, IsLeaf
<1>4. emitted = <<>> /\ output = <<>> /\ found = <<>> /\ pending = <<>> /\ step = input.root
  BY <1>1 DEF UnionInv, Walking
<1>5. \/ phase' = "select" /\ input.select
      \/ phase' = "walk" /\ ~input.select
      \/ phase' = "build"
  BY <1>1 DEF Beginning
<1> QED BY <1>1, <1>2, <1>3, <1>4, <1>5 DEF UnionInv, Walking, RequestsFit, Uniting

(* Construction is refused.                                                 *)
LEMMA KeepRefuseConstruction == ASSUME UnionInv, RefuseConstruction PROVE UnionInv'
<1>1. /\ phase = "build" /\ phase' = "refused"
      /\ input' = input /\ walking' = walking /\ merging' = merging
  BY DEF RefuseConstruction
<1>2. /\ step' = step /\ pending' = pending /\ visited' = visited /\ found' = found
      /\ emitted' = emitted /\ output' = output
  BY <1>1 DEF walking, merging
<1>3. Known'
  BY <1>1, <1>2 DEF UnionInv, Known, IsLeaf
<1>4. emitted = <<>> /\ output = <<>>
  BY <1>1 DEF UnionInv, Walking
<1> QED BY <1>1, <1>2, <1>3, <1>4 DEF UnionInv, Walking, RequestsFit, Uniting

(* The selection goes to the source of a node.                              *)
LEMMA KeepFollow == ASSUME UnionInv, Follow PROVE UnionInv'
<1>1. /\ phase = "select" /\ phase' = "select" /\ Refers(step)
      /\ step' = Head(input.operands[step]) /\ input' = input
      /\ pending' = pending /\ found' = found /\ emitted' = emitted /\ output' = output
  BY DEF Follow, merging
<1>2. step' \in DOMAIN input.operands
  <2>1. step \in DOMAIN input.operands /\ input \in Inputs
    BY DEF UnionInv, Known
  <2>2. input.operands[step] \in Seq(DOMAIN input.operands) /\ input.operands[step] # <<>>
    <3>1. Len(input.operands[step]) = 1 /\ Len(<<>>) = 0
      BY <1>1 DEF Refers
    <3>2. input.operands[step] # <<>>
      BY <3>1
    <3> QED BY <2>1, <3>2, InputFacts
  <2> QED BY <1>1, <2>2, SetOfSplit
<1>3. Known'
  BY <1>1, <1>2 DEF UnionInv, Known, IsLeaf
<1> QED BY <1>1, <1>3 DEF UnionInv, Walking, RequestsFit, Uniting

(* The selection meets an operation.                                        *)
LEMMA KeepBranch == ASSUME UnionInv, Branch PROVE UnionInv'
<1>1. /\ phase = "select" /\ phase' = "walk" /\ ~IsLeaf(step) /\ ~Refers(step)
      /\ input' = input /\ step' = step /\ pending' = pending /\ found' = found
      /\ emitted' = emitted /\ output' = output
  BY DEF Branch, merging
<1>2. Known'
  BY <1>1 DEF UnionInv, Known, IsLeaf
<1>3. emitted = <<>> /\ output = <<>>
  BY <1>1 DEF UnionInv, Walking
<1>4. ~IsLeaf(step)' /\ Len(input'.operands[step']) >= 2
  <2>1. step \in DOMAIN input.operands /\ input \in Inputs
    BY DEF UnionInv, Known
  <2>2. input.operands[step] \in Seq(DOMAIN input.operands)
    BY <2>1, InputFacts
  <2>3. input.operands[step] # <<>> /\ Len(input.operands[step]) # 1
    BY <1>1 DEF IsLeaf, Refers
  <2>4. Len(input.operands[step]) >= 2
    <3>1. Len(input.operands[step]) \in Nat /\ Len(input.operands[step]) >= 1
      BY <2>2, <2>3, LengthFacts
    <3> PICK m \in Nat : m = Len(input.operands[step]) /\ m >= 1
      BY <3>1
    <3>2. m # 1
      BY <2>3
    <3>3. m >= 2
      BY ONLY <3>2, m \in Nat, m >= 1
    <3> QED BY <3>3
  <2> QED BY <1>1, <2>4 DEF IsLeaf
<1> QED BY <1>1, <1>2, <1>3, <1>4 DEF UnionInv, Walking, RequestsFit, Uniting

(* What the walk has yet to visit after a node.                             *)
LEMMA PushedFacts ==
  ASSUME Known
  PROVE  /\ Pushed(step) \in Seq(DOMAIN input.operands)
         /\ Len(Pushed(step)) = Len(pending) + Len(Sources(step))
         /\ Len(pending) \in Nat /\ Len(Sources(step)) \in Nat
         /\ IsLeaf(step) => Len(Sources(step)) = 0
         /\ ~IsLeaf(step) => Sources(step) = input.operands[step] /\ Len(Sources(step)) >= 1
<1> PICK N : N = DOMAIN input.operands
  OBVIOUS
<1>1. step \in N /\ pending \in Seq(N) /\ input.operands[step] \in Seq(N)
  BY InputFacts DEF Known
<1>2. Sources(step) \in Seq(N)
  <2>1. <<>> \in Seq(N)
    OBVIOUS
  <2> QED BY <1>1, <2>1 DEF Sources
<1> PICK s \in Seq(N) : s = Sources(step)
  BY <1>2
<1>3. Pushed(step) \in Seq(N) /\ Len(Pushed(step)) = Len(pending) + Len(s)
  <2> PICK q \in Seq(N) : q = pending
    BY <1>1
  <2> PICK v \in Seq(N) : v = Reverse(s) /\ Len(v) = Len(s)
    BY LengthFacts
  <2>1. Pushed(step) = q \o v
    BY DEF Pushed
  <2>2. q \o v \in Seq(N) /\ Len(q \o v) = Len(q) + Len(v)
    OBVIOUS
  <2> QED BY <2>1, <2>2
<1>4. IsLeaf(step) => Len(s) = 0
  BY DEF Sources
<1>5. ~IsLeaf(step) => s = input.operands[step] /\ Len(s) >= 1
  <2> SUFFICES ASSUME ~IsLeaf(step) PROVE s = input.operands[step] /\ Len(s) >= 1
    OBVIOUS
  <2>1. s = input.operands[step] /\ s # <<>>
    BY DEF Sources, IsLeaf
  <2> QED BY <2>1, LengthFacts
<1>6. Len(pending) \in Nat /\ Len(s) \in Nat
  BY <1>1, LengthFacts
<1> QED BY <1>3, <1>4, <1>5, <1>6

(* What the walk has found after a node.                                    *)
LEMMA CollectedFacts ==
  ASSUME Known
  PROVE  /\ Collected \in Seq({n \in DOMAIN input.operands : IsLeaf(n)})
         /\ Len(found) \in Nat
         /\ Len(Collected) = IF Consumes(step) THEN Len(found) + 1 ELSE Len(found)
<1> PICK L : L = {n \in DOMAIN input.operands : IsLeaf(n)}
  OBVIOUS
<1>1. found \in Seq(L)
  BY DEF Known
<1>2. Consumes(step) => step \in L
  BY DEF Known, Consumes
<1> QED BY <1>1, <1>2 DEF Collected

(* The walk goes on.                                                        *)
LEMMA KeepVisit == ASSUME UnionInv, Visit PROVE UnionInv'
<1>1. /\ phase = "walk" /\ phase' = "walk" /\ Pushed(step) # <<>>
      /\ found' = Collected /\ step' = Last(Pushed(step)) /\ pending' = Front(Pushed(step))
      /\ input' = input /\ emitted' = emitted /\ output' = output
  BY DEF Visit, merging
<1>2. Known /\ emitted = <<>> /\ output = <<>>
  BY <1>1 DEF UnionInv, Walking
<1> PICK N : N = DOMAIN input.operands
  OBVIOUS
<1> PICK q \in Seq(N) : q = Pushed(step)
  BY <1>2, PushedFacts
<1>3. /\ Len(q) = Len(pending) + Len(Sources(step)) /\ Len(pending) \in Nat
      /\ Len(Sources(step)) \in Nat
      /\ IsLeaf(step) => Len(Sources(step)) = 0
      /\ ~IsLeaf(step) => Sources(step) = input.operands[step] /\ Len(Sources(step)) >= 1
  BY <1>2, PushedFacts
<1>4. /\ Len(found) \in Nat /\ Collected \in Seq({n \in DOMAIN input.operands : IsLeaf(n)})
      /\ Len(Collected) = IF Consumes(step) THEN Len(found) + 1 ELSE Len(found)
  BY <1>2, CollectedFacts
<1>5. Last(q) \in N /\ Front(q) \in Seq(N) /\ Len(Front(q)) = Len(q) - 1 /\ Len(q) >= 1
  <2>1. q # <<>>
    BY <1>1
  <2> QED BY <2>1, LengthFacts
<1>6. Known'
  <2>1. step' \in DOMAIN input.operands /\ pending' \in Seq(DOMAIN input.operands)
    BY <1>1, <1>5
  <2> QED BY <1>1, <1>2, <1>4, <2>1 DEF Known, IsLeaf
<1>7. ASSUME input.select PROVE Len(found') + Len(pending') >= 1
  <2>1. ~input.prefer
    BY <1>2, <1>7, InputFacts DEF Known
  <2>2. CASE IsLeaf(step)
    <3>1. Len(found') = Len(found) + 1
      BY <1>1, <1>4, <2>1, <2>2 DEF Consumes
    <3>2. Len(pending') \in Nat
      BY <1>1, <1>5
    <3> QED BY <1>4, <3>1, <3>2
  <2>3. CASE ~IsLeaf(step)
    <3>1. Len(found') = Len(found)
      BY <1>1, <1>4, <2>3 DEF Consumes
    <3>2. Len(pending') = Len(pending) + Len(Sources(step)) - 1
      BY <1>1, <1>3, <1>5
    <3>3. Len(found) + Len(pending) >= 1 \/ Len(Sources(step)) >= 2
      BY <1>1, <1>3, <1>7, <2>3 DEF UnionInv, Walking
    <3> QED BY <1>3, <1>4, <2>3, <3>1, <3>2, <3>3
  <2> QED BY <2>2, <2>3
<1> QED BY <1>1, <1>2, <1>6, <1>7 DEF UnionInv, Walking, RequestsFit, Uniting

(* Nothing is delivered by empty sequences, and nothing is in them.         *)
LEMMA NothingFacts ==
  /\ FlattenSeq(<<>>) = <<>> /\ FlattenSeq(<<>>) \o <<>> = <<>>
  /\ ToSet(<<>>) = {} /\ IsInjective(<<>>) /\ Rises(<<>>) /\ Len(<<>>) = 0
<1>1. FlattenSeq(<<>>) = <<>>
  BY DEF FlattenSeq
<1>2. <<>> \o <<>> = <<>>
  OBVIOUS
<1>3. DOMAIN <<>> = {}
  OBVIOUS
<1>4. ToSet(<<>>) = {} /\ IsInjective(<<>>) /\ Rises(<<>>)
  BY <1>3 DEF ToSet, IsInjective, Rises
<1> QED BY <1>1, <1>2, <1>4

(* The selection of one leaf begins.                                        *)
LEMMA KeepSelect == ASSUME UnionInv, Select PROVE UnionInv'
<1>1. /\ phase = "select" /\ phase' = "single" /\ IsLeaf(step) /\ input' = input
      /\ found' = <<step>> /\ rest' = <<input.native[step]>> /\ step' = step
      /\ pending' = pending /\ emitted' = emitted /\ output' = output
  BY DEF Select
<1>2. /\ Known /\ input.select /\ emitted = <<>> /\ output = <<>>
      /\ step \in DOMAIN input.operands /\ input \in Inputs
  BY <1>1 DEF UnionInv, Walking, Known
<1>3. Known'
  <2>1. <<step>> \in Seq({n \in DOMAIN input.operands : IsLeaf(n)})
    BY <1>1, <1>2
  <2>2. {n \in DOMAIN input'.operands : IsLeaf(n)'} = {n \in DOMAIN input.operands : IsLeaf(n)}
    BY <1>1 DEF IsLeaf
  <2> QED BY <1>1, <1>2, <2>1, <2>2 DEF Known
<1> PICK s \in Seq(Item) : s = input.native[step] /\ Bounded(s) /\ Distinct(s)
  BY <1>1, <1>2, LeafFacts
<1>4. DOMAIN rest' = {1} /\ rest'[1] = s /\ found'[1] = step /\ Len(found') = 1
  BY <1>1
<1>5. Delivered' = <<>>
  BY <1>1, <1>2, NothingFacts DEF Delivered
<1>6. Native'
  BY <1>1, <1>2, <1>4 DEF Native
<1>7. Selecting'
  <2>1. IsInjective(Delivered') /\ ToSet(Delivered') = {}
    BY <1>5, NothingFacts
  <2>2. input'.native[found'[1]] = s
    BY <1>1, <1>4
  <2> QED BY <1>1, <1>2, <1>4, <1>6, <2>1, <2>2 DEF Selecting
<1> QED BY <1>1, <1>2, <1>3, <1>7 DEF UnionInv, Walking, RequestsFit, Uniting

(* The walk has found the streams.                                          *)
LEMMA KeepEndWalk == ASSUME UnionInv, EndWalk PROVE UnionInv'
<1>1. /\ phase = "walk" /\ (Stops \/ Pushed(step) = <<>>) /\ found' = Collected
      /\ phase' = IF input.prefer THEN "chosen" ELSE IF Len(Collected) = 1 THEN "single" ELSE "merge"
      /\ rest' = [k \in DOMAIN Collected |-> input.streams[Collected[k]]]
      /\ coords' = [k \in DOMAIN Collected |-> <<>>]
      /\ head' = [k \in DOMAIN Collected |-> <<>>]
      /\ over' = [k \in DOMAIN Collected |-> FALSE]
      /\ input' = input /\ step' = step /\ pending' = pending /\ emitted' = emitted
      /\ output' = output
  BY DEF EndWalk
<1>2. Known /\ emitted = <<>> /\ output = <<>> /\ input \in Inputs
  BY <1>1 DEF UnionInv, Walking, Known
<1>3. /\ Len(found) \in Nat /\ Collected \in Seq({n \in DOMAIN input.operands : IsLeaf(n)})
      /\ Len(Collected) = IF Consumes(step) THEN Len(found) + 1 ELSE Len(found)
  BY <1>2, CollectedFacts
<1>4. Known'
  <2>1. {n \in DOMAIN input'.operands : IsLeaf(n)'} = {n \in DOMAIN input.operands : IsLeaf(n)}
    BY <1>1 DEF IsLeaf
  <2> QED BY <1>1, <1>2, <1>3, <2>1 DEF Known
<1>5. CASE input.prefer
  BY <1>1, <1>2, <1>4, <1>5 DEF UnionInv, Walking, RequestsFit, Uniting
<1>6. CASE ~input.prefer
  <2>1. ~Native'
    <3> SUFFICES ASSUME input.select PROVE Len(found') # 1
      BY <1>1 DEF Native
    <3>1. /\ Len(Pushed(step)) = Len(pending) + Len(Sources(step))
          /\ Len(pending) \in Nat /\ Len(Sources(step)) \in Nat
          /\ ~IsLeaf(step) => Len(Sources(step)) >= 1
      BY <1>2, PushedFacts
    <3>2. Pushed(step) = <<>>
      BY <1>1, <1>6 DEF Stops
    <3>3. Len(Pushed(step)) = 0
      BY <3>2
    <3>4. Len(pending) = 0 /\ IsLeaf(step)
      BY <3>1, <3>3
    <3>5. Len(found) + Len(pending) >= 1
      BY <1>1, <3>4 DEF UnionInv, Walking
    <3>6. Len(Collected) = Len(found) + 1
      BY <1>3, <1>6, <3>4 DEF Consumes
    <3>7. Len(found) >= 1
      BY <1>3, <3>4, <3>5
    <3> QED BY <1>1, <1>3, <3>6, <3>7
  <2>2. Delivered' = <<>>
    BY <1>1, <1>2, NothingFacts DEF Delivered
  <2>3. ASSUME NEW k \in DOMAIN found'
        PROVE  /\ InOrder(head'[k], coords'[k], rest'[k], over'[k])
               /\ Accounted(input'.streams[found'[k]], ToSet(Delivered'), head'[k], coords'[k], rest'[k])
    <3>1. /\ head'[k] = <<>> /\ coords'[k] = <<>> /\ over'[k] = FALSE
          /\ rest'[k] = input.streams[Collected[k]]
      BY <1>1, <2>3
    <3>2. Collected[k] \in DOMAIN input.operands /\ IsLeaf(Collected[k])
      BY <1>1, <1>3, <2>3
    <3> PICK s \in Seq(Item) : s = input.streams[Collected[k]] /\ Bounded(s) /\ Ascending(s)
      BY <1>2, <3>2, LeafFacts
    <3>3. ToSet(Delivered') = {} /\ ToSet(<<>>) = {} /\ Rises(<<>>) /\ Len(<<>>) = 0
      BY <2>2, NothingFacts
    <3>4. InOrder(<<>>, <<>>, s, FALSE)
      BY <3>3 DEF InOrder
    <3>5. Accounted(s, {}, <<>>, <<>>, s)
      BY <3>3 DEF Accounted, Left
    <3> QED BY <1>1, <3>1, <3>3, <3>4, <3>5
  <2>4. Rises(Delivered') /\ ToSet(Delivered') = {} /\ Len(output') = 0
    BY <1>1, <1>2, <2>2, NothingFacts
  <2>5. MaxBatch \in Nat \ {0}
    BY <1>2, InputFacts
  <2>6. phase' = "single" =>
          Len(found') = 1 /\ coords'[1] = <<>> /\ head'[1] = <<>> /\ output' = <<>>
    <3> SUFFICES ASSUME phase' = "single"
                 PROVE  Len(found') = 1 /\ coords'[1] = <<>> /\ head'[1] = <<>> /\ output' = <<>>
      OBVIOUS
    <3>1. Len(Collected) = 1
      BY <1>1, <1>6
    <3>2. 1 \in DOMAIN Collected
      BY <1>3, <3>1
    <3> QED BY <1>1, <1>2, <3>1, <3>2
  <2>7. phase' # "ended"
    BY <1>1
  <2>8. /\ DOMAIN rest' = DOMAIN found' /\ DOMAIN coords' = DOMAIN found'
        /\ DOMAIN head' = DOMAIN found' /\ DOMAIN over' = DOMAIN found'
    BY <1>1
  <2>9. Merging'
    BY <2>1, <2>3, <2>4, <2>5, <2>6, <2>7, <2>8 DEF Merging
  <2> QED BY <1>1, <1>2, <1>4, <1>6, <2>9 DEF UnionInv, Walking, RequestsFit, Uniting
<1> QED BY <1>5, <1>6

--------------------------------------------------------------------------------
(* A stream offers the next place of its request.                           *)
LEMMA StreamOffers ==
  ASSUME NEW s, NEW D, NEW c, NEW r, c # <<>>,
         InOrder(<<>>, c, r, FALSE), Accounted(s, D, <<>>, c, r)
  PROVE  InOrder(<<Head(c)>>, Tail(c), r, FALSE) /\ Accounted(s, D, <<Head(c)>>, Tail(c), r)
<1>1. c \in Seq(Nat) /\ Rises(c) /\ \A p \in ToSet(c), q \in Named(r) : p < q
  BY DEF InOrder
<1> PICK x \in Nat, u \in Seq(Nat) : x = Head(c) /\ u = Tail(c)
  BY <1>1, SetOfSplit
<1>2. ToSet(c) = {x} \union ToSet(u)
  BY <1>1, SetOfSplit
<1>3. Rises(u) /\ \A p \in ToSet(u) : x < p
  BY <1>1, RisesSplit
<1>4. <<x>> \in Seq(Nat) /\ Len(<<x>>) <= 1 /\ ToSet(<<x>>) = {x} /\ <<x>> # <<>>
  <2>1. DOMAIN <<x>> = {1} /\ <<x>>[1] = x
    OBVIOUS
  <2> QED BY <2>1 DEF ToSet
<1>5. ToSet(<<>>) = {}
  BY NothingFacts
<1>6. Left(<<x>>, u, r) = Left(<<>>, c, r)
  BY <1>2, <1>4, <1>5 DEF Left
<1>7. InOrder(<<x>>, u, r, FALSE)
  BY <1>1, <1>2, <1>3, <1>4 DEF InOrder
<1>8. Accounted(s, D, <<x>>, u, r)
  BY <1>6 DEF Accounted
<1> QED BY <1>7, <1>8

(* A stream goes to its next request.                                       *)
LEMMA StreamAdvances ==
  ASSUME NEW s, NEW D, NEW r, r # <<>>, Head(r) # Error,
         InOrder(<<>>, <<>>, r, FALSE), Accounted(s, D, <<>>, <<>>, r)
  PROVE  InOrder(<<>>, Head(r), Tail(r), FALSE) /\ Accounted(s, D, <<>>, Head(r), Tail(r))
<1>1. r \in Seq(Item) /\ Bounded(r) /\ Ascending(r)
  BY DEF InOrder
<1> PICK x \in Seq(Nat), u \in Seq(Item) : x = Head(r) /\ u = Tail(r)
  BY <1>1, StreamSplit
<1>2. /\ Named(r) = ToSet(x) \union Named(u)
      /\ Error \in ToSet(r) => Error \in ToSet(u)
      /\ Bounded(u) /\ Ascending(u) /\ Rises(x) /\ \A p \in ToSet(x), q \in Named(u) : p < q
  BY <1>1, StreamSplit
<1>3. ToSet(<<>>) = {}
  BY NothingFacts
<1>4. Left(<<>>, x, u) = Left(<<>>, <<>>, r)
  BY <1>2, <1>3 DEF Left
<1>5. InOrder(<<>>, x, u, FALSE)
  BY <1>2, <1>3 DEF InOrder
<1>6. Accounted(s, D, <<>>, x, u)
  BY <1>2, <1>4 DEF Accounted
<1> QED BY <1>5, <1>6

(* The least head m is delivered: it leaves the streams that offer it.      *)
LEMMA StreamDelivers ==
  ASSUME NEW s, NEW D, NEW h, NEW c, NEW r, NEW o, NEW m \in Nat,
         InOrder(h, c, r, o), Accounted(s, D, h, c, r),
         o \/ (h # <<>> /\ m <= h[1])
  PROVE  LET g == IF h = <<m>> THEN <<>> ELSE h
         IN InOrder(g, c, r, o) /\ Accounted(s, D \union {m}, g, c, r)
<1> DEFINE g == IF h = <<m>> THEN <<>> ELSE h
<1>1. /\ h \in Seq(Nat) /\ Len(h) <= 1 /\ c \in Seq(Nat) /\ r \in Seq(Item) /\ o \in BOOLEAN
      /\ Bounded(r) /\ Ascending(r) /\ Rises(c)
      /\ \A p \in ToSet(h), q \in ToSet(c) \union Named(r) : p < q
      /\ \A p \in ToSet(c), q \in Named(r) : p < q
      /\ o => h = <<>> /\ c = <<>> /\ r = <<>>
  BY DEF InOrder
<1>2. /\ Left(h, c, r) \subseteq Named(s)
      /\ Named(s) \subseteq D \union Left(h, c, r)
      /\ \A d \in D, p \in Left(h, c, r) : d < p
      /\ Error \in ToSet(s) => Error \in ToSet(r)
  BY DEF Accounted
<1>3. ToSet(<<>>) = {} /\ Named(<<>>) = {} /\ Len(<<>>) = 0
  BY NothingFacts DEF Named, Requests
<1>4. CASE h = <<>>
  <2>1. g = <<>> /\ o /\ Left(g, c, r) = {}
    BY <1>1, <1>3, <1>4 DEF Left
  <2>2. InOrder(g, c, r, o)
    BY <1>4, <2>1
  <2>3. Accounted(s, D \union {m}, g, c, r)
    BY <1>2, <1>4, <2>1 DEF Accounted
  <2> QED BY <2>2, <2>3
<1>5. CASE h # <<>>
  <2>1. ~o /\ m <= h[1]
    BY <1>1, <1>5
  <2>2. Len(h) = 1 /\ h[1] \in Nat /\ h = <<h[1]>>
    <3>1. Len(h) \in Nat /\ Len(h) >= 1
      BY <1>1, <1>5, LengthFacts
    <3> PICK n \in Nat : n = Len(h) /\ n >= 1 /\ n <= 1
      BY <1>1, <3>1
    <3>2. n = 1
      BY ONLY n \in Nat, n >= 1, n <= 1
    <3>3. h \in Seq(Nat) /\ Len(h) = 1
      BY <1>1, <3>2
    <3> QED BY <3>3, Single
  <2>3. ToSet(h) = {h[1]}
    <3>1. DOMAIN h = {1}
      BY <1>1, <2>2
    <3> QED BY <3>1 DEF ToSet
  <2> PICK x \in Nat : x = h[1] /\ h = <<x>> /\ ToSet(h) = {x} /\ m <= x
    BY <2>1, <2>2, <2>3
  <2>4. \A q \in ToSet(c) \union Named(r) : x < q
    BY <1>1
  <2>5. ASSUME NEW q \in ToSet(c) \union Named(r) PROVE q \in Nat
    <3>1. \A p \in ToSet(c) : p \in Nat
      BY <1>1 DEF ToSet
    <3>2. ASSUME NEW p \in Named(r) PROVE p \in Nat
      <4>1. PICK k \in Requests(r) : p \in ToSet(r[k])
        BY InNamed
      <4>2. r[k] \in Seq(Nat)
        BY <1>1 DEF Requests, Item
      <4> QED BY <4>1, <4>2 DEF ToSet
    <3> QED BY <3>1, <3>2
  <2>6. CASE m = x
    <3>1. g = <<>> /\ Left(g, c, r) = ToSet(c) \union Named(r)
          /\ Left(h, c, r) = {m} \union Left(g, c, r)
      BY <1>3, <2>6 DEF Left
    <3>2. InOrder(g, c, r, o)
      BY <1>1, <1>3, <2>1, <3>1 DEF InOrder
    <3>3. Accounted(s, D \union {m}, g, c, r)
      BY <1>2, <2>4, <2>6, <3>1 DEF Accounted
    <3> QED BY <3>2, <3>3
  <2>7. CASE m # x
    <3>1. g = h /\ m < x
      <4>1. <<m>> # <<x>>
        BY <2>7
      <4>2. m < x
        BY <2>7
      <4> QED BY <4>1, <4>2
    <3>2. \A p \in Left(h, c, r) : m < p
      <4>1. \A q \in ToSet(c) \union Named(r) : m < q
        BY <2>4, <2>5, <3>1
      <4> QED BY <3>1, <4>1 DEF Left
    <3>3. InOrder(g, c, r, o)
      BY <3>1
    <3>4. Accounted(s, D \union {m}, g, c, r)
      BY <1>2, <3>1, <3>2 DEF Accounted
    <3> QED BY <3>3, <3>4
  <2> QED BY <2>6, <2>7
<1> QED BY <1>4, <1>5

(* What stays the same while streams are merged.                            *)
LEMMA MergeFacts ==
  ASSUME UnionInv, phase = "merge"
  PROVE  /\ Merging /\ Known /\ RequestsFit
         /\ MaxBatch \in Nat \ {0}
         /\ DOMAIN found = 1..Len(found) /\ Streams = DOMAIN found
         /\ FlattenSeq(emitted) \in Seq(Nat) /\ Delivered \in Seq(Nat)
<1>1. Merging /\ Known /\ RequestsFit
  BY DEF UnionInv, Uniting, Selecting
<1>2. MaxBatch \in Nat \ {0}
  BY <1>1, InputFacts DEF Known
<1>3. emitted \in Seq(Seq(Nat)) /\ output \in Seq(Nat)
  BY <1>1 DEF Known
<1>4. FlattenSeq(emitted) \in Seq(Nat)
  BY <1>3, FlattenAppend
<1>5. Delivered \in Seq(Nat)
  BY <1>3, <1>4 DEF Delivered
<1>6. DOMAIN found = 1..Len(found)
  BY <1>1 DEF Known
<1>7. Streams = DOMAIN found
  BY <1>1 DEF Merging, Streams
<1> QED BY <1>1, <1>2, <1>4, <1>5, <1>6, <1>7

(* What is known stays so while streams are merged.                         *)
LEMMA KnownKept ==
  ASSUME Known, input' = input, walking' = walking,
         emitted' \in Seq(Seq(Nat)), output' \in Seq(Nat)
  PROVE  Known' /\ found' = found /\ Native' = Native
<1>1. step' = step /\ pending' = pending /\ found' = found
  BY DEF walking
<1>2. {n \in DOMAIN input'.operands : IsLeaf(n)'} = {n \in DOMAIN input.operands : IsLeaf(n)}
  BY DEF IsLeaf
<1>3. Known'
  BY <1>1, <1>2 DEF Known
<1> QED BY <1>1, <1>3 DEF Native

(* Something fails, whenever it does.                                       *)
LEMMA KeepFailed ==
  ASSUME UnionInv, phase' = "failed", input' = input, walking' = walking, merging' = merging
  PROVE  UnionInv'
<1>1. /\ rest' = rest /\ coords' = coords /\ head' = head /\ over' = over
      /\ output' = output /\ emitted' = emitted
  BY DEF merging
<1>2. emitted \in Seq(Seq(Nat)) /\ output \in Seq(Nat)
  BY DEF UnionInv, Known
<1>3. Known' /\ found' = found /\ Native' = Native /\ Delivered' = Delivered
  BY <1>1, <1>2, KnownKept DEF UnionInv, Delivered
<1>4. Walking' /\ RequestsFit'
  BY <1>1 DEF UnionInv, Walking, RequestsFit
<1>5. Merging => Merging'
  BY <1>1, <1>3 DEF Merging
<1>6. Selecting => Selecting'
  BY <1>1, <1>3 DEF Selecting
<1>7. Uniting'
  BY <1>1, <1>5, <1>6 DEF UnionInv, Uniting
<1> QED BY <1>3, <1>4, <1>7 DEF UnionInv

(* One stream is asked for its next place.                                  *)
LEMMA KeepOneStream ==
  ASSUME UnionInv, phase = "merge", phase' = "merge", NEW k \in Streams,
         input' = input, walking' = walking, output' = output, emitted' = emitted,
         DOMAIN rest' = DOMAIN rest, DOMAIN coords' = DOMAIN coords,
         DOMAIN head' = DOMAIN head, DOMAIN over' = DOMAIN over,
         \A j \in Streams : j # k =>
           rest'[j] = rest[j] /\ coords'[j] = coords[j] /\ head'[j] = head[j] /\ over'[j] = over[j],
         InOrder(head'[k], coords'[k], rest'[k], over'[k]),
         Accounted(input.streams[found[k]], ToSet(Delivered), head'[k], coords'[k], rest'[k])
  PROVE  UnionInv'
<1>1. Merging /\ Known /\ RequestsFit /\ Streams = DOMAIN found
  BY MergeFacts
<1>2. emitted \in Seq(Seq(Nat)) /\ output \in Seq(Nat)
  BY <1>1 DEF Known
<1>3. Known' /\ found' = found /\ Native' = Native /\ Delivered' = Delivered
  BY <1>1, <1>2, KnownKept DEF Delivered
<1>4. ASSUME NEW j \in DOMAIN found
      PROVE  /\ InOrder(head'[j], coords'[j], rest'[j], over'[j])
             /\ Accounted(input.streams[found[j]], ToSet(Delivered), head'[j], coords'[j], rest'[j])
  <2>1. CASE j = k
    BY <2>1
  <2>2. CASE j # k
    <3>1. /\ rest'[j] = rest[j] /\ coords'[j] = coords[j]
          /\ head'[j] = head[j] /\ over'[j] = over[j]
      BY <1>1, <1>4, <2>2
    <3>2. /\ InOrder(head[j], coords[j], rest[j], over[j])
          /\ Accounted(input.streams[found[j]], ToSet(Delivered), head[j], coords[j], rest[j])
      BY <1>1, <1>4 DEF Merging
    <3> QED BY <3>1, <3>2
  <2> QED BY <2>1, <2>2
<1>5. Merging'
  BY <1>1, <1>3, <1>4 DEF Merging
<1>6. Walking' /\ RequestsFit'
  BY <1>1 DEF Walking, RequestsFit
<1> QED BY <1>3, <1>5, <1>6 DEF UnionInv, Uniting

(* What a stream holds that is asked for its next place.                    *)
LEMMA WantingFacts ==
  ASSUME UnionInv, NEW k \in Streams, Wanting(k)
  PROVE  /\ phase = "merge" /\ head[k] = <<>> /\ over[k] = FALSE
         /\ k \in DOMAIN rest /\ k \in DOMAIN coords /\ k \in DOMAIN head /\ k \in DOMAIN over
         /\ InOrder(<<>>, coords[k], rest[k], FALSE)
         /\ Accounted(input.streams[found[k]], ToSet(Delivered), <<>>, coords[k], rest[k])
<1>1. phase = "merge" /\ head[k] = <<>> /\ ~over[k]
  BY DEF Wanting
<1>2. Merging /\ Streams = DOMAIN found
  BY <1>1, MergeFacts
<1>3. /\ InOrder(head[k], coords[k], rest[k], over[k])
      /\ Accounted(input.streams[found[k]], ToSet(Delivered), head[k], coords[k], rest[k])
  BY <1>2 DEF Merging
<1>4. over[k] = FALSE
  BY <1>1, <1>3 DEF InOrder
<1>5. k \in DOMAIN rest /\ k \in DOMAIN coords /\ k \in DOMAIN head /\ k \in DOMAIN over
  BY <1>2 DEF Merging
<1> QED BY <1>1, <1>3, <1>4, <1>5

(* A stream offers the next place of its request.                           *)
LEMMA KeepNextPosition ==
  ASSUME UnionInv, NEW k \in Streams, NextPosition(k)
  PROVE  UnionInv'
<1>1. /\ Wanting(k) /\ coords[k] # <<>>
      /\ head' = [head EXCEPT ![k] = <<Head(coords[k])>>]
      /\ coords' = [coords EXCEPT ![k] = Tail(coords[k])]
      /\ phase' = phase /\ input' = input /\ walking' = walking
      /\ rest' = rest /\ over' = over /\ output' = output /\ emitted' = emitted
  BY DEF NextPosition
<1>2. /\ phase = "merge" /\ over[k] = FALSE /\ k \in DOMAIN coords /\ k \in DOMAIN head
      /\ InOrder(<<>>, coords[k], rest[k], FALSE)
      /\ Accounted(input.streams[found[k]], ToSet(Delivered), <<>>, coords[k], rest[k])
  BY <1>1, WantingFacts
<1>3. /\ head'[k] = <<Head(coords[k])>> /\ coords'[k] = Tail(coords[k])
      /\ DOMAIN head' = DOMAIN head /\ DOMAIN coords' = DOMAIN coords
      /\ \A j \in Streams : j # k => coords'[j] = coords[j] /\ head'[j] = head[j]
  <2>1. Streams = DOMAIN coords /\ Streams = DOMAIN head
    BY <1>2, MergeFacts DEF Merging
  <2>2. /\ head' = [head EXCEPT ![k] = <<Head(coords[k])>>]
        /\ coords' = [coords EXCEPT ![k] = Tail(coords[k])]
    BY <1>1
  <2> QED BY ONLY k \in Streams, <2>1, <2>2
<1>4. /\ InOrder(head'[k], coords'[k], rest'[k], over'[k])
      /\ Accounted(input.streams[found[k]], ToSet(Delivered), head'[k], coords'[k], rest'[k])
  <2>1. /\ InOrder(<<Head(coords[k])>>, Tail(coords[k]), rest[k], FALSE)
        /\ Accounted(input.streams[found[k]], ToSet(Delivered), <<Head(coords[k])>>, Tail(coords[k]), rest[k])
    BY <1>1, <1>2, StreamOffers
  <2>2. Delivered' = Delivered /\ found' = found
    BY <1>1 DEF Delivered, walking
  <2> QED BY ONLY <1>1, <1>2, <1>3, <2>1, <2>2
<1> QED BY <1>1, <1>2, <1>3, <1>4, KeepOneStream

(* A stream goes to its next request, or fails.                             *)
LEMMA KeepNextRequest ==
  ASSUME UnionInv, NEW k \in Streams, NextRequest(k)
  PROVE  UnionInv'
<1>1. /\ Wanting(k) /\ coords[k] = <<>> /\ rest[k] # <<>>
      /\ input' = input /\ walking' = walking
      /\ head' = head /\ over' = over /\ output' = output /\ emitted' = emitted
  BY DEF NextRequest
<1>2. CASE Head(rest[k]) = Error
  <2>1. phase' = "failed" /\ merging' = merging
    BY <1>1, <1>2 DEF NextRequest, merging
  <2> QED BY <1>1, <2>1, KeepFailed
<1>3. CASE Head(rest[k]) # Error
  <2>1. /\ coords' = [coords EXCEPT ![k] = Head(rest[k])]
        /\ rest' = [rest EXCEPT ![k] = Tail(rest[k])] /\ phase' = phase
    BY <1>3 DEF NextRequest
  <2>2. /\ phase = "merge" /\ over[k] = FALSE /\ head[k] = <<>>
        /\ k \in DOMAIN coords /\ k \in DOMAIN rest
        /\ InOrder(<<>>, <<>>, rest[k], FALSE)
        /\ Accounted(input.streams[found[k]], ToSet(Delivered), <<>>, <<>>, rest[k])
    BY <1>1, WantingFacts
  <2>3. /\ coords'[k] = Head(rest[k]) /\ rest'[k] = Tail(rest[k])
        /\ DOMAIN rest' = DOMAIN rest /\ DOMAIN coords' = DOMAIN coords
        /\ \A j \in Streams : j # k => coords'[j] = coords[j] /\ rest'[j] = rest[j]
    <3>1. Streams = DOMAIN coords /\ Streams = DOMAIN rest
      BY <2>2, MergeFacts DEF Merging
    <3> QED BY <2>1, <2>2, <3>1
  <2>4. /\ InOrder(head'[k], coords'[k], rest'[k], over'[k])
        /\ Accounted(input.streams[found[k]], ToSet(Delivered), head'[k], coords'[k], rest'[k])
    BY <1>1, <1>3, <2>2, <2>3, StreamAdvances
  <2> QED BY <1>1, <2>1, <2>2, <2>3, <2>4, KeepOneStream
<1> QED BY <1>2, <1>3

(* A stream ends.                                                           *)
LEMMA KeepEndStream ==
  ASSUME UnionInv, NEW k \in Streams, EndStream(k)
  PROVE  UnionInv'
<1>1. /\ Wanting(k) /\ coords[k] = <<>> /\ rest[k] = <<>>
      /\ over' = [over EXCEPT ![k] = TRUE]
      /\ phase' = phase /\ input' = input /\ walking' = walking /\ rest' = rest
      /\ coords' = coords /\ head' = head /\ output' = output /\ emitted' = emitted
  BY DEF EndStream
<1>2. /\ phase = "merge" /\ head[k] = <<>> /\ k \in DOMAIN over
      /\ InOrder(<<>>, <<>>, <<>>, FALSE)
      /\ Accounted(input.streams[found[k]], ToSet(Delivered), <<>>, <<>>, <<>>)
  BY <1>1, WantingFacts
<1>3. /\ over'[k] = TRUE /\ DOMAIN over' = DOMAIN over
      /\ \A j \in Streams : j # k => over'[j] = over[j]
  <2>1. Streams = DOMAIN over
    BY <1>2, MergeFacts DEF Merging
  <2> QED BY <1>1, <1>2, <2>1
<1>4. InOrder(<<>>, <<>>, <<>>, TRUE)
  BY <1>2 DEF InOrder
<1>5. /\ InOrder(head'[k], coords'[k], rest'[k], over'[k])
      /\ Accounted(input.streams[found[k]], ToSet(Delivered), head'[k], coords'[k], rest'[k])
  BY <1>1, <1>2, <1>3, <1>4
<1> QED BY <1>1, <1>2, <1>3, <1>5, KeepOneStream

(* The heads that are offered are numbers.                                  *)
LEMMA OfferedFacts ==
  ASSUME UnionInv, phase = "merge"
  PROVE  /\ Offered \in SUBSET Nat
         /\ \A k \in Streams : head[k] # <<>> => head[k][1] \in Offered /\ head[k][1] \in ToSet(head[k])
<1>1. Merging /\ Streams = DOMAIN found
  BY MergeFacts
<1>2. ASSUME NEW k \in Streams, head[k] # <<>>
      PROVE  head[k][1] \in Nat /\ head[k][1] \in ToSet(head[k])
  <2>1. InOrder(head[k], coords[k], rest[k], over[k])
    BY <1>1 DEF Merging
  <2> PICK h \in Seq(Nat) : h = head[k]
    BY <2>1 DEF InOrder
  <2>2. h # <<>>
    BY <1>2
  <2>3. h[1] \in Nat /\ 1 \in DOMAIN h
    BY <2>2, SetOfSplit
  <2> QED BY <2>3 DEF ToSet
<1>3. \A k \in Streams : head[k] # <<>> => head[k][1] \in Offered
  BY DEF Offered
<1>4. Offered \in SUBSET Nat
  BY <1>2 DEF Offered
<1> QED BY <1>2, <1>3, <1>4

(* The least head is delivered.                                             *)
LEMMA KeepDeliver == ASSUME UnionInv, Deliver PROVE UnionInv'
<1>1. /\ phase = "merge" /\ ~Full /\ AllHeads /\ Offered # {}
      /\ output' = Append(output, Min(Offered))
      /\ head' = [k \in Streams |-> IF head[k] = <<Min(Offered)>> THEN <<>> ELSE head[k]]
      /\ input' = input /\ phase' = phase /\ walking' = walking
      /\ rest' = rest /\ coords' = coords /\ over' = over /\ emitted' = emitted
  BY DEF Deliver
<1>2. /\ Merging /\ Known /\ RequestsFit /\ MaxBatch \in Nat \ {0} /\ Streams = DOMAIN found
      /\ FlattenSeq(emitted) \in Seq(Nat) /\ Delivered \in Seq(Nat)
      /\ emitted \in Seq(Seq(Nat)) /\ output \in Seq(Nat)
  BY <1>1, MergeFacts DEF Known
<1> PICK m \in Nat : m = Min(Offered) /\ m \in Offered /\ \A y \in Offered : m <= y
  <2>1. Offered \in SUBSET Nat
    BY <1>1, OfferedFacts
  <2>2. \E x \in Offered : \A y \in Offered : x <= y
    BY <1>1, <2>1, LeastNumber
  <2>3. Min(Offered) \in Offered /\ \A y \in Offered : Min(Offered) <= y
    BY <2>2 DEF Min
  <2> QED BY <2>1, <2>3
<1> PICK a \in Streams : head[a] # <<>> /\ m = head[a][1]
  BY DEF Offered
<1>3. /\ m \in Named(input.streams[found[a]]) /\ \A d \in ToSet(Delivered) : d < m
  <2>1. m \in Left(head[a], coords[a], rest[a])
    BY <1>1, OfferedFacts DEF Left
  <2>2. Accounted(input.streams[found[a]], ToSet(Delivered), head[a], coords[a], rest[a])
    BY <1>2 DEF Merging
  <2> QED BY <2>1, <2>2 DEF Accounted
<1>4. Delivered' = Delivered \o <<m>>
  <2> PICK e \in Seq(Nat), w \in Seq(Nat) : e = FlattenSeq(emitted) /\ w = output
    BY <1>2
  <2>1. Delivered = e \o w /\ Delivered' = e \o Append(w, m)
    BY <1>1 DEF Delivered
  <2>2. e \o Append(w, m) = (e \o w) \o <<m>>
    BY ONLY e \in Seq(Nat), w \in Seq(Nat), m \in Nat, AppendLast
  <2> QED BY <2>1, <2>2
<1>5. Rises(Delivered') /\ ToSet(Delivered') = ToSet(Delivered) \union {m}
  <2> PICK d \in Seq(Nat) : d = Delivered
    BY <1>2
  <2> PICK t : t = <<m>>
    OBVIOUS
  <2> t \in Seq(Nat) /\ DOMAIN t = {1} /\ t[1] = m
    BY ONLY m \in Nat, t = <<m>>
  <2>1. ToSet(t) = {m} /\ Rises(t)
    BY DEF ToSet, Rises
  <2>2. Rises(d) /\ \A p \in ToSet(d), q \in ToSet(t) : p < q
    BY <1>2, <1>3, <2>1 DEF Merging
  <2>3. d \in Seq(Nat) /\ t \in Seq(Nat)
    OBVIOUS
  <2>4. Rises(d \o t)
    BY ONLY <2>1, <2>2, <2>3, RisesConcat
  <2>5. ToSet(d \o t) = ToSet(d) \union {m}
    <3>1. ToSet(d \o t) = ToSet(d) \union ToSet(t)
      BY ONLY <2>3, SetOfConcat
    <3> QED BY <2>1, <3>1
  <2> QED BY <1>4, <2>4, <2>5
<1>6. output' \in Seq(Nat) /\ Len(output') <= MaxBatch
  <2> PICK w \in Seq(Nat) : w = output
    BY <1>2
  <2>1. Len(output') = Len(output) + 1 /\ output' \in Seq(Nat) /\ Len(output) \in Nat
    <3>1. Len(Append(w, m)) = Len(w) + 1 /\ Append(w, m) \in Seq(Nat) /\ Len(w) \in Nat
      OBVIOUS
    <3> QED BY <1>1, <3>1
  <2>2. Len(output) <= MaxBatch /\ Len(output) # MaxBatch
    BY <1>1, <1>2 DEF Merging, Full
  <2> PICK n \in Nat : n = Len(output)
    BY <2>1
  <2>3. n + 1 <= MaxBatch
    BY <1>2, <2>2
  <2> QED BY <2>1, <2>3
<1>7. Known' /\ found' = found /\ Native' = Native
  BY <1>1, <1>2, <1>6, KnownKept
<1>8. ASSUME NEW k \in DOMAIN found
      PROVE  /\ InOrder(head'[k], coords'[k], rest'[k], over'[k])
             /\ Accounted(input.streams[found[k]], ToSet(Delivered'), head'[k], coords'[k], rest'[k])
  <2>1. /\ InOrder(head[k], coords[k], rest[k], over[k])
        /\ Accounted(input.streams[found[k]], ToSet(Delivered), head[k], coords[k], rest[k])
    BY <1>2, <1>8 DEF Merging
  <2>2. over[k] \/ (head[k] # <<>> /\ m <= head[k][1])
    BY <1>1, <1>2, <1>8, OfferedFacts DEF AllHeads
  <2>3. head'[k] = IF head[k] = <<m>> THEN <<>> ELSE head[k]
    BY <1>1, <1>2, <1>8
  <2> PICK i, D, h, c, q, o :
             /\ i = input.streams[found[k]] /\ D = ToSet(Delivered)
             /\ h = head[k] /\ c = coords[k] /\ q = rest[k] /\ o = over[k]
    OBVIOUS
  <2> DEFINE g == IF h = <<m>> THEN <<>> ELSE h
  <2>4. InOrder(g, c, q, o) /\ Accounted(i, D \union {m}, g, c, q)
    <3>1. InOrder(h, c, q, o) /\ Accounted(i, D, h, c, q) /\ (o \/ (h # <<>> /\ m <= h[1]))
      BY <2>1, <2>2
    <3> QED BY ONLY <3>1, m \in Nat, StreamDelivers, Zenon
  <2>5. head'[k] = g
    BY <2>3
  <2> QED BY <1>1, <1>5, <2>4, <2>5
<1>9. \A d \in ToSet(Delivered') : \E k \in DOMAIN found : d \in Named(input.streams[found[k]])
  BY <1>2, <1>3, <1>5 DEF Merging
<1>10. DOMAIN head' = DOMAIN found
  BY <1>1, <1>2
<1>11. Merging'
  BY <1>1, <1>2, <1>5, <1>6, <1>7, <1>8, <1>9, <1>10 DEF Merging
<1>12. Walking' /\ RequestsFit'
  BY <1>1, <1>2 DEF Walking, RequestsFit
<1> QED BY <1>7, <1>11, <1>12 DEF UnionInv, Uniting

(* One more request of the right size fits as well.                         *)
LEMMA FitsAppend ==
  ASSUME NEW s \in Seq(Seq(Nat)), NEW t \in Seq(Nat), Len(t) \in 1..MaxBatch,
         \A k \in DOMAIN s : Len(s[k]) \in 1..MaxBatch
  PROVE  \A k \in DOMAIN Append(s, t) : Len(Append(s, t)[k]) \in 1..MaxBatch
<1> PICK n \in Nat : n = Len(s) /\ DOMAIN s = 1..n
  OBVIOUS
<1>1. /\ DOMAIN Append(s, t) = 1..(n + 1) /\ Append(s, t)[n + 1] = t
      /\ \A k \in 1..n : Append(s, t)[k] = s[k]
  OBVIOUS
<1> SUFFICES ASSUME NEW k \in 1..(n + 1) PROVE Len(Append(s, t)[k]) \in 1..MaxBatch
  BY <1>1
<1>2. CASE k = n + 1
  BY <1>1, <1>2
<1>3. CASE k # n + 1
  <2>1. k \in 1..n
    BY ONLY <1>3, n \in Nat, k \in 1..(n + 1)
  <2> QED BY <1>1, <2>1
<1> QED BY <1>2, <1>3

(* A request is handed on.                                                  *)
LEMMA KeepEmit == ASSUME UnionInv, Emit PROVE UnionInv'
<1>1. /\ emitted' = Append(emitted, output) /\ output' = <<>>
      /\ input' = input /\ phase' = phase /\ walking' = walking
      /\ rest' = rest /\ coords' = coords /\ head' = head /\ over' = over
  BY DEF Emit
<1>2. /\ phase = "merge"
      /\ Merging /\ Known /\ RequestsFit /\ MaxBatch \in Nat \ {0}
      /\ FlattenSeq(emitted) \in Seq(Nat) /\ Delivered \in Seq(Nat)
      /\ emitted \in Seq(Seq(Nat)) /\ output \in Seq(Nat)
  BY MergeFacts DEF Known, Emit
<1>3. Len(output) \in 1..MaxBatch
  <2>1. Len(output) \in Nat /\ Len(output) <= MaxBatch
    BY <1>2, LengthFacts DEF Merging
  <2>2. output # <<>> => Len(output) >= 1
    BY <1>2, LengthFacts
  <2>3. Full => Len(output) = MaxBatch
    BY DEF Full
  <2>4. Full \/ output # <<>>
    BY DEF Emit
  <2> QED BY <1>2, <2>1, <2>2, <2>3, <2>4
<1>4. emitted' \in Seq(Seq(Nat)) /\ output' \in Seq(Nat)
  BY <1>1, <1>2
<1>5. Known' /\ found' = found /\ Native' = Native
  BY <1>1, <1>2, <1>4, KnownKept
<1>6. Delivered' = Delivered
  <2>1. FlattenSeq(Append(emitted, output)) = FlattenSeq(emitted) \o output
    BY <1>2, FlattenAppend
  <2>2. Delivered' = Delivered \o <<>>
    BY <1>1, <2>1 DEF Delivered
  <2>3. Delivered \o <<>> = Delivered
    BY <1>2
  <2> QED BY <2>2, <2>3
<1>7. RequestsFit'
  BY <1>1, <1>2, <1>3, FitsAppend DEF RequestsFit
<1>8. Len(output') <= MaxBatch
  BY <1>1, <1>2, NothingFacts
<1>9. Merging'
  BY <1>1, <1>2, <1>5, <1>6, <1>8 DEF Merging
<1>10. Walking'
  BY <1>1, <1>2 DEF Walking
<1> QED BY <1>5, <1>7, <1>9, <1>10 DEF UnionInv, Uniting

(* The union ends when every stream has.                                    *)
LEMMA KeepEnd == ASSUME UnionInv, End PROVE UnionInv'
<1>1. /\ phase = "merge" /\ AllHeads /\ Offered = {} /\ phase' = "ended"
      /\ input' = input /\ walking' = walking /\ merging' = merging
  BY DEF End
<1>2. /\ rest' = rest /\ coords' = coords /\ head' = head /\ over' = over
      /\ output' = output /\ emitted' = emitted
  BY <1>1 DEF merging
<1>3. /\ Merging /\ Known /\ RequestsFit /\ Streams = DOMAIN found
      /\ emitted \in Seq(Seq(Nat)) /\ output \in Seq(Nat)
  BY <1>1, MergeFacts DEF Known
<1>4. Known' /\ found' = found /\ Native' = Native /\ Delivered' = Delivered
  BY <1>1, <1>2, <1>3, KnownKept DEF Delivered
<1>5. ASSUME NEW k \in DOMAIN found
      PROVE  Left(head[k], coords[k], rest[k]) = {} /\ rest[k] = <<>>
  <2>1. head[k] = <<>>
    BY <1>1, <1>3, <1>5, OfferedFacts
  <2>2. over[k]
    BY <1>1, <1>3, <1>5, <2>1 DEF AllHeads
  <2>3. InOrder(head[k], coords[k], rest[k], over[k])
    BY <1>3, <1>5 DEF Merging
  <2>4. coords[k] = <<>> /\ rest[k] = <<>>
    BY <2>2, <2>3 DEF InOrder
  <2>5. ToSet(<<>>) = {} /\ Named(<<>>) = {}
    BY NothingFacts DEF Named, Requests
  <2> QED BY <2>1, <2>4, <2>5 DEF Left
<1>6. Merging'
  BY <1>1, <1>2, <1>3, <1>4, <1>5 DEF Merging
<1>7. Walking' /\ RequestsFit'
  BY <1>1, <1>2, <1>3 DEF Walking, RequestsFit
<1> QED BY <1>4, <1>6, <1>7 DEF UnionInv, Uniting

(* A stream hands its next request on.                                      *)
LEMMA StreamForwards ==
  ASSUME NEW s, NEW D, NEW r, NEW o, r # <<>>, Head(r) # Error,
         InOrder(<<>>, <<>>, r, o), Accounted(s, D, <<>>, <<>>, r)
  PROVE  /\ InOrder(<<>>, <<>>, Tail(r), o)
         /\ Accounted(s, D \union ToSet(Head(r)), <<>>, <<>>, Tail(r))
         /\ ToSet(Head(r)) \subseteq Named(s)
         /\ Rises(Head(r)) /\ \A d \in D, p \in ToSet(Head(r)) : d < p
<1>1. r \in Seq(Item) /\ Bounded(r) /\ Ascending(r) /\ ~o /\ o \in BOOLEAN
  BY DEF InOrder
<1> PICK x \in Seq(Nat), u \in Seq(Item) : x = Head(r) /\ u = Tail(r)
  BY <1>1, StreamSplit
<1>2. /\ Named(r) = ToSet(x) \union Named(u)
      /\ Error \in ToSet(r) => Error \in ToSet(u)
      /\ Bounded(u) /\ Ascending(u) /\ Rises(x)
      /\ \A p \in ToSet(x), q \in Named(u) : p < q
  BY <1>1, StreamSplit
<1>3. ToSet(<<>>) = {} /\ Rises(<<>>) /\ Len(<<>>) = 0
  BY NothingFacts
<1>4. Left(<<>>, <<>>, r) = Named(r) /\ Left(<<>>, <<>>, u) = Named(u)
  BY <1>3 DEF Left
<1>5. InOrder(<<>>, <<>>, u, o)
  BY <1>1, <1>2, <1>3 DEF InOrder
<1>6. Accounted(s, D \union ToSet(x), <<>>, <<>>, u)
  BY <1>2, <1>4 DEF Accounted
<1>7. ToSet(x) \subseteq Named(s) /\ \A d \in D, p \in ToSet(x) : d < p
  BY <1>2, <1>4 DEF Accounted
<1> QED BY <1>2, <1>5, <1>6, <1>7

(* The single stream of a walk hands a request on.                          *)
LEMMA ForwardMerging ==
  ASSUME Known, Merging, Forward, rest[1] # <<>>, Head(rest[1]) # Error,
         NEW x \in Seq(Nat), x = Head(rest[1]), Delivered \in Seq(Nat),
         Delivered' = Delivered \o x, found' = found, Native' = Native
  PROVE  Merging'
<1>1. /\ phase = "single" /\ phase' = phase /\ rest' = [rest EXCEPT ![1] = Tail(rest[1])]
      /\ input' = input /\ coords' = coords /\ head' = head /\ over' = over /\ output' = output
  BY DEF Forward
<1>2. Len(found) = 1 /\ coords[1] = <<>> /\ head[1] = <<>> /\ output = <<>>
  BY <1>1 DEF Merging
<1>3. DOMAIN found = {1}
  BY <1>2 DEF Known
<1>4. DOMAIN rest' = DOMAIN rest /\ rest'[1] = Tail(rest[1])
  BY <1>1, <1>3 DEF Merging
<1>5. /\ InOrder(<<>>, <<>>, rest[1], over[1])
      /\ Accounted(input.streams[found[1]], ToSet(Delivered), <<>>, <<>>, rest[1])
  BY <1>2, <1>3 DEF Merging
<1>6. /\ InOrder(<<>>, <<>>, rest'[1], over[1])
      /\ Accounted(input.streams[found[1]], ToSet(Delivered) \union ToSet(x), <<>>, <<>>, rest'[1])
      /\ ToSet(x) \subseteq Named(input.streams[found[1]])
      /\ Rises(x) /\ \A d \in ToSet(Delivered), p \in ToSet(x) : d < p
  BY <1>4, <1>5, StreamForwards
<1>7. Rises(Delivered') /\ ToSet(Delivered') = ToSet(Delivered) \union ToSet(x)
  <2> PICK d \in Seq(Nat) : d = Delivered
    OBVIOUS
  <2>1. Rises(d) /\ Rises(x) /\ \A p \in ToSet(d), q \in ToSet(x) : p < q
    BY <1>6 DEF Merging
  <2>2. Rises(d \o x)
    BY ONLY d \in Seq(Nat), x \in Seq(Nat), <2>1, RisesConcat
  <2>3. ToSet(d \o x) = ToSet(d) \union ToSet(x)
    BY ONLY d \in Seq(Nat), x \in Seq(Nat), SetOfConcat
  <2> QED BY <2>2, <2>3
<1>8. \A k \in DOMAIN found :
        /\ InOrder(head'[k], coords'[k], rest'[k], over'[k])
        /\ Accounted(input'.streams[found'[k]], ToSet(Delivered'), head'[k], coords'[k], rest'[k])
  BY <1>1, <1>2, <1>3, <1>6, <1>7
<1>9. \A d \in ToSet(Delivered') : \E k \in DOMAIN found : d \in Named(input.streams[found[k]])
  BY <1>3, <1>6, <1>7 DEF Merging
<1> QED BY <1>1, <1>4, <1>7, <1>8, <1>9 DEF Merging

(* The stream of a selection does.                                          *)
LEMMA ForwardSelecting ==
  ASSUME Known, Selecting, Forward, rest[1] # <<>>, Head(rest[1]) # Error,
         NEW x \in Seq(Nat), x = Head(rest[1]), Delivered \in Seq(Nat),
         Delivered' = Delivered \o x, found' = found, Native' = Native
  PROVE  Selecting'
<1>1. /\ phase = "single" /\ phase' = phase /\ rest' = [rest EXCEPT ![1] = Tail(rest[1])]
      /\ input' = input /\ output' = output
  BY DEF Forward
<1>2. /\ Native /\ output = <<>> /\ DOMAIN rest = {1}
      /\ rest[1] \in Seq(Item) /\ Bounded(rest[1]) /\ Distinct(rest[1])
      /\ IsInjective(Delivered) /\ ToSet(Delivered) \intersect Named(rest[1]) = {}
      /\ Named(input.native[found[1]]) = ToSet(Delivered) \union Named(rest[1])
      /\ Error \in ToSet(input.native[found[1]]) => Error \in ToSet(rest[1])
  BY DEF Selecting
<1> PICK u : u = Tail(rest[1])
  OBVIOUS
<1>3. DOMAIN rest' = {1} /\ rest'[1] = u
  BY <1>1, <1>2
<1>4. /\ u \in Seq(Item) /\ Bounded(u) /\ Distinct(u)
      /\ Named(rest[1]) = ToSet(x) \union Named(u)
      /\ Error \in ToSet(rest[1]) => Error \in ToSet(u)
      /\ IsInjective(x) /\ ToSet(x) \intersect Named(u) = {}
  BY <1>2, StreamSplit
<1> PICK d \in Seq(Nat) : d = Delivered
  OBVIOUS
<1>5. IsInjective(d \o x)
  <2>1. ToSet(d) \intersect ToSet(x) = {}
    BY <1>2, <1>4
  <2>2. IsInjective(d) /\ IsInjective(x)
    BY <1>2, <1>4
  <2> QED BY ONLY d \in Seq(Nat), x \in Seq(Nat), <2>1, <2>2, InjectiveConcat
<1>6. ToSet(d \o x) = ToSet(d) \union ToSet(x)
  BY ONLY d \in Seq(Nat), x \in Seq(Nat), SetOfConcat
<1>7. /\ IsInjective(Delivered') /\ ToSet(Delivered') \intersect Named(u) = {}
      /\ Named(input.native[found[1]]) = ToSet(Delivered') \union Named(u)
  BY <1>2, <1>4, <1>5, <1>6
<1>8. Error \in ToSet(input.native[found[1]]) => Error \in ToSet(u)
  BY <1>2, <1>4
<1> QED BY <1>1, <1>2, <1>3, <1>4, <1>7, <1>8 DEF Selecting

(* The single stream hands a request on, fails or ends.                     *)
LEMMA KeepForward == ASSUME UnionInv, Forward PROVE UnionInv'
<1>1. /\ phase = "single" /\ input' = input /\ walking' = walking
      /\ coords' = coords /\ head' = head /\ over' = over /\ output' = output
  BY DEF Forward
<1>2. /\ Known /\ RequestsFit /\ (Merging \/ Selecting)
      /\ emitted \in Seq(Seq(Nat)) /\ output \in Seq(Nat) /\ output = <<>>
  BY <1>1 DEF UnionInv, Uniting, Known, Merging, Selecting
<1>3. CASE rest[1] = <<>>
  <2>1. phase' = "ended" /\ rest' = rest /\ emitted' = emitted
    BY <1>3 DEF Forward
  <2>2. Known' /\ found' = found /\ Native' = Native /\ Delivered' = Delivered
    BY <1>1, <1>2, <2>1, KnownKept DEF Delivered
  <2>3. ASSUME Merging PROVE Merging'
    <3>1. Len(found) = 1 /\ coords[1] = <<>> /\ head[1] = <<>>
      BY <1>1, <2>3 DEF Merging
    <3>2. DOMAIN found = {1}
      BY <1>2, <3>1 DEF Known
    <3>3. ToSet(<<>>) = {} /\ Named(<<>>) = {}
      BY NothingFacts DEF Named, Requests
    <3>4. \A k \in DOMAIN found : Left(head[k], coords[k], rest[k]) = {} /\ rest[k] = <<>>
      BY <1>3, <3>1, <3>2, <3>3 DEF Left
    <3> QED BY <1>1, <2>1, <2>2, <2>3, <3>4 DEF Merging
  <2>4. ASSUME Selecting PROVE Selecting'
    BY <1>1, <1>3, <2>1, <2>2, <2>4 DEF Selecting
  <2>5. Walking' /\ RequestsFit'
    BY <1>2, <2>1 DEF Walking, RequestsFit
  <2> QED BY <1>2, <2>2, <2>3, <2>4, <2>5 DEF UnionInv, Uniting
<1>4. CASE rest[1] # <<>> /\ Head(rest[1]) = Error
  <2>1. phase' = "failed" /\ rest' = rest /\ emitted' = emitted
    BY <1>4 DEF Forward
  <2>2. merging' = merging
    BY <1>1, <2>1 DEF merging
  <2> QED BY <1>1, <2>1, <2>2, KeepFailed
<1>5. CASE rest[1] # <<>> /\ Head(rest[1]) # Error
  <2>1. phase' = phase /\ emitted' = Append(emitted, Head(rest[1]))
    BY <1>5 DEF Forward
  <2>2. rest[1] \in Seq(Item) /\ Bounded(rest[1])
    <3>1. CASE Merging
      <4>1. Len(found) = 1
        BY <1>1, <3>1 DEF Merging
      <4>2. 1 \in DOMAIN found
        BY <1>2, <4>1 DEF Known
      <4>3. InOrder(head[1], coords[1], rest[1], over[1])
        BY <3>1, <4>2 DEF Merging
      <4> QED BY <4>3 DEF InOrder
    <3>2. CASE Selecting
      BY <3>2 DEF Selecting
    <3> QED BY <1>1, <3>1, <3>2 DEF UnionInv, Uniting
  <2> PICK x \in Seq(Nat) : x = Head(rest[1]) /\ Len(x) \in 1..MaxBatch
    BY <1>5, <2>2, StreamSplit
  <2>3. emitted' \in Seq(Seq(Nat)) /\ output' \in Seq(Nat)
    <3> PICK e \in Seq(Seq(Nat)) : e = emitted
      BY <1>2
    <3>1. Append(e, x) \in Seq(Seq(Nat))
      OBVIOUS
    <3> QED BY <1>1, <1>2, <2>1, <3>1
  <2>4. Known' /\ found' = found /\ Native' = Native
    BY <1>1, <1>2, <2>3, KnownKept
  <2>5. Delivered \in Seq(Nat) /\ Delivered' = Delivered \o x
    <3> PICK e \in Seq(Nat) : e = FlattenSeq(emitted)
      BY <1>2, FlattenAppend
    <3>1. FlattenSeq(emitted') = e \o x
      BY <1>2, <2>1, FlattenAppend
    <3>2. Delivered = e \o <<>> /\ Delivered' = (e \o x) \o <<>>
      BY <1>1, <1>2, <3>1 DEF Delivered
    <3>3. e \o <<>> = e /\ (e \o x) \o <<>> = e \o x
      OBVIOUS
    <3> QED BY <3>2, <3>3
  <2>6. Merging => Merging'
    BY <1>2, <1>5, <2>4, <2>5, ForwardMerging
  <2>7. Selecting => Selecting'
    BY <1>2, <1>5, <2>4, <2>5, ForwardSelecting
  <2>8. RequestsFit'
    BY <1>2, <2>1, FitsAppend DEF RequestsFit
  <2>9. Walking'
    BY <1>1, <2>1 DEF Walking
  <2> QED BY <1>2, <2>4, <2>6, <2>7, <2>8, <2>9 DEF UnionInv, Uniting
<1> QED BY <1>3, <1>4, <1>5

--------------------------------------------------------------------------------
(* Every step keeps the invariant.                                          *)
LEMMA UnionNext ==
  ASSUME UnionInv, [ExpressionNext]_<<vars, reading>>
  PROVE  UnionInv'
<1>1. ASSUME UNCHANGED vars PROVE UnionInv'
  <2>1. /\ input' = input /\ phase' = phase /\ walking' = walking /\ merging' = merging
        /\ emitted' = emitted /\ output' = output
    BY <1>1 DEF vars, merging
  <2>2. /\ rest' = rest /\ coords' = coords /\ head' = head /\ over' = over
        /\ step' = step /\ pending' = pending /\ found' = found
    BY <2>1 DEF merging, walking
  <2>3. Known' /\ Native' = Native /\ Delivered' = Delivered
    BY <2>1, KnownKept DEF UnionInv, Known, Delivered
  <2>4. Walking' /\ RequestsFit'
    BY <2>1, <2>2 DEF UnionInv, Walking, RequestsFit, IsLeaf
  <2>5. Merging => Merging'
    BY <2>1, <2>2, <2>3 DEF Merging
  <2>6. Selecting => Selecting'
    BY <2>1, <2>2, <2>3 DEF Selecting
  <2>7. Uniting'
    BY <2>1, <2>5, <2>6 DEF UnionInv, Uniting
  <2> QED BY <2>3, <2>4, <2>7 DEF UnionInv
<1>2. ASSUME Next PROVE UnionInv'
  <2>1. CASE RefuseSource \/ RefuseWalk
    BY <2>1, KeepFailed DEF RefuseSource, RefuseWalk
  <2>2. CASE Follow \/ Select \/ Branch \/ Visit \/ EndWalk
    BY <2>2, KeepFollow, KeepSelect, KeepBranch, KeepVisit, KeepEndWalk
  <2>3. CASE Forward \/ Deliver \/ Emit \/ End
    BY <2>3, KeepForward, KeepDeliver, KeepEmit, KeepEnd
  <2>4. ASSUME NEW k \in Streams, NextPosition(k) \/ NextRequest(k) \/ EndStream(k)
        PROVE  UnionInv'
    BY <2>4, KeepNextPosition, KeepNextRequest, KeepEndStream
  <2> QED BY <1>2, <2>1, <2>2, <2>3, <2>4 DEF Next
<1>3. CASE Construct
  BY <1>3, KeepConstruct
<1>4. CASE RefuseConstruction
  BY <1>4, KeepRefuseConstruction
<1>5. CASE Discover
  BY <1>2, <1>5 DEF Discover
<1>6. CASE Evaluate
  BY <1>1, <1>6 DEF Evaluate
<1>7. CASE FailEvaluation
  BY <1>7, KeepFailed DEF FailEvaluation
<1>8. CASE UNCHANGED <<vars, reading>>
  BY <1>1, <1>8
<1> QED BY <1>3, <1>4, <1>5, <1>6, <1>7, <1>8 DEF ExpressionNext

(* The invariant holds in every state.                                      *)
LEMMA UnionAlways == ExpressionSpec => []UnionInv
<1>1. UnionInv /\ [ExpressionNext]_<<vars, reading>> => UnionInv'
  BY UnionNext
<1> QED BY UnionInit, <1>1, PTL DEF ExpressionSpec

(* The places that requests name are numbers.                               *)
LEMMA NamedNumbers ==
  ASSUME NEW r \in Seq(Item)
  PROVE  Named(r) \subseteq Nat
<1> SUFFICES ASSUME NEW p \in Named(r) PROVE p \in Nat
  OBVIOUS
<1>1. PICK k \in Requests(r) : p \in ToSet(r[k])
  BY InNamed
<1>2. r[k] \in Seq(Nat)
  BY DEF Requests, Item
<1> QED BY <1>1, <1>2 DEF ToSet

(* A merged union is exact.                                                 *)
LEMMA MergedIsExact ==
  ASSUME Known, RequestsFit, Merging, Delivered \in Seq(Nat)
  PROVE  UnionIsExact
<1> PICK d \in Seq(Nat) : d = Delivered
  OBVIOUS
<1>1. Rises(d) /\ ~Native
  BY DEF Merging
<1>2. ASSUME NEW k \in DOMAIN found
      PROVE  /\ StreamOf(found[k]) = input.streams[found[k]]
             /\ StreamOf(found[k]) \in Seq(Item)
             /\ InOrder(head[k], coords[k], rest[k], over[k])
             /\ Accounted(StreamOf(found[k]), ToSet(d), head[k], coords[k], rest[k])
  <2>1. StreamOf(found[k]) = input.streams[found[k]]
    BY <1>1 DEF StreamOf
  <2>2. found[k] \in DOMAIN input.operands /\ IsLeaf(found[k]) /\ input \in Inputs
    BY <1>2 DEF Known
  <2>3. StreamOf(found[k]) \in Seq(Item)
    BY <2>1, <2>2, LeafFacts
  <2> QED BY <1>2, <2>1, <2>3 DEF Merging
<1>3. \A k \in 1..(Len(d) - 1) : d[k] < d[k + 1]
  <2> SUFFICES ASSUME NEW k \in 1..(Len(d) - 1) PROVE d[k] < d[k + 1]
    OBVIOUS
  <2>1. k \in DOMAIN d /\ k + 1 \in DOMAIN d /\ k < k + 1
    OBVIOUS
  <2> QED BY <1>1, <2>1 DEF Rises
<1>4. ASSUME NEW p \in Candidates, d # <<>>, p <= Last(d) PROVE p \in ToSet(d)
  <2>1. PICK k \in DOMAIN found : p \in Named(StreamOf(found[k]))
    BY DEF Candidates
  <2>2. p \in Nat
    BY <1>2, <2>1, NamedNumbers
  <2>3. Last(d) \in ToSet(d) /\ Last(d) \in Nat
    <3>1. Len(d) \in DOMAIN d /\ d[Len(d)] \in Nat
      BY <1>4
    <3> QED BY <3>1 DEF ToSet, Last
  <2>4. p \notin ToSet(d) => Last(d) < p
    BY <1>2, <2>1, <2>3 DEF Accounted
  <2> QED BY <1>4, <2>2, <2>3, <2>4
<1>5. ToSet(d) \subseteq Candidates
  <2> SUFFICES ASSUME NEW p \in ToSet(d) PROVE p \in Candidates
    OBVIOUS
  <2>1. PICK k \in DOMAIN found : p \in Named(input.streams[found[k]])
    BY DEF Merging
  <2> QED BY <1>2, <2>1 DEF Candidates
<1>6. ASSUME phase = "ended"
      PROVE  /\ Candidates \subseteq ToSet(d)
             /\ \A k \in DOMAIN found : Error \notin ToSet(StreamOf(found[k]))
  <2>1. \A k \in DOMAIN found : Left(head[k], coords[k], rest[k]) = {} /\ rest[k] = <<>>
    BY <1>6 DEF Merging
  <2>2. \A k \in DOMAIN found : Named(StreamOf(found[k])) \subseteq ToSet(d)
    BY <1>2, <2>1 DEF Accounted
  <2>3. \A k \in DOMAIN found : Error \notin ToSet(StreamOf(found[k]))
    BY <1>2, <2>1, NothingFacts DEF Accounted
  <2> QED BY <2>2, <2>3 DEF Candidates
<1>7. IsInjective(d)
  BY <1>1, RisesInjective
<1> QED BY <1>1, <1>3, <1>4, <1>5, <1>6, <1>7 DEF UnionIsExact, RequestsFit

(* A selection is exact.                                                    *)
LEMMA SelectionIsExact ==
  ASSUME Known, RequestsFit, Selecting
  PROVE  UnionIsExact
<1>1. /\ Native /\ IsInjective(Delivered) /\ rest[1] \in Seq(Item)
      /\ Named(input.native[found[1]]) = ToSet(Delivered) \union Named(rest[1])
      /\ Error \in ToSet(input.native[found[1]]) => Error \in ToSet(rest[1])
      /\ phase = "ended" => rest[1] = <<>>
  BY DEF Selecting
<1>2. DOMAIN found = {1}
  BY <1>1 DEF Known, Native
<1>3. StreamOf(found[1]) = input.native[found[1]]
  BY <1>1 DEF StreamOf
<1>4. Candidates = Named(input.native[found[1]])
  BY <1>2, <1>3 DEF Candidates
<1>5. ToSet(<<>>) = {} /\ Named(<<>>) = {}
  BY NothingFacts DEF Named, Requests
<1>6. phase = "ended" =>
        /\ ToSet(Delivered) = Candidates
        /\ \A k \in DOMAIN found : Error \notin ToSet(StreamOf(found[k]))
  BY <1>1, <1>2, <1>3, <1>4, <1>5
<1> QED BY <1>1, <1>4, <1>6 DEF UnionIsExact, RequestsFit

(* The invariant says that the union is exact.                              *)
LEMMA UnionExact ==
  ASSUME UnionInv
  PROVE  UnionIsExact
<1>1. Known /\ RequestsFit /\ emitted \in Seq(Seq(Nat)) /\ output \in Seq(Nat)
  BY DEF UnionInv, Known
<1>2. Delivered \in Seq(Nat)
  <2>1. FlattenSeq(emitted) \in Seq(Nat)
    BY <1>1, FlattenAppend
  <2> QED BY <1>1, <2>1 DEF Delivered
<1>3. CASE Merging
  BY <1>1, <1>2, <1>3, MergedIsExact
<1>4. CASE Selecting
  BY <1>1, <1>4, SelectionIsExact
<1>5. CASE ~Merging /\ ~Selecting
  <2>1. emitted = <<>> /\ output = <<>> /\ phase # "ended"
    BY <1>5 DEF UnionInv, Uniting
  <2>2. Delivered = <<>>
    BY <2>1, NothingFacts DEF Delivered
  <2>3. ToSet(Delivered) = {} /\ IsInjective(Delivered) /\ Len(Delivered) = 0
    BY <2>2, NothingFacts
  <2>4. 1..(Len(Delivered) - 1) = {}
    BY <2>3
  <2> QED BY <1>1, <2>1, <2>2, <2>3, <2>4 DEF UnionIsExact, RequestsFit
<1> QED BY <1>3, <1>4, <1>5

(* The union of the candidates of an expression is exact, for every number  *)
(* of operands, every length of their streams and every limit: candidates   *)
(* come once, ascending unless they are one leaf's selection; none is left  *)
(* out below one that was delivered; a stream that ends well has delivered  *)
(* all of them, and no leaf's error is lost; requests are never empty, and  *)
(* never too large (selection, ordered, merge).                             *)
THEOREM United == ExpressionSpec => []UnionIsExact
<1>1. UnionInv => UnionIsExact
  BY UnionExact
<1> QED BY <1>1, UnionAlways, PTL

--------------------------------------------------------------------------------
(* A value of each node that is computed from those of its operands.        *)
Computes(f, operands, G) ==
  \A n \in DOMAIN f : f[n] = G[<<n, [k \in DOMAIN operands[n] |-> f[operands[n][k]]]>>]

(* Such values of some nodes, and of the operands of each.                  *)
Computed(D, f, A, operands, G) ==
  /\ D \subseteq DOMAIN operands /\ f \in [D -> A]
  /\ \A n \in D : \A k \in DOMAIN operands[n] : operands[n][k] \in D
  /\ Computes(f, operands, G)

(* Two of them agree.                                                       *)
LEMMA ComputedOnce ==
  ASSUME NEW operands, Acyclic(operands), NEW A, NEW G, NEW D, NEW f, NEW E, NEW g,
         Computed(D, f, A, operands, G), Computed(E, g, A, operands, G)
  PROVE  \A n \in D \intersect E : f[n] = g[n]
<1> DEFINE Differ == {n \in D \intersect E : f[n] # g[n]}
<1> SUFFICES ASSUME Differ # {} PROVE FALSE
  OBVIOUS
<1>1. Differ \in SUBSET DOMAIN operands
  BY DEF Computed
<1>2. PICK n \in Differ : \A k \in DOMAIN operands[n] : operands[n][k] \notin Differ
  <2> HIDE DEF Differ
  <2> QED BY <1>1 DEF Acyclic
<1>3. \A k \in DOMAIN operands[n] : f[operands[n][k]] = g[operands[n][k]]
  BY <1>2 DEF Computed
<1>4. [k \in DOMAIN operands[n] |-> f[operands[n][k]]] = [k \in DOMAIN operands[n] |-> g[operands[n][k]]]
  BY <1>3
<1>5. n \in D /\ n \in E /\ DOMAIN f = D /\ DOMAIN g = E
  BY <1>2 DEF Computed
<1>6. /\ f[n] = G[<<n, [k \in DOMAIN operands[n] |-> f[operands[n][k]]]>>]
      /\ g[n] = G[<<n, [k \in DOMAIN operands[n] |-> g[operands[n][k]]]>>]
  BY <1>5 DEF Computed, Computes
<1> QED BY <1>2, <1>4, <1>6

(* Values of all nodes exist, whatever computes them.                       *)
LEMMA AcyclicRecursion ==
  ASSUME NEW N, NEW operands \in [N -> Seq(N)], Acyclic(operands),
         NEW A, NEW G \in [N \X Seq(A) -> A]
  PROVE  \E f \in [N -> A] : Computes(f, operands, G)
<1> DEFINE All == {x \in N \X A : \E D \in SUBSET N : \E f \in [D -> A] :
                      x[1] \in D /\ x[2] = f[x[1]] /\ Computed(D, f, A, operands, G)}
           Covered == {n \in N : \E D \in SUBSET N : \E f \in [D -> A] : n \in D /\ Computed(D, f, A, operands, G)}
           F == [n \in Covered |-> CHOOSE a \in A : <<n, a>> \in All]
<1>1. DOMAIN operands = N /\ \A n \in N : operands[n] \in Seq(N)
  OBVIOUS
<1>2. ASSUME NEW D \in SUBSET N, NEW f \in [D -> A], Computed(D, f, A, operands, G), NEW n \in D
      PROVE  n \in Covered /\ F[n] = f[n]
  <2>1. n \in Covered
    BY <1>2
  <2>2. f[n] \in A /\ <<n, f[n]>> \in All
    BY <1>2
  <2>3. \A a \in A : <<n, a>> \in All => a = f[n]
    <3> SUFFICES ASSUME NEW a \in A, <<n, a>> \in All PROVE a = f[n]
      OBVIOUS
    <3>1. PICK E \in SUBSET N : \E g \in [E -> A] :
            n \in E /\ a = g[n] /\ Computed(E, g, A, operands, G)
      OBVIOUS
    <3> PICK g \in [E -> A] : n \in E /\ a = g[n] /\ Computed(E, g, A, operands, G)
      BY <3>1
    <3>2. \A x \in D \intersect E : f[x] = g[x]
      BY <1>2, ComputedOnce
    <3> QED BY <3>2
  <2> HIDE DEF All, Covered
  <2> QED BY <2>1, <2>2, <2>3
<1>3. ASSUME NEW n \in Covered
      PROVE  /\ F[n] \in A /\ \A k \in DOMAIN operands[n] : operands[n][k] \in Covered
             /\ F[n] = G[<<n, [k \in DOMAIN operands[n] |-> F[operands[n][k]]]>>]
  <2>1. PICK D \in SUBSET N : \E f \in [D -> A] : n \in D /\ Computed(D, f, A, operands, G)
    OBVIOUS
  <2> PICK f \in [D -> A] : n \in D /\ Computed(D, f, A, operands, G)
    BY <2>1
  <2> HIDE DEF Covered, F, All
  <2>2. \A m \in D : m \in Covered /\ F[m] = f[m]
    BY <1>2
  <2>3. \A k \in DOMAIN operands[n] : operands[n][k] \in D
    BY DEF Computed
  <2>4. [k \in DOMAIN operands[n] |-> f[operands[n][k]]] = [k \in DOMAIN operands[n] |-> F[operands[n][k]]]
    BY <2>2, <2>3
  <2>5. f[n] = G[<<n, [k \in DOMAIN operands[n] |-> f[operands[n][k]]]>>] /\ f[n] \in A
    BY DEF Computed, Computes
  <2> QED BY <2>1, <2>2, <2>3, <2>4, <2>5
<1>4. F \in [Covered -> A] /\ Covered \in SUBSET N /\ DOMAIN F = Covered
  <2>1. \A n \in Covered : F[n] \in A
    <3> HIDE DEF Covered, F
    <3> QED BY <1>3
  <2>2. F = [n \in Covered |-> F[n]]
    OBVIOUS
  <2>3. DOMAIN F = Covered /\ Covered \in SUBSET N
    OBVIOUS
  <2> HIDE DEF Covered, F
  <2> QED BY <2>1, <2>2, <2>3
<1>5. Computed(Covered, F, A, operands, G)
  <2> HIDE DEF Covered, F, All
  <2> QED BY <1>1, <1>3, <1>4 DEF Computed, Computes
<1>6. Covered = N
  <2> DEFINE Out == {n \in N : n \notin Covered}
  <2> SUFFICES ASSUME Out # {} PROVE FALSE
    <3> HIDE DEF Covered, F
    <3> QED BY <1>4
  <2>1. PICK n \in Out : \A k \in DOMAIN operands[n] : operands[n][k] \notin Out
    <3>1. Out \in SUBSET DOMAIN operands
      BY <1>1
    <3> HIDE DEF Out
    <3> QED BY <3>1 DEF Acyclic
  <2>2. /\ n \in N /\ n \notin Covered /\ operands[n] \in Seq(N)
        /\ \A k \in DOMAIN operands[n] : operands[n][k] \in N
    <3> HIDE DEF Covered
    <3> QED BY <1>1, <2>1
  <2>3. \A k \in DOMAIN operands[n] : operands[n][k] \in Covered
    <3> HIDE DEF Covered
    <3> QED BY <2>1, <2>2
  <2> DEFINE v == [k \in DOMAIN operands[n] |-> F[operands[n][k]]]
             E == Covered \union {n}
             g == [m \in E |-> IF m = n THEN G[<<n, v>>] ELSE F[m]]
  <2>4. v \in Seq(A)
    <3> HIDE DEF Covered, F
    <3> PICK m \in Nat : m = Len(operands[n]) /\ DOMAIN operands[n] = 1..m
      BY <2>2
    <3>1. \A k \in 1..m : F[operands[n][k]] \in A
      BY <1>4, <2>3
    <3>2. v \in [1..m -> A]
      BY <3>1
    <3> HIDE DEF v
    <3> QED BY ONLY <3>2, m \in Nat, SeqDef
  <2>5. G[<<n, v>>] \in A
    <3> HIDE DEF v
    <3> QED BY <2>2, <2>4
  <2>6. E \in SUBSET N /\ g \in [E -> A]
    <3> HIDE DEF Covered, F, v
    <3> QED BY <1>4, <2>2, <2>5
  <2>7. \A m \in Covered : g[m] = F[m] /\ m # n
    <3> HIDE DEF Covered, F, v
    <3> QED BY <2>2
  <2>8. g[n] = G[<<n, v>>] /\ n \in E /\ \A m \in E : m = n \/ m \in Covered
    <3> HIDE DEF Covered, F, v
    <3> QED OBVIOUS
  <2>9. \A m \in E : \A k \in DOMAIN operands[m] : operands[m][k] \in Covered
    <3> HIDE DEF Covered, F, v, E, g, All
    <3> QED BY <1>3, <2>3, <2>8
  <2>10. Computes(g, operands, G)
    <3> SUFFICES ASSUME NEW m \in E
                 PROVE  g[m] = G[<<m, [k \in DOMAIN operands[m] |-> g[operands[m][k]]]>>]
      BY <2>6 DEF Computes
    <3>1. [k \in DOMAIN operands[m] |-> g[operands[m][k]]] = [k \in DOMAIN operands[m] |-> F[operands[m][k]]]
      <4> HIDE DEF Covered, F, v, g, E
      <4> QED BY <2>7, <2>9
    <3>2. CASE m = n
      <4>1. [k \in DOMAIN operands[m] |-> F[operands[m][k]]] = v
        BY <3>2
      <4> HIDE DEF Covered, F, v, g, E
      <4> QED BY <2>8, <3>1, <3>2, <4>1
    <3>3. CASE m \in Covered
      <4> HIDE DEF Covered, F, v, g, E, All
      <4> QED BY <1>3, <2>7, <3>1, <3>3
    <3> HIDE DEF Covered, E, g
    <3> QED BY <2>8, <3>2, <3>3
  <2>11. \A m \in Covered : m \in E
    <3> HIDE DEF Covered
    <3> QED OBVIOUS
  <2>12. Computed(E, g, A, operands, G)
    <3> HIDE DEF Covered, F, v, g, E, All
    <3> QED BY <1>1, <2>6, <2>9, <2>10, <2>11 DEF Computed
  <2>13. n \in Covered
    <3> HIDE DEF F, v, g, E, All
    <3>1. \E D \in SUBSET N : \E f \in [D -> A] : n \in D /\ Computed(D, f, A, operands, G)
      <4> HIDE DEF Covered
      <4> QED BY <2>6, <2>8, <2>12
    <3> QED BY <2>2, <3>1
  <2> HIDE DEF Covered
  <2> QED BY <2>2, <2>13
<1> HIDE DEF Covered, F, All
<1> QED BY <1>4, <1>5, <1>6 DEF Computed

(* All operands are nodes, and what has all operands of a node has it.      *)
Over(N, operands) ==
  /\ DOMAIN operands = N /\ Acyclic(operands)
  /\ \A n \in N : operands[n] \in Seq(N)
Inherits(N, operands, S) ==
  \A n \in N : (\A k \in DOMAIN operands[n] : operands[n][k] \in S) => n \in S

(* What holds of a node when it holds of its operands holds of all nodes.   *)
LEMMA AcyclicInduction ==
  ASSUME NEW N, NEW operands, Over(N, operands), NEW S, Inherits(N, operands, S)
  PROVE  \A n \in N : n \in S
<1> DEFINE Out == {n \in N : n \notin S}
<1> SUFFICES ASSUME Out # {} PROVE FALSE
  OBVIOUS
<1>1. Out \in SUBSET DOMAIN operands
  BY DEF Over
<1>2. PICK n \in Out : \A k \in DOMAIN operands[n] : operands[n][k] \notin Out
  <2> HIDE DEF Out
  <2> QED BY <1>1 DEF Over, Acyclic
<1>3. \A k \in DOMAIN operands[n] : operands[n][k] \in N
  BY <1>2 DEF Over
<1>4. \A k \in DOMAIN operands[n] : operands[n][k] \in S
  BY <1>2, <1>3
<1> QED BY <1>2, <1>4 DEF Inherits

(* What an operator makes of each of a sequence of nodes, one after the     *)
(* other; and what the walk has yet to find among the pending operands.     *)
Along(leaves, nodes) == FlattenSeq([k \in DOMAIN nodes |-> leaves[nodes[k]]])
Remaining(leaves, nodes) == Along(leaves, Reverse(nodes))

(* The sequence of the values of a sequence of nodes.                       *)
LEMMA ValuesAlong ==
  ASSUME NEW N, NEW A, NEW f, NEW s \in Seq(N), \A k \in DOMAIN s : f[s[k]] \in A
  PROVE  /\ [k \in DOMAIN s |-> f[s[k]]] \in Seq(A)
         /\ Len([k \in DOMAIN s |-> f[s[k]]]) = Len(s)
<1> PICK m \in Nat : m = Len(s) /\ DOMAIN s = 1..m
  OBVIOUS
<1> DEFINE v == [k \in 1..m |-> f[s[k]]]
<1>1. v \in [1..m -> A]
  OBVIOUS
<1>2. v = [k \in DOMAIN s |-> f[s[k]]]
  OBVIOUS
<1> HIDE DEF v
<1>3. v \in Seq(A) /\ Len(v) = m
  BY <1>1
<1> QED BY <1>2, <1>3

(* c is s and t, one after the other.                                       *)
Joined(c, s, m, t, l) ==
  /\ Len(c) = m + l
  /\ \A i \in 1..m : c[i] = s[i]
  /\ \A i \in 1..l : c[m + i] = t[i]

(* The elements of one sequence after the other.                            *)
LEMMA ConcatAt ==
  ASSUME NEW S, NEW s \in Seq(S), NEW t \in Seq(S),
         NEW m \in Nat, Len(s) = m, NEW l \in Nat, Len(t) = l
  PROVE  s \o t \in Seq(S) /\ Joined(s \o t, s, m, t, l)
<1>1. /\ s \o t \in Seq(S) /\ Len(s \o t) = Len(s) + Len(t)
      /\ \A i \in 1..Len(s) : (s \o t)[i] = s[i]
      /\ \A i \in 1..Len(t) : (s \o t)[Len(s) + i] = t[i]
  OBVIOUS
<1> QED BY <1>1 DEF Joined

(* An element put at the end of the second of two sequences.                *)
LEMMA AppendAtEnd ==
  ASSUME NEW S, NEW s \in Seq(S), NEW t \in Seq(S), NEW x \in S
  PROVE  s \o Append(t, x) = Append(s \o t, x)
<1>1. <<x>> \in Seq(S) /\ s \o t \in Seq(S)
  OBVIOUS
<1>2. Append(t, x) = t \o <<x>> /\ Append(s \o t, x) = (s \o t) \o <<x>>
  BY <1>1, AppendIsConcat
<1>3. s \o (t \o <<x>>) = (s \o t) \o <<x>>
  BY <1>1, ConcatAssociative
<1> QED BY <1>2, <1>3

(* Sequences one after the other are a sequence.                            *)
LEMMA FlattenIsSeq ==
  ASSUME NEW S, NEW s \in Seq(Seq(S))
  PROVE  FlattenSeq(s) \in Seq(S)
<1>1. <<>> \in Seq(S)
  OBVIOUS
<1> QED BY <1>1, FlattenAppendOf

(* The sequences of two sequences of them.                                  *)
LEMMA FlattenConcat ==
  ASSUME NEW S, NEW s \in Seq(Seq(S)), NEW t \in Seq(Seq(S))
  PROVE  FlattenSeq(s \o t) = FlattenSeq(s) \o FlattenSeq(t)
<1> PICK n \in Nat : n = Len(t) /\ DOMAIN t = 1..n
  OBVIOUS
<1> DEFINE u(m) == SubSeq(t, 1, m)
           Upto == {m \in 0..n : FlattenSeq(s \o u(m)) = FlattenSeq(s) \o FlattenSeq(u(m))}
<1>1. \A m \in 0..n : u(m) \in Seq(Seq(S))
  OBVIOUS
<1>2. 0 \in Upto
  <2>1. u(0) = <<>> /\ s \o <<>> = s
    OBVIOUS
  <2>2. FlattenSeq(<<>>) = <<>> /\ FlattenSeq(s) \in Seq(S)
    BY NothingFacts, FlattenIsSeq
  <2> PICK v \in Seq(S) : v = FlattenSeq(s)
    BY <2>2
  <2>3. v \o <<>> = v
    OBVIOUS
  <2>4. FlattenSeq(s \o u(0)) = FlattenSeq(s) \o FlattenSeq(u(0))
    <3> HIDE DEF u
    <3> QED BY <2>1, <2>2, <2>3
  <2> QED BY <2>4
<1>3. \A m \in 0..n : m < n /\ m \in Upto => m + 1 \in Upto
  <2> SUFFICES ASSUME NEW m \in 0..n, m < n, m \in Upto PROVE m + 1 \in Upto
    OBVIOUS
  <2> PICK x \in Seq(S) : x = t[m + 1]
    OBVIOUS
  <2> PICK w \in Seq(Seq(S)) : w = u(m)
    BY <1>1
  <2>1. u(m + 1) = Append(w, x)
    OBVIOUS
  <2>2. s \o Append(w, x) = Append(s \o w, x)
    BY ONLY s \in Seq(Seq(S)), w \in Seq(Seq(S)), x \in Seq(S), AppendAtEnd
  <2>3. s \o w \in Seq(Seq(S))
    OBVIOUS
  <2>4. FlattenSeq(Append(s \o w, x)) = FlattenSeq(s \o w) \o x
    BY <2>3, FlattenAppendOf
  <2>5. FlattenSeq(Append(w, x)) = FlattenSeq(w) \o x
    BY FlattenAppendOf
  <2>6. FlattenSeq(s) \in Seq(S) /\ FlattenSeq(w) \in Seq(S)
    BY FlattenIsSeq
  <2>7. (FlattenSeq(s) \o FlattenSeq(w)) \o x = FlattenSeq(s) \o (FlattenSeq(w) \o x)
    <3> PICK y \in Seq(S), z \in Seq(S) : y = FlattenSeq(s) /\ z = FlattenSeq(w)
      BY <2>6
    <3>1. (y \o z) \o x = y \o (z \o x)
      BY ONLY y \in Seq(S), z \in Seq(S), x \in Seq(S), SMTT(30)
    <3> QED BY <3>1
  <2>8. FlattenSeq(s \o w) = FlattenSeq(s) \o FlattenSeq(w)
    OBVIOUS
  <2> HIDE DEF u
  <2>9. m + 1 \in 0..n
    OBVIOUS
  <2>10. FlattenSeq(s \o u(m + 1)) = FlattenSeq(s) \o FlattenSeq(u(m + 1))
    BY ONLY <2>1, <2>2, <2>4, <2>5, <2>7, <2>8
  <2> QED BY <2>9, <2>10
<1>4. \A m \in 0..n : m \in Upto
  <2> HIDE DEF Upto
  <2> QED BY <1>2, <1>3, UpToAll
<1>5. n \in 0..n /\ u(n) = t
  OBVIOUS
<1> HIDE DEF u
<1> QED BY <1>4, <1>5

(* A sequence of one sequence.                                              *)
LEMMA FlattenOne ==
  ASSUME NEW S, NEW t \in Seq(S)
  PROVE  FlattenSeq(<<t>>) = t
<1>1. <<>> \in Seq(Seq(S)) /\ Append(<<>>, t) = <<t>>
  OBVIOUS
<1>2. FlattenSeq(Append(<<>>, t)) = FlattenSeq(<<>>) \o t
  BY <1>1, FlattenAppendOf
<1>3. FlattenSeq(<<>>) = <<>> /\ <<>> \o t = t
  BY NothingFacts
<1> QED BY <1>1, <1>2, <1>3

(* The values of two sequences of nodes.                                    *)
LEMMA ValuesConcat ==
  ASSUME NEW N, NEW A, NEW f, \A n \in N : f[n] \in A, NEW s \in Seq(N), NEW t \in Seq(N)
  PROVE  [k \in DOMAIN (s \o t) |-> f[(s \o t)[k]]]
           = [k \in DOMAIN s |-> f[s[k]]] \o [k \in DOMAIN t |-> f[t[k]]]
<1> PICK m \in Nat, l \in Nat : m = Len(s) /\ l = Len(t)
  OBVIOUS
<1>0. s \o t \in Seq(N)
  BY ConcatAt
<1> PICK c \in Seq(N) : c = s \o t
  BY <1>0
<1>1. /\ Len(c) = m + l /\ \A i \in 1..m : c[i] = s[i] /\ s[i] \in N
      /\ \A i \in 1..l : c[m + i] = t[i] /\ t[i] \in N
  <2>1. s \o t \in Seq(N) /\ Joined(s \o t, s, m, t, l)
    BY ConcatAt, Zenon
  <2> QED BY <2>1 DEF Joined
<1>2. DOMAIN s = 1..m /\ DOMAIN t = 1..l /\ DOMAIN c = 1..(m + l)
  BY <1>1
<1> DEFINE a == [k \in 1..(m + l) |-> f[c[k]]]
           x == [k \in 1..m |-> f[s[k]]]
           y == [k \in 1..l |-> f[t[k]]]
<1>3. a \in Seq(A) /\ Len(a) = m + l
  <2>1. \A k \in 1..(m + l) : c[k] \in N
    BY <1>2
  <2>2. a \in [1..(m + l) -> A]
    BY <2>1
  <2> HIDE DEF a
  <2> QED BY ONLY <2>2, m \in Nat, l \in Nat, SeqDef
<1>4. x \in Seq(A) /\ Len(x) = m
  <2>1. x \in [1..m -> A]
    BY <1>1
  <2> HIDE DEF x
  <2> QED BY ONLY <2>1, m \in Nat, l \in Nat, SeqDef
<1>5. y \in Seq(A) /\ Len(y) = l
  <2>1. y \in [1..l -> A]
    BY <1>1
  <2> HIDE DEF y
  <2> QED BY ONLY <2>1, m \in Nat, l \in Nat, SeqDef
<1>6. \A k \in 1..(m + l) : a[k] = f[c[k]]
  OBVIOUS
<1>7. \A k \in 1..m : x[k] = f[s[k]]
  OBVIOUS
<1>8. \A k \in 1..l : y[k] = f[t[k]]
  OBVIOUS
<1>9. a = x \o y
  <2> HIDE DEF a, x, y
  <2>1. /\ x \o y \in Seq(A) /\ Len(x \o y) = m + l
        /\ \A i \in 1..m : (x \o y)[i] = x[i]
        /\ \A i \in 1..l : (x \o y)[m + i] = y[i]
    <3> PICK u \in Seq(A), w \in Seq(A) : u = x /\ w = y
      BY <1>4, <1>5
    <3>1. Len(u) = m /\ Len(w) = l
      BY <1>4, <1>5
    <3>2. u \o w \in Seq(A) /\ Joined(u \o w, u, m, w, l)
      BY <3>1, ConcatAt, Zenon
    <3> QED BY <3>2 DEF Joined
  <2>2. ASSUME NEW k \in 1..(m + l) PROVE a[k] = (x \o y)[k]
    <3>1. CASE k \in 1..m
      BY <1>1, <1>6, <1>7, <2>1, <3>1
    <3>2. CASE k \notin 1..m
      <4> PICK i \in 1..l : k = m + i
        <5>1. k - m \in 1..l /\ k = m + (k - m)
          BY <3>2
        <5> QED BY <5>1
      <4>1. c[k] = t[i] /\ (x \o y)[k] = y[i]
        BY <1>1, <2>1
      <4>2. y[i] = f[t[i]]
        BY ONLY <1>8, i \in 1..l
      <4>3. a[k] = f[c[k]]
        BY ONLY <1>6, k \in 1..(m + l)
      <4> QED BY ONLY <4>1, <4>2, <4>3
    <3> QED BY <3>1, <3>2
  <2>3. Len(a) = Len(x \o y) /\ \A k \in 1..Len(a) : a[k] = (x \o y)[k]
    BY <1>3, <2>1, <2>2
  <2> PICK b \in Seq(A) : b = x \o y
    BY <2>1
  <2>4. a = b
    BY ONLY <1>3, <2>3, b \in Seq(A), b = x \o y, SeqEqual
  <2> QED BY <2>4
<1> QED BY <1>2, <1>9

(* Nodes are made sequences of nodes.                                       *)
Listing(N, f) == \A n \in N : f[n] \in Seq(N)

(* z is x and y, one after the other.                                       *)
IsBoth(z, x, y) == z = x \o y

(* Nodes one after the other, none, and one.                                *)
LEMMA AlongFacts ==
  ASSUME NEW N, NEW f, Listing(N, f), NEW s \in Seq(N), NEW t \in Seq(N)
  PROVE  /\ Along(f, s) \in Seq(N)
         /\ IsBoth(Along(f, s \o t), Along(f, s), Along(f, t))
         /\ Along(f, <<>>) = <<>>
         /\ \A n \in N : Along(f, <<n>>) = f[n]
<1>0. \A n \in N : f[n] \in Seq(N)
  BY DEF Listing
<1> DEFINE M(w) == [k \in DOMAIN w |-> f[w[k]]]
<1>1. \A w \in Seq(N) : M(w) \in Seq(Seq(N)) /\ Len(M(w)) = Len(w)
  <2> SUFFICES ASSUME NEW w \in Seq(N) PROVE M(w) \in Seq(Seq(N)) /\ Len(M(w)) = Len(w)
    OBVIOUS
  <2> PICK A : A = Seq(N)
    OBVIOUS
  <2>1. \A k \in DOMAIN w : f[w[k]] \in A
    BY <1>0
  <2>2. /\ [k \in DOMAIN w |-> f[w[k]]] \in Seq(A)
        /\ Len([k \in DOMAIN w |-> f[w[k]]]) = Len(w)
    BY ONLY <2>1, w \in Seq(N), ValuesAlong
  <2> QED BY <2>2
<1>2. Along(f, s) \in Seq(N)
  <2> HIDE DEF M
  <2>1. FlattenSeq(M(s)) \in Seq(N)
    BY <1>1, FlattenIsSeq
  <2> QED BY <2>1 DEF Along, M
<1>3. M(s \o t) = M(s) \o M(t)
  <2> PICK A : A = Seq(N)
    OBVIOUS
  <2>1. \A n \in N : f[n] \in A
    BY <1>0
  <2>2. [k \in DOMAIN (s \o t) |-> f[(s \o t)[k]]]
          = [k \in DOMAIN s |-> f[s[k]]] \o [k \in DOMAIN t |-> f[t[k]]]
    BY ONLY <2>1, s \in Seq(N), t \in Seq(N), ValuesConcat
  <2> QED BY <2>2
<1>4. Along(f, s \o t) = Along(f, s) \o Along(f, t)
  <2>1. FlattenSeq(M(s) \o M(t)) = FlattenSeq(M(s)) \o FlattenSeq(M(t))
    <3> HIDE DEF M
    <3> QED BY <1>1, FlattenConcat
  <2> QED BY <1>3, <2>1 DEF Along
<1>5. Along(f, <<>>) = <<>>
  <2>1. [k \in DOMAIN <<>> |-> f[<<>>[k]]] = <<>>
    OBVIOUS
  <2> QED BY <2>1, NothingFacts DEF Along
<1>6. ASSUME NEW n \in N PROVE Along(f, <<n>>) = f[n]
  <2>1. M(<<n>>) = <<f[n]>>
    OBVIOUS
  <2>2. FlattenSeq(<<f[n]>>) = f[n]
    BY <1>0, FlattenOne
  <2> QED BY <2>1, <2>2 DEF Along
<1> QED BY <1>2, <1>4, <1>5, <1>6 DEF IsBoth

(* Along joined sequences.                                                  *)
LEMMA AlongConcat ==
  ASSUME NEW N, NEW f, Listing(N, f), NEW s \in Seq(N), NEW t \in Seq(N)
  PROVE  IsBoth(Along(f, s \o t), Along(f, s), Along(f, t))
BY AlongFacts, Zenon

(* It is a sequence of nodes.                                               *)
LEMMA AlongSeq ==
  ASSUME NEW N, NEW f, Listing(N, f), NEW s \in Seq(N)
  PROVE  Along(f, s) \in Seq(N)
BY AlongFacts, Zenon

(* Along no node.                                                           *)
LEMMA AlongNone ==
  ASSUME NEW N, NEW f, Listing(N, f)
  PROVE  Along(f, <<>>) = <<>>
<1>1. <<>> \in Seq(N)
  OBVIOUS
<1> QED BY <1>1, AlongFacts, Zenon

(* Along one node.                                                          *)
LEMMA AlongOne ==
  ASSUME NEW N, NEW f, Listing(N, f), NEW n \in N
  PROVE  Along(f, <<n>>) = f[n]
<1>1. <<>> \in Seq(N)
  OBVIOUS
<1> QED BY <1>1, AlongFacts, Zenon

(* The elements of a sequence backwards.                                    *)
LEMMA ReverseAt ==
  ASSUME NEW N, NEW s \in Seq(N), NEW m \in Nat, Len(s) = m
  PROVE  /\ Reverse(s) \in Seq(N) /\ Len(Reverse(s)) = m
         /\ \A i \in 1..m : Reverse(s)[i] = s[(m - i) + 1]
<1>1. Reverse(s) \in Seq(N) /\ Len(Reverse(s)) = Len(s)
  BY LengthFacts
<1>2. \A i \in 1..Len(s) : Reverse(s)[i] = s[(Len(s) - i) + 1]
  BY DEF Reverse
<1> QED BY <1>1, <1>2

(* A sequence backwards: its last element comes first.                      *)
LEMMA ReverseFacts ==
  ASSUME NEW N, NEW s \in Seq(N), NEW t \in Seq(N)
  PROVE  /\ Reverse(<<>>) = <<>> /\ Reverse(s) \in Seq(N)
         /\ Reverse(s \o Reverse(t)) = t \o Reverse(s)
         /\ s # <<>> => /\ Last(s) \in N /\ Front(s) \in Seq(N)
                        /\ Reverse(s) = <<Last(s)>> \o Reverse(Front(s))
<1> PICK m \in Nat, l \in Nat : m = Len(s) /\ l = Len(t)
  OBVIOUS
<1>1. Reverse(<<>>) = <<>>
  <2>1. <<>> \in Seq(N) /\ Len(<<>>) = 0
    OBVIOUS
  <2> PICK e \in Seq(N) : e = <<>> /\ Len(e) = 0
    BY <2>1
  <2>2. Reverse(e) \in Seq(N) /\ Len(Reverse(e)) = 0
    BY ReverseAt
  <2> QED BY <2>2
<1>2. /\ Reverse(s) \in Seq(N) /\ Len(Reverse(s)) = m
      /\ \A i \in 1..m : Reverse(s)[i] = s[(m - i) + 1]
  BY ReverseAt
<1>3. Reverse(s \o Reverse(t)) = t \o Reverse(s)
  <2>1. /\ Reverse(t) \in Seq(N) /\ Len(Reverse(t)) = l
        /\ \A i \in 1..l : Reverse(t)[i] = t[(l - i) + 1]
    BY ReverseAt
  <2> PICK v \in Seq(N) : v = Reverse(t)
    BY <2>1
  <2> PICK r \in Seq(N) : r = Reverse(s)
    BY <1>2
  <2>2. /\ s \o v \in Seq(N) /\ Len(s \o v) = m + l
        /\ \A i \in 1..m : (s \o v)[i] = s[i]
        /\ \A i \in 1..l : (s \o v)[m + i] = v[i]
    <3>1. Len(v) = l
      BY <2>1
    <3>2. s \o v \in Seq(N) /\ Joined(s \o v, s, m, v, l)
      BY <3>1, ConcatAt, Zenon
    <3> QED BY <3>2 DEF Joined
  <2> PICK c \in Seq(N) : c = s \o v
    BY <2>2
  <2>3. /\ Reverse(c) \in Seq(N) /\ Len(Reverse(c)) = m + l
        /\ \A i \in 1..(m + l) : Reverse(c)[i] = c[((m + l) - i) + 1]
    <3>1. Len(c) = m + l /\ m + l \in Nat
      BY <2>2
    <3> QED BY ONLY <3>1, c \in Seq(N), ReverseAt, SMTT(20)
  <2> PICK a \in Seq(N) : a = Reverse(c)
    BY <2>3
  <2>4. /\ t \o r \in Seq(N) /\ Len(t \o r) = l + m
        /\ \A i \in 1..l : (t \o r)[i] = t[i]
        /\ \A i \in 1..m : (t \o r)[l + i] = r[i]
    <3>1. Len(r) = m
      BY <1>2
    <3>2. t \o r \in Seq(N) /\ Joined(t \o r, t, l, r, m)
      BY <3>1, ConcatAt, Zenon
    <3> QED BY <3>2 DEF Joined
  <2> PICK b \in Seq(N) : b = t \o r
    BY <2>4
  <2>5. /\ \A i \in 1..l : v[i] = t[(l - i) + 1] /\ b[i] = t[i] /\ c[m + i] = v[i]
        /\ \A i \in 1..m : r[i] = s[(m - i) + 1] /\ b[l + i] = r[i] /\ c[i] = s[i]
        /\ \A i \in 1..(m + l) : a[i] = c[((m + l) - i) + 1]
    BY <1>2, <2>1, <2>2, <2>3, <2>4
  <2>6. ASSUME NEW i \in 1..(m + l) PROVE a[i] = b[i]
    <3>1. a[i] = c[((m + l) - i) + 1]
      BY <2>5
    <3>2. CASE i <= l
      <4> PICK j \in 1..l : j = (l - i) + 1
        <5>1. (l - i) + 1 \in 1..l
          BY <3>2
        <5> QED BY <5>1
      <4>1. m + j = ((m + l) - i) + 1 /\ (l - j) + 1 = i /\ i \in 1..l
        BY <3>2
      <4>2. c[m + j] = v[j] /\ v[j] = t[(l - j) + 1] /\ b[i] = t[i]
        BY <2>5, <4>1
      <4> QED BY <3>1, <4>1, <4>2
    <3>3. CASE ~(i <= l)
      <4> PICK j \in 1..m : i = l + j
        <5>1. i - l \in 1..m /\ i = l + (i - l)
          BY <3>3
        <5> QED BY <5>1
      <4>1. ((m + l) - i) + 1 = (m - j) + 1 /\ (m - j) + 1 \in 1..m
        OBVIOUS
      <4>2. c[(m - j) + 1] = s[(m - j) + 1] /\ b[l + j] = r[j] /\ r[j] = s[(m - j) + 1]
        BY <2>5, <4>1
      <4> QED BY ONLY <3>1, <4>1, <4>2, i = l + j
    <3> QED BY <3>2, <3>3
  <2>7. Len(a) = Len(b) /\ \A i \in 1..Len(a) : a[i] = b[i]
    <3>1. Len(a) = m + l /\ Len(b) = m + l
      BY <2>3, <2>4
    <3> QED BY ONLY <3>1, <2>6
  <2>8. a = b
    BY ONLY <2>7, a \in Seq(N), b \in Seq(N), SeqEqual
  <2> QED BY <2>8
<1>4. ASSUME s # <<>>
      PROVE  /\ Last(s) \in N /\ Front(s) \in Seq(N)
             /\ Reverse(s) = <<Last(s)>> \o Reverse(Front(s))
  <2>1. m >= 1
    BY <1>4
  <2>2. Last(s) \in N /\ Last(s) = s[m] /\ Front(s) \in Seq(N) /\ Len(Front(s)) = m - 1
    BY <1>4, LengthFacts DEF Last
  <2>3. \A i \in 1..(m - 1) : Front(s)[i] = s[i]
    BY DEF Front
  <2> PICK f \in Seq(N), q \in N : f = Front(s) /\ q = Last(s)
    BY <2>2
  <2> PICK r \in Seq(N) : r = Reverse(s)
    BY <1>2
  <2>4. /\ Reverse(f) \in Seq(N) /\ Len(Reverse(f)) = m - 1
        /\ \A i \in 1..(m - 1) : Reverse(f)[i] = f[((m - 1) - i) + 1]
    <3>1. Len(f) = m - 1 /\ m - 1 \in Nat
      BY <2>1, <2>2
    <3> QED BY ONLY <3>1, f \in Seq(N), ReverseAt, SMTT(20)
  <2> PICK g \in Seq(N) : g = Reverse(f)
    BY <2>4
  <2>5. <<q>> \in Seq(N) /\ Len(<<q>>) = 1 /\ <<q>>[1] = q
    OBVIOUS
  <2>6. /\ <<q>> \o g \in Seq(N) /\ Len(<<q>> \o g) = 1 + (m - 1)
        /\ \A i \in 1..1 : (<<q>> \o g)[i] = <<q>>[i]
        /\ \A i \in 1..(m - 1) : (<<q>> \o g)[1 + i] = g[i]
    <3> PICK o \in Seq(N) : o = <<q>>
      BY <2>5
    <3>1. Len(o) = 1 /\ Len(g) = m - 1 /\ 1 \in Nat /\ m - 1 \in Nat
      BY <2>1, <2>4, <2>5
    <3>2. /\ o \o g \in Seq(N) /\ Len(o \o g) = 1 + (m - 1)
          /\ \A i \in 1..1 : (o \o g)[i] = o[i]
          /\ \A i \in 1..(m - 1) : (o \o g)[1 + i] = g[i]
      BY <3>1
    <3> QED BY <3>2
  <2> PICK b \in Seq(N) : b = <<q>> \o g
    BY <2>6
  <2>7. b[1] = q /\ \A i \in 1..(m - 1) : b[1 + i] = g[i]
    BY <2>5, <2>6
  <2>8. ASSUME NEW i \in 1..m PROVE r[i] = b[i]
    <3>1. r[i] = s[(m - i) + 1]
      BY <1>2
    <3>2. CASE i = 1
      <4>1. (m - i) + 1 = m
        BY <3>2
      <4> QED BY <2>2, <2>7, <3>1, <3>2, <4>1
    <3>3. CASE i # 1
      <4> PICK j \in 1..(m - 1) : i = 1 + j
        <5>1. i - 1 \in 1..(m - 1) /\ i = 1 + (i - 1)
          BY <3>3
        <5> QED BY <5>1
      <4>1. ((m - 1) - j) + 1 = (m - i) + 1 /\ (m - i) + 1 \in 1..(m - 1)
        OBVIOUS
      <4>2. b[i] = f[(m - i) + 1]
        BY <2>4, <2>7, <4>1
      <4>3. f[(m - i) + 1] = s[(m - i) + 1]
        BY <2>3, <4>1
      <4> QED BY <3>1, <4>2, <4>3
    <3> QED BY <3>2, <3>3
  <2>9. Len(r) = Len(b) /\ \A i \in 1..Len(r) : r[i] = b[i]
    BY <1>2, <2>1, <2>6, <2>8
  <2>10. r = b
    BY ONLY <2>9, r \in Seq(N), b \in Seq(N), SeqEqual
  <2> QED BY <2>2, <2>10
<1> QED BY <1>1, <1>2, <1>3, <1>4

--------------------------------------------------------------------------------
(* A sequence of one node.                                                  *)
LEMMA OneNode ==
  ASSUME NEW N, NEW n \in N
  PROVE  <<n>> \in Seq(N)
OBVIOUS

(* The leaves of a node are those of its operands, one after the other.     *)
LEMMA LeavesFacts ==
  ASSUME input \in Inputs
  PROVE  \A n \in DOMAIN input.operands :
           /\ Leaves[n] \in Seq(DOMAIN input.operands)
           /\ Leaves[n] = IF IsLeaf(n) THEN <<n>> ELSE Along(Leaves, input.operands[n])
<1> PICK N, operands : N = DOMAIN input.operands /\ operands = input.operands
  OBVIOUS
<1>1. /\ Acyclic(operands) /\ DOMAIN operands = N
      /\ \A n \in N : operands[n] \in Seq(N)
  BY CandidateAssumption
<1> DEFINE A == Seq(N)
           G == [z \in N \X Seq(A) |-> IF IsLeaf(z[1]) THEN <<z[1]>> ELSE FlattenSeq(z[2])]
           o == [n \in N |-> operands[n]]
<1>2. G \in [N \X Seq(A) -> A]
  <2>1. \A n \in N : <<n>> \in A
    BY OneNode, Zenon
  <2>2. \A s \in Seq(A) : FlattenSeq(s) \in A
    <3> SUFFICES ASSUME NEW s \in Seq(Seq(N)) PROVE FlattenSeq(s) \in Seq(N)
      OBVIOUS
    <3> QED BY FlattenIsSeq
  <2> HIDE DEF A
  <2>3. \A z \in N \X Seq(A) : (IF IsLeaf(z[1]) THEN <<z[1]>> ELSE FlattenSeq(z[2])) \in A
    BY <2>1, <2>2
  <2> QED BY <2>3
<1>3. o \in [N -> Seq(N)] /\ Acyclic(o) /\ \A n \in N : o[n] = operands[n]
  <2>1. o \in [N -> Seq(N)] /\ DOMAIN o = DOMAIN operands /\ \A n \in N : o[n] = operands[n]
    <3>1. \A n \in N : operands[n] \in Seq(N)
      BY <1>1
    <3>2. o \in [N -> Seq(N)] /\ DOMAIN o = N /\ \A n \in N : o[n] = operands[n]
      BY ONLY <3>1
    <3> QED BY ONLY <1>1, <3>2
  <2> HIDE DEF o
  <2>2. ASSUME NEW nodes \in SUBSET DOMAIN o, nodes # {}
        PROVE  \E n \in nodes : \A k \in DOMAIN o[n] : o[n][k] \notin nodes
    <3>1. nodes \in SUBSET DOMAIN operands /\ \A n \in nodes : o[n] = operands[n]
      BY ONLY <1>1, <2>1, nodes \in SUBSET DOMAIN o
    <3>2. PICK n \in nodes : \A k \in DOMAIN operands[n] : operands[n][k] \notin nodes
      BY ONLY <1>1, <2>2, <3>1 DEF Acyclic
    <3> QED BY ONLY <3>1, <3>2
  <2> QED BY ONLY <2>1, <2>2 DEF Acyclic
<1>4. PICK f \in [N -> A] : Computes(f, o, G)
  <2> HIDE DEF A, G, o
  <2> QED BY <1>2, <1>3, AcyclicRecursion
<1>5. ASSUME NEW n \in N
      PROVE  f[n] = IF IsLeaf(n) THEN <<n>> ELSE FlattenSeq([k \in DOMAIN operands[n] |-> f[operands[n][k]]])
  <2>1. f[n] = G[<<n, [k \in DOMAIN o[n] |-> f[o[n][k]]]>>]
    <3> HIDE DEF G, o
    <3> QED BY <1>4 DEF Computes
  <2>2. [k \in DOMAIN operands[n] |-> f[operands[n][k]]] \in Seq(A)
    <3>1. \A k \in DOMAIN operands[n] : f[operands[n][k]] \in A
      <4> HIDE DEF A
      <4> QED BY <1>1, <1>4
    <3> PICK s \in Seq(N) : s = operands[n]
      BY <1>1
    <3>2. [k \in DOMAIN s |-> f[s[k]]] \in Seq(A)
      <4> HIDE DEF A
      <4> QED BY <3>1, ValuesAlong
    <3> QED BY <3>2
  <2> PICK v \in Seq(A) : v = [k \in DOMAIN operands[n] |-> f[operands[n][k]]]
    BY <2>2
  <2>3. [k \in DOMAIN o[n] |-> f[o[n][k]]] = v
    BY <1>3
  <2>4. G[<<n, v>>] = IF IsLeaf(n) THEN <<n>> ELSE FlattenSeq(v)
    <3> HIDE DEF A
    <3> QED OBVIOUS
  <2> HIDE DEF G, o
  <2> QED BY <2>1, <2>3, <2>4
<1> DEFINE IsLeaves(l) ==
      l = [n \in N |-> IF IsLeaf(n) THEN <<n>>
                       ELSE FlattenSeq([k \in DOMAIN operands[n] |-> l[operands[n][k]]])]
<1>6. IsLeaves(f)
  <2> DEFINE h == [n \in N |-> IF IsLeaf(n) THEN <<n>>
                               ELSE FlattenSeq([k \in DOMAIN operands[n] |-> f[operands[n][k]]])]
  <2>1. \A n \in N : f[n] = h[n]
    BY <1>5
  <2>2. f = [n \in N |-> f[n]] /\ h = [n \in N |-> h[n]]
    OBVIOUS
  <2>3. f = h
    <3> HIDE DEF h
    <3> QED BY <2>1, <2>2
  <2> QED BY <2>3
<1>7. IsLeaves(Leaves)
  <2>1. Leaves = CHOOSE l : IsLeaves(l)
    BY DEF Leaves
  <2> HIDE DEF IsLeaves
  <2> QED BY <1>6, <2>1
<1> PICK g : g = Leaves
  OBVIOUS
<1>8. \A n \in N : g[n] = IF IsLeaf(n) THEN <<n>> ELSE Along(g, operands[n])
  <2>1. g = [n \in N |-> IF IsLeaf(n) THEN <<n>>
                         ELSE FlattenSeq([k \in DOMAIN operands[n] |-> g[operands[n][k]]])]
    BY <1>7
  <2>2. \A n \in N : g[n] = IF IsLeaf(n) THEN <<n>>
                            ELSE FlattenSeq([k \in DOMAIN operands[n] |-> g[operands[n][k]]])
    BY <2>1
  <2> QED BY <2>2 DEF Along
<1>9. \A n \in N : g[n] \in Seq(N)
  <2> DEFINE S == {n \in N : g[n] \in Seq(N)}
  <2>1. ASSUME NEW n \in N, \A k \in DOMAIN operands[n] : operands[n][k] \in S PROVE n \in S
    <3>1. CASE IsLeaf(n)
      <4>1. g[n] = <<n>> /\ <<n>> \in Seq(N)
        BY <1>8, <3>1, OneNode, Zenon
      <4> QED BY <4>1
    <3>2. CASE ~IsLeaf(n)
      <4> PICK s \in Seq(N) : s = operands[n]
        BY <1>1
      <4>1. \A k \in DOMAIN s : g[s[k]] \in A
        BY <2>1
      <4>2. [k \in DOMAIN s |-> g[s[k]]] \in Seq(A)
        <5> HIDE DEF A
        <5> QED BY <4>1, ValuesAlong
      <4>3. Along(g, s) \in Seq(N)
        BY <4>2, FlattenIsSeq DEF Along
      <4> QED BY <1>8, <3>2, <4>3
    <3> QED BY <3>1, <3>2
  <2>2. Over(N, operands)
    BY <1>1 DEF Over
  <2>3. \A n \in N : n \in S
    <3> HIDE DEF S
    <3>1. Inherits(N, operands, S)
      BY <2>1 DEF Inherits
    <3> QED BY <2>2, <3>1, AcyclicInduction, Zenon
  <2> QED BY <2>3
<1> QED BY <1>8, <1>9

(* The leaf that a preference finds among leaves in order.                  *)
FirstOf(order, preferring) ==
  LET at == {k \in DOMAIN order : order[k] \in preferring}
  IN IF at = {} THEN <<>> ELSE <<order[Min(at)]>>

(* What the walk should find.                                               *)
Answer(prefer, preferring, order) == IF ~prefer THEN order ELSE FirstOf(order, preferring)

(* What the walk has found among the leaves that it has seen.               *)
Sought(prefer, preferring, seen, f) ==
  IF prefer THEN f = <<>> /\ ToSet(seen) \intersect preferring = {} ELSE f = seen

(* The leaves in order are those that were seen, those of the node that is  *)
(* looked at and those of the pending operands, the last one first.         *)
Progress(leaves, order, seen, node, nodes) ==
  order = seen \o (leaves[node] \o Remaining(leaves, nodes))

(* The walk is on its way through the leaves in order, or has found what it *)
(* should.                                                                  *)
WalkInv ==
  /\ UnionInv
  /\ visited \in 1..NodeLimit
  /\ phase = "select" => Leaves[step] = LeavesInOrder
  /\ phase = "walk" =>
       \E seen \in Seq(DOMAIN input.operands) :
         /\ Progress(Leaves, LeavesInOrder, seen, step, pending)
         /\ Sought(input.prefer, input.preferring, seen, found)
  /\ phase \in {"merge", "single", "chosen", "ended"} =>
       found = Answer(input.prefer, input.preferring, LeavesInOrder)

(* Nothing is preferred among leaves that none is preferred of.             *)
LEMMA NothingFirst ==
  ASSUME NEW N, NEW order \in Seq(N), NEW preferring, ToSet(order) \intersect preferring = {}
  PROVE  FirstOf(order, preferring) = <<>>
BY DEF FirstOf, ToSet

(* The first leaf that is preferred.                                        *)
LEMMA FoundFirst ==
  ASSUME NEW N, NEW seen \in Seq(N), NEW x \in N, NEW t \in Seq(N), NEW preferring,
         ToSet(seen) \intersect preferring = {}, x \in preferring
  PROVE  FirstOf(seen \o (<<x>> \o t), preferring) = <<x>>
<1> PICK m \in Nat, l \in Nat : m = Len(seen) /\ l = Len(t)
  OBVIOUS
<1>1. <<x>> \in Seq(N) /\ Len(<<x>>) = 1 /\ <<x>>[1] = x
  OBVIOUS
<1> PICK o \in Seq(N) : o = <<x>>
  BY <1>1
<1>2. o \o t \in Seq(N) /\ Joined(o \o t, o, 1, t, l)
  <2>1. Len(o) = 1 /\ 1 \in Nat
    BY <1>1
  <2> QED BY <2>1, ConcatAt, Zenon
<1> PICK u \in Seq(N) : u = o \o t
  BY <1>2
<1>3. seen \o u \in Seq(N) /\ Joined(seen \o u, seen, m, u, 1 + l)
  <2>1. Len(u) = 1 + l /\ 1 + l \in Nat
    BY <1>2 DEF Joined
  <2> QED BY <2>1, ConcatAt, Zenon
<1> PICK c \in Seq(N) : c = seen \o u
  BY <1>3
<1>4. /\ Len(c) = m + (1 + l) /\ c[m + 1] = x
      /\ \A i \in 1..m : c[i] = seen[i]
  <2>1. /\ Len(c) = m + (1 + l) /\ \A i \in 1..m : c[i] = seen[i]
        /\ \A i \in 1..(1 + l) : c[m + i] = u[i]
    BY <1>3 DEF Joined
  <2>2. u[1] = x
    BY <1>1, <1>2 DEF Joined
  <2>3. 1 \in 1..(1 + l)
    OBVIOUS
  <2> QED BY <2>1, <2>2, <2>3
<1> DEFINE At == {k \in DOMAIN c : c[k] \in preferring}
<1>5. DOMAIN c = 1..(m + (1 + l)) /\ DOMAIN seen = 1..m
  BY <1>4
<1>6. m + 1 \in At
  BY <1>4, <1>5
<1>7. \A k \in At : k \in Nat /\ m + 1 <= k
  <2> SUFFICES ASSUME NEW k \in At PROVE k \in Nat /\ m + 1 <= k
    OBVIOUS
  <2>1. k \in 1..(m + (1 + l)) /\ c[k] \in preferring
    BY <1>5
  <2>2. ASSUME k <= m PROVE FALSE
    <3>1. k \in 1..m
      BY <2>1, <2>2
    <3>2. seen[k] \in ToSet(seen) /\ seen[k] = c[k]
      BY <1>4, <1>5, <3>1 DEF ToSet
    <3> QED BY <2>1, <3>2
  <2> QED BY <2>1, <2>2
<1>8. Min(At) = m + 1
  <2> HIDE DEF At
  <2>1. \A y \in At : (\A z \in At : y <= z) => y = m + 1
    <3> SUFFICES ASSUME NEW y \in At, \A z \in At : y <= z PROVE y = m + 1
      OBVIOUS
    <3>1. y \in Nat /\ m + 1 <= y /\ y <= m + 1
      BY <1>6, <1>7
    <3> QED BY <3>1
  <2>2. Min(At) = CHOOSE y \in At : \A z \in At : y <= z
    BY DEF Min
  <2> QED BY <1>6, <1>7, <2>1, <2>2
<1>9. FirstOf(c, preferring) = <<c[m + 1]>>
  BY <1>6, <1>8 DEF FirstOf
<1> QED BY <1>4, <1>9

(* The leaves stay what they are, for an input never changes.               *)
LEMMA LeavesStay ==
  ASSUME input' = input
  PROVE  Leaves' = Leaves /\ LeavesInOrder' = LeavesInOrder
<1>1. Leaves' = Leaves
  BY DEF Leaves, IsLeaf
<1> QED BY <1>1 DEF LeavesInOrder

(* A step that finds nothing else keeps what was found.                     *)
LEMMA FoundStays ==
  ASSUME WalkInv, UnionInv', input' = input, visited' = visited, found' = found,
         phase' \notin {"select", "walk"},
         phase' \in {"merge", "single", "chosen", "ended"} => phase \in {"merge", "single", "chosen", "ended"}
  PROVE  WalkInv'
<1>1. LeavesInOrder' = LeavesInOrder
  BY LeavesStay
<1>2. phase' # "select" /\ phase' # "walk"
  OBVIOUS
<1>3. phase' \in {"merge", "single", "chosen", "ended"} => found' = Answer(input'.prefer, input'.preferring, LeavesInOrder')
  BY <1>1 DEF WalkInv
<1>4. visited' \in 1..NodeLimit
  BY DEF WalkInv
<1> QED BY <1>2, <1>3, <1>4 DEF WalkInv

(* The walk begins at the root, the selection has followed single sources.  *)
LEMMA ProgressBegins ==
  ASSUME input \in Inputs, NEW n \in DOMAIN input.operands, Leaves[n] = LeavesInOrder
  PROVE  /\ <<>> \in Seq(DOMAIN input.operands)
         /\ Progress(Leaves, LeavesInOrder, <<>>, n, <<>>)
         /\ Sought(input.prefer, input.preferring, <<>>, <<>>)
<1> PICK N, L : N = DOMAIN input.operands /\ L = Leaves
  OBVIOUS
<1>1. Listing(N, L) /\ L[n] \in Seq(N)
  BY LeavesFacts DEF Listing
<1>2. <<>> \in Seq(N)
  OBVIOUS
<1>3. Reverse(<<>>) = <<>>
  BY <1>2, ReverseFacts
<1>4. Along(L, <<>>) = <<>>
  BY <1>1, AlongNone, Zenon
<1>5. Remaining(L, <<>>) = <<>>
  BY <1>3, <1>4 DEF Remaining
<1> PICK s \in Seq(N) : s = L[n]
  BY <1>1
<1>6. <<>> \o (s \o <<>>) = s
  OBVIOUS
<1>7. Progress(L, s, <<>>, n, <<>>)
  BY <1>5, <1>6 DEF Progress
<1>8. Sought(input.prefer, input.preferring, <<>>, <<>>)
  BY NothingFacts DEF Sought
<1> QED BY <1>2, <1>7, <1>8

(* Initially.                                                               *)
LEMMA WalkInit == ExpressionInit => WalkInv
<1> SUFFICES ASSUME ExpressionInit PROVE WalkInv
  OBVIOUS
<1>1. input \in Inputs /\ phase = "build" /\ visited = 1
  BY DEF ExpressionInit, AtRoot
<1>2. NodeLimit \in Nat \ {0}
  BY <1>1, InputFacts
<1>3. UnionInv
  BY UnionInit
<1> QED BY <1>1, <1>2, <1>3 DEF WalkInv

(* Construction ends, and the walk or the selection begins.                 *)
LEMMA WalkConstruct == ASSUME WalkInv, Construct PROVE WalkInv'
<1>1. /\ phase = "build" /\ phase' \in {"build", Beginning}
      /\ input' = input /\ walking' = walking /\ merging' = merging
  BY DEF Construct
<1>2. step' = step /\ pending' = pending /\ visited' = visited /\ found' = found
  BY <1>1 DEF walking
<1>3. UnionInv'
  BY KeepConstruct DEF WalkInv
<1>4. /\ step = input.root /\ pending = <<>> /\ found = <<>> /\ input \in Inputs
      /\ step \in DOMAIN input.operands
  BY <1>1 DEF WalkInv, UnionInv, Walking, Known
<1>5. Leaves[step] = LeavesInOrder
  BY <1>4 DEF LeavesInOrder
<1>6. /\ <<>> \in Seq(DOMAIN input.operands)
      /\ Progress(Leaves, LeavesInOrder, <<>>, step, <<>>)
      /\ Sought(input.prefer, input.preferring, <<>>, <<>>)
  BY <1>4, <1>5, ProgressBegins
<1>7. Leaves' = Leaves /\ LeavesInOrder' = LeavesInOrder
  BY <1>1, LeavesStay
<1>8. phase' \in {"build", "select", "walk"}
  BY <1>1 DEF Beginning
<1>9. visited' \in 1..NodeLimit
  BY <1>2 DEF WalkInv
<1> QED BY <1>1, <1>2, <1>3, <1>4, <1>5, <1>6, <1>7, <1>8, <1>9 DEF WalkInv

(* The selection follows a source: it has the leaves of what refers to it.  *)
LEMMA WalkFollow == ASSUME WalkInv, Follow PROVE WalkInv'
<1>1. /\ phase = "select" /\ phase' = "select" /\ Refers(step)
      /\ step' = Head(input.operands[step]) /\ input' = input /\ visited' = visited + 1
      /\ visited < NodeLimit
  BY DEF Follow
<1>2. UnionInv'
  BY KeepFollow DEF WalkInv
<1>3. /\ input \in Inputs /\ step \in DOMAIN input.operands /\ ~IsLeaf(step)
      /\ Len(input.operands[step]) = 1 /\ Leaves[step] = LeavesInOrder
  BY <1>1 DEF WalkInv, UnionInv, Known, Refers
<1> PICK N, L : N = DOMAIN input.operands /\ L = Leaves
  OBVIOUS
<1> PICK s \in Seq(N) : s = input.operands[step]
  BY <1>3, InputFacts
<1>4. s[1] \in N /\ s = <<s[1]>> /\ Head(s) = s[1]
  <2>1. Len(s) = 1
    BY <1>3
  <2>2. s[1] \in N /\ s = <<s[1]>>
    BY <2>1, Single
  <2> QED BY <2>1, <2>2
<1>5. L[step] = Along(L, s) /\ Listing(N, L)
  <2>1. \A n \in N : L[n] \in Seq(N)
    BY <1>3, LeavesFacts
  <2>2. L[step] = Along(L, s)
    BY <1>3, LeavesFacts
  <2> QED BY ONLY <2>1, <2>2 DEF Listing
<1>6. Along(L, <<s[1]>>) = L[s[1]]
  BY <1>4, <1>5, AlongOne
<1>7. Leaves[step'] = LeavesInOrder
  BY <1>1, <1>3, <1>4, <1>5, <1>6
<1>8. Leaves' = Leaves /\ LeavesInOrder' = LeavesInOrder
  BY <1>1, LeavesStay
<1>9. visited' \in 1..NodeLimit
  <2>1. NodeLimit \in Nat
    BY <1>3, InputFacts
  <2> QED BY <1>1, <2>1 DEF WalkInv
<1> QED BY <1>1, <1>2, <1>7, <1>8, <1>9 DEF WalkInv

(* The selection meets an operation, where a walk begins.                   *)
LEMMA WalkBranch == ASSUME WalkInv, Branch PROVE WalkInv'
<1>1. /\ phase = "select" /\ phase' = "walk" /\ visited' = 1
      /\ input' = input /\ step' = step /\ pending' = pending /\ found' = found
  BY DEF Branch
<1>2. UnionInv'
  BY KeepBranch DEF WalkInv
<1>3. /\ input \in Inputs /\ step \in DOMAIN input.operands /\ Leaves[step] = LeavesInOrder
      /\ pending = <<>> /\ found = <<>>
  BY <1>1 DEF WalkInv, UnionInv, Known, Walking
<1>4. /\ <<>> \in Seq(DOMAIN input.operands)
      /\ Progress(Leaves, LeavesInOrder, <<>>, step, <<>>)
      /\ Sought(input.prefer, input.preferring, <<>>, <<>>)
  BY <1>3, ProgressBegins
<1>5. Leaves' = Leaves /\ LeavesInOrder' = LeavesInOrder
  BY <1>1, LeavesStay
<1>6. visited' \in 1..NodeLimit
  BY <1>1, <1>3, InputFacts
<1> QED BY <1>1, <1>2, <1>3, <1>4, <1>5, <1>6 DEF WalkInv

(* The selection ends at a leaf, the only one.                              *)
LEMMA WalkSelect == ASSUME WalkInv, Select PROVE WalkInv'
<1>1. /\ phase = "select" /\ phase' = "single" /\ IsLeaf(step) /\ visited' = visited
      /\ input' = input /\ found' = <<step>>
  BY DEF Select
<1>2. UnionInv'
  BY KeepSelect DEF WalkInv
<1>3. /\ input \in Inputs /\ step \in DOMAIN input.operands /\ Leaves[step] = LeavesInOrder
      /\ input.select
  BY <1>1 DEF WalkInv, UnionInv, Known, Walking
<1>4. ~input.prefer
  BY <1>3, InputFacts
<1>5. Leaves[step] = <<step>>
  BY <1>1, <1>3, LeavesFacts
<1>6. LeavesInOrder' = LeavesInOrder
  BY <1>1, LeavesStay
<1>7. found' = Answer(input'.prefer, input'.preferring, LeavesInOrder')
  BY <1>1, <1>3, <1>4, <1>5, <1>6 DEF Answer
<1>8. visited' \in 1..NodeLimit
  BY <1>1 DEF WalkInv
<1> QED BY <1>1, <1>2, <1>7, <1>8 DEF WalkInv

(* A visited leaf was seen, the operands of another node are yet to come.   *)
Seen(seen, n) == IF IsLeaf(n) THEN Append(seen, n) ELSE seen

(* What is pending after a node has the leaves that remain.                 *)
LEMMA ProgressVisits ==
  ASSUME Known, NEW seen \in Seq(DOMAIN input.operands),
         Progress(Leaves, LeavesInOrder, seen, step, pending)
  PROVE  /\ Seen(seen, step) \in Seq(DOMAIN input.operands)
         /\ LeavesInOrder = Seen(seen, step) \o Remaining(Leaves, Pushed(step))
<1> PICK N, L : N = DOMAIN input.operands /\ L = Leaves
  OBVIOUS
<1>1. /\ Listing(N, L)
      /\ L[step] = IF IsLeaf(step) THEN <<step>> ELSE Along(L, input.operands[step])
      /\ step \in N /\ input \in Inputs
  BY LeavesFacts DEF Known, Listing
<1> PICK p \in Seq(N), s \in Seq(N), e \in N : p = pending /\ s = seen /\ e = step
  BY <1>1 DEF Known
<1>2. Reverse(p) \in Seq(N) /\ Reverse(<<>>) = <<>>
  BY ReverseFacts
<1> PICK r \in Seq(N) : r = Reverse(p)
  BY <1>2
<1>3. Along(L, r) \in Seq(N)
  BY <1>1, AlongSeq, Zenon
<1> PICK v \in Seq(N) : v = Along(L, r)
  BY <1>3
<1>4. LeavesInOrder = s \o (L[e] \o v)
  BY DEF Progress, Remaining
<1>5. CASE IsLeaf(step)
  <2>1. Seen(seen, step) = Append(s, e) /\ Append(s, e) \in Seq(N)
    BY <1>5 DEF Seen
  <2>2. Pushed(step) = p
    <3>1. Sources(step) = <<>>
      BY <1>5 DEF Sources
    <3>2. p \o <<>> = p
      OBVIOUS
    <3> QED BY <1>2, <3>1, <3>2 DEF Pushed
  <2>3. L[e] = <<e>>
    BY <1>1, <1>5
  <2>4. s \o (<<e>> \o v) = Append(s, e) \o v
    <3> PICK o \in Seq(N) : o = <<e>>
      BY OneNode
    <3>1. Append(s, e) = s \o o
      BY AppendIsConcat
    <3>2. (s \o o) \o v = s \o (o \o v)
      BY ONLY s \in Seq(N), o \in Seq(N), v \in Seq(N), SMTT(30)
    <3> QED BY <3>1, <3>2
  <2> QED BY <1>4, <2>1, <2>2, <2>3, <2>4 DEF Remaining
<1>6. CASE ~IsLeaf(step)
  <2> PICK o \in Seq(N) : o = input.operands[step]
    BY <1>1, InputFacts
  <2>1. Seen(seen, step) = s /\ Pushed(step) = p \o Reverse(o)
    BY <1>6 DEF Seen, Pushed, Sources
  <2>2. Reverse(p \o Reverse(o)) = o \o r
    BY ONLY p \in Seq(N), o \in Seq(N), r = Reverse(p), ReverseFacts
  <2>3. Along(L, o \o r) = Along(L, o) \o v
    <3>1. IsBoth(Along(L, o \o r), Along(L, o), Along(L, r))
      BY <1>1, AlongConcat, Zenon
    <3> QED BY <3>1 DEF IsBoth
  <2>4. L[e] = Along(L, o)
    BY <1>1, <1>6
  <2> QED BY <1>4, <2>1, <2>2, <2>3, <2>4 DEF Remaining
<1> QED BY <1>5, <1>6

(* The last of the pending operands is visited next.                        *)
LEMMA RemainingPops ==
  ASSUME input \in Inputs, NEW q \in Seq(DOMAIN input.operands), q # <<>>
  PROVE  Remaining(Leaves, q) = Leaves[Last(q)] \o Remaining(Leaves, Front(q))
<1> PICK N, L : N = DOMAIN input.operands /\ L = Leaves
  OBVIOUS
<1>1. Listing(N, L)
  BY LeavesFacts DEF Listing
<1>2. Last(q) \in N /\ Front(q) \in Seq(N) /\ Reverse(q) = <<Last(q)>> \o Reverse(Front(q))
  BY ReverseFacts
<1> PICK x \in N, f \in Seq(N) : x = Last(q) /\ f = Front(q)
  BY <1>2
<1>3. Reverse(f) \in Seq(N)
  BY ReverseFacts
<1> PICK r \in Seq(N) : r = Reverse(f)
  BY <1>3
<1> PICK o \in Seq(N) : o = <<x>>
  BY OneNode
<1>4. Along(L, o \o r) = Along(L, o) \o Along(L, r) /\ Along(L, <<x>>) = L[x]
  <2>1. IsBoth(Along(L, o \o r), Along(L, o), Along(L, r))
    BY <1>1, AlongConcat, Zenon
  <2>2. Along(L, <<x>>) = L[x]
    BY <1>1, AlongOne
  <2> QED BY <2>1, <2>2 DEF IsBoth
<1> QED BY <1>2, <1>4 DEF Remaining

(* What was found after a node, and what was seen.                          *)
LEMMA SoughtVisits ==
  ASSUME Known, NEW seen \in Seq(DOMAIN input.operands), ~Stops,
         Sought(input.prefer, input.preferring, seen, found)
  PROVE  Sought(input.prefer, input.preferring, Seen(seen, step), Collected)
<1> PICK N : N = DOMAIN input.operands
  OBVIOUS
<1>1. step \in N
  BY DEF Known
<1>2. CASE ~input.prefer
  BY <1>2 DEF Sought, Seen, Collected, Consumes
<1>3. CASE input.prefer
  <2>1. ~Consumes(step) /\ Collected = found
    BY <1>3 DEF Stops, Collected
  <2>2. IsLeaf(step) => step \notin input.preferring
    BY <1>3, <2>1 DEF Consumes
  <2>3. found = <<>> /\ ToSet(seen) \intersect input.preferring = {}
    BY <1>3 DEF Sought
  <2>4. CASE IsLeaf(step)
    <3>1. Seen(seen, step) = Append(seen, step)
      BY <2>4 DEF Seen
    <3>2. ToSet(Append(seen, step)) = ToSet(seen) \union {step}
      BY <1>1, SetOfAppend
    <3> QED BY <1>3, <2>1, <2>2, <2>3, <2>4, <3>1, <3>2 DEF Sought
  <2>5. CASE ~IsLeaf(step)
    <3>1. Seen(seen, step) = seen
      BY <2>5 DEF Seen
    <3> QED BY <1>3, <2>1, <2>3, <3>1 DEF Sought
  <2> QED BY <2>4, <2>5
<1> QED BY <1>2, <1>3

(* The walk goes on.                                                        *)
LEMMA WalkVisit == ASSUME WalkInv, Visit PROVE WalkInv'
<1>1. /\ phase = "walk" /\ phase' = "walk" /\ ~Stops /\ Pushed(step) # <<>>
      /\ found' = Collected /\ step' = Last(Pushed(step)) /\ pending' = Front(Pushed(step))
      /\ input' = input /\ visited' = visited + 1 /\ visited < NodeLimit
  BY DEF Visit
<1>2. UnionInv'
  BY KeepVisit DEF WalkInv
<1>3. Known /\ input \in Inputs
  BY DEF WalkInv, UnionInv, Known
<1> PICK N : N = DOMAIN input.operands
  OBVIOUS
<1> PICK seen \in Seq(DOMAIN input.operands) :
      /\ Progress(Leaves, LeavesInOrder, seen, step, pending)
      /\ Sought(input.prefer, input.preferring, seen, found)
  BY <1>1 DEF WalkInv
<1> PICK more \in Seq(DOMAIN input.operands) : more = Seen(seen, step)
  BY <1>3, ProgressVisits
<1>4. LeavesInOrder = more \o Remaining(Leaves, Pushed(step))
  BY <1>3, ProgressVisits
<1>5. Sought(input.prefer, input.preferring, more, Collected)
  BY <1>1, <1>3, SoughtVisits
<1> PICK q \in Seq(DOMAIN input.operands) : q = Pushed(step)
  BY <1>3, PushedFacts
<1>6. Remaining(Leaves, q) = Leaves[Last(q)] \o Remaining(Leaves, Front(q))
  BY <1>1, <1>3, RemainingPops
<1>7. Progress(Leaves, LeavesInOrder, more, step', pending')
  BY <1>1, <1>4, <1>6 DEF Progress
<1>8. Leaves' = Leaves /\ LeavesInOrder' = LeavesInOrder
  BY <1>1, LeavesStay
<1>9. visited' \in 1..NodeLimit
  <2>1. NodeLimit \in Nat
    BY <1>3, InputFacts
  <2> QED BY <1>1, <2>1 DEF WalkInv
<1>10. /\ Progress(Leaves', LeavesInOrder', more, step', pending')
       /\ Sought(input'.prefer, input'.preferring, more, found')
       /\ more \in Seq(DOMAIN input'.operands)
  BY <1>1, <1>5, <1>7, <1>8
<1> QED BY <1>1, <1>2, <1>9, <1>10 DEF WalkInv

(* The walk ends with all leaves, or at the first that is preferred.        *)
LEMMA WalkEndWalk == ASSUME WalkInv, EndWalk PROVE WalkInv'
<1>1. /\ phase = "walk" /\ phase' \in {"chosen", "single", "merge"} /\ visited' = visited
      /\ Stops \/ Pushed(step) = <<>>
      /\ found' = Collected /\ input' = input
  BY DEF EndWalk
<1>2. UnionInv'
  BY KeepEndWalk DEF WalkInv
<1>3. Known /\ input \in Inputs /\ step \in DOMAIN input.operands /\ pending \in Seq(DOMAIN input.operands)
  BY DEF WalkInv, UnionInv, Known
<1> PICK N : N = DOMAIN input.operands
  OBVIOUS
<1> PICK seen \in Seq(DOMAIN input.operands) :
      /\ Progress(Leaves, LeavesInOrder, seen, step, pending)
      /\ Sought(input.prefer, input.preferring, seen, found)
  BY <1>1 DEF WalkInv
<1> SUFFICES Collected = Answer(input.prefer, input.preferring, LeavesInOrder)
  <2>1. LeavesInOrder' = LeavesInOrder
    BY <1>1, LeavesStay
  <2>2. visited' \in 1..NodeLimit
    BY <1>1 DEF WalkInv
  <2> QED BY <1>1, <1>2, <2>1, <2>2 DEF WalkInv
<1>4. CASE Stops
  <2>1. /\ input.prefer /\ IsLeaf(step) /\ step \in input.preferring /\ Collected = Append(found, step)
        /\ found = <<>> /\ ToSet(seen) \intersect input.preferring = {}
    BY <1>4 DEF Stops, Consumes, Collected, Sought
  <2>2. Collected = <<step>>
    BY <2>1
  <2>3. Leaves[step] = <<step>>
    BY <1>3, <2>1, LeavesFacts
  <2> PICK t \in Seq(N) : t = Remaining(Leaves, pending)
    <3>1. Listing(N, Leaves)
      BY <1>3, LeavesFacts DEF Listing
    <3>2. Reverse(pending) \in Seq(N)
      BY <1>3, ReverseFacts
    <3>3. Along(Leaves, Reverse(pending)) \in Seq(N)
      BY <3>1, <3>2, AlongSeq, Zenon
    <3> QED BY <3>3 DEF Remaining
  <2>4. LeavesInOrder = seen \o (<<step>> \o t)
    BY <2>3 DEF Progress
  <2>5. FirstOf(seen \o (<<step>> \o t), input.preferring) = <<step>>
    BY <1>3, <2>1, FoundFirst
  <2> QED BY <2>1, <2>2, <2>4, <2>5 DEF Answer
<1>5. CASE ~Stops
  <2> PICK more \in Seq(N) : more = Seen(seen, step)
    BY <1>3, ProgressVisits
  <2>1. LeavesInOrder = more \o Remaining(Leaves, Pushed(step))
    BY <1>3, ProgressVisits
  <2>2. Remaining(Leaves, Pushed(step)) = <<>>
    <3>1. Pushed(step) = <<>>
      BY <1>1, <1>5
    <3>2. Listing(N, Leaves)
      BY <1>3, LeavesFacts DEF Listing
    <3>3. <<>> \in Seq(N)
      OBVIOUS
    <3>4. Reverse(<<>>) = <<>>
      BY <3>3, ReverseFacts
    <3>5. Along(Leaves, <<>>) = <<>>
      BY <3>2, AlongNone, Zenon
    <3> QED BY <3>1, <3>4, <3>5 DEF Remaining
  <2>3. more \o <<>> = more
    OBVIOUS
  <2>4. LeavesInOrder = more
    BY <2>1, <2>2, <2>3
  <2>5. Sought(input.prefer, input.preferring, more, Collected)
    BY <1>3, <1>5, SoughtVisits
  <2>6. CASE ~input.prefer
    BY <2>4, <2>5, <2>6 DEF Sought, Answer
  <2>7. CASE input.prefer
    <3>1. ToSet(more) \intersect input.preferring = {} /\ Collected = <<>>
      BY <2>5, <2>7 DEF Sought
    <3>2. FirstOf(more, input.preferring) = <<>>
      BY <3>1, NothingFirst
    <3> QED BY <2>4, <2>7, <3>1, <3>2 DEF Answer
  <2> QED BY <2>6, <2>7
<1> QED BY <1>4, <1>5

(* A step that changes nothing of the walk keeps the invariant.             *)
LEMMA WalkUnchanged ==
  ASSUME WalkInv, UnionInv', UNCHANGED vars
  PROVE  WalkInv'
<1>1. /\ input' = input /\ phase' = phase /\ step' = step /\ pending' = pending
      /\ visited' = visited /\ found' = found
  BY DEF vars, walking
<1>2. Leaves' = Leaves /\ LeavesInOrder' = LeavesInOrder
  BY <1>1, LeavesStay
<1>3. visited' \in 1..NodeLimit
  BY <1>1 DEF WalkInv
<1>4. phase' = "select" => Leaves'[step'] = LeavesInOrder'
  BY <1>1, <1>2 DEF WalkInv
<1>5. phase' = "walk" =>
        \E seen \in Seq(DOMAIN input'.operands) :
          /\ Progress(Leaves', LeavesInOrder', seen, step', pending')
          /\ Sought(input'.prefer, input'.preferring, seen, found')
  BY <1>1, <1>2 DEF WalkInv
<1>6. phase' \in {"merge", "single", "chosen", "ended"} =>
        found' = Answer(input'.prefer, input'.preferring, LeavesInOrder')
  BY <1>1, <1>2 DEF WalkInv
<1> QED BY <1>3, <1>4, <1>5, <1>6 DEF WalkInv

(* A step that refuses, fails, or delivers candidates keeps what was found. *)
LEMMA WalkDelivers ==
  ASSUME WalkInv, UnionInv', input' = input, walking' = walking,
         \/ phase' \in {"failed", "refused"}
         \/ phase \in {"merge", "single"} /\ phase' \in {"merge", "single", "ended"}
  PROVE  WalkInv'
<1>1. visited' = visited /\ found' = found
  BY DEF walking
<1> QED BY <1>1, FoundStays

(* Every step keeps the walk's invariant.                                   *)
LEMMA WalkNext ==
  ASSUME WalkInv, [ExpressionNext]_<<vars, reading>>
  PROVE  WalkInv'
<1>1. UnionInv /\ UnionInv'
  BY UnionNext DEF WalkInv
<1>2. ASSUME Next PROVE WalkInv'
  <2>1. CASE RefuseSource \/ RefuseWalk
    BY <1>1, <2>1, WalkDelivers DEF RefuseSource, RefuseWalk
  <2>2. CASE Follow \/ Select \/ Branch \/ Visit \/ EndWalk
    BY <2>2, WalkFollow, WalkSelect, WalkBranch, WalkVisit, WalkEndWalk
  <2>3. CASE Forward
    <3>1. input' = input /\ walking' = walking /\ phase = "single" /\ phase' \in {"single", "ended", "failed"}
      BY <2>3 DEF Forward
    <3> QED BY <1>1, <3>1, WalkDelivers
  <2>4. CASE Deliver \/ Emit \/ End
    <3>1. input' = input /\ walking' = walking /\ phase = "merge" /\ phase' \in {"merge", "ended"}
      BY <2>4 DEF Deliver, Emit, End
    <3> QED BY <1>1, <3>1, WalkDelivers
  <2>5. ASSUME NEW k \in Streams, NextPosition(k) \/ NextRequest(k) \/ EndStream(k)
        PROVE  WalkInv'
    <3>1. input' = input /\ walking' = walking /\ phase = "merge" /\ phase' \in {"merge", "failed"}
      BY <2>5 DEF NextPosition, NextRequest, EndStream, Wanting
    <3> QED BY <1>1, <3>1, WalkDelivers
  <2> QED BY <1>2, <2>1, <2>2, <2>3, <2>4, <2>5 DEF Next
<1>3. CASE Construct
  BY <1>3, WalkConstruct
<1>4. CASE RefuseConstruction
  BY <1>1, <1>4, WalkDelivers DEF RefuseConstruction
<1>5. CASE Discover
  BY <1>2, <1>5 DEF Discover
<1>6. CASE Evaluate
  BY <1>1, <1>6, WalkUnchanged DEF Evaluate
<1>7. CASE FailEvaluation
  BY <1>1, <1>7, WalkDelivers DEF FailEvaluation
<1>8. CASE UNCHANGED <<vars, reading>>
  BY <1>1, <1>8, WalkUnchanged
<1> QED BY <1>3, <1>4, <1>5, <1>6, <1>7, <1>8 DEF ExpressionNext

(* The walk's invariant holds in every state.                               *)
LEMMA WalkAlways == ExpressionSpec => []WalkInv
<1>1. WalkInv /\ [ExpressionNext]_<<vars, reading>> => WalkInv'
  BY WalkNext
<1> QED BY WalkInit, <1>1, PTL DEF ExpressionSpec

(* The iterative walk finds what the recursion it avoids would, for every   *)
(* acyclic expression: every leaf in operand order, as often as it is used, *)
(* or the leftmost leaf with a preference; and it visits no more nodes than *)
(* the limit (walk, ordered, preferred, selection).                         *)
THEOREM Walked == ExpressionSpec => []WalkFollowsOperands
<1>1. WalkInv => WalkFollowsOperands
  <2> SUFFICES ASSUME WalkInv PROVE WalkFollowsOperands
    OBVIOUS
  <2>1. input \in Inputs /\ visited \in 1..NodeLimit
    BY DEF WalkInv, UnionInv, Known
  <2>2. visited <= NodeLimit
    BY <2>1
  <2>3. phase \in {"merge", "single", "chosen", "ended"} =>
          found = Answer(input.prefer, input.preferring, LeavesInOrder)
    BY DEF WalkInv
  <2> QED BY <2>2, <2>3 DEF WalkFollowsOperands, Answer, FirstOf
<1> QED BY <1>1, WalkAlways, PTL

--------------------------------------------------------------------------------
(* What every expression is.                                                *)
LEMMA ExpressionFacts ==
  ASSUME NEW i \in Inputs
  PROVE  /\ i = Described(i.expression) /\ Expressible(i.expression)
         /\ i.operands = i.expression.operands /\ i.root = i.expression.root
         /\ i.root \in DOMAIN i.operands /\ Acyclic(i.operands)
         /\ \A n \in DOMAIN i.operands : i.operands[n] \in Seq(DOMAIN i.operands)
<1>1. i = Described(i.expression) /\ Expressible(i.expression)
  BY ExpressionAssumption
<1>2. i.operands = i.expression.operands /\ i.root = i.expression.root
  <2> PICK e : e = i.expression
    OBVIOUS
  <2>1. Described(e).operands = e.operands /\ Described(e).root = e.root
    BY DEF Described
  <2> QED BY <1>1, <2>1
<1> QED BY <1>1, <1>2, CandidateAssumption

(* What is known of the operands of a node.                                 *)
OfOperands(f, operands, n) == [k \in DOMAIN operands[n] |-> f[operands[n][k]]]
Computing(f, operands, n, A, G) ==
  /\ OfOperands(f, operands, n) \in Seq(A)
  /\ Len(OfOperands(f, operands, n)) = Len(operands[n])
  /\ f[n] = G[<<n, OfOperands(f, operands, n)>>]

(* Values of the nodes of an expression, each from those of its operands.   *)
LEMMA ExpressionRecursion ==
  ASSUME NEW N, NEW operands, Over(N, operands), NEW A, NEW G \in [N \X Seq(A) -> A]
  PROVE  \E f \in [N -> A] : \A n \in N : Computing(f, operands, n, A, G)
<1>1. /\ Acyclic(operands) /\ DOMAIN operands = N
      /\ \A n \in N : operands[n] \in Seq(N)
  BY DEF Over
<1> DEFINE o == [n \in N |-> operands[n]]
<1>2. o \in [N -> Seq(N)] /\ Acyclic(o) /\ \A n \in N : o[n] = operands[n]
  <2>1. o \in [N -> Seq(N)] /\ DOMAIN o = DOMAIN operands /\ \A n \in N : o[n] = operands[n]
    <3>1. \A n \in N : operands[n] \in Seq(N)
      BY <1>1
    <3>2. o \in [N -> Seq(N)] /\ DOMAIN o = N /\ \A n \in N : o[n] = operands[n]
      BY ONLY <3>1
    <3> QED BY ONLY <1>1, <3>2
  <2> HIDE DEF o
  <2>2. ASSUME NEW nodes \in SUBSET DOMAIN o, nodes # {}
        PROVE  \E n \in nodes : \A k \in DOMAIN o[n] : o[n][k] \notin nodes
    <3>1. nodes \in SUBSET DOMAIN operands /\ \A n \in nodes : o[n] = operands[n]
      BY ONLY <1>1, <2>1, nodes \in SUBSET DOMAIN o
    <3>2. PICK n \in nodes : \A k \in DOMAIN operands[n] : operands[n][k] \notin nodes
      BY ONLY <1>1, <2>2, <3>1 DEF Acyclic
    <3> QED BY ONLY <3>1, <3>2
  <2> QED BY ONLY <2>1, <2>2 DEF Acyclic
<1> HIDE DEF o
<1>3. PICK f \in [N -> A] : Computes(f, o, G)
  <2>1. G \in [N \X Seq(A) -> A]
    OBVIOUS
  <2> QED BY ONLY <1>2, <2>1, AcyclicRecursion
<1>4. ASSUME NEW n \in N PROVE Computing(f, operands, n, A, G)
  <2> PICK s \in Seq(N) : s = operands[n]
    BY <1>1
  <2>1. \A k \in DOMAIN s : f[s[k]] \in A
    BY <1>3
  <2>2. /\ [k \in DOMAIN s |-> f[s[k]]] \in Seq(A)
        /\ Len([k \in DOMAIN s |-> f[s[k]]]) = Len(s)
    <3>1. [k \in DOMAIN s |-> f[s[k]]] \in Seq(A)
      BY ONLY <2>1, s \in Seq(N), ValuesAlong
    <3>2. Len([k \in DOMAIN s |-> f[s[k]]]) = Len(s)
      BY ONLY <2>1, s \in Seq(N), ValuesAlong
    <3> QED BY <3>1, <3>2
  <2>3. f[n] = G[<<n, [k \in DOMAIN o[n] |-> f[o[n][k]]]>>]
    BY <1>3 DEF Computes
  <2> QED BY <1>2, <2>2, <2>3 DEF Computing, OfOperands
<1> QED BY <1>3, <1>4

(* All are true.                                                            *)
Every(v) == \A k \in DOMAIN v : v[k]

(* Whether a node is sparse.                                                *)
LEMMA SparseFromIs ==
  ASSUME NEW e, NEW n, NEW v
  PROVE  /\ e.operation[n] \in Own => SparseFrom(e, n, v) = (n \in e.sparse)
         /\ e.operation[n] = "dense" => SparseFrom(e, n, v) = FALSE
         /\ e.operation[n] \notin Own \union {"dense"} => SparseFrom(e, n, v) = Every(v)
         /\ SparseFrom(e, n, v) \in BOOLEAN
<1>1. e.operation[n] \in Own => SparseFrom(e, n, v) = (n \in e.sparse)
  BY Zenon DEF SparseFrom, Own
<1>2. e.operation[n] = "dense" => SparseFrom(e, n, v) = FALSE
  BY Zenon DEF SparseFrom, Own
<1>3. e.operation[n] \notin Own \union {"dense"} => SparseFrom(e, n, v) = Every(v)
  <2> SUFFICES ASSUME e.operation[n] \notin Own, e.operation[n] # "dense"
               PROVE  SparseFrom(e, n, v) = Every(v)
    OBVIOUS
  <2> QED BY Zenon DEF SparseFrom, Every
<1>4. SparseFrom(e, n, v) \in BOOLEAN
  <2>1. CASE e.operation[n] \in Own
    <3>1. (n \in e.sparse) \in BOOLEAN
      OBVIOUS
    <3> QED BY <1>1, <2>1, <3>1, Zenon
  <2>2. CASE e.operation[n] = "dense"
    BY <1>2, <2>2, Zenon
  <2>3. CASE e.operation[n] \notin Own \union {"dense"}
    BY <1>3, <2>3, Zenon DEF Every
  <2> QED BY <2>1, <2>2, <2>3
<1> QED BY <1>1, <1>2, <1>3, <1>4, Zenon

(* What has operands is sparse when they are.                               *)
LEMMA SparseFromOperands ==
  ASSUME NEW e, NEW n, NEW v, e.operation[n] \notin Own \union {"dense"}
  PROVE  SparseFrom(e, n, v) = Every(v)
BY SparseFromIs, Zenon

(* Sparse nodes are sparse by themselves or by their operands.              *)
LEMMA SparseFacts ==
  ASSUME NEW i \in Inputs, NEW e, e = i.expression
  PROVE  \A n \in DOMAIN e.operands :
           n \in SparseNodes(e) <=>
             \/ e.operation[n] \in Own /\ n \in e.sparse
             \/ e.operation[n] \notin Own \union {"dense"} /\ OperandsAreSparse(e, n)
<1> PICK N, operands : N = DOMAIN e.operands /\ operands = e.operands
  OBVIOUS
<1>1. /\ Acyclic(operands) /\ DOMAIN operands = N
      /\ \A n \in N : operands[n] \in Seq(N)
  BY ExpressionFacts
<1> DEFINE G == [z \in N \X Seq(BOOLEAN) |-> SparseFrom(e, z[1], z[2])]
<1>2. G \in [N \X Seq(BOOLEAN) -> BOOLEAN]
  <2>1. \A n, v : SparseFrom(e, n, v) \in BOOLEAN
    BY SparseFromIs, Zenon
  <2> QED BY <2>1
<1>3. Over(N, operands)
  BY <1>1 DEF Over
<1>4. PICK f \in [N -> BOOLEAN] : \A n \in N : Computing(f, operands, n, BOOLEAN, G)
  <2> HIDE DEF G
  <2> QED BY <1>2, <1>3, ExpressionRecursion
<1> DEFINE Step(l, n) == SparseFrom(e, n, [k \in DOMAIN operands[n] |-> l[operands[n][k]]])
<1>5. ASSUME NEW n \in N PROVE f[n] = Step(f, n)
  <2> PICK v \in Seq(BOOLEAN) : v = OfOperands(f, operands, n) /\ f[n] = G[<<n, v>>]
    BY <1>4 DEF Computing
  <2>1. G[<<n, v>>] = SparseFrom(e, n, v)
    OBVIOUS
  <2> HIDE DEF G
  <2> QED BY <2>1 DEF OfOperands
<1> DEFINE IsSparse(l) == l = [n \in N |-> Step(l, n)]
<1>6. IsSparse(f)
  <2> DEFINE h == [n \in N |-> Step(f, n)]
  <2>1. \A n \in N : f[n] = h[n]
    BY <1>5
  <2>2. f = [n \in N |-> f[n]] /\ h = [n \in N |-> h[n]]
    OBVIOUS
  <2>3. f = h
    <3> HIDE DEF h
    <3> QED BY <2>1, <2>2
  <2> QED BY <2>3
<1> PICK g : g = CHOOSE l : IsSparse(l)
  OBVIOUS
<1>7. IsSparse(g)
  <2> HIDE DEF IsSparse
  <2> QED BY <1>6
<1>8. SparseNodes(e) = {n \in N : g[n]}
  BY DEF SparseNodes
<1>9. \A n \in N : g[n] = Step(g, n)
  BY <1>7
<1> HIDE DEF Step
<1>10. ASSUME NEW n \in N PROVE n \in SparseNodes(e) <=> Step(g, n)
  BY <1>8, <1>9, <1>10, Zenon
<1>11. ASSUME NEW n \in N, e.operation[n] \notin Own \union {"dense"}
       PROVE  Step(g, n) <=> OperandsAreSparse(e, n)
  <2> PICK v : v = [k \in DOMAIN operands[n] |-> g[operands[n][k]]]
    OBVIOUS
  <2>1. Step(g, n) = Every(v)
    <3>1. SparseFrom(e, n, v) = Every(v)
      BY <1>11, SparseFromOperands, Zenon
    <3>2. Step(g, n) = SparseFrom(e, n, v)
      BY DEF Step
    <3> QED BY <3>1, <3>2, Zenon
  <2>2. \A k \in DOMAIN operands[n] : operands[n][k] \in N
    BY <1>1
  <2>3. \A k \in DOMAIN operands[n] : operands[n][k] \in SparseNodes(e) <=> g[operands[n][k]]
    BY <1>8, <2>2, Zenon
  <2>4. DOMAIN v = DOMAIN operands[n] /\ \A k \in DOMAIN operands[n] : v[k] = g[operands[n][k]]
    OBVIOUS
  <2> QED BY <2>1, <2>3, <2>4, Zenon DEF OperandsAreSparse, Every
<1>12. \A n \in N : e.operation[n] \in Own => (Step(g, n) <=> n \in e.sparse)
  BY SparseFromIs, Zenon DEF Step
<1>13. \A n \in N : e.operation[n] = "dense" => ~Step(g, n)
  BY SparseFromIs, Zenon DEF Step
<1>14. "dense" \notin Own
  BY DEF Own
<1> QED BY <1>10, <1>11, <1>12, <1>13, <1>14

--------------------------------------------------------------------------------
(* The kinds of nodes, one of which each node is.                           *)
Elementwise(e, n) == e.operation[n] \notin Own \union Owned \union {"where"}

(* What each node is.                                                       *)
LEMMA NodeFacts ==
  ASSUME NEW i \in Inputs, NEW e, e = i.expression, NEW n \in DOMAIN e.operands
  PROVE  /\ e.operands[n] \in Seq(DOMAIN e.operands)
         /\ e.operands[n] = <<>> <=> e.operation[n] \in Own
         /\ e.operation[n] \in Own => e.elements[n] \in [Places -> Values]
         /\ e.operation[n] = "tensor" /\ n \in e.sparse => n \in DOMAIN e.requests
         /\ e.operation[n] \in Owned => Len(e.operands[n]) = 1
         /\ e.operation[n] = "where" => Len(e.operands[n]) = 3
         /\ Elementwise(e, n) => \A v \in [DOMAIN e.operands[n] -> Values] : Kernel(e.operation[n], v) \in Values
         /\ Zero \in Values /\ Zero \in Zeros /\ Zeros \subseteq Values /\ Size \in Nat
<1>1. i = Described(i.expression) /\ Expressible(i.expression) /\ i.operands = i.expression.operands
  BY ExpressionFacts
<1>2. e.operands[n] \in Seq(DOMAIN e.operands)
  BY <1>1, ExpressionFacts
<1> QED BY <1>1, <1>2, ExpressionAssumption DEF Expressible, Elementwise

(* The expression's nodes are acyclic.                                      *)
LEMMA NodesOver ==
  ASSUME NEW i \in Inputs, NEW e, e = i.expression
  PROVE  Over(DOMAIN e.operands, e.operands)
BY ExpressionFacts DEF Over

(* The value that omitted elements have.                                    *)
LEMMA ZeroOfIs ==
  ASSUME NEW operation, NEW v
  PROVE  /\ operation = "where" => ZeroOf(operation, v) = v[3]
         /\ operation \in Owned => ZeroOf(operation, v) = v[1]
         /\ operation \notin Owned \union {"where"} => ZeroOf(operation, v) = Kernel(operation, v)
<1>1. operation = "where" => ZeroOf(operation, v) = v[3]
  BY Zenon DEF ZeroOf, Owned
<1>2. operation \in Owned => ZeroOf(operation, v) = v[1]
  BY Zenon DEF ZeroOf, Owned
<1>3. operation \notin Owned \union {"where"} => ZeroOf(operation, v) = Kernel(operation, v)
  <2> SUFFICES ASSUME operation \notin Owned, operation # "where" PROVE ZeroOf(operation, v) = Kernel(operation, v)
    OBVIOUS
  <2> QED BY Zenon DEF ZeroOf
<1> QED BY <1>1, <1>2, <1>3

(* It is a value.                                                           *)
LEMMA ZeroOfValue ==
  ASSUME NEW i \in Inputs, NEW e, e = i.expression, NEW n \in DOMAIN e.operands,
         NEW v \in Seq(Values), Len(v) = Len(e.operands[n]), e.operation[n] \notin Own
  PROVE  ZeroOf(e.operation[n], v) \in Values
<1>1. CASE e.operation[n] = "where"
  <2>1. Len(v) = 3
    BY <1>1, NodeFacts
  <2>2. v[3] \in Values
    <3>1. 3 \in 1..Len(v)
      BY <2>1
    <3> QED BY ONLY v \in Seq(Values), <3>1, ElementOfSeq
  <2> QED BY <1>1, <2>2, ZeroOfIs
<1>2. CASE e.operation[n] \in Owned
  <2>1. Len(v) = 1
    BY <1>2, NodeFacts
  <2>2. v[1] \in Values
    <3>1. 1 \in 1..Len(v)
      BY <2>1
    <3> QED BY ONLY v \in Seq(Values), <3>1, ElementOfSeq
  <2> QED BY <1>2, <2>2, ZeroOfIs
<1>3. CASE Elementwise(e, n)
  <2> PICK s \in Seq(DOMAIN e.operands) : s = e.operands[n]
    BY NodeFacts
  <2> PICK m \in Nat : m = Len(v) /\ DOMAIN v = 1..m
    OBVIOUS
  <2>1. DOMAIN s = 1..m /\ v \in [1..m -> Values]
    <3>1. Len(s) = m
      OBVIOUS
    <3>2. DOMAIN s = 1..m
      BY <3>1
    <3>3. v \in [1..m -> Values]
      BY ONLY v \in Seq(Values), DOMAIN v = 1..m
    <3> QED BY <3>2, <3>3
  <2>2. v \in [DOMAIN e.operands[n] -> Values]
    BY <2>1
  <2>3. Kernel(e.operation[n], v) \in Values
    BY <1>3, <2>2, NodeFacts
  <2> QED BY <1>3, <2>3, ZeroOfIs DEF Elementwise
<1> QED BY <1>1, <1>2, <1>3 DEF Elementwise

(* Nodes whose implicit zero is just zero.                                  *)
Plain(e, n) ==
  e.operation[n] \in Own \/ (e.operation[n] \notin Owned \union {"where"} /\ ~OperandsAreSparse(e, n))

(* Implicit zeros are those of the operands, taken together.                *)
LEMMA ZeroFacts ==
  ASSUME NEW i \in Inputs, NEW e, e = i.expression
  PROVE  \A n \in DOMAIN e.operands :
           ImplicitZeros(e)[n] =
             IF Plain(e, n) THEN Zero
             ELSE ZeroOf(e.operation[n], OfOperands(ImplicitZeros(e), e.operands, n))
<1> PICK N, operands : N = DOMAIN e.operands /\ operands = e.operands
  OBVIOUS
<1>1. Over(N, operands)
  BY NodesOver
<1> DEFINE G == [z \in N \X Seq(Values) |->
                  IF Plain(e, z[1]) \/ Len(z[2]) # Len(operands[z[1]]) THEN Zero
                  ELSE ZeroOf(e.operation[z[1]], z[2])]
<1>2. G \in [N \X Seq(Values) -> Values]
  <2>1. \A n \in N, v \in Seq(Values) : ~(Plain(e, n) \/ Len(v) # Len(operands[n])) =>
          ZeroOf(e.operation[n], v) \in Values
    BY ZeroOfValue DEF Plain
  <2>2. Zero \in Values
    BY ExpressionAssumption
  <2> HIDE DEF Plain
  <2> QED BY <2>1, <2>2
<1>3. PICK f \in [N -> Values] : \A n \in N : Computing(f, operands, n, Values, G)
  <2> HIDE DEF G
  <2> QED BY <1>1, <1>2, ExpressionRecursion
<1> DEFINE Step(l, n) == IF Plain(e, n) THEN Zero
                         ELSE ZeroOf(e.operation[n], [k \in DOMAIN operands[n] |-> l[operands[n][k]]])
<1>4. ASSUME NEW n \in N PROVE f[n] = Step(f, n)
  <2> PICK v \in Seq(Values) : v = OfOperands(f, operands, n) /\ f[n] = G[<<n, v>>] /\ Len(v) = Len(operands[n])
    BY <1>3 DEF Computing
  <2>1. G[<<n, v>>] = IF Plain(e, n) THEN Zero ELSE ZeroOf(e.operation[n], v)
    OBVIOUS
  <2> HIDE DEF G
  <2> QED BY <2>1 DEF OfOperands
<1> DEFINE IsZero(l) == l = [n \in N |-> Step(l, n)]
<1>5. IsZero(f)
  <2> DEFINE h == [n \in N |-> Step(f, n)]
  <2>1. \A n \in N : f[n] = h[n]
    BY <1>4
  <2>2. f = [n \in N |-> f[n]] /\ h = [n \in N |-> h[n]]
    OBVIOUS
  <2>3. f = h
    <3> HIDE DEF h
    <3> QED BY <2>1, <2>2
  <2> QED BY <2>3
<1> PICK g : g = CHOOSE l : IsZero(l)
  OBVIOUS
<1>6. IsZero(g)
  <2> HIDE DEF IsZero
  <2> QED BY <1>5
<1>7. ImplicitZeros(e) = g
  BY DEF ImplicitZeros, Plain
<1>8. \A n \in N : g[n] = Step(g, n)
  BY <1>6
<1> QED BY <1>7, <1>8 DEF OfOperands

(* A value at a place: what a tensor has there;                             *)
LEMMA ValueAtOwn ==
  ASSUME NEW e, NEW n, NEW v, NEW p, e.operation[n] \in Own
  PROVE  ValueAt(e, n, v, p) = e.elements[n][p]
BY Zenon DEF ValueAt, Own, Owned

(* what an owned expression has where the mapping leads;                    *)
LEMMA ValueAtMapped ==
  ASSUME NEW e, NEW n, NEW v, NEW p, e.operation[n] = "mapped"
  PROVE  ValueAt(e, n, v, p) = v[1][Mapped(p)]
<1>1. e.operation[n] \notin Own /\ e.operation[n] # "where" /\ e.operation[n] \notin Owned \ {"mapped"}
  BY DEF Own
<1> QED BY <1>1, Zenon DEF ValueAt

(* what it has there;                                                       *)
LEMMA ValueAtOwned ==
  ASSUME NEW e, NEW n, NEW v, NEW p, e.operation[n] \in Owned, e.operation[n] # "mapped"
  PROVE  ValueAt(e, n, v, p) = v[1][p]
<1>1. e.operation[n] \notin Own /\ e.operation[n] # "where" /\ e.operation[n] \in Owned \ {"mapped"}
  BY DEF Own, Owned
<1> QED BY <1>1, Zenon DEF ValueAt

(* what the branch has that the condition selects;                          *)
LEMMA ValueAtWhere ==
  ASSUME NEW e, NEW n, NEW v, NEW p, e.operation[n] = "where"
  PROVE  ValueAt(e, n, v, p) = IF v[1][p] \in Zeros THEN v[3][p] ELSE v[2][p]
BY Zenon DEF ValueAt, Own, Owned

(* and what the kernel computes of what the operands have there.            *)
LEMMA ValueAtElementwise ==
  ASSUME NEW e, NEW n, NEW v, NEW p, Elementwise(e, n)
  PROVE  ValueAt(e, n, v, p) = Kernel(e.operation[n], [k \in DOMAIN v |-> v[k][p]])
<1>1. e.operation[n] \notin Own /\ e.operation[n] \notin Owned /\ e.operation[n] # "where"
  BY DEF Elementwise
<1>2. e.operation[n] # "mapped"
  BY <1>1 DEF Owned
<1> QED BY <1>1, <1>2, Zenon DEF ValueAt

--------------------------------------------------------------------------------
(* The elements of an expression, all places of it.                         *)
AllElements == [Places -> Values]

(* A place of the mapping is one of the expression.                         *)
LEMMA MappedPlace ==
  ASSUME Size \in Nat, NEW p \in Places
  PROVE  Mapped(p) \in Places
BY DEF Mapped, Places

(* A sequence's member at a place.                                          *)
LEMMA MemberAt ==
  ASSUME NEW v \in Seq(AllElements), NEW k \in 1..Len(v), NEW p \in Places
  PROVE  v[k][p] \in Values
<1>1. v[k] \in AllElements
  BY ElementOfSeq
<1> QED BY <1>1 DEF AllElements

(* What is computed for a place is a value.                                 *)
LEMMA ValueAtValue ==
  ASSUME NEW i \in Inputs, NEW e, e = i.expression, NEW n \in DOMAIN e.operands,
         NEW v \in Seq(AllElements), Len(v) = Len(e.operands[n]), NEW p \in Places
  PROVE  ValueAt(e, n, v, p) \in Values
<1>1. CASE e.operation[n] \in Own
  <2>1. e.elements[n] \in [Places -> Values]
    BY <1>1, NodeFacts
  <2>2. ValueAt(e, n, v, p) = e.elements[n][p]
    BY ONLY <1>1, ValueAtOwn
  <2> QED BY <2>1, <2>2
<1>2. CASE e.operation[n] \in Owned
  <2>1. Len(v) = 1 /\ Size \in Nat
    BY <1>2, NodeFacts
  <2>2. 1 \in 1..Len(v)
    BY <2>1
  <2>3. v[1][p] \in Values /\ v[1][Mapped(p)] \in Values
    <3>1. Mapped(p) \in Places
      BY <2>1, MappedPlace
    <3> QED BY ONLY v \in Seq(AllElements), p \in Places, <2>2, <3>1, MemberAt
  <2>4. CASE e.operation[n] = "mapped"
    <3>1. ValueAt(e, n, v, p) = v[1][Mapped(p)]
      BY ONLY <2>4, ValueAtMapped
    <3> QED BY <2>3, <3>1
  <2>5. CASE e.operation[n] # "mapped"
    <3>1. ValueAt(e, n, v, p) = v[1][p]
      BY ONLY <1>2, <2>5, ValueAtOwned
    <3> QED BY <2>3, <3>1
  <2> QED BY <2>4, <2>5
<1>3. CASE e.operation[n] = "where"
  <2>1. Len(v) = 3
    BY <1>3, NodeFacts
  <2>2. 1 \in 1..Len(v) /\ 2 \in 1..Len(v) /\ 3 \in 1..Len(v)
    BY <2>1
  <2>3. v[2][p] \in Values /\ v[3][p] \in Values
    BY <2>2, MemberAt
  <2>4. ValueAt(e, n, v, p) = IF v[1][p] \in Zeros THEN v[3][p] ELSE v[2][p]
    BY ONLY <1>3, ValueAtWhere
  <2> QED BY <2>3, <2>4
<1>4. CASE Elementwise(e, n)
  <2> PICK m \in Nat : m = Len(v) /\ DOMAIN v = 1..m
    OBVIOUS
  <2> PICK s \in Seq(DOMAIN e.operands) : s = e.operands[n]
    BY NodeFacts
  <2>1. DOMAIN s = 1..m
    <3>1. Len(s) = m
      OBVIOUS
    <3> QED BY <3>1
  <2>2. \A k \in 1..m : v[k][p] \in Values
    BY MemberAt
  <2>3. [k \in DOMAIN v |-> v[k][p]] \in [1..m -> Values]
    BY <2>2
  <2>4. [k \in DOMAIN v |-> v[k][p]] \in [DOMAIN e.operands[n] -> Values]
    BY <2>1, <2>3
  <2> PICK w \in [DOMAIN e.operands[n] -> Values] : w = [k \in DOMAIN v |-> v[k][p]]
    BY <2>4
  <2>5. Kernel(e.operation[n], w) \in Values
    BY <1>4, NodeFacts
  <2>6. ValueAt(e, n, v, p) = Kernel(e.operation[n], w)
    BY <1>4, ValueAtElementwise
  <2> QED BY <2>5, <2>6
<1> QED BY <1>1, <1>2, <1>3, <1>4 DEF Elementwise

(* The elements are computed from those of the operands, place by place.    *)
LEMMA ValueFacts ==
  ASSUME NEW i \in Inputs, NEW e, e = i.expression
  PROVE  \A n \in DOMAIN e.operands :
           /\ Evaluated(e)[n] \in AllElements
           /\ \A p \in Places :
                Evaluated(e)[n][p] = ValueAt(e, n, OfOperands(Evaluated(e), e.operands, n), p)
<1> PICK N, operands : N = DOMAIN e.operands /\ operands = e.operands
  OBVIOUS
<1>1. Over(N, operands)
  BY NodesOver
<1> DEFINE G == [z \in N \X Seq(AllElements) |->
                  IF Len(z[2]) # Len(operands[z[1]]) THEN [p \in Places |-> Zero]
                  ELSE [p \in Places |-> ValueAt(e, z[1], z[2], p)]]
<1>2. G \in [N \X Seq(AllElements) -> AllElements]
  <2>1. ASSUME NEW n \in N, NEW v \in Seq(AllElements), Len(v) = Len(operands[n])
        PROVE  [p \in Places |-> ValueAt(e, n, v, p)] \in AllElements
    <3>1. \A p \in Places : ValueAt(e, n, v, p) \in Values
      BY <2>1, ValueAtValue
    <3> QED BY <3>1 DEF AllElements
  <2>2. [p \in Places |-> Zero] \in AllElements
    BY ExpressionAssumption DEF AllElements
  <2> QED BY <2>1, <2>2
<1>3. PICK f \in [N -> AllElements] : \A n \in N : Computing(f, operands, n, AllElements, G)
  <2> HIDE DEF G
  <2> QED BY <1>1, <1>2, ExpressionRecursion
<1> DEFINE Step(l, n) == [p \in Places |-> ValueAt(e, n, [k \in DOMAIN operands[n] |-> l[operands[n][k]]], p)]
<1>4. ASSUME NEW n \in N PROVE f[n] = Step(f, n)
  <2> PICK v \in Seq(AllElements) : v = OfOperands(f, operands, n) /\ f[n] = G[<<n, v>>] /\ Len(v) = Len(operands[n])
    BY <1>3 DEF Computing
  <2>1. G[<<n, v>>] = [p \in Places |-> ValueAt(e, n, v, p)]
    OBVIOUS
  <2> HIDE DEF G
  <2> QED BY <2>1 DEF OfOperands
<1> DEFINE IsValue(l) == l = [n \in N |-> Step(l, n)]
<1> HIDE DEF Step
<1>5. IsValue(f)
  <2> DEFINE h == [n \in N |-> Step(f, n)]
  <2>1. \A n \in N : f[n] = h[n]
    BY <1>4
  <2>2. f = [n \in N |-> f[n]] /\ h = [n \in N |-> h[n]]
    OBVIOUS
  <2>3. f = h
    <3> HIDE DEF h
    <3> QED BY <2>1, <2>2
  <2> QED BY <2>3
<1> PICK g : g = CHOOSE l : IsValue(l)
  OBVIOUS
<1>6. IsValue(g)
  <2> HIDE DEF IsValue
  <2> QED BY <1>5
<1>7. Evaluated(e) = g
  BY DEF Evaluated, Step
<1>8. \A n \in N : g[n] = Step(g, n)
  BY <1>6
<1>9. \A n \in N, p \in Places : g[n][p] = ValueAt(e, n, OfOperands(g, operands, n), p)
  <2> SUFFICES ASSUME NEW n \in N, NEW p \in Places
               PROVE  g[n][p] = ValueAt(e, n, OfOperands(g, operands, n), p)
    OBVIOUS
  <2> PICK v : v = [k \in DOMAIN operands[n] |-> g[operands[n][k]]]
    OBVIOUS
  <2>1. g[n] = [q \in Places |-> ValueAt(e, n, v, q)]
    <3>1. g[n] = Step(g, n)
      BY ONLY <1>8, n \in N
    <3>2. Step(g, n) = [q \in Places |-> ValueAt(e, n, v, q)]
      BY ONLY v = [k \in DOMAIN operands[n] |-> g[operands[n][k]]] DEF Step
    <3> QED BY ONLY <3>1, <3>2
  <2>2. g[n][p] = ValueAt(e, n, v, p)
    BY <2>1
  <2> QED BY <2>2 DEF OfOperands
<1>10. \A n \in N : g[n] \in AllElements
  <2> DEFINE S == {n \in N : g[n] \in AllElements}
  <2>1. ASSUME NEW n \in N, \A k \in DOMAIN operands[n] : operands[n][k] \in S PROVE n \in S
    <3> PICK s \in Seq(N) : s = operands[n]
      BY <1>1 DEF Over
    <3>1. \A k \in DOMAIN s : g[s[k]] \in AllElements
      BY <2>1
    <3> PICK v : v = [k \in DOMAIN s |-> g[s[k]]]
      OBVIOUS
    <3>2. v \in Seq(AllElements)
      BY ONLY <3>1, s \in Seq(N), v = [k \in DOMAIN s |-> g[s[k]]], ValuesAlong
    <3>3. Len(v) = Len(s)
      BY ONLY <3>1, s \in Seq(N), v = [k \in DOMAIN s |-> g[s[k]]], ValuesAlong
    <3>4. \A p \in Places : ValueAt(e, n, v, p) \in Values
      BY <3>2, <3>3, ValueAtValue
    <3>5. g[n] = [p \in Places |-> ValueAt(e, n, v, p)]
      <4>1. g[n] = Step(g, n)
        BY <1>8
      <4>2. v = [k \in DOMAIN operands[n] |-> g[operands[n][k]]]
        OBVIOUS
      <4> QED BY ONLY <4>1, <4>2 DEF Step
    <3>6. g[n] \in AllElements
      BY ONLY <3>4, <3>5 DEF AllElements
    <3> QED BY <3>6
  <2>2. \A n \in N : n \in S
    <3> HIDE DEF S
    <3>1. Inherits(N, operands, S)
      BY <2>1 DEF Inherits
    <3> QED BY <1>1, <3>1, AcyclicInduction, Zenon
  <2> QED BY <2>2
<1> QED BY <1>7, <1>9, <1>10

--------------------------------------------------------------------------------
(* The number of a request, and what comes before it.                       *)
LEMMA Divided ==
  ASSUME NEW p \in Nat, NEW m \in Nat \ {0}
  PROVE  /\ p \div m \in Nat /\ p % m \in 0..(m - 1)
         /\ p = (p \div m) * m + (p % m)
OBVIOUS

(* The lesser of two numbers.                                               *)
LEMMA LesserIs ==
  ASSUME NEW a \in Int, NEW b \in Int
  PROVE  Min({a, b}) = IF a <= b THEN a ELSE b
<1> DEFINE S == {a, b}
           m == IF a <= b THEN a ELSE b
<1>1. m \in S /\ \A y \in S : m <= y
  OBVIOUS
<1>2. \A x \in S : (\A y \in S : x <= y) => x = m
  OBVIOUS
<1>3. Min(S) = CHOOSE x \in S : \A y \in S : x <= y
  BY DEF Min
<1> HIDE DEF S, m
<1>4. Min(S) = m
  BY <1>1, <1>2, <1>3
<1> QED BY <1>4 DEF S, m

(* A place has a request of its own among those of a slice...               *)
LEMMA RequestOf ==
  ASSUME NEW s \in Nat, NEW m \in Nat \ {0}, NEW p \in 0..(s - 1)
  PROVE  \E q, r \in Nat : /\ p = q * m + r /\ r < m /\ q * m <= s - 1 /\ q * m \in Nat
                           /\ q < (s + m - 1) \div m
<1> PICK t \in Nat : t = s + m - 1
  <2>1. s + m - 1 \in Nat
    OBVIOUS
  <2> QED BY <2>1
<1>1. p \in Nat /\ p <= s - 1
  OBVIOUS
<1>2. p \div m \in Nat /\ p % m \in 0..(m - 1) /\ p = (p \div m) * m + (p % m)
  BY <1>1, Divided
<1>3. t \div m \in Nat /\ t % m \in 0..(m - 1) /\ t = (t \div m) * m + (t % m)
  BY Divided
<1> PICK q \in Nat, r \in 0..(m - 1) : q = p \div m /\ r = p % m
  BY <1>2
<1> PICK n \in Nat, z \in 0..(m - 1) : n = t \div m /\ z = t % m
  BY <1>3
<1>4. p = q * m + r /\ r < m /\ q * m \in Nat
  BY <1>2
<1>5. t = n * m + z /\ z < m /\ n * m \in Nat
  BY <1>3
<1>6. ASSUME n <= q PROVE FALSE
  <2> PICK d \in Nat : q = n + d
    <3>1. q - n \in Nat /\ q = n + (q - n)
      BY <1>6
    <3> QED BY <3>1
  <2>1. q * m = n * m + d * m /\ d * m \in Nat
    OBVIOUS
  <2> PICK x \in Nat, y \in Nat : x = n * m /\ y = d * m
    BY <1>5, <2>1
  <2>2. p = x + y + r /\ t = x + z /\ z < m /\ t = s + m - 1 /\ p <= s - 1
    BY <1>4, <1>5, <2>1
  <2> QED BY <2>2
<1>7. q < n
  BY <1>6
<1>8. q * m <= s - 1
  <2> PICK x \in Nat : x = q * m
    BY <1>4
  <2>1. p = x + r /\ p <= s - 1
    BY <1>4
  <2>2. x <= s - 1
    BY <2>1
  <2> QED BY <2>2
<1> QED BY <1>4, <1>7, <1>8

(* All places are named, and no others.                                     *)
LEMMA EverythingNames ==
  ASSUME Size \in Nat, MaxBatch \in Nat \ {0}, Error \notin Seq(Nat)
  PROVE  Named(Everything) = Places
<1> DEFINE n == (Size + MaxBatch - 1) \div MaxBatch
           l(k) == Min({MaxBatch, Size - (k - 1) * MaxBatch})
<1>1. n \in Nat
  <2>1. Size + MaxBatch - 1 \in Nat
    OBVIOUS
  <2> QED BY <2>1, Divided
<1>2. ASSUME NEW k \in 1..n
      PROVE  /\ (k - 1) * MaxBatch \in Nat
             /\ l(k) \in Int /\ l(k) <= Size - (k - 1) * MaxBatch
             /\ l(k) = MaxBatch \/ l(k) = Size - (k - 1) * MaxBatch
  <2> PICK x \in Nat : x = k - 1
    BY <1>1
  <2> PICK y \in Nat : y = x * MaxBatch
    OBVIOUS
  <2>1. l(k) = IF MaxBatch <= Size - y THEN MaxBatch ELSE Size - y
    <3>1. MaxBatch \in Int /\ Size - y \in Int
      OBVIOUS
    <3> QED BY <3>1, LesserIs
  <2> HIDE DEF l
  <2>2. l(k) \in Int /\ l(k) <= Size - y /\ (l(k) = MaxBatch \/ l(k) = Size - y)
    BY <2>1
  <2> QED BY <2>2
<1>3. DOMAIN Everything = 1..n /\ \A k \in 1..n : Everything[k] = [j \in 1..l(k) |-> (k - 1) * MaxBatch + j - 1]
  BY DEF Everything
<1> HIDE DEF n, l
<1>4. ASSUME NEW k \in 1..n
      PROVE  Everything[k] \in Seq(Nat) /\ ToSet(Everything[k]) \subseteq Places
  <2> PICK y \in Nat : y = (k - 1) * MaxBatch
    BY <1>2
  <2> PICK m \in Int : m = l(k) /\ m <= Size - y
    BY <1>2
  <2>1. Everything[k] = [j \in 1..m |-> y + j - 1]
    BY <1>3
  <2>2. \A j \in 1..m : y + j - 1 \in Nat /\ y + j - 1 \in 0..(Size - 1)
    OBVIOUS
  <2>3. [j \in 1..m |-> y + j - 1] \in Seq(Nat)
    <3>1. CASE m \in Nat
      BY <2>2, <3>1
    <3>2. CASE m < 0
      <4>1. 1..m = 1..0
        BY <3>2
      <4> DEFINE none == [j \in 1..0 |-> y + j - 1]
      <4>2. none = <<>>
        OBVIOUS
      <4> QED BY <4>1, <4>2
    <3> QED BY <3>1, <3>2
  <2>4. ToSet(Everything[k]) = {y + j - 1 : j \in 1..m}
    BY <2>1 DEF ToSet
  <2>5. ToSet(Everything[k]) \subseteq Places
    BY <2>2, <2>4 DEF Places
  <2> QED BY <2>1, <2>3, <2>5
<1>5. Requests(Everything) = 1..n
  BY <1>3, <1>4 DEF Requests
<1>6. Named(Everything) \subseteq Places
  BY <1>4, <1>5 DEF Named
<1>7. ASSUME NEW p \in Places PROVE p \in Named(Everything)
  <2>1. PICK q, r \in Nat : /\ p = q * MaxBatch + r /\ r < MaxBatch /\ q * MaxBatch <= Size - 1
                            /\ q * MaxBatch \in Nat /\ q < n
    BY RequestOf DEF Places, n
  <2> PICK k \in 1..n : k = q + 1 /\ q = k - 1
    <3>1. q + 1 \in 1..n /\ q = (q + 1) - 1
      BY <1>1, <2>1
    <3> QED BY <3>1
  <2> PICK y \in Nat : y = q * MaxBatch
    BY <2>1
  <2> PICK m \in Int : m = l(k) /\ (m = MaxBatch \/ m = Size - y)
    BY <1>2
  <2>2. r + 1 \in 1..m
    <3>1. p = y + r /\ p <= Size - 1 /\ r < MaxBatch
      BY <2>1 DEF Places
    <3> QED BY <3>1
  <2>3. Everything[k] = [j \in 1..m |-> y + j - 1]
    BY <1>3
  <2>4. Everything[k][r + 1] = y + (r + 1) - 1 /\ DOMAIN Everything[k] = 1..m
    BY <2>2, <2>3
  <2>5. y + (r + 1) - 1 = p
    BY <2>1
  <2>6. p \in ToSet(Everything[k])
    BY <2>2, <2>4, <2>5 DEF ToSet
  <2> QED BY <1>5, <2>6 DEF Named
<1> QED BY <1>6, <1>7

--------------------------------------------------------------------------------
(* A node whose element at a place is not known to be its implicit zero.    *)
Open(e, n, p) == n \notin SparseNodes(e) \/ Evaluated(e)[n][p] # ImplicitZeros(e)[n]

(* Nodes whose implicit zero is a zero, if they are sparse.                 *)
ZeroIsZero(e, n) == n \in SparseNodes(e) => ImplicitZeros(e)[n] \in Zeros

(* A node that was not refused is one.                                      *)
LEMMA NotRefused ==
  ASSUME NEW i \in Inputs, NEW e, e = i.expression, NEW n \in DOMAIN e.operands, ~WouldDensify(e, n)
  PROVE  ZeroIsZero(e, n)
<1>1. CASE e.operation[n] \in Own
  <2>1. ImplicitZeros(e)[n] = Zero
    BY <1>1, ZeroFacts DEF Plain
  <2> QED BY <2>1, NodeFacts DEF ZeroIsZero
<1>2. CASE e.operation[n] \notin Own
  BY <1>2, SparseFacts DEF ZeroIsZero, WouldDensify
<1> QED BY <1>1, <1>2

(* Elements at a place are those that z has.                                *)
ElementsAt(v, p, z) ==
  /\ [k \in DOMAIN v |-> v[k][p]] = z
  /\ \A k \in DOMAIN v : v[k][p] = z[k]

(* What the operands have, if none of them is open there.                   *)
LEMMA OperandsClosed ==
  ASSUME NEW i \in Inputs, NEW e, e = i.expression, NEW n \in DOMAIN e.operands, NEW p,
         \A k \in DOMAIN e.operands[n] : ~Open(e, e.operands[n][k], p)
  PROVE  /\ OperandsAreSparse(e, n)
         /\ ElementsAt(OfOperands(Evaluated(e), e.operands, n), p, OfOperands(ImplicitZeros(e), e.operands, n))
<1>1. OperandsAreSparse(e, n)
  BY DEF Open, OperandsAreSparse
<1> PICK s, v, z : s = e.operands[n] /\ v = Evaluated(e) /\ z = ImplicitZeros(e)
  OBVIOUS
<1> PICK w, u : w = [k \in DOMAIN s |-> v[s[k]]] /\ u = [k \in DOMAIN s |-> z[s[k]]]
  OBVIOUS
<1>2. \A k \in DOMAIN s : v[s[k]][p] = z[s[k]]
  BY DEF Open
<1>3. w = OfOperands(v, e.operands, n) /\ u = OfOperands(z, e.operands, n)
  BY DEF OfOperands
<1>4. DOMAIN w = DOMAIN s /\ \A k \in DOMAIN s : w[k][p] = u[k]
  BY <1>2
<1>5. [k \in DOMAIN s |-> w[k][p]] = [k \in DOMAIN s |-> u[k]]
  BY <1>4
<1>6. u = [k \in DOMAIN s |-> u[k]]
  OBVIOUS
<1>7. ElementsAt(w, p, u)
  BY <1>4, <1>5, <1>6 DEF ElementsAt
<1> QED BY <1>1, <1>3, <1>7

(* A node that is open at a place, and no leaf, has an operand that is.     *)
LEMMA OpenOperand ==
  ASSUME NEW i \in Inputs, NEW e, e = i.expression, NEW n \in DOMAIN e.operands,
         e.operands[n] # <<>>, n \notin Answering(e),
         \A k \in DOMAIN e.operands[n] : ZeroIsZero(e, e.operands[n][k]),
         NEW p \in Places, Open(e, n, p)
  PROVE  \E k \in DOMAIN e.operands[n] : Open(e, e.operands[n][k], p)
<1> SUFFICES ASSUME \A k \in DOMAIN e.operands[n] : ~Open(e, e.operands[n][k], p) PROVE FALSE
  OBVIOUS
<1> PICK s \in Seq(DOMAIN e.operands) : s = e.operands[n]
  BY NodeFacts
<1> PICK v : v = OfOperands(Evaluated(e), e.operands, n)
  OBVIOUS
<1> PICK z : z = OfOperands(ImplicitZeros(e), e.operands, n)
  OBVIOUS
<1>1. /\ OperandsAreSparse(e, n)
      /\ [k \in DOMAIN v |-> v[k][p]] = z
      /\ \A k \in DOMAIN s : v[k][p] = z[k]
  <2>1. OperandsAreSparse(e, n) /\ ElementsAt(v, p, z)
    BY OperandsClosed
  <2>2. DOMAIN v = DOMAIN s
    BY DEF OfOperands
  <2> QED BY <2>1, <2>2 DEF ElementsAt
<1>2. e.operation[n] \notin Own /\ e.operation[n] \notin {"mapped", "computed"}
  BY NodeFacts DEF Answering
<1>3. e.operation[n] # "dense"
  <2>1. e.operation[n] = "dense" => n \notin SparseNodes(e)
    BY SparseFacts DEF Own
  <2> QED BY <2>1 DEF Answering, Owned
<1>4. n \in SparseNodes(e) /\ ~Plain(e, n)
  BY <1>1, <1>2, <1>3, SparseFacts DEF Plain
<1>5. ImplicitZeros(e)[n] = ZeroOf(e.operation[n], z)
  BY <1>4, ZeroFacts
<1>6. Evaluated(e)[n][p] = ValueAt(e, n, v, p)
  BY ValueFacts
<1>7. Evaluated(e)[n][p] # ImplicitZeros(e)[n]
  BY <1>4 DEF Open
<1>8. CASE e.operation[n] \in Owned
  <2>1. Len(s) = 1
    BY <1>8, NodeFacts
  <2>2. 1 \in DOMAIN s
    BY <2>1
  <2>3. ValueAt(e, n, v, p) = v[1][p]
    BY ONLY <1>2, <1>8, ValueAtOwned
  <2>4. ZeroOf(e.operation[n], z) = z[1]
    BY ONLY <1>8, ZeroOfIs
  <2> QED BY <1>1, <1>5, <1>6, <1>7, <2>2, <2>3, <2>4
<1>9. CASE e.operation[n] = "where"
  <2>1. Len(s) = 3
    BY <1>9, NodeFacts
  <2>2. 1 \in DOMAIN s /\ 3 \in DOMAIN s
    BY <2>1
  <2>3. ValueAt(e, n, v, p) = IF v[1][p] \in Zeros THEN v[3][p] ELSE v[2][p]
    BY ONLY <1>9, ValueAtWhere
  <2>4. ZeroOf(e.operation[n], z) = z[3]
    BY ONLY <1>9, ZeroOfIs
  <2>5. z[1] \in Zeros
    <3>1. z[1] = ImplicitZeros(e)[s[1]]
      BY <2>2 DEF OfOperands
    <3>2. s[1] \in SparseNodes(e) /\ ZeroIsZero(e, s[1])
      BY <1>1, <2>2 DEF OperandsAreSparse
    <3> QED BY <3>1, <3>2 DEF ZeroIsZero
  <2> QED BY <1>1, <1>5, <1>6, <1>7, <2>2, <2>3, <2>4, <2>5
<1>10. CASE Elementwise(e, n)
  <2>1. ValueAt(e, n, v, p) = Kernel(e.operation[n], [k \in DOMAIN v |-> v[k][p]])
    BY ONLY <1>10, ValueAtElementwise
  <2>2. ZeroOf(e.operation[n], z) = Kernel(e.operation[n], z)
    BY ONLY <1>10, ZeroOfIs DEF Elementwise
  <2> QED BY <1>1, <1>5, <1>6, <1>7, <2>1, <2>2
<1> QED BY <1>2, <1>8, <1>9, <1>10 DEF Elementwise

(* A leaf that is open at a place names it, in order and as it is stored.   *)
LEMMA OpenLeaf ==
  ASSUME NEW i \in Inputs, NEW e, e = i.expression, NEW n \in DOMAIN e.operands,
         e.operands[n] = <<>> \/ n \in Answering(e),
         NEW p \in Places, Open(e, n, p)
  PROVE  p \in Named(i.streams[n]) /\ p \in Named(i.native[n])
<1>1. /\ i.streams[n] = IF n \in Answering(e) THEN Everything
                        ELSE IF n \in DOMAIN e.requests THEN e.requests[n] ELSE <<>>
      /\ i.native[n] = IF n \in Answering(e) THEN Everything
                       ELSE IF n \in DOMAIN e.native THEN e.native[n] ELSE <<>>
  <2>1. i = Described(e)
    BY ExpressionFacts
  <2> QED BY <2>1 DEF Described
<1>2. CASE n \in Answering(e)
  <2>1. Named(Everything) = Places
    BY EverythingNames, CandidateAssumption, ExpressionAssumption
  <2> QED BY <1>1, <1>2, <2>1
<1>3. CASE n \notin Answering(e)
  <2>1. e.operands[n] = <<>> /\ e.operation[n] \in Own
    BY <1>3, NodeFacts
  <2>2. e.operation[n] = "tensor"
    BY <1>3, <2>1 DEF Own, Answering
  <2>3. n \in SparseNodes(e)
    BY <1>3, <2>2 DEF Answering
  <2>4. n \in DOMAIN e.requests
    BY <2>1, <2>2, <2>3, SparseFacts, NodeFacts
  <2>5. ImplicitZeros(e)[n] = Zero
    BY <2>1, ZeroFacts DEF Plain
  <2>6. Evaluated(e)[n][p] = e.elements[n][p]
    <3> PICK v : v = OfOperands(Evaluated(e), e.operands, n)
      OBVIOUS
    <3>1. Evaluated(e)[n][p] = ValueAt(e, n, v, p)
      BY ValueFacts
    <3>2. ValueAt(e, n, v, p) = e.elements[n][p]
      BY ONLY <2>1, ValueAtOwn
    <3> QED BY <3>1, <3>2
  <2>7. e.elements[n][p] # Zero
    BY <2>3, <2>5, <2>6 DEF Open
  <2>8. Expressible(e)
    BY ExpressionFacts
  <2>9. DOMAIN e.native = DOMAIN e.requests /\ p \in Named(e.requests[n]) /\ p \in Named(e.native[n])
    BY <2>4, <2>7, <2>8 DEF Expressible
  <2> QED BY <1>1, <1>3, <2>4, <2>9
<1> QED BY <1>2, <1>3

--------------------------------------------------------------------------------
(* A sequence around one of its places.                                     *)
Around(s, a, x, b) == s = a \o (<<x>> \o b)

(* There is one around every place.                                         *)
LEMMA SplitAround ==
  ASSUME NEW N, NEW s \in Seq(N), NEW k \in DOMAIN s
  PROVE  \E a, b \in Seq(N) : Around(s, a, s[k], b)
<1> PICK m \in Nat : m = Len(s) /\ DOMAIN s = 1..m
  OBVIOUS
<1>1. k \in 1..m /\ \A i \in 1..m : s[i] \in N
  OBVIOUS
<1> DEFINE a == SubSeq(s, 1, k - 1)
           b == SubSeq(s, k + 1, m)
<1>2. a \in Seq(N) /\ b \in Seq(N)
  <2>1. /\ 1 \in Int /\ k - 1 \in Int /\ k + 1 \in Int /\ m \in Int
        /\ (\A i \in 1..(k - 1) : s[i] \in N) /\ (\A i \in (k + 1)..m : s[i] \in N)
    BY <1>1
  <2> QED BY ONLY <2>1, SubSeqProperties
<1>3. SubSeq(s, k, m) = <<s[k]>> \o b
  <2>1. k \in 1..Len(s) /\ m \in k..Len(s)
    BY <1>1
  <2> QED BY <2>1, SubSeqRecursiveFirst
<1>4. a \o SubSeq(s, k, m) = s
  <2>1. /\ 1 \in 1..(Len(s) + 1) /\ k - 1 \in (1 - 1)..Len(s) /\ m \in (k - 1)..Len(s)
        /\ (k - 1) + 1 = k
    BY <1>1
  <2>2. SubSeq(s, 1, k - 1) \o SubSeq(s, (k - 1) + 1, m) = SubSeq(s, 1, m)
    BY ONLY s \in Seq(N), <2>1, ConcatAdjacentSubSeq
  <2>3. SubSeq(s, 1, m) = s
    BY SubSeqFull
  <2> QED BY <2>1, <2>2, <2>3
<1> HIDE DEF a, b
<1> QED BY <1>2, <1>3, <1>4 DEF Around

(* What lies along nodes holds what belongs to any of them.                 *)
LEMMA AlongHas ==
  ASSUME NEW N, NEW f, Listing(N, f), NEW s \in Seq(N), NEW k \in DOMAIN s
  PROVE  ToSet(f[s[k]]) \subseteq ToSet(Along(f, s))
<1> PICK n \in N : n = s[k]
  OBVIOUS
<1>1. PICK a, b \in Seq(N) : s = a \o (<<n>> \o b)
  <2>1. \E a, b \in Seq(N) : Around(s, a, s[k], b)
    BY SplitAround, Zenon
  <2> QED BY <2>1 DEF Around
<1>2. <<n>> \in Seq(N)
  BY OneNode
<1> PICK o \in Seq(N) : o = <<n>>
  BY <1>2
<1> PICK c \in Seq(N) : c = o \o b
  <2>1. o \o b \in Seq(N)
    OBVIOUS
  <2> QED BY <2>1
<1>3. /\ Along(f, a) \in Seq(N) /\ Along(f, b) \in Seq(N) /\ Along(f, o) \in Seq(N) /\ Along(f, c) \in Seq(N)
  BY AlongSeq, Zenon
<1>4. IsBoth(Along(f, a \o c), Along(f, a), Along(f, c)) /\ IsBoth(Along(f, o \o b), Along(f, o), Along(f, b))
  BY AlongConcat, Zenon
<1>5. Along(f, o) = f[n]
  BY AlongOne
<1> PICK x, y, z \in Seq(N) : x = Along(f, a) /\ y = Along(f, o) /\ z = Along(f, b)
  BY <1>3
<1>6. Along(f, c) = y \o z /\ Along(f, s) = x \o Along(f, c)
  BY <1>1, <1>4 DEF IsBoth
<1>7. ToSet(y \o z) = ToSet(y) \union ToSet(z)
  BY ONLY y \in Seq(N), z \in Seq(N), SetOfConcat
<1>8. ToSet(Along(f, s)) = ToSet(x) \union ToSet(Along(f, c))
  <2> PICK w \in Seq(N) : w = Along(f, c)
    BY <1>3
  <2>1. ToSet(x \o w) = ToSet(x) \union ToSet(w)
    BY ONLY x \in Seq(N), w \in Seq(N), SetOfConcat
  <2> QED BY <1>6, <2>1
<1>9. ToSet(f[n]) \subseteq ToSet(Along(f, s))
  BY <1>5, <1>6, <1>7, <1>8
<1> QED BY <1>9

(* Every node constructed has its operands and was not refused.             *)
ConstructInv ==
  /\ built \subseteq DOMAIN input.operands
  /\ \A n \in built : ToSet(input.operands[n]) \subseteq built /\ ~WouldDensify(Expression, n)
  /\ phase \notin {"build", "refused"} => input.root \in built

(* A node that a leaf of the expression names in both orders.               *)
NamedBy(i, leaves, p) == \E m \in ToSet(leaves) : p \in Named(i.streams[m]) /\ p \in Named(i.native[m])

(* A place at which a node is open is named by a leaf of it.                *)
LEMMA OpenNamed ==
  ASSUME input \in Inputs, ~input.prefer, ConstructInv
  PROVE  \A n \in built, p \in Places : Open(Expression, n, p) => NamedBy(input, Leaves[n], p)
<1> PICK i \in Inputs : i = input
  OBVIOUS
<1> PICK e : e = i.expression
  OBVIOUS
<1> PICK N, operands, leaves : N = DOMAIN e.operands /\ operands = e.operands /\ leaves = Leaves
  OBVIOUS
<1> PICK b : b = built
  OBVIOUS
<1>1. /\ i.operands = operands /\ e = Expression /\ i.whole = Answering(e)
      /\ Over(N, operands)
  <2>1. i = Described(e) /\ i.operands = e.operands
    BY ExpressionFacts
  <2>2. i.whole = Answering(e)
    BY <2>1 DEF Described
  <2> QED BY <2>1, <2>2, NodesOver DEF Expression
<1>2. \A n \in N :
        /\ leaves[n] \in Seq(N)
        /\ leaves[n] = IF IsLeaf(n) THEN <<n>> ELSE Along(leaves, operands[n])
  BY <1>1, LeavesFacts
<1>3. \A n \in N : IsLeaf(n) <=> operands[n] = <<>> \/ n \in Answering(e)
  BY <1>1 DEF IsLeaf
<1>4. /\ b \subseteq N
      /\ \A n \in b : ToSet(operands[n]) \subseteq b /\ ~WouldDensify(e, n)
  BY <1>1 DEF ConstructInv
<1>5. Listing(N, leaves)
  BY <1>2 DEF Listing
<1> DEFINE S == {n \in N : n \in b => \A p \in Places : Open(e, n, p) => NamedBy(i, leaves[n], p)}
<1>6. ASSUME NEW n \in N, \A k \in DOMAIN operands[n] : operands[n][k] \in S,
             n \in b, NEW p \in Places, Open(e, n, p)
      PROVE  NamedBy(i, leaves[n], p)
  <2> PICK s \in Seq(N) : s = operands[n]
    BY <1>1 DEF Over
  <2>1. CASE IsLeaf(n)
    <3>1. p \in Named(i.streams[n]) /\ p \in Named(i.native[n])
      BY <1>3, <1>6, <2>1, OpenLeaf
    <3>2. leaves[n] = <<n>>
      BY <1>2, <2>1
    <3>3. n \in ToSet(<<n>>)
      BY DEF ToSet
    <3> QED BY <3>1, <3>2, <3>3 DEF NamedBy
  <2>2. CASE ~IsLeaf(n)
    <3>1. operands[n] # <<>> /\ n \notin Answering(e)
      BY <1>3, <2>2
    <3>2. \A k \in DOMAIN s : s[k] \in b /\ s[k] \in N
      BY <1>4, <1>6 DEF ToSet
    <3>3. \A k \in DOMAIN s : ZeroIsZero(e, s[k])
      BY <1>4, <3>2, NotRefused
    <3>4. PICK k \in DOMAIN s : Open(e, s[k], p)
      BY <1>6, <3>1, <3>3, OpenOperand
    <3>5. NamedBy(i, leaves[s[k]], p)
      BY <1>6, <3>2, <3>4
    <3>6. ToSet(leaves[s[k]]) \subseteq ToSet(Along(leaves, s))
      BY <1>5, AlongHas
    <3>7. leaves[n] = Along(leaves, s)
      BY <1>2, <2>2
    <3> QED BY <3>5, <3>6, <3>7 DEF NamedBy
  <2> QED BY <2>1, <2>2
<1>7. \A n \in N : n \in S
  <2>1. Inherits(N, operands, S)
    BY <1>6 DEF Inherits
  <2> HIDE DEF S
  <2> QED BY <1>1, <2>1, AcyclicInduction, Zenon
<1> QED BY <1>1, <1>4, <1>7

--------------------------------------------------------------------------------
(* Parts of a sequence of numbers that rises rise, one after the other.     *)
LEMMA RisesParts ==
  ASSUME NEW s \in Seq(Nat), NEW t \in Seq(Nat), Rises(s \o t)
  PROVE  /\ Rises(s) /\ Rises(t)
         /\ \A p \in ToSet(s), q \in ToSet(t) : p < q
<1> PICK m \in Nat, l \in Nat : m = Len(s) /\ l = Len(t)
  OBVIOUS
<1>1. s \o t \in Seq(Nat) /\ Joined(s \o t, s, m, t, l)
  BY ConcatAt
<1> PICK c \in Seq(Nat) : c = s \o t
  BY <1>1
<1>2. /\ Len(c) = m + l /\ DOMAIN c = 1..(m + l) /\ DOMAIN s = 1..m /\ DOMAIN t = 1..l
      /\ \A i \in 1..m : c[i] = s[i]
      /\ \A i \in 1..l : c[m + i] = t[i]
  BY <1>1 DEF Joined
<1>3. \A i, j \in 1..(m + l) : i < j => c[i] < c[j]
  BY <1>2 DEF Rises
<1>4. Rises(s)
  <2> SUFFICES ASSUME NEW i \in 1..m, NEW j \in 1..m, i < j PROVE s[i] < s[j]
    BY <1>2 DEF Rises
  <2>1. i \in 1..(m + l) /\ j \in 1..(m + l)
    OBVIOUS
  <2>2. c[i] < c[j]
    BY <1>3, <2>1
  <2> QED BY <1>2, <2>2
<1>5. Rises(t)
  <2> SUFFICES ASSUME NEW i \in 1..l, NEW j \in 1..l, i < j PROVE t[i] < t[j]
    BY <1>2 DEF Rises
  <2>1. m + i \in 1..(m + l) /\ m + j \in 1..(m + l) /\ m + i < m + j
    OBVIOUS
  <2>2. c[m + i] < c[m + j]
    BY <1>3, <2>1
  <2> QED BY <1>2, <2>2
<1>6. ASSUME NEW p \in ToSet(s), NEW q \in ToSet(t) PROVE p < q
  <2>1. PICK i \in 1..m : p = s[i]
    BY <1>2 DEF ToSet
  <2>2. PICK j \in 1..l : q = t[j]
    BY <1>2 DEF ToSet
  <2>3. i \in 1..(m + l) /\ m + j \in 1..(m + l) /\ i < m + j
    OBVIOUS
  <2>4. c[i] < c[m + j]
    BY <1>3, <2>3
  <2> QED BY <1>2, <2>1, <2>2, <2>4
<1> QED BY <1>4, <1>5, <1>6

(* Parts of a sequence without repetition have none, and share nothing.     *)
LEMMA InjectiveParts ==
  ASSUME NEW s \in Seq(Nat), NEW t \in Seq(Nat), IsInjective(s \o t)
  PROVE  IsInjective(s) /\ IsInjective(t) /\ ToSet(s) \intersect ToSet(t) = {}
<1> PICK m \in Nat, l \in Nat : m = Len(s) /\ l = Len(t)
  OBVIOUS
<1>1. s \o t \in Seq(Nat) /\ Joined(s \o t, s, m, t, l)
  BY ConcatAt
<1> PICK c \in Seq(Nat) : c = s \o t
  BY <1>1
<1>2. /\ Len(c) = m + l /\ DOMAIN c = 1..(m + l) /\ DOMAIN s = 1..m /\ DOMAIN t = 1..l
      /\ \A i \in 1..m : c[i] = s[i]
      /\ \A i \in 1..l : c[m + i] = t[i]
  BY <1>1 DEF Joined
<1>3. \A i, j \in 1..(m + l) : c[i] = c[j] => i = j
  BY <1>2 DEF IsInjective
<1>4. IsInjective(s)
  <2> SUFFICES ASSUME NEW i \in 1..m, NEW j \in 1..m, s[i] = s[j] PROVE i = j
    BY <1>2 DEF IsInjective
  <2>1. i \in 1..(m + l) /\ j \in 1..(m + l) /\ c[i] = c[j]
    BY <1>2
  <2> QED BY <1>3, <2>1
<1>5. IsInjective(t)
  <2> SUFFICES ASSUME NEW i \in 1..l, NEW j \in 1..l, t[i] = t[j] PROVE i = j
    BY <1>2 DEF IsInjective
  <2>1. m + i \in 1..(m + l) /\ m + j \in 1..(m + l) /\ c[m + i] = c[m + j]
    BY <1>2
  <2>2. m + i = m + j
    BY <1>3, <2>1
  <2> QED BY <2>2
<1>6. ASSUME NEW p \in ToSet(s), p \in ToSet(t) PROVE FALSE
  <2>1. PICK i \in 1..m : p = s[i]
    BY <1>2 DEF ToSet
  <2>2. PICK j \in 1..l : p = t[j]
    BY <1>2, <1>6 DEF ToSet
  <2>3. i \in 1..(m + l) /\ m + j \in 1..(m + l) /\ i # m + j
    OBVIOUS
  <2>4. c[i] = c[m + j]
    BY <1>2, <2>1, <2>2
  <2> QED BY <1>3, <2>3, <2>4
<1> QED BY <1>4, <1>5, <1>6

(* The places of elements.                                                  *)
Firsts(s) == [k \in DOMAIN s |-> s[k][1]]

(* The places of elements are a sequence as long,                           *)
LEMMA FirstsSeq ==
  ASSUME NEW P, NEW V, NEW s \in Seq(P \X V)
  PROVE  Firsts(s) \in Seq(P) /\ Len(Firsts(s)) = Len(s)
<1> PICK m \in Nat : m = Len(s) /\ DOMAIN s = 1..m
  OBVIOUS
<1>1. \A k \in 1..m : s[k] \in P \X V
  OBVIOUS
<1>2. \A k \in 1..m : s[k][1] \in P
  BY <1>1
<1> DEFINE f == [k \in 1..m |-> s[k][1]]
<1>3. f \in [1..m -> P]
  BY <1>2
<1>4. Firsts(s) = f
  BY DEF Firsts
<1> HIDE DEF f
<1>5. f \in Seq(P) /\ Len(f) = m
  BY ONLY <1>3, m \in Nat, SeqDef
<1> QED BY <1>4, <1>5

(* and those of joined sequences are joined.                                *)
LEMMA FirstsConcat ==
  ASSUME NEW P, NEW V, NEW s \in Seq(P \X V), NEW t \in Seq(P \X V)
  PROVE  IsBoth(Firsts(s \o t), Firsts(s), Firsts(t))
<1> PICK S : S = P \X V
  OBVIOUS
<1> PICK m \in Nat, l \in Nat : m = Len(s) /\ l = Len(t)
  OBVIOUS
<1>1. s \o t \in Seq(S) /\ Joined(s \o t, s, m, t, l)
  BY ONLY s \in Seq(S), t \in Seq(S), m \in Nat, l \in Nat, m = Len(s), l = Len(t), ConcatAt
<1> PICK c \in Seq(P \X V) : c = s \o t
  BY <1>1
<1>2. /\ Len(c) = m + l /\ DOMAIN c = 1..(m + l) /\ DOMAIN s = 1..m /\ DOMAIN t = 1..l
      /\ \A i \in 1..m : c[i] = s[i]
      /\ \A i \in 1..l : c[m + i] = t[i]
  BY <1>1 DEF Joined
<1>3. /\ Firsts(s) \in Seq(P) /\ Len(Firsts(s)) = m
      /\ Firsts(t) \in Seq(P) /\ Len(Firsts(t)) = l
      /\ Firsts(c) \in Seq(P) /\ Len(Firsts(c)) = m + l
  <2>1. Firsts(s) \in Seq(P) /\ Len(Firsts(s)) = m
    BY ONLY s \in Seq(P \X V), m = Len(s), FirstsSeq
  <2>2. Firsts(t) \in Seq(P) /\ Len(Firsts(t)) = l
    BY ONLY t \in Seq(P \X V), l = Len(t), FirstsSeq
  <2>3. Firsts(c) \in Seq(P) /\ Len(Firsts(c)) = m + l
    BY ONLY c \in Seq(P \X V), Len(c) = m + l, <1>2, FirstsSeq
  <2> QED BY <2>1, <2>2, <2>3
<1> PICK x, y, z \in Seq(P) : x = Firsts(s) /\ y = Firsts(t) /\ z = Firsts(c)
  BY <1>3
<1>4. /\ \A i \in 1..m : x[i] = s[i][1]
      /\ \A i \in 1..l : y[i] = t[i][1]
      /\ \A i \in 1..(m + l) : z[i] = c[i][1]
  BY <1>2 DEF Firsts
<1>5. x \o y \in Seq(P) /\ Joined(x \o y, x, m, y, l)
  <2>1. Len(x) = m /\ Len(y) = l
    BY <1>3
  <2> QED BY ONLY <2>1, x \in Seq(P), y \in Seq(P), m \in Nat, l \in Nat, ConcatAt
<1> PICK d \in Seq(P) : d = x \o y
  BY <1>5
<1>6. /\ Len(d) = m + l
      /\ \A i \in 1..m : d[i] = x[i]
      /\ \A i \in 1..l : d[m + i] = y[i]
  BY <1>5 DEF Joined
<1>7. \A i \in 1..(m + l) : z[i] = d[i]
  <2> SUFFICES ASSUME NEW i \in 1..(m + l) PROVE z[i] = d[i]
    OBVIOUS
  <2>1. CASE i <= m
    <3>1. i \in 1..m
      BY <2>1
    <3>2. z[i] = c[i][1] /\ c[i] = s[i] /\ d[i] = x[i] /\ x[i] = s[i][1]
      BY <1>2, <1>4, <1>6, <3>1
    <3> QED BY <3>2
  <2>2. CASE ~(i <= m)
    <3> PICK j \in 1..l : i = m + j
      <4>1. i - m \in 1..l /\ i = m + (i - m)
        BY <2>2
      <4> QED BY <4>1
    <3>1. z[i] = c[i][1] /\ c[i] = t[j] /\ d[i] = y[j] /\ y[j] = t[j][1]
      BY <1>2, <1>4, <1>6
    <3> QED BY <3>1
  <2> QED BY <2>1, <2>2
<1>8. z = d
  <2>1. Len(z) = Len(d) /\ \A i \in 1..Len(z) : z[i] = d[i]
    BY <1>3, <1>6, <1>7
  <2> QED BY <2>1, SeqEqual
<1> QED BY <1>8 DEF IsBoth

--------------------------------------------------------------------------------
(* s has the elements of the first places of a request that are kept.       *)
Picked(s, r, v, kept, n) ==
  /\ s \in Seq(Places \X Values)
  /\ \A i \in DOMAIN s : s[i][2] = v[s[i][1]]
  /\ ToSet(Firsts(s)) = {r[i] : i \in 1..n} \intersect kept
  /\ Rises(r) => Rises(Firsts(s))
  /\ IsInjective(r) => IsInjective(Firsts(s))

(* Places are numbers.                                                      *)
LEMMA PlacesNat == Size \in Nat => Places \subseteq Nat
BY DEF Places

(* None of no places.                                                       *)
LEMMA PickedNone ==
  ASSUME NEW r, NEW v, NEW kept
  PROVE  Picked(<<>>, r, v, kept, 0)
<1>1. <<>> \in Seq(Places \X Values) /\ DOMAIN <<>> = {}
  OBVIOUS
<1>2. Firsts(<<>>) = <<>>
  BY DEF Firsts
<1>3. {r[i] : i \in 1..0} = {}
  OBVIOUS
<1>4. ToSet(<<>>) = {} /\ Rises(<<>>) /\ IsInjective(<<>>)
  BY NothingFacts
<1> QED BY <1>1, <1>2, <1>3, <1>4 DEF Picked

(* A place that is left out.                                                *)
LEMMA PickedSkip ==
  ASSUME NEW s, NEW r, NEW v, NEW kept, NEW n \in Nat, Picked(s, r, v, kept, n), r[n + 1] \notin kept
  PROVE  Picked(s, r, v, kept, n + 1)
<1>1. 1..(n + 1) = (1..n) \union {n + 1}
  OBVIOUS
<1>2. {r[i] : i \in 1..(n + 1)} = {r[i] : i \in 1..n} \union {r[n + 1]}
  BY <1>1
<1>3. {r[i] : i \in 1..(n + 1)} \intersect kept = {r[i] : i \in 1..n} \intersect kept
  BY <1>2
<1> QED BY <1>3 DEF Picked

(* o is the sequence of one element.                                        *)
OnlyOf(o, x, y) == o = <<<<x, y>>>> /\ Len(o) = 1 /\ o[1] = <<x, y>>

(* There is one.                                                            *)
LEMMA OneElement ==
  ASSUME NEW P, NEW V, NEW x \in P, NEW y \in V
  PROVE  \E o \in Seq(P \X V) : OnlyOf(o, x, y)
<1>1. <<x, y>> \in P \X V
  OBVIOUS
<1> PICK z \in P \X V : z = <<x, y>>
  BY <1>1
<1>2. <<z>> \in Seq(P \X V) /\ Len(<<z>>) = 1 /\ <<z>>[1] = z
  OBVIOUS
<1> QED BY <1>2 DEF OnlyOf

(* A sequence of some is one of more.                                       *)
LEMMA SeqOfMore ==
  ASSUME NEW S, NEW T, S \subseteq T, NEW s \in Seq(S)
  PROVE  s \in Seq(T)
<1> PICK m \in Nat : m = Len(s) /\ DOMAIN s = 1..m /\ s \in [1..m -> S]
  OBVIOUS
<1>1. s \in [1..m -> T]
  OBVIOUS
<1> QED BY ONLY <1>1, m \in Nat, SeqDef

(* A place that is taken.                                                   *)
LEMMA PickedTake ==
  ASSUME Size \in Nat, NEW r \in Seq(Places), NEW v \in AllElements, NEW kept, NEW s,
         NEW n \in Nat, n < Len(r), Picked(s, r, v, kept, n), r[n + 1] \in kept
  PROVE  Picked(Append(s, <<r[n + 1], v[r[n + 1]]>>), r, v, kept, n + 1)
<1> PICK m \in Nat : m = Len(r) /\ DOMAIN r = 1..m
  OBVIOUS
<1>1. n + 1 \in 1..m /\ \A i \in 1..n : i \in 1..m /\ i < n + 1
  OBVIOUS
<1> PICK x \in Places : x = r[n + 1]
  BY <1>1
<1> PICK y \in Values : y = v[x]
  BY DEF AllElements
<1> PICK o \in Seq(Places \X Values) : o = <<<<x, y>>>> /\ Len(o) = 1 /\ o[1] = <<x, y>>
  <2>1. \E o \in Seq(Places \X Values) : OnlyOf(o, x, y)
    BY OneElement, Zenon
  <2> QED BY <2>1 DEF OnlyOf
<1> PICK z : z = <<x, y>> /\ z = o[1] /\ z \in Places \X Values /\ z[1] = x /\ z[2] = y
  OBVIOUS
<1>2. s \in Seq(Places \X Values)
  BY DEF Picked
<1> PICK l \in Nat : l = Len(s) /\ DOMAIN s = 1..l
  BY <1>2
<1> PICK c \in Seq(Places \X Values) : c = s \o o
  <2>1. s \o o \in Seq(Places \X Values)
    BY <1>2
  <2> QED BY <2>1
<1>3. Append(s, z) = c
  <2>1. o = <<z>> /\ z \in Places \X Values
    OBVIOUS
  <2>2. Append(s, z) = s \o <<z>>
    BY ONLY <1>2, <2>1, AppendIsConcat
  <2> QED BY ONLY <2>1, <2>2, c = s \o o
<1>4. /\ Len(c) = l + 1 /\ DOMAIN c = 1..(l + 1)
      /\ \A i \in 1..l : c[i] = s[i]
      /\ c[l + 1] = z
  BY <1>2
<1>5. \A i \in DOMAIN c : c[i][2] = v[c[i][1]]
  <2> SUFFICES ASSUME NEW i \in 1..(l + 1) PROVE c[i][2] = v[c[i][1]]
    BY <1>4
  <2>1. CASE i \in 1..l
    <3>1. c[i] = s[i] /\ s[i][2] = v[s[i][1]]
      BY <1>4, <2>1 DEF Picked
    <3> QED BY <3>1
  <2>2. CASE i = l + 1
    <3>1. c[i] = z
      BY <1>4, <2>2
    <3> QED BY <3>1
  <2> QED BY <2>1, <2>2
<1> PICK p, q : p = Firsts(s) /\ q = Firsts(o)
  OBVIOUS
<1>6. p \in Seq(Places) /\ q \in Seq(Places) /\ Len(q) = 1
  <2>1. p \in Seq(Places)
    BY ONLY <1>2, p = Firsts(s), FirstsSeq
  <2>2. q \in Seq(Places) /\ Len(q) = 1
    BY ONLY o \in Seq(Places \X Values), Len(o) = 1, q = Firsts(o), FirstsSeq
  <2> QED BY <2>1, <2>2
<1>7. q[1] = x
  BY DEF Firsts
<1>8. q = <<x>> /\ ToSet(q) = {x}
  <2>1. q = <<x>>
    BY <1>6, <1>7, Single
  <2>2. DOMAIN q = {1}
    <3>1. DOMAIN q = 1..Len(q)
      BY ONLY <1>6
    <3>2. 1..1 = {1}
      OBVIOUS
    <3> QED BY ONLY <1>6, <3>1, <3>2
  <2> QED BY <1>7, <2>1, <2>2 DEF ToSet
<1>9. Firsts(c) = p \o q
  <2>1. IsBoth(Firsts(s \o o), Firsts(s), Firsts(o))
    BY <1>2, FirstsConcat
  <2> QED BY <2>1 DEF IsBoth
<1>10. ToSet(p) = {r[i] : i \in 1..n} \intersect kept
  BY DEF Picked
<1>11. ToSet(p \o q) = {r[i] : i \in 1..(n + 1)} \intersect kept
  <2>1. 1..(n + 1) = (1..n) \union {n + 1}
    OBVIOUS
  <2>2. {r[i] : i \in 1..(n + 1)} = {r[i] : i \in 1..n} \union {x}
    BY <2>1
  <2>3. ToSet(p \o q) = ToSet(p) \union ToSet(q)
    BY ONLY <1>6, SetOfConcat
  <2> QED BY <1>8, <1>10, <2>2, <2>3
<1>12. p \in Seq(Nat) /\ q \in Seq(Nat)
  <2>1. Places \subseteq Nat
    BY PlacesNat
  <2> QED BY ONLY <1>6, <2>1, SeqOfMore
<1>13. ASSUME Rises(r) PROVE Rises(p \o q)
  <2>1. \A a \in ToSet(p), b \in ToSet(q) : a < b
    <3> SUFFICES ASSUME NEW a \in ToSet(p), NEW b \in ToSet(q) PROVE a < b
      OBVIOUS
    <3>1. PICK i \in 1..n : a = r[i]
      BY <1>10
    <3>2. b = r[n + 1]
      BY <1>8
    <3>3. i \in DOMAIN r /\ n + 1 \in DOMAIN r /\ i < n + 1
      BY <1>1
    <3> QED BY <1>13, <3>1, <3>2, <3>3 DEF Rises
  <2>2. Rises(p)
    BY <1>13 DEF Picked
  <2>3. Rises(q)
    BY <1>6 DEF Rises
  <2> QED BY ONLY <1>12, <2>1, <2>2, <2>3, RisesConcat
<1>14. ASSUME IsInjective(r) PROVE IsInjective(p \o q)
  <2>1. ToSet(p) \intersect ToSet(q) = {}
    <3> SUFFICES ASSUME x \in ToSet(p) PROVE FALSE
      BY <1>8
    <3>1. PICK i \in 1..n : x = r[i]
      BY <1>10
    <3>2. i \in DOMAIN r /\ n + 1 \in DOMAIN r /\ i # n + 1 /\ r[i] = r[n + 1]
      BY <1>1, <3>1
    <3> QED BY <1>14, <3>2 DEF IsInjective
  <2>2. IsInjective(p)
    BY <1>14 DEF Picked
  <2>3. IsInjective(q)
    BY <1>6 DEF IsInjective
  <2> QED BY ONLY <1>12, <2>1, <2>2, <2>3, InjectiveConcat
<1>15. Picked(c, r, v, kept, n + 1)
  BY <1>5, <1>9, <1>11, <1>13, <1>14 DEF Picked
<1> QED BY <1>3, <1>15

(* The elements that are taken from a request.                              *)
LEMMA TakenFacts ==
  ASSUME Size \in Nat, NEW r \in Seq(Places), NEW v \in AllElements, NEW b,
         b = [k \in DOMAIN r |-> <<r[k], v[r[k]]>>]
  PROVE  Picked(TakenOf(b), r, v, {p \in Places : input.select \/ v[p] \notin Zeros}, Len(r))
<1> PICK m \in Nat : m = Len(r) /\ DOMAIN r = 1..m
  OBVIOUS
<1> PICK kept : kept = {p \in Places : input.select \/ v[p] \notin Zeros}
  OBVIOUS
<1>1. \A k \in 1..m : r[k] \in Places /\ v[r[k]] \in Values
  BY DEF AllElements
<1>2. b \in Seq(Places \X Values) /\ Len(b) = m /\ \A k \in 1..m : b[k] = <<r[k], v[r[k]]>>
  <2>1. b \in [1..m -> Places \X Values] /\ \A k \in 1..m : b[k] = <<r[k], v[r[k]]>>
    BY <1>1
  <2> QED BY <2>1
<1>3. \A k \in 1..m : Taken(b[k]) <=> r[k] \in kept
  <2> SUFFICES ASSUME NEW k \in 1..m PROVE Taken(b[k]) <=> r[k] \in kept
    OBVIOUS
  <2>1. b[k][2] = v[r[k]]
    BY <1>2
  <2> QED BY <1>1, <2>1 DEF Taken
<1> DEFINE A == Seq(Places \X Values)
           G == [z \in A \X (1..m) |-> IF Taken(b[z[2]]) THEN Append(z[1], b[z[2]]) ELSE z[1]]
           Step(t, k) == IF k = 0 THEN <<>>
                         ELSE IF Taken(b[k]) THEN Append(t[k - 1], b[k]) ELSE t[k - 1]
           IsTaken(t) == t = [k \in 0..Len(b) |-> Step(t, k)]
<1>4. PICK f \in [0..m -> A] : Steps(f, m, <<>>, G)
  <2>1. G \in [A \X (1..m) -> A]
    <3>1. \A s \in A, k \in 1..m : Append(s, b[k]) \in A
      <4> SUFFICES ASSUME NEW s \in Seq(Places \X Values), NEW k \in 1..m
                   PROVE  Append(s, b[k]) \in Seq(Places \X Values)
        OBVIOUS
      <4> PICK z \in Places \X Values : z = b[k]
        BY ONLY <1>2, k \in 1..m, ElementOfSeq
      <4>1. Append(s, z) \in Seq(Places \X Values)
        OBVIOUS
      <4> QED BY <4>1
    <3> HIDE DEF A
    <3> QED BY <3>1
  <2>2. <<>> \in A
    OBVIOUS
  <2> HIDE DEF A, G
  <2> QED BY <2>1, <2>2, Recursion
<1>5. ASSUME NEW k \in 0..m PROVE f[k] = Step(f, k)
  <2>1. CASE k = 0
    BY <1>4, <2>1 DEF Steps
  <2>2. CASE k # 0
    <3>1. k \in 1..m /\ k - 1 \in 0..m
      BY <2>2
    <3>2. f[k] = G[<<f[k - 1], k>>]
      <4> HIDE DEF G
      <4> QED BY <1>4, <3>1 DEF Steps
    <3>3. f[k - 1] \in A
      <4> HIDE DEF A
      <4> QED BY <1>4, <3>1
    <3>4. G[<<f[k - 1], k>>] = IF Taken(b[k]) THEN Append(f[k - 1], b[k]) ELSE f[k - 1]
      <4> HIDE DEF A
      <4> QED BY <3>1, <3>3
    <3> HIDE DEF G
    <3> QED BY <2>2, <3>2, <3>4
  <2> QED BY <2>1, <2>2
<1> HIDE DEF Step, G, A
<1>6. IsTaken(f)
  <2> DEFINE h == [k \in 0..m |-> Step(f, k)]
  <2>1. \A k \in 0..m : f[k] = h[k]
    BY <1>5
  <2>2. f = [k \in 0..m |-> f[k]] /\ h = [k \in 0..m |-> h[k]]
    OBVIOUS
  <2>3. f = h
    <3> HIDE DEF h
    <3> QED BY <2>1, <2>2
  <2> QED BY <1>2, <2>3
<1> PICK g : g = CHOOSE t : IsTaken(t)
  OBVIOUS
<1>7. IsTaken(g)
  <2> HIDE DEF IsTaken
  <2> QED BY <1>6
<1>8. TakenOf(b) = g[m]
  BY <1>2 DEF TakenOf, Step
<1>9. \A k \in 0..m : g[k] = Step(g, k)
  BY <1>2, <1>7
<1> HIDE DEF IsTaken
<1> DEFINE S == {k \in 0..m : Picked(g[k], r, v, kept, k)}
<1>10. 0 \in S
  <2>1. g[0] = <<>>
    <3>1. 0 \in 0..m
      OBVIOUS
    <3>2. g[0] = Step(g, 0)
      BY <1>9, <3>1
    <3> QED BY <3>2 DEF Step
  <2>2. Picked(<<>>, r, v, kept, 0)
    BY PickedNone
  <2> QED BY <2>1, <2>2
<1>11. \A k \in 0..m : k < m /\ k \in S => k + 1 \in S
  <2> SUFFICES ASSUME NEW k \in 0..m, k < m, k \in S PROVE k + 1 \in S
    BY Zenon
  <2>0. Picked(g[k], r, v, kept, k)
    OBVIOUS
  <2>1. k \in Nat /\ k + 1 \in 1..m /\ k + 1 \in 0..m /\ (k + 1) - 1 = k /\ k + 1 # 0
    OBVIOUS
  <2>2. g[k + 1] = IF Taken(b[k + 1]) THEN Append(g[k], b[k + 1]) ELSE g[k]
    <3>1. g[k + 1] = Step(g, k + 1)
      BY <1>9, <2>1
    <3> QED BY <2>1, <3>1 DEF Step
  <2>3. ASSUME Taken(b[k + 1]) PROVE Picked(g[k + 1], r, v, kept, k + 1)
    <3>1. r[k + 1] \in kept /\ b[k + 1] = <<r[k + 1], v[r[k + 1]]>>
      BY <1>2, <1>3, <2>1, <2>3
    <3>2. Picked(Append(g[k], <<r[k + 1], v[r[k + 1]]>>), r, v, kept, k + 1)
      <4> PICK s : s = g[k]
        OBVIOUS
      <4>1. k \in Nat /\ k < Len(r)
        OBVIOUS
      <4>2. Picked(Append(s, <<r[k + 1], v[r[k + 1]]>>), r, v, kept, k + 1)
        BY ONLY Size \in Nat, r \in Seq(Places), v \in AllElements, <2>0, s = g[k], <3>1, <4>1, PickedTake
      <4> QED BY <4>2
    <3>3. g[k + 1] = Append(g[k], <<r[k + 1], v[r[k + 1]]>>)
      BY <2>2, <2>3, <3>1
    <3> QED BY ONLY <3>2, <3>3, Zenon
  <2>4. ASSUME ~Taken(b[k + 1]) PROVE Picked(g[k + 1], r, v, kept, k + 1)
    <3>1. r[k + 1] \notin kept
      BY <1>3, <2>1, <2>4
    <3>2. Picked(g[k], r, v, kept, k + 1)
      BY <2>0, <2>1, <3>1, PickedSkip
    <3> QED BY <2>2, <2>4, <3>2
  <2>5. Picked(g[k + 1], r, v, kept, k + 1)
    BY <2>3, <2>4
  <2> QED BY <2>1, <2>5
<1>12. m \in S
  <2> HIDE DEF S
  <2>1. \A k \in 0..m : k \in S
    BY ONLY m \in Nat, <1>10, <1>11, UpToAll
  <2>2. m \in 0..m
    OBVIOUS
  <2> QED BY ONLY <2>1, <2>2
<1> QED BY <1>8, <1>12

--------------------------------------------------------------------------------
(* s has the elements of those places of r that are kept.                   *)
PickedAll(s, r, v, kept) == Picked(s, r, v, kept, Len(r))

(* The places of a sequence, by their numbers.                              *)
LEMMA SetByNumber ==
  ASSUME NEW S, NEW s \in Seq(S)
  PROVE  {s[i] : i \in 1..Len(s)} = ToSet(s)
<1>1. DOMAIN s = 1..Len(s)
  OBVIOUS
<1> QED BY <1>1 DEF ToSet

(* The elements of some places and of more.                                 *)
LEMMA PickedMore ==
  ASSUME Size \in Nat, NEW r \in Seq(Places), NEW q \in Seq(Places), NEW v, NEW kept, NEW s, NEW t,
         PickedAll(s, r, v, kept), PickedAll(t, q, v, kept)
  PROVE  PickedAll(s \o t, r \o q, v, kept)
<1>1. /\ s \in Seq(Places \X Values) /\ t \in Seq(Places \X Values)
      /\ \A i \in DOMAIN s : s[i][2] = v[s[i][1]]
      /\ \A i \in DOMAIN t : t[i][2] = v[t[i][1]]
      /\ ToSet(Firsts(s)) = ToSet(r) \intersect kept
      /\ ToSet(Firsts(t)) = ToSet(q) \intersect kept
      /\ Rises(r) => Rises(Firsts(s))
      /\ Rises(q) => Rises(Firsts(t))
      /\ IsInjective(r) => IsInjective(Firsts(s))
      /\ IsInjective(q) => IsInjective(Firsts(t))
  BY SetByNumber DEF PickedAll, Picked
<1> PICK S : S = Places \X Values
  OBVIOUS
<1> PICK a, b \in Seq(S) : a = s /\ b = t
  BY <1>1
<1> PICK m \in Nat, l \in Nat : m = Len(a) /\ l = Len(b) /\ DOMAIN a = 1..m /\ DOMAIN b = 1..l
  OBVIOUS
<1>2. a \o b \in Seq(S) /\ Joined(a \o b, a, m, b, l)
  BY ONLY a \in Seq(S), b \in Seq(S), m \in Nat, l \in Nat, m = Len(a), l = Len(b), ConcatAt
<1> PICK c \in Seq(S) : c = a \o b
  BY <1>2
<1>3. /\ DOMAIN c = 1..(m + l)
      /\ \A i \in 1..m : c[i] = a[i]
      /\ \A i \in 1..l : c[m + i] = b[i]
  BY <1>2 DEF Joined
<1>4. \A i \in DOMAIN c : c[i][2] = v[c[i][1]]
  <2> SUFFICES ASSUME NEW i \in 1..(m + l) PROVE c[i][2] = v[c[i][1]]
    BY <1>3
  <2>1. CASE i <= m
    <3>1. i \in 1..m
      BY <2>1
    <3>2. c[i] = a[i] /\ a[i][2] = v[a[i][1]]
      BY <1>1, <1>3, <3>1
    <3> QED BY <3>2
  <2>2. CASE ~(i <= m)
    <3> PICK j \in 1..l : i = m + j
      <4>1. i - m \in 1..l /\ i = m + (i - m)
        BY <2>2
      <4> QED BY <4>1
    <3>1. c[i] = b[j] /\ b[j][2] = v[b[j][1]]
      BY <1>1, <1>3
    <3> QED BY <3>1
  <2> QED BY <2>1, <2>2
<1> PICK x, y : x = Firsts(a) /\ y = Firsts(b)
  OBVIOUS
<1>5. x \in Seq(Places) /\ y \in Seq(Places)
  <2>1. x \in Seq(Places)
    BY ONLY <1>1, a = s, x = Firsts(a), FirstsSeq
  <2>2. y \in Seq(Places)
    BY ONLY <1>1, b = t, y = Firsts(b), FirstsSeq
  <2> QED BY <2>1, <2>2
<1>6. Firsts(c) = x \o y
  <2>1. IsBoth(Firsts(s \o t), Firsts(s), Firsts(t))
    BY ONLY <1>1, FirstsConcat
  <2> QED BY <2>1 DEF IsBoth
<1>7. /\ x \in Seq(Nat) /\ y \in Seq(Nat) /\ r \in Seq(Nat) /\ q \in Seq(Nat)
  <2>1. Places \subseteq Nat
    BY PlacesNat
  <2>2. x \in Seq(Nat)
    BY ONLY <1>5, <2>1, SeqOfMore
  <2>3. y \in Seq(Nat)
    BY ONLY <1>5, <2>1, SeqOfMore
  <2>4. r \in Seq(Nat)
    BY ONLY r \in Seq(Places), <2>1, SeqOfMore
  <2>5. q \in Seq(Nat)
    BY ONLY q \in Seq(Places), <2>1, SeqOfMore
  <2> QED BY <2>2, <2>3, <2>4, <2>5
<1>8. r \o q \in Seq(Places) /\ ToSet(r \o q) = ToSet(r) \union ToSet(q)
  BY ONLY r \in Seq(Places), q \in Seq(Places), SetOfConcat
<1>9. ToSet(x \o y) = ToSet(x) \union ToSet(y)
  BY ONLY <1>5, SetOfConcat
<1>10. ToSet(x \o y) = ToSet(r \o q) \intersect kept
  BY <1>1, <1>8, <1>9
<1>11. ASSUME Rises(r \o q) PROVE Rises(x \o y)
  <2>1. Rises(r) /\ Rises(q) /\ \A a1 \in ToSet(r), b1 \in ToSet(q) : a1 < b1
    BY ONLY <1>7, <1>11, RisesParts
  <2>2. Rises(x) /\ Rises(y) /\ \A a1 \in ToSet(x), b1 \in ToSet(y) : a1 < b1
    BY <1>1, <2>1
  <2> QED BY ONLY <1>7, <2>2, RisesConcat
<1>12. ASSUME IsInjective(r \o q) PROVE IsInjective(x \o y)
  <2>1. IsInjective(r) /\ IsInjective(q) /\ ToSet(r) \intersect ToSet(q) = {}
    BY ONLY <1>7, <1>12, InjectiveParts
  <2>2. IsInjective(x) /\ IsInjective(y) /\ ToSet(x) \intersect ToSet(y) = {}
    BY <1>1, <2>1
  <2> QED BY ONLY <1>7, <2>2, InjectiveConcat
<1>13. {(r \o q)[i] : i \in 1..Len(r \o q)} = ToSet(r \o q)
  BY ONLY <1>8, SetByNumber
<1>14. /\ c = s \o t /\ c \in Seq(Places \X Values)
       /\ ToSet(Firsts(c)) = {(r \o q)[i] : i \in 1..Len(r \o q)} \intersect kept
       /\ Rises(r \o q) => Rises(Firsts(c))
       /\ IsInjective(r \o q) => IsInjective(Firsts(c))
  BY <1>6, <1>10, <1>11, <1>12, <1>13
<1>15. Picked(c, r \o q, v, kept, Len(r \o q))
  BY ONLY <1>4, <1>14 DEF Picked
<1> QED BY <1>14, <1>15 DEF PickedAll

(* The places of the first requests.                                        *)
ReadOf(requests, n) == FlattenSeq(SubSeq(requests, 1, n))

(* Those of none,                                                           *)
LEMMA ReadNone ==
  ASSUME NEW s \in Seq(Seq(Nat))
  PROVE  ReadOf(s, 0) = <<>>
<1>1. SubSeq(s, 1, 0) = <<>>
  OBVIOUS
<1> QED BY <1>1, NothingFacts DEF ReadOf

(* of one more,                                                             *)
LEMMA ReadMore ==
  ASSUME NEW s \in Seq(Seq(Nat)), NEW n \in Nat, n < Len(s)
  PROVE  /\ s[n + 1] \in Seq(Nat) /\ ReadOf(s, n) \in Seq(Nat)
         /\ ReadOf(s, n + 1) = ReadOf(s, n) \o s[n + 1]
<1> PICK m \in Nat : m = Len(s) /\ DOMAIN s = 1..m
  OBVIOUS
<1>1. n + 1 \in 1..m /\ \A i \in 1..n : i \in 1..m
  OBVIOUS
<1> PICK q \in Seq(Nat) : q = s[n + 1]
  BY <1>1
<1> DEFINE t == SubSeq(s, 1, n)
           u == SubSeq(s, 1, n + 1)
<1>2. t \in Seq(Seq(Nat)) /\ Len(t) = n /\ \A i \in 1..n : t[i] = s[i]
  BY <1>1
<1>3. u \in Seq(Seq(Nat)) /\ Len(u) = n + 1 /\ \A i \in 1..(n + 1) : u[i] = s[i]
  BY <1>1
<1> HIDE DEF t, u
<1> PICK w \in Seq(Seq(Nat)) : /\ w = Append(t, q) /\ Len(w) = n + 1 /\ w[n + 1] = q
                               /\ \A i \in 1..n : w[i] = t[i]
  <2>1. Append(t, q) \in Seq(Seq(Nat)) /\ Len(Append(t, q)) = n + 1 /\ Append(t, q)[n + 1] = q
    BY <1>2
  <2>2. \A i \in 1..n : Append(t, q)[i] = t[i]
    BY <1>2
  <2> QED BY <2>1, <2>2
<1>4. \A i \in 1..(n + 1) : u[i] = w[i]
  <2> SUFFICES ASSUME NEW i \in 1..(n + 1) PROVE u[i] = w[i]
    OBVIOUS
  <2>1. CASE i \in 1..n
    BY <1>2, <1>3, <2>1
  <2>2. CASE i = n + 1
    BY <1>3, <2>2
  <2> QED BY <2>1, <2>2
<1>5. u = w
  BY <1>3, <1>4, SeqEqual
<1>6. FlattenSeq(t) \in Seq(Nat) /\ FlattenSeq(Append(t, q)) = FlattenSeq(t) \o q
  BY <1>2, FlattenAppend
<1> QED BY <1>5, <1>6 DEF ReadOf, t, u

(* and of all of them.                                                      *)
LEMMA ReadAll ==
  ASSUME NEW s \in Seq(Seq(Nat))
  PROVE  ReadOf(s, Len(s)) = FlattenSeq(s)
<1>1. SubSeq(s, 1, Len(s)) = s
  BY SubSeqFull
<1> QED BY <1>1 DEF ReadOf

(* A request put at the end is not one of those.                            *)
LEMMA ReadKept ==
  ASSUME NEW s \in Seq(Seq(Nat)), NEW q \in Seq(Nat)
  PROVE  ReadOf(Append(s, q), Len(s)) = FlattenSeq(s)
<1> PICK n \in Nat : n = Len(s) /\ DOMAIN s = 1..n
  OBVIOUS
<1> PICK w \in Seq(Seq(Nat)) : w = Append(s, q) /\ Len(w) = n + 1 /\ \A i \in 1..n : w[i] = s[i]
  <2>1. Append(s, q) \in Seq(Seq(Nat)) /\ Len(Append(s, q)) = n + 1
    OBVIOUS
  <2>2. \A i \in 1..n : Append(s, q)[i] = s[i]
    OBVIOUS
  <2> QED BY <2>1, <2>2
<1> DEFINE t == SubSeq(w, 1, n)
<1>1. t \in Seq(Seq(Nat)) /\ Len(t) = n /\ \A i \in 1..n : t[i] = w[i]
  OBVIOUS
<1> HIDE DEF t
<1>2. t = s
  <2>1. Len(t) = Len(s) /\ \A i \in 1..Len(t) : t[i] = s[i]
    BY <1>1
  <2> QED BY <1>1, <2>1, SeqEqual
<1> QED BY <1>2 DEF ReadOf, t

(* Numbers that are all members of a set are a sequence of its members.     *)
LEMMA SeqOfMembers ==
  ASSUME NEW S, NEW s \in Seq(Nat), ToSet(s) \subseteq S
  PROVE  s \in Seq(S)
<1> PICK m \in Nat : m = Len(s) /\ DOMAIN s = 1..m /\ s \in [1..m -> Nat]
  OBVIOUS
<1>1. \A i \in 1..m : s[i] \in S
  BY DEF ToSet
<1>2. s \in [1..m -> S]
  BY <1>1
<1> QED BY ONLY <1>2, m \in Nat, SeqDef

--------------------------------------------------------------------------------
(* What a request reads: the elements of the expression.                    *)
Elements == Evaluated(Expression)[input.root]

(* The places whose elements are delivered, or accumulated.                 *)
Kept == {p \in Places : input.select \/ Elements[p] \notin Zeros}

(* The requests that were read, and perhaps one that failed.                *)
ReadPlaces == ReadOf(emitted, evaluated)

(* Construction precedes the walk, a preference asks for no candidates, and *)
(* no more than one request is ahead of its evaluation.                     *)
PhaseInv ==
  /\ phase \in {"build", "refused", "select", "walk", "merge", "single", "chosen", "ended", "failed"}
  /\ phase \in {"merge", "single", "ended"} => ~input.prefer
  /\ phase = "ended" => output = <<>>
  /\ evaluated \in Nat /\ (evaluated = Len(emitted) \/ evaluated + 1 = Len(emitted))
  /\ phase = "failed" => evaluated = Len(emitted)

(* Elements are those of the places read, as long as nothing failed, and    *)
(* those places are in order or come once.                                  *)
ElementInv ==
  \E r \in Seq(Places) :
    /\ PickedAll(elements, r, Elements, Kept)
    /\ IsInjective(r)
    /\ ~Native => Rises(r)
    /\ phase # "failed" => r = ReadPlaces

(* The parts together.                                                      *)
StreamInv == WalkInv /\ ConstructInv /\ PhaseInv /\ ElementInv

(* Nothing is computed differently later.                                   *)
LEMMA ElementsStay ==
  ASSUME input' = input
  PROVE  Elements' = Elements /\ Kept' = Kept
<1>1. Elements' = Elements
  BY DEF Elements, Expression
<1> QED BY <1>1 DEF Kept

(* Elements are values.                                                     *)
LEMMA ElementsAre ==
  ASSUME input \in Inputs
  PROVE  Elements \in AllElements /\ Size \in Nat
<1>1. input.root \in DOMAIN input.operands /\ input.operands = Expression.operands
  BY ExpressionFacts DEF Expression
<1>2. Evaluated(Expression)[input.root] \in AllElements
  BY <1>1, ValueFacts DEF Expression
<1> QED BY <1>2, ExpressionAssumption DEF Elements

(* Leaves name places of the expression.                                    *)
LEMMA LeafPlaces ==
  ASSUME NEW i \in Inputs, NEW n \in DOMAIN i.operands
  PROVE  Named(i.streams[n]) \subseteq Places /\ Named(i.native[n]) \subseteq Places
<1> PICK e : e = i.expression
  OBVIOUS
<1>1. n \in DOMAIN e.operands
  BY ExpressionFacts
<1>2. /\ i.streams[n] = IF n \in Answering(e) THEN Everything
                        ELSE IF n \in DOMAIN e.requests THEN e.requests[n] ELSE <<>>
      /\ i.native[n] = IF n \in Answering(e) THEN Everything
                       ELSE IF n \in DOMAIN e.native THEN e.native[n] ELSE <<>>
  <2>1. i = Described(e)
    BY ExpressionFacts
  <2> QED BY <1>1, <2>1 DEF Described
<1>3. Named(Everything) = Places
  BY EverythingNames, CandidateAssumption, ExpressionAssumption
<1>4. Named(<<>>) = {}
  BY NothingFacts DEF Named, Requests
<1>5. /\ DOMAIN e.native = DOMAIN e.requests
      /\ \A k \in DOMAIN e.requests :
           Named(e.requests[k]) \subseteq Places /\ Named(e.native[k]) \subseteq Places
  <2>1. Expressible(e)
    BY ExpressionFacts
  <2> QED BY <2>1 DEF Expressible
<1> QED BY <1>2, <1>3, <1>4, <1>5

(* What is delivered are places.                                            *)
LEMMA DeliveredPlaces ==
  ASSUME UnionInv
  PROVE  ToSet(Delivered) \subseteq Places /\ UnionIsExact
<1>1. UnionIsExact
  BY UnionExact
<1>2. Candidates \subseteq Places
  <2> SUFFICES ASSUME NEW k \in DOMAIN found PROVE Named(StreamOf(found[k])) \subseteq Places
    BY DEF Candidates
  <2>1. found[k] \in DOMAIN input.operands /\ input \in Inputs
    BY DEF UnionInv, Known
  <2>2. Named(input.streams[found[k]]) \subseteq Places /\ Named(input.native[found[k]]) \subseteq Places
    BY <2>1, LeafPlaces
  <2> QED BY <2>2 DEF StreamOf
<1> QED BY <1>1, <1>2 DEF UnionIsExact

(* Initially.                                                               *)
LEMMA StreamInit == ExpressionInit => StreamInv
<1> SUFFICES ASSUME ExpressionInit PROVE StreamInv
  OBVIOUS
<1>1. /\ input \in Inputs /\ phase = "build" /\ built = {} /\ evaluated = 0 /\ elements = <<>>
      /\ emitted = <<>>
  BY DEF ExpressionInit, AtRoot
<1>2. WalkInv
  BY WalkInit
<1>3. ConstructInv
  BY <1>1 DEF ConstructInv
<1>4. PhaseInv
  BY <1>1, NothingFacts DEF PhaseInv
<1>5. ElementInv
  <2>1. ReadPlaces = <<>>
    <3>1. <<>> \in Seq(Seq(Nat))
      OBVIOUS
    <3> QED BY <1>1, <3>1, ReadNone DEF ReadPlaces
  <2>2. PickedAll(<<>>, <<>>, Elements, Kept)
    BY PickedNone, NothingFacts DEF PickedAll
  <2>3. <<>> \in Seq(Places)
    OBVIOUS
  <2> QED BY <1>1, <2>1, <2>2, <2>3, NothingFacts DEF ElementInv
<1> QED BY <1>2, <1>3, <1>4, <1>5 DEF StreamInv

(* A step that reads nothing, and discovers no more than one request when   *)
(* all of them were read.                                                   *)
LEMMA ElementKept ==
  ASSUME ElementInv, Known, input' = input, elements' = elements, evaluated' = evaluated,
         Native' = Native, phase = "failed" => phase' = "failed",
         \/ emitted' = emitted
         \/ evaluated = Len(emitted) /\ \E q \in Seq(Nat) : emitted' = Append(emitted, q)
  PROVE  ElementInv'
<1> PICK r \in Seq(Places) :
      /\ PickedAll(elements, r, Elements, Kept)
      /\ IsInjective(r)
      /\ ~Native => Rises(r)
      /\ phase # "failed" => r = ReadPlaces
  BY DEF ElementInv
<1>1. ReadPlaces' = ReadPlaces
  <2>1. CASE emitted' = emitted
    BY <2>1 DEF ReadPlaces
  <2>2. CASE emitted' # emitted
    <3> PICK q \in Seq(Nat) : emitted' = Append(emitted, q)
      BY <2>2
    <3>1. emitted \in Seq(Seq(Nat)) /\ evaluated = Len(emitted)
      BY <2>2 DEF Known
    <3>2. ReadOf(Append(emitted, q), Len(emitted)) = FlattenSeq(emitted)
      BY <3>1, ReadKept
    <3>3. ReadOf(emitted, Len(emitted)) = FlattenSeq(emitted)
      BY <3>1, ReadAll
    <3> QED BY <3>1, <3>2, <3>3 DEF ReadPlaces
  <2> QED BY <2>1, <2>2
<1>2. Elements' = Elements /\ Kept' = Kept
  BY ElementsStay
<1>3. PickedAll(elements', r, Elements', Kept')
  BY <1>2
<1>4. phase' # "failed" => r = ReadPlaces'
  BY <1>1
<1>5. ~Native' => Rises(r)
  OBVIOUS
<1> QED BY <1>3, <1>4, <1>5 DEF ElementInv

(* A step before anything is delivered.                                     *)
LEMMA ElementBefore ==
  ASSUME ElementInv, Known, input' = input, elements' = elements, evaluated' = evaluated,
         emitted' = emitted, emitted = <<>>, evaluated = 0, phase # "failed"
  PROVE  ElementInv'
<1> PICK r \in Seq(Places) : PickedAll(elements, r, Elements, Kept) /\ r = ReadPlaces
  BY DEF ElementInv
<1>1. ReadPlaces' = ReadPlaces /\ ReadPlaces = <<>>
  <2>1. emitted \in Seq(Seq(Nat))
    BY DEF Known
  <2> QED BY <2>1, ReadNone DEF ReadPlaces
<1>2. Elements' = Elements /\ Kept' = Kept
  BY ElementsStay
<1>3. PickedAll(elements', r, Elements', Kept')
  BY <1>2
<1>4. IsInjective(r) /\ Rises(r) /\ r = ReadPlaces'
  BY <1>1, NothingFacts
<1> QED BY <1>3, <1>4 DEF ElementInv

(* A request is read.                                                       *)
LEMMA ElementEvaluate ==
  ASSUME StreamInv, Evaluate
  PROVE  ElementInv'
<1>1. /\ evaluated < Len(emitted) /\ evaluated' = evaluated + 1 /\ UNCHANGED vars
      /\ elements' = elements \o TakenOf([k \in DOMAIN emitted[evaluated + 1] |->
                       <<emitted[evaluated + 1][k], Elements[emitted[evaluated + 1][k]]>>])
  BY DEF Evaluate, Elements
<1>2. input' = input /\ phase' = phase /\ emitted' = emitted /\ found' = found
  BY <1>1 DEF vars, walking, merging
<1>3. /\ Known /\ Uniting /\ UnionInv /\ input \in Inputs
      /\ emitted \in Seq(Seq(Nat)) /\ output \in Seq(Nat)
  BY DEF StreamInv, WalkInv, UnionInv, Known
<1> PICK n \in Nat : n = evaluated
  BY DEF StreamInv, PhaseInv
<1> PICK l \in Nat : l = Len(emitted)
  BY <1>3
<1>4. n + 1 = l /\ phase # "failed"
  BY <1>1 DEF StreamInv, PhaseInv
<1> PICK r \in Seq(Places) :
      /\ PickedAll(elements, r, Elements, Kept)
      /\ r = ReadOf(emitted, n)
  BY <1>4 DEF StreamInv, ElementInv, ReadPlaces
<1> PICK q \in Seq(Nat) : q = emitted[n + 1] /\ ReadOf(emitted, n + 1) = r \o q
  <2>1. n < Len(emitted)
    BY <1>4
  <2> QED BY <1>3, <2>1, ReadMore
<1> PICK d : d = r \o q
  OBVIOUS
<1>5. Delivered = d \o output /\ d \in Seq(Nat)
  <2>1. ReadOf(emitted, l) = FlattenSeq(emitted) /\ FlattenSeq(emitted) \in Seq(Nat)
    BY <1>3, ReadAll, FlattenAppend
  <2> QED BY <1>4, <2>1 DEF Delivered
<1>6. ToSet(d) \subseteq Places
  <2>1. ToSet(d \o output) = ToSet(d) \union ToSet(output)
    BY ONLY <1>3, <1>5, SetOfConcat
  <2>2. ToSet(Delivered) \subseteq Places
    BY <1>3, DeliveredPlaces
  <2> QED BY <1>5, <2>1, <2>2
<1>7. r \in Seq(Nat) /\ ToSet(d) = ToSet(r) \union ToSet(q)
  <2>1. Places \subseteq Nat
    BY ElementsAre, <1>3, PlacesNat
  <2>2. r \in Seq(Nat)
    BY ONLY <2>1, r \in Seq(Places), SeqOfMore
  <2>3. ToSet(r \o q) = ToSet(r) \union ToSet(q)
    BY ONLY <2>2, q \in Seq(Nat), SetOfConcat
  <2> QED BY <2>2, <2>3
<1>8. q \in Seq(Places) /\ d \in Seq(Places)
  <2>1. ToSet(q) \subseteq Places
    BY <1>6, <1>7
  <2>2. q \in Seq(Places)
    BY ONLY q \in Seq(Nat), <2>1, SeqOfMembers
  <2>3. d \in Seq(Places)
    BY ONLY <1>5, <1>6, SeqOfMembers
  <2> QED BY <2>2, <2>3
<1>9. IsInjective(d) /\ (~Native => Rises(d))
  <2>1. IsInjective(d \o output)
    BY <1>3, <1>5, DeliveredPlaces DEF UnionIsExact
  <2>2. IsInjective(d)
    BY ONLY <1>3, <1>5, <2>1, InjectiveParts
  <2>3. ASSUME ~Native PROVE Rises(d)
    <3>1. emitted # <<>>
      <4>1. Len(<<>>) = 0
        OBVIOUS
      <4> QED BY <1>4, <4>1
    <3>2. Merging
      BY <1>3, <2>3, <3>1 DEF Uniting, Selecting
    <3>3. Rises(d \o output)
      BY <1>5, <3>2 DEF Merging
    <3> QED BY ONLY <1>3, <1>5, <3>3, RisesParts
  <2> QED BY <2>2, <2>3
<1> PICK v \in AllElements : v = Elements
  BY <1>3, ElementsAre
<1> PICK b : b = [k \in DOMAIN q |-> <<q[k], v[q[k]]>>]
  OBVIOUS
<1>10. PickedAll(TakenOf(b), q, v, Kept)
  <2>1. Size \in Nat
    BY <1>3, ElementsAre
  <2>2. Picked(TakenOf(b), q, v, {p \in Places : input.select \/ v[p] \notin Zeros}, Len(q))
    BY ONLY <2>1, <1>8, v \in AllElements, b = [k \in DOMAIN q |-> <<q[k], v[q[k]]>>], TakenFacts
  <2> QED BY <2>2 DEF PickedAll, Kept
<1>11. elements' = elements \o TakenOf(b)
  BY <1>1
<1>12. PickedAll(elements \o TakenOf(b), d, v, Kept)
  <2>1. Size \in Nat /\ PickedAll(elements, r, v, Kept)
    BY <1>3, ElementsAre
  <2>2. PickedAll(elements \o TakenOf(b), r \o q, v, Kept)
    BY ONLY <2>1, <1>8, <1>10, r \in Seq(Places), PickedMore
  <2> QED BY <2>2
<1>13. Elements' = Elements /\ Kept' = Kept /\ Native' = Native
  BY <1>2, ElementsStay DEF Native
<1>14. PickedAll(elements', d, Elements', Kept')
  BY <1>11, <1>12, <1>13
<1>15. ReadPlaces' = d
  BY <1>1, <1>2 DEF ReadPlaces
<1> QED BY <1>8, <1>9, <1>13, <1>14, <1>15 DEF ElementInv

--------------------------------------------------------------------------------
(* A step that constructs nothing.                                          *)
LEMMA ConstructKept ==
  ASSUME ConstructInv, input' = input, built' = built,
         phase \in {"build", "refused"} => phase' \in {"build", "refused"}
  PROVE  ConstructInv'
BY DEF ConstructInv, Expression

(* Nothing is read before the walk has ended.                               *)
LEMMA NothingRead ==
  ASSUME StreamInv, phase \in {"build", "refused", "select", "walk", "chosen"}
  PROVE  emitted = <<>> /\ output = <<>> /\ evaluated = 0
<1>1. emitted = <<>> /\ output = <<>>
  BY DEF StreamInv, WalkInv, UnionInv, Walking
<1>2. Len(emitted) = 0
  BY <1>1, NothingFacts
<1> QED BY <1>1, <1>2 DEF StreamInv, PhaseInv

(* A node is constructed.                                                   *)
LEMMA StreamConstruct == ASSUME StreamInv, Construct PROVE StreamInv'
<1>1. /\ phase = "build" /\ input' = input /\ walking' = walking /\ merging' = merging
      /\ evaluated' = evaluated /\ elements' = elements
  BY DEF Construct
<1>2. emitted' = emitted /\ output' = output
  BY <1>1 DEF merging
<1> PICK n \in Constructible :
      /\ ~WouldDensify(Expression, n)
      /\ built' = built \union {n}
      /\ phase' = IF n = input.root THEN Beginning ELSE "build"
  BY DEF Construct
<1>3. emitted = <<>> /\ evaluated = 0
  BY <1>1, NothingRead
<1>4. WalkInv'
  BY WalkConstruct DEF StreamInv
<1>5. ConstructInv'
  <2>1. n \in DOMAIN input.operands /\ ToSet(input.operands[n]) \subseteq built
    BY DEF Constructible
  <2>2. phase' \in {"build", "select", "walk"} /\ (phase' # "build" => n = input.root)
    BY DEF Beginning
  <2> QED BY <1>1, <2>1, <2>2 DEF StreamInv, ConstructInv, Expression
<1>6. phase' \in {"build", "select", "walk"}
  BY DEF Beginning
<1>7. PhaseInv'
  BY <1>1, <1>2, <1>3, <1>6 DEF StreamInv, PhaseInv
<1>8. ElementInv'
  BY <1>1, <1>2, <1>3, ElementBefore DEF StreamInv, WalkInv, UnionInv
<1> QED BY <1>4, <1>5, <1>7, <1>8 DEF StreamInv

(* A step that discovers nothing, before anything is delivered.             *)
LEMMA StreamBefore ==
  ASSUME StreamInv, WalkInv', input' = input, emitted' = emitted, output' = output, UNCHANGED reading,
         phase \in {"build", "refused", "select", "walk", "chosen"},
         phase = "build" => phase' = "refused", phase # "refused",
         phase' \in {"refused", "select", "walk", "merge", "single", "chosen", "failed"},
         phase' \in {"merge", "single"} => ~input.prefer
  PROVE  StreamInv'
<1>1. emitted = <<>> /\ evaluated = 0
  BY NothingRead
<1>2. built' = built /\ evaluated' = evaluated /\ elements' = elements
  BY DEF reading
<1>3. ConstructInv'
  BY <1>2, ConstructKept DEF StreamInv
<1>4. Len(emitted) = 0
  BY <1>1, NothingFacts
<1>5. PhaseInv'
  BY <1>1, <1>2, <1>4 DEF StreamInv, PhaseInv
<1>6. ElementInv'
  BY <1>1, <1>2, ElementBefore DEF StreamInv, WalkInv, UnionInv
<1> QED BY <1>3, <1>5, <1>6 DEF StreamInv

(* Candidates are discovered, when those before were read.                  *)
LEMMA StreamDiscovers ==
  ASSUME StreamInv, WalkInv', input' = input, walking' = walking, UNCHANGED reading,
         evaluated = Len(emitted), phase \in {"merge", "single"},
         phase' \in {"merge", "single", "ended", "failed"},
         phase' = "ended" => output' = <<>>,
         phase' = "failed" => emitted' = emitted,
         emitted' = emitted \/ \E q \in Seq(Nat) : emitted' = Append(emitted, q)
  PROVE  StreamInv'
<1>1. built' = built /\ evaluated' = evaluated /\ elements' = elements
  BY DEF reading
<1>2. ConstructInv'
  BY <1>1, ConstructKept DEF StreamInv
<1>3. Known /\ emitted \in Seq(Seq(Nat)) /\ ~input.prefer
  BY DEF StreamInv, WalkInv, UnionInv, Known, PhaseInv
<1>4. Len(emitted') = Len(emitted) \/ Len(emitted') = Len(emitted) + 1
  <2> PICK s \in Seq(Seq(Nat)) : s = emitted
    BY <1>3
  <2>1. \A q \in Seq(Nat) : Len(Append(s, q)) = Len(s) + 1
    OBVIOUS
  <2> QED BY <2>1
<1>5. PhaseInv'
  <2>1. evaluated \in Nat
    BY DEF StreamInv, PhaseInv
  <2>2. evaluated' = Len(emitted') \/ evaluated' + 1 = Len(emitted')
    BY <1>1, <1>4
  <2>3. phase' = "failed" => evaluated' = Len(emitted')
    BY <1>1
  <2> QED BY <1>1, <1>3, <2>1, <2>2, <2>3 DEF PhaseInv
<1>6. Native' = Native
  BY DEF Native, walking
<1>7. ElementInv'
  BY <1>1, <1>3, <1>6, ElementKept DEF StreamInv
<1> QED BY <1>2, <1>5, <1>7 DEF StreamInv

(* A selection or a walk goes on, or ends.                                  *)
LEMMA StreamWalks ==
  ASSUME StreamInv, WalkInv', UNCHANGED reading,
         Follow \/ RefuseSource \/ Select \/ Branch \/ Visit \/ RefuseWalk \/ EndWalk
  PROVE  StreamInv'
<1>1. /\ input' = input /\ emitted' = emitted /\ output' = output /\ phase \in {"select", "walk"}
      /\ phase' \in {"select", "walk", "merge", "single", "chosen", "failed"}
  BY DEF Follow, RefuseSource, Select, Branch, Visit, RefuseWalk, EndWalk, merging
<1>2. phase' \in {"merge", "single"} => ~input.prefer
  <2>1. CASE Select
    <3>1. input.select /\ input \in Inputs
      BY <2>1 DEF Select, StreamInv, WalkInv, UnionInv, Walking, Known
    <3> QED BY <3>1, InputFacts
  <2>2. CASE EndWalk
    BY <2>2 DEF EndWalk
  <2>3. CASE Follow \/ RefuseSource \/ Branch \/ Visit \/ RefuseWalk
    BY <2>3 DEF Follow, RefuseSource, Branch, Visit, RefuseWalk
  <2> QED BY <2>1, <2>2, <2>3
<1> QED BY <1>1, <1>2, StreamBefore

(* A union goes on, or a single stream.                                     *)
LEMMA StreamUnites ==
  ASSUME StreamInv, WalkInv', UNCHANGED reading, evaluated = Len(emitted),
         \/ Forward \/ Deliver \/ Emit \/ End
         \/ \E k \in Streams : NextPosition(k) \/ NextRequest(k) \/ EndStream(k)
  PROVE  StreamInv'
<1>1. UnionInv /\ emitted' \in Seq(Seq(Nat)) /\ output \in Seq(Nat)
  BY DEF StreamInv, WalkInv, UnionInv, Known
<1>2. CASE Forward
  <2>1. /\ phase = "single" /\ phase' \in {"single", "ended", "failed"}
        /\ input' = input /\ walking' = walking /\ output' = output
        /\ phase' # "single" => emitted' = emitted
    BY <1>2 DEF Forward
  <2>2. output = <<>>
    BY <1>1, <2>1 DEF UnionInv, Uniting, Merging, Selecting
  <2>3. emitted' = emitted \/ \E q \in Seq(Nat) : emitted' = Append(emitted, q)
    <3> SUFFICES ASSUME emitted' # emitted PROVE \E q \in Seq(Nat) : emitted' = Append(emitted, q)
      OBVIOUS
    <3>1. emitted' = Append(emitted, Head(rest[1])) /\ rest[1] # <<>> /\ Head(rest[1]) # Error
      BY <1>2 DEF Forward
    <3>2. rest[1] \in Seq(Item)
      <4>1. CASE Merging
        <5>1. 1 \in DOMAIN found
          <6>1. Len(found) = 1 /\ Known
            BY <1>1, <2>1, <4>1 DEF Merging, UnionInv
          <6> QED BY <6>1 DEF Known
        <5> QED BY <4>1, <5>1 DEF Merging, InOrder
      <4>2. CASE Selecting
        BY <4>2 DEF Selecting
      <4> QED BY <1>1, <2>1, <4>1, <4>2 DEF UnionInv, Uniting
    <3>3. Head(rest[1]) \in Item
      BY <3>1, <3>2, SetOfSplit
    <3> QED BY <3>1, <3>3 DEF Item
  <2> QED BY <2>1, <2>2, <2>3, StreamDiscovers
<1>3. CASE Deliver \/ Emit \/ End
  <2>1. /\ phase = "merge" /\ phase' \in {"merge", "ended"} /\ input' = input /\ walking' = walking
    BY <1>3 DEF Deliver, Emit, End
  <2>2. phase' = "ended" => output' = <<>>
    BY <1>3 DEF Deliver, Emit, End, merging
  <2>3. emitted' = emitted \/ emitted' = Append(emitted, output)
    BY <1>3 DEF Deliver, Emit, End, merging
  <2> QED BY <1>1, <2>1, <2>2, <2>3, StreamDiscovers
<1>4. ASSUME NEW k \in Streams, NextPosition(k) \/ NextRequest(k) \/ EndStream(k)
      PROVE  StreamInv'
  <2>1. /\ phase = "merge" /\ phase' \in {"merge", "failed"} /\ input' = input /\ walking' = walking
        /\ emitted' = emitted
    BY <1>4 DEF NextPosition, NextRequest, EndStream, Wanting
  <2> QED BY <2>1, StreamDiscovers
<1> QED BY <1>2, <1>3, <1>4

(* Every step keeps the invariant.                                          *)
LEMMA StreamNext ==
  ASSUME StreamInv, [ExpressionNext]_<<vars, reading>>
  PROVE  StreamInv'
<1>1. WalkInv'
  BY WalkNext DEF StreamInv
<1>2. CASE Construct
  BY <1>2, StreamConstruct
<1>3. CASE RefuseConstruction
  <2>1. /\ phase = "build" /\ phase' = "refused" /\ input' = input /\ UNCHANGED reading
        /\ emitted' = emitted /\ output' = output
    BY <1>3 DEF RefuseConstruction, merging
  <2> QED BY <1>1, <2>1, StreamBefore
<1>4. CASE Discover
  BY <1>1, <1>4, StreamWalks, StreamUnites DEF Discover, Next
<1>5. CASE Evaluate
  <2>1. ElementInv'
    BY <1>5, ElementEvaluate
  <2>2. evaluated < Len(emitted) /\ evaluated' = evaluated + 1 /\ UNCHANGED vars /\ built' = built
    BY <1>5 DEF Evaluate
  <2>3. input' = input /\ phase' = phase /\ emitted' = emitted /\ output' = output
    BY <2>2 DEF vars, merging
  <2>4. ConstructInv'
    BY <2>2, <2>3, ConstructKept DEF StreamInv
  <2>5. PhaseInv'
    BY <2>2, <2>3 DEF StreamInv, PhaseInv
  <2> QED BY <1>1, <2>1, <2>4, <2>5 DEF StreamInv
<1>6. CASE FailEvaluation
  <2>1. /\ evaluated < Len(emitted) /\ phase' = "failed" /\ evaluated' = Len(emitted)
        /\ input' = input /\ walking' = walking /\ merging' = merging
        /\ built' = built /\ elements' = elements
    BY <1>6 DEF FailEvaluation
  <2>2. emitted' = emitted /\ found' = found
    BY <2>1 DEF merging, walking
  <2>3. emitted \in Seq(Seq(Nat))
    BY DEF StreamInv, WalkInv, UnionInv, Known
  <2>4. phase \notin {"build", "refused"}
    <3>1. phase \in {"build", "refused"} => Len(emitted) = 0 /\ evaluated = 0
      BY NothingRead, NothingFacts
    <3> QED BY <2>1, <3>1
  <2>5. ConstructInv'
    BY <2>1, <2>4, ConstructKept DEF StreamInv
  <2>6. PhaseInv'
    <3>1. Len(emitted) \in Nat
      BY <2>3
    <3> QED BY <2>1, <2>2, <3>1 DEF PhaseInv
  <2>7. ElementInv'
    <3> PICK r \in Seq(Places) :
          /\ PickedAll(elements, r, Elements, Kept)
          /\ IsInjective(r)
          /\ ~Native => Rises(r)
      BY DEF StreamInv, ElementInv
    <3>1. Elements' = Elements /\ Kept' = Kept /\ Native' = Native
      BY <2>1, <2>2, ElementsStay DEF Native
    <3>2. PickedAll(elements', r, Elements', Kept')
      BY <2>1, <3>1
    <3> QED BY <2>1, <3>1, <3>2 DEF ElementInv
  <2> QED BY <1>1, <2>5, <2>6, <2>7 DEF StreamInv
<1>7. CASE UNCHANGED <<vars, reading>>
  <2>1. /\ input' = input /\ phase' = phase /\ emitted' = emitted /\ output' = output
        /\ found' = found /\ built' = built /\ evaluated' = evaluated /\ elements' = elements
    BY <1>7 DEF vars, merging, walking, reading
  <2>2. ConstructInv'
    BY <2>1, ConstructKept DEF StreamInv
  <2>3. PhaseInv'
    BY <2>1 DEF StreamInv, PhaseInv
  <2>4. ElementInv'
    <3>1. Native' = Native
      BY <2>1 DEF Native
    <3> QED BY <2>1, <3>1, ElementKept DEF StreamInv, WalkInv, UnionInv
  <2> QED BY <1>1, <2>2, <2>3, <2>4 DEF StreamInv
<1> QED BY <1>2, <1>3, <1>4, <1>5, <1>6, <1>7 DEF ExpressionNext

(* The invariant holds in every state.                                      *)
LEMMA StreamAlways == ExpressionSpec => []StreamInv
<1>1. StreamInv /\ [ExpressionNext]_<<vars, reading>> => StreamInv'
  BY StreamNext
<1> QED BY StreamInit, <1>1, PTL DEF ExpressionSpec

(* A place at which the expression is not known to have its implicit zero   *)
(* is a candidate, as soon as the candidates are known.                     *)
LEMMA OpenCandidate ==
  ASSUME StreamInv, phase \in {"merge", "single", "chosen", "ended"}, ~input.prefer,
         NEW p \in Places, Open(Expression, input.root, p)
  PROVE  p \in Candidates
<1>1. /\ input \in Inputs /\ ConstructInv /\ input.root \in built
  BY DEF StreamInv, WalkInv, UnionInv, Known, ConstructInv
<1>2. found = Leaves[input.root]
  BY DEF StreamInv, WalkInv, Answer, LeavesInOrder
<1>3. NamedBy(input, Leaves[input.root], p)
  BY <1>1, OpenNamed
<1>4. PICK k \in DOMAIN found : p \in Named(input.streams[found[k]]) /\ p \in Named(input.native[found[k]])
  BY <1>2, <1>3 DEF NamedBy, ToSet
<1> QED BY <1>4 DEF Candidates, StreamOf

(* An element that is no zero is one of those.                              *)
LEMMA WantedOpen ==
  ASSUME StreamInv, phase \notin {"build", "refused"}, NEW p \in Places, Elements[p] \notin Zeros
  PROVE  Open(Expression, input.root, p)
<1>1. /\ input \in Inputs /\ ~WouldDensify(Expression, input.root)
  BY DEF StreamInv, WalkInv, UnionInv, Known, ConstructInv
<1>2. input.root \in DOMAIN Expression.operands
  BY <1>1, ExpressionFacts DEF Expression
<1>3. ZeroIsZero(Expression, input.root)
  BY <1>1, <1>2, NotRefused DEF Expression
<1> QED BY <1>3 DEF Open, ZeroIsZero, Elements

--------------------------------------------------------------------------------
(* The last place of a request that was read comes last of those read.      *)
LEMMA LastRead ==
  ASSUME NEW s \in Seq(Seq(Nat)), NEW n \in 1..Len(s), Len(s[n]) >= 1
  PROVE  /\ ReadOf(s, n) \in Seq(Nat) /\ Last(s[n]) \in Nat
         /\ Last(s[n]) \in ToSet(ReadOf(s, n))
<1> PICK m \in Nat : m = n - 1 /\ m < Len(s) /\ m + 1 = n
  OBVIOUS
<1>1. s[n] \in Seq(Nat) /\ ReadOf(s, m) \in Seq(Nat) /\ ReadOf(s, n) = ReadOf(s, m) \o s[n]
  BY ReadMore
<1> PICK q \in Seq(Nat), r \in Seq(Nat) : q = s[n] /\ r = ReadOf(s, m)
  BY <1>1
<1>2. r \o q \in Seq(Nat) /\ ToSet(r \o q) = ToSet(r) \union ToSet(q)
  BY ONLY r \in Seq(Nat), q \in Seq(Nat), SetOfConcat
<1>3. Last(q) \in ToSet(q) /\ Last(q) \in Nat
  <2>1. Len(q) \in DOMAIN q
    BY Len(q) >= 1
  <2> QED BY <2>1 DEF Last, ToSet
<1> QED BY <1>1, <1>2, <1>3

(* The requests read are the beginning of what is delivered.                *)
LEMMA ReadFirst ==
  ASSUME StreamInv, phase # "failed"
  PROVE  \E t \in Seq(Nat) :
           /\ Delivered = ReadPlaces \o t
           /\ ReadPlaces \in Seq(Nat)
           /\ evaluated = Len(emitted) => t = output
<1>1. emitted \in Seq(Seq(Nat)) /\ output \in Seq(Nat)
  BY DEF StreamInv, WalkInv, UnionInv, Known
<1>2. ReadOf(emitted, Len(emitted)) = FlattenSeq(emitted) /\ FlattenSeq(emitted) \in Seq(Nat)
  BY <1>1, ReadAll, FlattenAppend
<1>3. CASE evaluated = Len(emitted)
  BY <1>1, <1>2, <1>3 DEF Delivered, ReadPlaces
<1>4. CASE evaluated # Len(emitted)
  <2> PICK n \in Nat : n = evaluated /\ n + 1 = Len(emitted)
    BY <1>4 DEF StreamInv, PhaseInv
  <2>1. n < Len(emitted)
    OBVIOUS
  <2> PICK r, q \in Seq(Nat) : r = ReadOf(emitted, n) /\ q = emitted[n + 1] /\ FlattenSeq(emitted) = r \o q
    <3>1. ReadOf(emitted, n) \in Seq(Nat) /\ emitted[n + 1] \in Seq(Nat)
          /\ ReadOf(emitted, n + 1) = ReadOf(emitted, n) \o emitted[n + 1]
      BY <1>1, <2>1, ReadMore
    <3> QED BY <1>2, <3>1
  <2>2. q \o output \in Seq(Nat)
    BY <1>1
  <2>3. (r \o q) \o output = r \o (q \o output)
    <3> PICK o \in Seq(Nat) : o = output
      BY <1>1
    <3>1. (r \o q) \o o = r \o (q \o o)
      BY ONLY r \in Seq(Nat), q \in Seq(Nat), o \in Seq(Nat), SMTT(30)
    <3> QED BY <3>1
  <2>4. Delivered = r \o (q \o output)
    BY <2>3 DEF Delivered
  <2> QED BY <1>4, <2>2, <2>4 DEF ReadPlaces
<1> QED BY <1>3, <1>4

(* A place that is wanted is read when one at or after it was.              *)
LEMMA WantedRead ==
  ASSUME StreamInv, evaluated # 0, phase # "failed", ~Native,
         NEW p \in Places, Elements[p] \notin Zeros, p <= Last(emitted[evaluated])
  PROVE  p \in ToSet(ReadPlaces)
<1>1. /\ emitted \in Seq(Seq(Nat)) /\ output \in Seq(Nat) /\ UnionInv /\ input \in Inputs
  BY DEF StreamInv, WalkInv, UnionInv, Known
<1> PICK n \in 1..Len(emitted) : n = evaluated
  BY <1>1 DEF StreamInv, PhaseInv
<1>2. UnionIsExact
  BY <1>1, UnionExact
<1>3. Len(emitted[n]) >= 1
  <2>1. Len(emitted[n]) \in 1..MaxBatch /\ MaxBatch \in Nat
    BY <1>1, <1>2, InputFacts DEF UnionIsExact
  <2> QED BY <2>1
<1> PICK last \in Nat : last = Last(emitted[n]) /\ last \in ToSet(ReadPlaces)
  BY <1>1, <1>3, LastRead DEF ReadPlaces
<1>4. emitted # <<>>
  <2>1. Len(<<>>) = 0
    OBVIOUS
  <2> QED BY <2>1
<1>5. phase \in {"merge", "single", "ended"} /\ ~input.prefer
  BY <1>4 DEF StreamInv, PhaseInv, WalkInv, UnionInv, Walking
<1>6. p \in Candidates
  BY <1>5, WantedOpen, OpenCandidate
<1> PICK r, t \in Seq(Nat) : r = ReadPlaces /\ Delivered = r \o t
  BY ReadFirst
<1>7. Rises(Delivered)
  BY <1>1, <1>4 DEF UnionInv, Uniting, Merging, Selecting
<1>8. /\ Rises(r) /\ \A a \in ToSet(r), b \in ToSet(t) : a < b
      /\ r \o t \in Seq(Nat) /\ ToSet(r \o t) = ToSet(r) \union ToSet(t)
  <2>1. Rises(r) /\ \A a \in ToSet(r), b \in ToSet(t) : a < b
    BY <1>7, RisesParts
  <2>2. r \o t \in Seq(Nat) /\ ToSet(r \o t) = ToSet(r) \union ToSet(t)
    BY ONLY r \in Seq(Nat), t \in Seq(Nat), SetOfConcat
  <2> QED BY <2>1, <2>2
<1> PICK d \in Seq(Nat) : d = Delivered /\ d = r \o t
  BY <1>8
<1>9. d # <<>> /\ last <= Last(d) /\ Last(d) \in Nat
  <2> PICK m \in Nat : m = Len(d) /\ DOMAIN d = 1..m
    OBVIOUS
  <2>1. last \in ToSet(d)
    BY <1>8
  <2> PICK i \in 1..m : last = d[i]
    BY ONLY <2>1, DOMAIN d = 1..m DEF ToSet
  <2>2. m \in 1..m /\ Last(d) = d[m]
    BY DEF Last
  <2>3. d # <<>>
    BY <2>2
  <2>4. i = m \/ i < m
    OBVIOUS
  <2>5. \A a, b \in 1..m : a < b => d[a] < d[b]
    BY <1>7 DEF Rises
  <2>6. d[m] \in Nat
    BY ONLY d \in Seq(Nat), DOMAIN d = 1..m, <2>2, ElementOfSeq
  <2>7. i < m => d[i] < d[m]
    BY <2>2, <2>5
  <2>8. last <= d[m]
    BY ONLY last = d[i], last \in Nat, <2>4, <2>6, <2>7
  <2> QED BY <2>2, <2>3, <2>6, <2>8
<1>10. p \in Nat /\ Last(d) \in Nat
  BY <1>1, <1>9, ElementsAre, PlacesNat
<1>11. p <= Last(d)
  BY <1>9, <1>10
<1>12. p \in ToSet(d)
  BY <1>2, <1>6, <1>9, <1>11 DEF UnionIsExact
<1>13. p \notin ToSet(t)
  <2> SUFFICES ASSUME p \in ToSet(t) PROVE FALSE
    OBVIOUS
  <2>1. last < p
    BY <1>8
  <2> QED BY <1>10, <2>1
<1> QED BY <1>8, <1>12, <1>13

(* The invariant says that the stream is exact.                             *)
LEMMA StreamExact ==
  ASSUME StreamInv
  PROVE  SparseStreamIsExact
<1>1. input \in Inputs /\ UnionInv /\ UnionIsExact
  BY UnionExact DEF StreamInv, WalkInv, UnionInv, Known
<1> PICK v \in AllElements : v = Elements
  BY <1>1, ElementsAre
<1> PICK r \in Seq(Places) :
      /\ PickedAll(elements, r, v, Kept)
      /\ IsInjective(r)
      /\ ~Native => Rises(r)
      /\ phase # "failed" => r = ReadPlaces
  BY DEF StreamInv, ElementInv
<1> PICK f : f = Firsts(elements)
  OBVIOUS
<1>2. /\ elements \in Seq(Places \X Values)
      /\ \A k \in DOMAIN elements : elements[k][2] = v[elements[k][1]]
      /\ ToSet(f) = ToSet(r) \intersect Kept
      /\ IsInjective(f)
      /\ ~Native => Rises(f)
  BY SetByNumber DEF PickedAll, Picked
<1>3. f \in Seq(Places) /\ DOMAIN f = 1..Len(f)
  <2>1. f \in Seq(Places)
    BY ONLY <1>2, f = Firsts(elements), FirstsSeq
  <2> QED BY <2>1
<1> DEFINE wanted == {p \in Places : v[p] \notin Zeros}
           done == IF evaluated = 0 \/ phase = "failed" \/ Native THEN -1 ELSE Last(emitted[evaluated])
           discovered == phase \notin {"build", "refused", "select", "walk", "failed"} /\ ~input.prefer
<1>4. wanted \subseteq Kept
  BY DEF Kept
<1>5. ~Native => \A k \in 1..(Len(f) - 1) : f[k] < f[k + 1]
  <2> SUFFICES ASSUME ~Native, NEW k \in 1..(Len(f) - 1) PROVE f[k] < f[k + 1]
    OBVIOUS
  <2> PICK m \in Nat : m = Len(f)
    <3>1. Len(f) \in Nat
      BY ONLY <1>3, LengthFacts
    <3> QED BY <3>1
  <2>1. k \in DOMAIN f /\ k + 1 \in DOMAIN f /\ k < k + 1
    BY <1>3
  <2> QED BY <1>2, <2>1 DEF Rises
<1>6. {p \in wanted : p <= done} \subseteq ToSet(f)
  <2> SUFFICES ASSUME NEW p \in Places, v[p] \notin Zeros, p <= done PROVE p \in ToSet(f)
    OBVIOUS
  <2>1. p \in Nat
    BY <1>1, ElementsAre, PlacesNat
  <2>2. evaluated # 0 /\ phase # "failed" /\ ~Native /\ done = Last(emitted[evaluated])
    BY <2>1
  <2>3. p \in ToSet(ReadPlaces)
    BY <2>2, WantedRead
  <2> QED BY <1>2, <1>4, <2>2, <2>3
<1>7. ~input.select => ToSet(f) \subseteq wanted
  BY <1>2 DEF Kept
<1>8. ASSUME phase = "ended", evaluated = Len(emitted) PROVE wanted \subseteq ToSet(f)
  <2> SUFFICES ASSUME NEW p \in Places, v[p] \notin Zeros PROVE p \in ToSet(f)
    OBVIOUS
  <2>1. ~input.prefer /\ output = <<>>
    BY <1>8 DEF StreamInv, PhaseInv
  <2>2. p \in Candidates
    BY <1>8, <2>1, WantedOpen, OpenCandidate
  <2>3. Delivered = ReadPlaces \o <<>> /\ ReadPlaces \in Seq(Nat)
    BY <1>8, <2>1, ReadFirst
  <2>4. Delivered = ReadPlaces
    BY <2>3
  <2>5. p \in ToSet(ReadPlaces)
    BY <1>1, <1>8, <2>2, <2>4 DEF UnionIsExact
  <2> QED BY <1>2, <1>4, <1>8, <2>5
<1>9. ASSUME discovered PROVE \A p \in Places \ Candidates : v[p] = ImplicitZeros(Expression)[input.root]
  <2> SUFFICES ASSUME NEW p \in Places, v[p] # ImplicitZeros(Expression)[input.root] PROVE p \in Candidates
    OBVIOUS
  <2>1. Open(Expression, input.root, p)
    BY DEF Open, Elements
  <2>2. phase \in {"merge", "single", "chosen", "ended"} /\ ~input.prefer
    BY <1>9 DEF StreamInv, PhaseInv
  <2> QED BY <2>1, <2>2, OpenCandidate
<1>10. f = [k \in DOMAIN elements |-> elements[k][1]]
  BY DEF Firsts
<1> QED BY <1>2, <1>5, <1>6, <1>7, <1>8, <1>9, <1>10 DEF SparseStreamIsExact, Elements

(* The sparse stream of an expression is exact, for every acyclic           *)
(* expression, all values and every kernel: it delivers each element that   *)
(* is no zero once, in order unless one leaf is selected from, and none is  *)
(* missing below one that was delivered, or at all if the stream ends well, *)
(* because no operand's requests name it; what no candidate names is the    *)
(* implicit zero, of its sign (new, implicit_zero, ordered_step,            *)
(* selection_step, sparse_elements).                                        *)
THEOREM Exact == ExpressionSpec => []SparseStreamIsExact
<1>1. StreamInv => SparseStreamIsExact
  BY StreamExact
<1> QED BY <1>1, StreamAlways, PTL
================================================================================
