----------------------------- MODULE GeometryProofs ----------------------------
(****************************************************************************)
(* The storage geometry for every shape and block shape: strides number the *)
(* coordinates of a shape in row-major order without gaps, block and offset *)
(* determine a coordinate, every block has one, contiguous blocks are met   *)
(* in order, and the block shapes that are chosen are contiguous.           *)
(*                                                                          *)
(* And over it two components.  The safety of TensorConstruction for every  *)
(* kind of input, geometry and batch size: what can be opened is whole, and *)
(* rows are appended.  And the views of CoordinateMap, for every tensor and *)
(* every stack of transforms: the map sends each coordinate where the       *)
(* transforms send it, and no two of what is written through to one place.  *)
(****************************************************************************)
EXTENDS TensorConstruction, CoordinateMap, FiniteSetTheorems, WellFoundedInduction, TLAPS

(* The numbers of sizes.                                                    *)
Positive == Nat \ {0}

--------------------------------------------------------------------------------
(* Numbers: the least of a set, and induction over a range.                 *)

(* Of two numbers, the one that is not greater is at most the other.        *)
LEMMA Ordered == \A a, b \in Nat : ~(b < a) => a <= b
OBVIOUS

(* A non-empty set of numbers has a least one.                              *)
LEMMA LeastNumber ==
  ASSUME NEW S \in SUBSET Nat, S # {}
  PROVE  \E x \in S : \A y \in S : x <= y
<1> DEFINE R == OpToRel(<, Nat)
<1>1. IsWellFoundedOn(R, Nat)
  BY NatLessThanWellFounded
<1>2. \E x \in S : \A y \in S : ~(<<y, x>> \in R)
  <2> HIDE DEF R
  <2> QED BY <1>1, WFMin
<1>3. \A x, y \in S : ~(<<y, x>> \in R) => x <= y
  <2> SUFFICES ASSUME NEW x \in S, NEW y \in S, ~(<<y, x>> \in R) PROVE x <= y
    OBVIOUS
  <2>1. x \in Nat /\ y \in Nat /\ <<y, x>> \in Nat \X Nat
    OBVIOUS
  <2>2. ~(y < x)
    BY <2>1 DEF OpToRel
  <2> QED BY <2>1, <2>2, Ordered
<1> QED BY <1>2, <1>3

(* A set that has 0, and with k also k + 1 up to n, has them all.           *)
LEMMA UpToAll ==
  ASSUME NEW n \in Nat, NEW S, 0 \in S,
         \A k \in 0..n : k < n /\ k \in S => k + 1 \in S
  PROVE  \A k \in 0..n : k \in S
<1> DEFINE Out == {k \in 0..n : k \notin S}
<1> SUFFICES ASSUME Out # {} PROVE FALSE
  OBVIOUS
<1>1. Out \in SUBSET Nat
  OBVIOUS
<1>2. PICK k \in Out : \A j \in Out : k <= j
  BY <1>1, LeastNumber
<1>3. k \in 0..n /\ k \notin S /\ k # 0
  BY <1>2
<1>4. k - 1 \in 0..n /\ ~(k <= k - 1) /\ k - 1 < n /\ (k - 1) + 1 = k
  BY <1>3
<1>5. k - 1 \in S
  BY <1>2, <1>4
<1> QED BY <1>3, <1>4, <1>5

(* The same from n down.                                                    *)
LEMMA DownToAll ==
  ASSUME NEW n \in Nat, NEW S, n \in S,
         \A k \in 1..n : k \in S => k - 1 \in S
  PROVE  \A k \in 0..n : k \in S
<1> DEFINE T == {k \in 0..n : n - k \in S}
<1>1. 0 \in T
  OBVIOUS
<1>2. \A k \in 0..n : k < n /\ k \in T => k + 1 \in T
  <2> SUFFICES ASSUME NEW k \in 0..n, k < n, k \in T PROVE k + 1 \in T
    OBVIOUS
  <2>1. n - k \in 1..n /\ n - k \in S /\ (n - k) - 1 = n - (k + 1) /\ k + 1 \in 0..n
    OBVIOUS
  <2>2. (n - k) - 1 \in S
    BY <2>1
  <2> QED BY <2>1, <2>2
<1>3. \A k \in 0..n : k \in T
  <2> HIDE DEF T
  <2> QED BY <1>1, <1>2, UpToAll
<1> SUFFICES ASSUME NEW k \in 0..n PROVE k \in S
  OBVIOUS
<1>4. n - k \in 0..n /\ n - (n - k) = k
  OBVIOUS
<1> QED BY <1>3, <1>4

(* A value is defined for every number up to n by the first and a step.     *)
Steps(f, n, first, G) ==
  /\ f[0] = first
  /\ \A k \in 1..n : f[k] = G[<<f[k - 1], k>>]

(* Such values exist for every first one and every step of one type.        *)
LEMMA Recursion ==
  ASSUME NEW n \in Nat, NEW A, NEW first \in A, NEW G \in [A \X (1..n) -> A]
  PROVE  \E f \in [0..n -> A] : Steps(f, n, first, G)
<1> DEFINE S == {m \in 0..n : \E f \in [0..m -> A] : Steps(f, m, first, G)}
<1>1. 0 \in S
  <2> DEFINE f == [k \in 0..0 |-> first]
  <2>1. f \in [0..0 -> A] /\ f[0] = first
    OBVIOUS
  <2>2. Steps(f, 0, first, G)
    BY <2>1 DEF Steps
  <2> QED BY <2>1, <2>2
<1>2. \A m \in 0..n : m < n /\ m \in S => m + 1 \in S
  <2> SUFFICES ASSUME NEW m \in 0..n, m < n, m \in S PROVE m + 1 \in S
    OBVIOUS
  <2>1. PICK f \in [0..m -> A] : Steps(f, m, first, G)
    OBVIOUS
  <2> DEFINE h == [k \in 0..(m + 1) |-> IF k <= m THEN f[k] ELSE G[<<f[m], m + 1>>]]
  <2>2. m + 1 \in 1..n /\ f[m] \in A
    OBVIOUS
  <2>3. G[<<f[m], m + 1>>] \in A
    BY <2>2
  <2>4. h \in [0..(m + 1) -> A]
    BY <2>3
  <2>5. /\ \A k \in 0..m : h[k] = f[k]
        /\ h[m + 1] = G[<<f[m], m + 1>>]
    OBVIOUS
  <2> HIDE DEF h
  <2>6. h[0] = first
    BY <2>1, <2>5 DEF Steps
  <2>7. \A k \in 1..(m + 1) : h[k] = G[<<h[k - 1], k>>]
    <3> SUFFICES ASSUME NEW k \in 1..(m + 1) PROVE h[k] = G[<<h[k - 1], k>>]
      OBVIOUS
    <3>1. k - 1 \in 0..m /\ h[k - 1] = f[k - 1]
      BY <2>5
    <3>2. CASE k <= m
      BY <2>1, <2>5, <3>1, <3>2 DEF Steps
    <3>3. CASE k = m + 1
      <4>1. k - 1 = m
        BY <3>3
      <4> QED BY <2>5, <3>1, <3>3, <4>1
    <3> QED BY <3>2, <3>3
  <2>8. Steps(h, m + 1, first, G)
    BY <2>6, <2>7 DEF Steps
  <2> QED BY <2>2, <2>4, <2>8
<1>3. n \in S
  <2>1. n \in 0..n
    OBVIOUS
  <2> HIDE DEF S
  <2> QED BY <1>1, <1>2, <2>1, UpToAll
<1> QED BY <1>3

--------------------------------------------------------------------------------
(* Products and sums of the first elements of a sequence.                   *)
IsProducts(g, s, n) == g = [i \in 0..n |-> IF i = 0 THEN 1 ELSE g[i - 1] * s[i]]
IsTotals(g, s, n) == g = [i \in 0..n |-> IF i = 0 THEN 0 ELSE g[i - 1] + s[i]]
Products(s) == CHOOSE g : IsProducts(g, s, Len(s))
Totals(s) == CHOOSE g : IsTotals(g, s, Len(s))

(* Product is the last of the products of the first elements, each of which *)
(* is the one before it times an element.                                   *)
LEMMA ProductsOf ==
  ASSUME NEW s \in Seq(Nat)
  PROVE  /\ Product(s) = Products(s)[Len(s)]
         /\ Products(s) \in [0..Len(s) -> Nat]
         /\ Products(s)[0] = 1
         /\ \A k \in 1..Len(s) : Products(s)[k] = Products(s)[k - 1] * s[k]
<1> PICK n \in Nat : n = Len(s)
  OBVIOUS
<1> DEFINE G == [z \in Nat \X (1..n) |-> z[1] * s[z[2]]]
<1>1. \A k \in 1..n : s[k] \in Nat
  OBVIOUS
<1>2. G \in [Nat \X (1..n) -> Nat]
  BY <1>1
<1>3. \A x \in Nat, k \in 1..n : G[<<x, k>>] = x * s[k]
  OBVIOUS
<1> HIDE DEF G
<1>4. PICK f \in [0..n -> Nat] : Steps(f, n, 1, G)
  <2>1. 1 \in Nat
    OBVIOUS
  <2> QED BY <1>2, <2>1, Recursion
<1>5. f[0] = 1 /\ \A k \in 1..n : f[k] = f[k - 1] * s[k]
  <2> SUFFICES ASSUME NEW k \in 1..n PROVE f[k] = f[k - 1] * s[k]
    BY <1>4 DEF Steps
  <2>1. f[k] = G[<<f[k - 1], k>>]
    BY <1>4 DEF Steps
  <2>2. f[k - 1] \in Nat
    OBVIOUS
  <2> QED BY <1>3, <2>1, <2>2
<1>6. IsProducts(f, s, n)
  <2> DEFINE h == [i \in 0..n |-> IF i = 0 THEN 1 ELSE f[i - 1] * s[i]]
  <2>1. DOMAIN f = 0..n /\ DOMAIN h = 0..n /\ f = [i \in 0..n |-> f[i]]
    OBVIOUS
  <2>2. \A i \in 0..n : f[i] = h[i]
    BY <1>5
  <2> HIDE DEF h
  <2>3. f = h
    <3>1. h = [i \in 0..n |-> h[i]]
      BY DEF h
    <3> QED BY <2>1, <2>2, <3>1
  <2> QED BY <2>3 DEF h, IsProducts
<1>7. IsProducts(Products(s), s, n)
  BY <1>6 DEF Products
<1> PICK g : g = Products(s)
  OBVIOUS
<1>8. g[0] = 1 /\ \A k \in 1..n : g[k] = g[k - 1] * s[k]
  <2>1. g = [i \in 0..n |-> IF i = 0 THEN 1 ELSE g[i - 1] * s[i]]
    BY <1>7 DEF IsProducts
  <2>2. \A i \in 0..n : g[i] = IF i = 0 THEN 1 ELSE g[i - 1] * s[i]
    BY <2>1
  <2> QED BY <2>2
<1>9. \A k \in 0..n : g[k] \in Nat
  <2> DEFINE S == {k \in 0..n : g[k] \in Nat}
  <2>1. 0 \in S
    BY <1>8
  <2>2. \A k \in 0..n : k < n /\ k \in S => k + 1 \in S
    <3> SUFFICES ASSUME NEW k \in 0..n, k < n, g[k] \in Nat PROVE k + 1 \in S
      OBVIOUS
    <3>1. k + 1 \in 1..n /\ (k + 1) - 1 = k
      OBVIOUS
    <3>2. g[k + 1] = g[k] * s[k + 1] /\ s[k + 1] \in Nat
      BY <1>1, <1>8, <3>1
    <3> QED BY <3>1, <3>2
  <2>3. \A k \in 0..n : k \in S
    <3> HIDE DEF S
    <3> QED BY <2>1, <2>2, UpToAll
  <2> QED BY <2>3
<1>10. g \in [0..n -> Nat]
  <2>1. g = [i \in 0..n |-> IF i = 0 THEN 1 ELSE g[i - 1] * s[i]]
    BY <1>7 DEF IsProducts
  <2>2. g = [i \in 0..n |-> g[i]]
    BY <2>1
  <2> QED BY <1>9, <2>2
<1>11. Product(s) = g[n]
  BY DEF Product, Products, IsProducts
<1> QED BY <1>8, <1>10, <1>11

(* Total is the last of the sums of the first elements, each of which is    *)
(* the one before it plus an element.                                       *)
LEMMA SumsOf ==
  ASSUME NEW s \in Seq(Int)
  PROVE  /\ Total(s) = Totals(s)[Len(s)]
         /\ Totals(s) \in [0..Len(s) -> Int]
         /\ Totals(s)[0] = 0
         /\ \A k \in 1..Len(s) : Totals(s)[k] = Totals(s)[k - 1] + s[k]
<1> PICK n \in Nat : n = Len(s)
  OBVIOUS
<1> DEFINE G == [z \in Int \X (1..n) |-> z[1] + s[z[2]]]
<1>1. \A k \in 1..n : s[k] \in Int
  OBVIOUS
<1>2. G \in [Int \X (1..n) -> Int]
  BY <1>1
<1>3. \A x \in Int, k \in 1..n : G[<<x, k>>] = x + s[k]
  OBVIOUS
<1> HIDE DEF G
<1>4. PICK f \in [0..n -> Int] : Steps(f, n, 0, G)
  <2>1. 0 \in Int
    OBVIOUS
  <2> QED BY <1>2, <2>1, Recursion
<1>5. f[0] = 0 /\ \A k \in 1..n : f[k] = f[k - 1] + s[k]
  <2> SUFFICES ASSUME NEW k \in 1..n PROVE f[k] = f[k - 1] + s[k]
    BY <1>4 DEF Steps
  <2>1. f[k] = G[<<f[k - 1], k>>]
    BY <1>4 DEF Steps
  <2>2. f[k - 1] \in Int
    OBVIOUS
  <2> QED BY <1>3, <2>1, <2>2
<1>6. IsTotals(f, s, n)
  <2> DEFINE h == [i \in 0..n |-> IF i = 0 THEN 0 ELSE f[i - 1] + s[i]]
  <2>1. DOMAIN f = 0..n /\ DOMAIN h = 0..n /\ f = [i \in 0..n |-> f[i]]
    OBVIOUS
  <2>2. \A i \in 0..n : f[i] = h[i]
    BY <1>5
  <2> HIDE DEF h
  <2>3. f = h
    <3>1. h = [i \in 0..n |-> h[i]]
      BY DEF h
    <3> QED BY <2>1, <2>2, <3>1
  <2> QED BY <2>3 DEF h, IsTotals
<1>7. IsTotals(Totals(s), s, n)
  BY <1>6 DEF Totals
<1> PICK g : g = Totals(s)
  OBVIOUS
<1>8. g[0] = 0 /\ \A k \in 1..n : g[k] = g[k - 1] + s[k]
  <2>1. g = [i \in 0..n |-> IF i = 0 THEN 0 ELSE g[i - 1] + s[i]]
    BY <1>7 DEF IsTotals
  <2>2. \A i \in 0..n : g[i] = IF i = 0 THEN 0 ELSE g[i - 1] + s[i]
    BY <2>1
  <2> QED BY <2>2
<1>9. \A k \in 0..n : g[k] \in Int
  <2> DEFINE S == {k \in 0..n : g[k] \in Int}
  <2>1. 0 \in S
    BY <1>8
  <2>2. \A k \in 0..n : k < n /\ k \in S => k + 1 \in S
    <3> SUFFICES ASSUME NEW k \in 0..n, k < n, g[k] \in Int PROVE k + 1 \in S
      OBVIOUS
    <3>1. k + 1 \in 1..n /\ (k + 1) - 1 = k
      OBVIOUS
    <3>2. g[k + 1] = g[k] + s[k + 1] /\ s[k + 1] \in Int
      BY <1>1, <1>8, <3>1
    <3> QED BY <3>1, <3>2
  <2>3. \A k \in 0..n : k \in S
    <3> HIDE DEF S
    <3> QED BY <2>1, <2>2, UpToAll
  <2> QED BY <2>3
<1>10. g \in [0..n -> Int]
  <2>1. g = [i \in 0..n |-> IF i = 0 THEN 0 ELSE g[i - 1] + s[i]]
    BY <1>7 DEF IsTotals
  <2>2. g = [i \in 0..n |-> g[i]]
    BY <2>1
  <2> QED BY <1>9, <2>2
<1>11. Total(s) = g[n]
  BY DEF Total, Totals, IsTotals
<1> QED BY <1>8, <1>10, <1>11

(* Sums of numbers that are not negative are not.                           *)
LEMMA TotalsOf ==
  ASSUME NEW s \in Seq(Nat)
  PROVE  /\ Total(s) = Totals(s)[Len(s)]
         /\ Totals(s) \in [0..Len(s) -> Nat]
         /\ Totals(s)[0] = 0
         /\ \A k \in 1..Len(s) : Totals(s)[k] = Totals(s)[k - 1] + s[k]
<1> PICK n \in Nat : n = Len(s)
  OBVIOUS
<1> PICK g : g = Totals(s)
  OBVIOUS
<1>1. /\ Total(s) = g[n] /\ g \in [0..n -> Int] /\ g[0] = 0
      /\ \A k \in 1..n : g[k] = g[k - 1] + s[k]
  <2>1. s \in Seq(Int)
    OBVIOUS
  <2> QED BY <2>1, SumsOf
<1>2. \A k \in 1..n : s[k] \in Nat
  OBVIOUS
<1>3. \A k \in 0..n : g[k] \in Nat
  <2> DEFINE S == {k \in 0..n : g[k] \in Nat}
  <2>1. 0 \in S
    BY <1>1
  <2>2. \A k \in 0..n : k < n /\ k \in S => k + 1 \in S
    <3> SUFFICES ASSUME NEW k \in 0..n, k < n, g[k] \in Nat PROVE k + 1 \in S
      OBVIOUS
    <3>1. k + 1 \in 1..n /\ (k + 1) - 1 = k
      OBVIOUS
    <3>2. g[k + 1] = g[k] + s[k + 1] /\ s[k + 1] \in Nat
      BY <1>1, <1>2, <3>1
    <3> QED BY <3>1, <3>2
  <2>3. \A k \in 0..n : k \in S
    <3> HIDE DEF S
    <3> QED BY <2>1, <2>2, UpToAll
  <2> QED BY <2>3
<1>4. g \in [0..n -> Nat]
  BY <1>1, <1>3
<1> QED BY <1>1, <1>4

(* Sizes have a product of at least one.                                    *)
LEMMA PositiveProduct == \A a, b \in Positive : a * b \in Positive
<1> SUFFICES ASSUME NEW a \in Positive, NEW b \in Positive PROVE a * b \in Positive
  OBVIOUS
<1>1. a * b \in Nat
  BY DEF Positive
<1>2. a * b # 0
  BY DEF Positive
<1> QED BY <1>1, <1>2 DEF Positive

(* So have the first axes of a shape.                                       *)
LEMMA ProductsPositive ==
  ASSUME NEW s \in Seq(Positive), NEW m \in 0..Len(s)
  PROVE  Products(s)[m] \in Positive
<1>0. s \in Seq(Nat)
  BY DEF Positive
<1> DEFINE S == {k \in 0..Len(s) : Products(s)[k] \in Positive}
<1>1. 0 \in S
  BY <1>0, ProductsOf DEF Positive
<1>2. \A k \in 0..Len(s) : k < Len(s) /\ k \in S => k + 1 \in S
  <2> SUFFICES ASSUME NEW k \in 0..Len(s), k < Len(s), Products(s)[k] \in Positive
               PROVE  k + 1 \in S
    OBVIOUS
  <2>1. k + 1 \in 1..Len(s) /\ (k + 1) - 1 = k
    OBVIOUS
  <2>2. Products(s)[k + 1] = Products(s)[k] * s[k + 1]
    BY <1>0, <2>1, ProductsOf
  <2>3. s[k + 1] \in Positive
    BY <2>1
  <2> QED BY <2>1, <2>2, <2>3, PositiveProduct
<1>3. \A k \in 0..Len(s) : k \in S
  <2> HIDE DEF S
  <2>1. Len(s) \in Nat
    OBVIOUS
  <2> QED BY <1>1, <1>2, <2>1, UpToAll
<1> QED BY <1>3

--------------------------------------------------------------------------------
(* The product of all elements of a sequence after the first j.             *)
After(s, j) == Product(SubSeq(s, j + 1, Len(s)))

(* What is left of a sequence after its first j elements.                   *)
LEMMA RestOf ==
  ASSUME NEW S, NEW s \in Seq(S), NEW j \in 0..Len(s)
  PROVE  /\ SubSeq(s, j + 1, Len(s)) \in Seq(S)
         /\ Len(SubSeq(s, j + 1, Len(s))) = Len(s) - j
         /\ \A k \in 1..(Len(s) - j) : SubSeq(s, j + 1, Len(s))[k] = s[j + k]
<1> PICK n \in Nat : n = Len(s)
  OBVIOUS
<1>1. /\ SubSeq(s, j + 1, n) = [k \in 1..(n - j) |-> s[j + k]]
  <2>1. (n - (j + 1)) + 1 = n - j /\ \A k \in 1..(n - j) : (j + 1) + k - 1 = j + k
    OBVIOUS
  <2> QED BY <2>1
<1>2. \A k \in 1..(n - j) : s[j + k] \in S
  OBVIOUS
<1>3. n - j \in Nat
  OBVIOUS
<1> DEFINE t == [k \in 1..(n - j) |-> s[j + k]]
<1>4. t \in Seq(S) /\ Len(t) = n - j
  BY <1>2, <1>3
<1>5. \A k \in 1..(n - j) : t[k] = s[j + k]
  OBVIOUS
<1> HIDE DEF t
<1>6. SubSeq(s, j + 1, n) = t
  BY <1>1 DEF t
<1> QED BY <1>4, <1>5, <1>6

(* Multiplication in another order.                                         *)
LEMMA Associates == \A a, b, c \in Nat : (a * b) * c = a * (b * c)
OBVIOUS

(* Multiples of a sum are the sums of the multiples.                        *)
LEMMA Distributes == \A a, b, c \in Nat : (a + b) * c = a * c + b * c
OBVIOUS

(* What lies below an axis numbers as many as that axis times what lies     *)
(* below it.                                                                *)
LEMMA AfterStep ==
  ASSUME NEW s \in Seq(Nat), NEW j \in 1..Len(s)
  PROVE  After(s, j - 1) = s[j] * After(s, j)
<1> PICK n \in Nat : n = Len(s)
  OBVIOUS
<1> PICK t : t = SubSeq(s, j, n)
  OBVIOUS
<1> PICK u : u = SubSeq(s, j + 1, n)
  OBVIOUS
<1>1. j - 1 \in 0..n /\ (j - 1) + 1 = j /\ n - (j - 1) = (n - j) + 1 /\ j \in 0..n
      /\ n - j \in Nat /\ s[j] \in Nat
  OBVIOUS
<1>2. /\ t \in Seq(Nat) /\ Len(t) = (n - j) + 1
      /\ \A k \in 1..((n - j) + 1) : t[k] = s[(j - 1) + k]
  <2> PICK i \in Nat : i = j - 1
    OBVIOUS
  <2>1. i \in 0..n /\ i + 1 = j /\ n - i = (n - j) + 1
    BY <1>1
  <2>2. /\ SubSeq(s, i + 1, n) \in Seq(Nat)
        /\ Len(SubSeq(s, i + 1, n)) = n - i
        /\ \A k \in 1..(n - i) : SubSeq(s, i + 1, n)[k] = s[i + k]
    BY <2>1, RestOf
  <2>3. t = SubSeq(s, i + 1, n)
    BY <2>1
  <2> QED BY <2>1, <2>2, <2>3
<1>3. /\ u \in Seq(Nat) /\ Len(u) = n - j
      /\ \A k \in 1..(n - j) : u[k] = s[j + k]
  BY <1>1, RestOf
<1>4. t[1] = s[j] /\ \A k \in 1..(n - j) : t[k + 1] = u[k]
  <2>1. t[1] = s[j]
    <3>1. 1 \in 1..((n - j) + 1) /\ (j - 1) + 1 = j
      BY <1>1
    <3> QED BY <1>2, <3>1
  <2>2. ASSUME NEW k \in 1..(n - j) PROVE t[k + 1] = u[k]
    <3>1. k + 1 \in 1..((n - j) + 1) /\ (j - 1) + (k + 1) = j + k
      BY <1>1
    <3>2. t[k + 1] = s[(j - 1) + (k + 1)]
      BY ONLY <1>2, <3>1
    <3>3. u[k] = s[j + k]
      BY ONLY <1>3, k \in 1..(n - j)
    <3> QED BY ONLY <3>1, <3>2, <3>3
  <2> QED BY <2>1, <2>2
<1> DEFINE P == Products(t)
           Q == Products(u)
<1>5. /\ P[0] = 1 /\ \A k \in 1..((n - j) + 1) : P[k] = P[k - 1] * t[k]
      /\ P[(n - j) + 1] = Product(t)
  BY <1>2, ProductsOf
<1>6. /\ Q[0] = 1 /\ \A k \in 1..(n - j) : Q[k] = Q[k - 1] * u[k]
      /\ Q[n - j] = Product(u) /\ \A k \in 0..(n - j) : Q[k] \in Nat
  BY <1>3, ProductsOf
<1> HIDE DEF P, Q
<1> DEFINE S == {k \in 0..(n - j) : P[k + 1] = s[j] * Q[k]}
<1>7. 0 \in S
  <2>1. P[1] = P[0] * t[1]
    <3>1. 1 \in 1..((n - j) + 1) /\ 1 - 1 = 0
      BY <1>1
    <3> QED BY <1>5, <3>1
  <2>2. P[1] = s[j] * Q[0]
    BY <1>1, <1>4, <1>5, <1>6, <2>1
  <2> QED BY <1>1, <2>2
<1>8. \A k \in 0..(n - j) : k < n - j /\ k \in S => k + 1 \in S
  <2> SUFFICES ASSUME NEW k \in 0..(n - j), k < n - j, P[k + 1] = s[j] * Q[k]
               PROVE  k + 1 \in S
    OBVIOUS
  <2>1. /\ k + 1 \in 1..(n - j) /\ (k + 1) - 1 = k
        /\ (k + 1) + 1 \in 1..((n - j) + 1) /\ ((k + 1) + 1) - 1 = k + 1
        /\ k + 1 \in 0..(n - j)
    BY <1>1
  <2>2. P[(k + 1) + 1] = P[k + 1] * t[(k + 1) + 1]
    BY <1>5, <2>1
  <2>3. Q[k + 1] = Q[k] * u[k + 1]
    BY <1>6, <2>1
  <2>4. t[(k + 1) + 1] = u[k + 1]
    BY <1>4, <2>1
  <2>5. u[k + 1] \in Nat /\ Q[k] \in Nat
    BY <1>3, <1>6, <2>1
  <2>6. (s[j] * Q[k]) * u[k + 1] = s[j] * (Q[k] * u[k + 1])
    <3>1. s[j] \in Nat
      BY <1>1
    <3> QED BY ONLY <2>5, <3>1, Associates, Zenon
  <2>7. P[(k + 1) + 1] = s[j] * Q[k + 1]
    BY <2>2, <2>3, <2>4, <2>6
  <2> QED BY <2>1, <2>7
<1>9. P[(n - j) + 1] = s[j] * Q[n - j]
  <2>1. \A k \in 0..(n - j) : k \in S
    <3> HIDE DEF S
    <3> QED BY <1>1, <1>7, <1>8, UpToAll
  <2>2. n - j \in 0..(n - j)
    BY <1>1
  <2> QED BY <2>1, <2>2
<1> QED BY <1>1, <1>5, <1>6, <1>9 DEF After

(* The stride of an axis is the product of the dimensions after it.         *)
LEMMA AfterOf ==
  ASSUME NEW s \in Seq(Positive)
  PROVE  /\ After(s, Len(s)) = 1
         /\ After(s, 0) = Product(s)
         /\ \A j \in 0..Len(s) : After(s, j) \in Positive
         /\ \A j \in 1..Len(s) : After(s, j - 1) = s[j] * After(s, j)
         /\ \A j \in 1..Len(s) : Strides(s)[j] = After(s, j)
<1>0. s \in Seq(Nat) /\ Len(s) \in Nat
  BY DEF Positive
<1>1. After(s, Len(s)) = 1
  <2>1. Len(s) \in 0..Len(s) /\ Len(s) - Len(s) = 0
    BY <1>0
  <2>2. /\ SubSeq(s, Len(s) + 1, Len(s)) \in Seq(Nat)
        /\ Len(SubSeq(s, Len(s) + 1, Len(s))) = 0
    BY <1>0, <2>1, RestOf
  <2> QED BY <2>2, ProductsOf DEF After
<1>2. After(s, 0) = Product(s)
  <2>1. SubSeq(s, 1, Len(s)) = s
    BY <1>0
  <2>2. 0 + 1 = 1
    OBVIOUS
  <2>3. After(s, 0) = Product(SubSeq(s, 1, Len(s)))
    BY <2>2 DEF After
  <2> QED BY <2>1, <2>3
<1>3. ASSUME NEW j \in 0..Len(s) PROVE After(s, j) \in Positive
  <2> DEFINE t == SubSeq(s, j + 1, Len(s))
  <2>1. t \in Seq(Positive) /\ Len(t) \in 0..Len(t)
    <3>1. t \in Seq(Positive)
      BY RestOf
    <3> QED BY <3>1
  <2> HIDE DEF t
  <2>2. Products(t)[Len(t)] \in Positive
    BY <2>1, ProductsPositive
  <2>3. Product(t) = Products(t)[Len(t)]
    <3>1. t \in Seq(Nat)
      BY <2>1 DEF Positive
    <3> QED BY <3>1, ProductsOf
  <2> QED BY <2>2, <2>3 DEF After, t
<1>4. \A j \in 1..Len(s) : After(s, j - 1) = s[j] * After(s, j)
  BY <1>0, AfterStep
<1>5. \A j \in 1..Len(s) : Strides(s)[j] = After(s, j)
  BY <1>0 DEF Strides, Axes, After
<1> QED BY <1>1, <1>2, <1>3, <1>4, <1>5

--------------------------------------------------------------------------------
(* Division: a number is a multiple and a remainder in one way.             *)
LEMMA Multiples == \A x, y, g \in Nat : x < y => x * g + g <= y * g
<1> SUFFICES ASSUME NEW x \in Nat, NEW y \in Nat, NEW g \in Nat, x < y
             PROVE  x * g + g <= y * g
  OBVIOUS
<1> PICK k \in Nat : y = (x + 1) + k
  <2>1. y - (x + 1) \in Nat /\ y = (x + 1) + (y - (x + 1))
    OBVIOUS
  <2> QED BY <2>1
<1>1. y * g = (x + 1) * g + k * g
  <2>1. x + 1 \in Nat
    OBVIOUS
  <2> QED BY <2>1, Distributes
<1>2. (x + 1) * g = x * g + 1 * g
  BY Distributes
<1>3. 1 * g = g /\ k * g \in Nat /\ x * g \in Nat
  OBVIOUS
<1>4. \A p, q, r, u, v \in Nat : p = q + r /\ q = u + v => u + v <= p
  OBVIOUS
<1> QED BY <1>1, <1>2, <1>3

(* A number has one multiple of g and one remainder below g.                *)
LEMMA RadixUnique ==
  ASSUME NEW x \in Nat, NEW y \in Nat, NEW a \in Nat, NEW b \in Nat, NEW g \in Nat,
         a < g, b < g, x * g + a = y * g + b
  PROVE  x = y /\ a = b
<1> PICK p \in Nat : p = x * g
  OBVIOUS
<1> PICK q \in Nat : q = y * g
  OBVIOUS
<1>1. ~(x < y)
  <2> SUFFICES ASSUME x < y PROVE FALSE
    OBVIOUS
  <2>1. p + g <= q
    BY Multiples
  <2>2. p + a = q + b
    OBVIOUS
  <2> QED BY <2>1, <2>2
<1>2. ~(y < x)
  <2> SUFFICES ASSUME y < x PROVE FALSE
    OBVIOUS
  <2>1. q + g <= p
    BY Multiples
  <2>2. p + a = q + b
    OBVIOUS
  <2> QED BY <2>1, <2>2
<1>3. x = y
  BY <1>1, <1>2
<1>4. p = q
  BY <1>3
<1>5. p + a = q + b
  OBVIOUS
<1> QED BY <1>3, <1>4, <1>5

(* The number v has the multiple x of g and the remainder a.                *)
Splits(v, g, x, a) == v = x * g + a /\ a < g

(* The same for a multiple and a remainder that are given by name.          *)
LEMMA SplitsOnce ==
  ASSUME NEW v, NEW g \in Nat, NEW x \in Nat, NEW a \in Nat, NEW y \in Nat, NEW b \in Nat,
         Splits(v, g, x, a), Splits(v, g, y, b)
  PROVE  x = y /\ a = b
<1>1. x * g + a = y * g + b /\ a < g /\ b < g
  BY DEF Splits
<1> QED BY <1>1, RadixUnique

(* Division gives that multiple and that remainder.                         *)
LEMMA Division ==
  ASSUME NEW p \in Nat, NEW g \in Positive
  PROVE  /\ p \div g \in Nat
         /\ p % g \in 0..(g - 1)
         /\ p = (p \div g) * g + (p % g)
BY DEF Positive

(* A number that is made of a multiple and a remainder is divided into      *)
(* them.                                                                    *)
LEMMA DivisionUnique ==
  ASSUME NEW x \in Nat, NEW a \in Nat, NEW g \in Positive, a < g
  PROVE  (x * g + a) \div g = x /\ (x * g + a) % g = a
<1> PICK p \in Nat : p = x * g + a
  <2>1. x * g + a \in Nat
    BY DEF Positive
  <2> QED BY <2>1
<1>1. /\ p \div g \in Nat /\ p % g \in Nat /\ p % g < g
      /\ p = (p \div g) * g + (p % g) /\ g \in Nat
  <2>1. /\ p \div g \in Nat /\ p % g \in 0..(g - 1)
        /\ p = (p \div g) * g + (p % g)
    BY Division
  <2>2. g \in Nat
    BY DEF Positive
  <2>3. p % g \in Nat /\ p % g < g
    BY <2>1, <2>2
  <2> HIDE DEF Positive
  <2> QED BY <2>1, <2>2, <2>3
<1>2. (p \div g) * g + (p % g) = x * g + a
  BY <1>1
<1> QED BY <1>1, <1>2, RadixUnique

(* A number times a product is divided by one factor after the other.       *)
LEMMA DivisionTwice ==
  ASSUME NEW p \in Nat, NEW w \in Positive, NEW g \in Positive
  PROVE  (p \div w) \div g = p \div (g * w)
<1> PICK v \in Nat : v = p \div w
  BY Division
<1> PICK r \in Nat : r = p % w /\ r < w
  BY Division DEF Positive
<1> PICK x \in Nat : x = v \div g
  BY Division
<1> PICK a \in Nat : a = v % g /\ a < g
  BY Division DEF Positive
<1>1. p = v * w + r /\ v = x * g + a
  BY Division
<1>2. w \in Nat /\ g \in Nat /\ g * w \in Positive
  BY PositiveProduct DEF Positive
<1>3. p = x * (g * w) + (a * w + r)
  <2>1. (x * g + a) * w = (x * g) * w + a * w
    <3>1. x * g \in Nat
      BY <1>2
    <3> QED BY <1>2, <3>1, Distributes
  <2>2. (x * g) * w = x * (g * w)
    BY <1>2, Associates
  <2>3. x * (g * w) \in Nat /\ a * w \in Nat
    BY <1>2 DEF Positive
  <2> QED BY <1>1, <2>1, <2>2, <2>3
<1>4. a * w + r \in Nat /\ a * w + r < g * w
  <2>1. a * w + w <= g * w
    BY <1>2, Multiples
  <2> PICK y \in Nat, z \in Nat : y = a * w /\ z = g * w
    BY <1>2
  <2>2. y + w <= z
    BY <2>1
  <2>3. y + r \in Nat /\ y + r < z
    BY ONLY <1>2, <2>2, w \in Nat, r \in Nat, r < w, y \in Nat, z \in Nat
  <2> QED BY <2>3
<1> PICK y \in Nat, h \in Positive : y = a * w + r /\ h = g * w
  BY <1>2, <1>4
<1>5. p = x * h + y /\ y < h
  BY <1>3, <1>4
<1>6. (x * h + y) \div h = x
  BY ONLY <1>5, DivisionUnique, x \in Nat, y \in Nat, h \in Positive
<1> QED BY <1>5, <1>6

--------------------------------------------------------------------------------
(* The place of a coordinate d in a grid g, axis by axis: before axis j, it *)
(* is the place of d among the coordinates of the first axes.               *)
Below(d, g) == d \in [1..Len(g) -> Nat] /\ \A i \in 1..Len(g) : d[i] < g[i]

Horner(H, d, g) ==
  /\ H \in [0..Len(g) -> Nat]
  /\ H[0] = 0
  /\ \A j \in 1..Len(g) : H[j] = H[j - 1] * g[j] + d[j]

(* What the coordinate and the grid are, axis by axis.                      *)
LEMMA BelowFacts ==
  ASSUME NEW g \in Seq(Positive), NEW d, Below(d, g)
  PROVE  /\ \A j \in 1..Len(g) : g[j] \in Nat /\ d[j] \in Nat /\ d[j] < g[j]
         /\ d = [j \in 1..Len(g) |-> d[j]]
<1>1. d \in [1..Len(g) -> Nat] /\ \A j \in 1..Len(g) : d[j] < g[j]
  BY DEF Below
<1>2. \A j \in 1..Len(g) : g[j] \in Positive /\ d[j] \in Nat
  BY <1>1
<1>3. \A j \in 1..Len(g) : g[j] \in Nat
  BY <1>2 DEF Positive
<1> QED BY <1>1, <1>2, <1>3

(* What the places are, axis by axis.                                       *)
LEMMA HornerFacts ==
  ASSUME NEW g \in Seq(Positive), NEW d, NEW H, Horner(H, d, g)
  PROVE  /\ H[0] = 0
         /\ \A j \in 1..Len(g) : H[j] = H[j - 1] * g[j] + d[j]
         /\ \A j \in 0..Len(g) : H[j] \in Nat
         /\ \A j \in 1..Len(g) : H[j - 1] \in Nat
<1>1. \A j \in 0..Len(g) : H[j] \in Nat
  BY DEF Horner
<1>2. \A j \in 1..Len(g) : j - 1 \in 0..Len(g)
  OBVIOUS
<1>3. \A j \in 1..Len(g) : H[j - 1] \in Nat
  BY <1>1, <1>2
<1> QED BY <1>1, <1>3 DEF Horner

(* Every coordinate has places axis by axis.                                *)
LEMMA HornerExist ==
  ASSUME NEW g \in Seq(Positive), NEW d \in [1..Len(g) -> Nat]
  PROVE  \E H : Horner(H, d, g)
<1> PICK n \in Nat : n = Len(g)
  OBVIOUS
<1> DEFINE G == [z \in Nat \X (1..n) |-> z[1] * g[z[2]] + d[z[2]]]
<1>1. \A k \in 1..n : g[k] \in Nat /\ d[k] \in Nat
  BY DEF Positive
<1>2. G \in [Nat \X (1..n) -> Nat]
  BY <1>1
<1>3. \A x \in Nat, k \in 1..n : G[<<x, k>>] = x * g[k] + d[k]
  OBVIOUS
<1> HIDE DEF G
<1>4. PICK f \in [0..n -> Nat] : Steps(f, n, 0, G)
  <2>1. 0 \in Nat
    OBVIOUS
  <2> QED BY <1>2, <2>1, Recursion
<1>5. ASSUME NEW k \in 1..n PROVE f[k] = f[k - 1] * g[k] + d[k]
  <2>1. f[k] = G[<<f[k - 1], k>>]
    BY <1>4 DEF Steps
  <2>2. f[k - 1] \in Nat
    OBVIOUS
  <2> QED BY <1>3, <2>1, <2>2
<1> QED BY <1>4, <1>5 DEF Horner, Steps

(* It is what the strides of the grid compute.                              *)
LEMMA HornerOf ==
  ASSUME NEW g \in Seq(Positive), NEW d \in [1..Len(g) -> Nat], NEW H, Horner(H, d, g)
  PROVE  Dot(d, Strides(g)) = H[Len(g)]
<1> PICK n \in Nat : n = Len(g)
  OBVIOUS
<1> DEFINE t == [i \in DOMAIN d |-> d[i] * Strides(g)[i]]
           A(j) == After(g, j)
<1>1. /\ A(n) = 1
      /\ \A j \in 0..n : A(j) \in Nat
      /\ \A j \in 1..n : A(j - 1) = g[j] * A(j)
      /\ \A j \in 1..n : Strides(g)[j] = A(j)
  BY AfterOf DEF Positive
<1>2. \A j \in 1..n : g[j] \in Nat /\ d[j] \in Nat
  BY DEF Positive
<1> HIDE DEF A
<1>3. t \in Seq(Nat) /\ Len(t) = n /\ \A j \in 1..n : t[j] = d[j] * A(j)
  <2>1. DOMAIN d = 1..n
    OBVIOUS
  <2>2. \A j \in 1..n : d[j] * Strides(g)[j] \in Nat
    BY <1>1, <1>2
  <2>3. t = [i \in 1..n |-> d[i] * Strides(g)[i]]
    BY <2>1
  <2>4. t \in Seq(Nat) /\ Len(t) = n
    BY <2>2, <2>3
  <2> QED BY <1>1, <2>3, <2>4
<1> HIDE DEF t
<1> PICK T : T = Totals(t)
  OBVIOUS
<1>4. /\ T[0] = 0 /\ \A j \in 1..n : T[j] = T[j - 1] + t[j]
      /\ T[n] = Total(t)
  BY <1>3, TotalsOf
<1>5. /\ \A j \in 0..n : H[j] \in Nat
      /\ H[0] = 0 /\ \A j \in 1..n : H[j] = H[j - 1] * g[j] + d[j]
  BY DEF Horner
<1> DEFINE S == {j \in 0..n : T[j] = H[j] * A(j)}
<1>6. 0 \in S
  <2>1. 0 * A(0) = 0 /\ 0 \in 0..n
    BY <1>1
  <2> QED BY <1>4, <1>5, <2>1
<1>7. \A k \in 0..n : k < n /\ k \in S => k + 1 \in S
  <2> SUFFICES ASSUME NEW k \in 0..n, k < n, T[k] = H[k] * A(k) PROVE k + 1 \in S
    OBVIOUS
  <2> PICK j \in 1..n : j = k + 1 /\ j - 1 = k
    OBVIOUS
  <2>1. /\ H[k] \in Nat /\ g[j] \in Nat /\ d[j] \in Nat /\ A(j) \in Nat
        /\ H[k] * g[j] \in Nat
    BY <1>1, <1>2, <1>5
  <2>2. T[j] = H[k] * A(k) + d[j] * A(j)
    BY <1>3, <1>4
  <2>3. H[k] * A(k) = (H[k] * g[j]) * A(j)
    <3>1. A(k) = g[j] * A(j)
      BY <1>1
    <3> QED BY <2>1, <3>1, Associates
  <2>4. (H[k] * g[j] + d[j]) * A(j) = (H[k] * g[j]) * A(j) + d[j] * A(j)
    BY <2>1, Distributes
  <2>5. T[j] = H[j] * A(j)
    BY <1>5, <2>2, <2>3, <2>4
  <2> QED BY <2>5
<1>8. T[n] = H[n] * A(n)
  <2>1. \A j \in 0..n : j \in S
    <3> HIDE DEF S
    <3> QED BY <1>6, <1>7, UpToAll
  <2> QED BY <2>1
<1>9. T[n] = H[n]
  <2>1. H[n] \in Nat
    BY <1>5
  <2> QED BY <1>1, <1>8, <2>1
<1>10. Dot(d, Strides(g)) = Total(t)
  BY DEF Dot, t
<1> QED BY <1>4, <1>9, <1>10

(* The place of a coordinate within the grid is less than its size.         *)
LEMMA HornerBelow ==
  ASSUME NEW g \in Seq(Positive), NEW d, Below(d, g), NEW H, Horner(H, d, g)
  PROVE  \A j \in 0..Len(g) : H[j] < Products(g)[j]
<1> PICK n \in Nat : n = Len(g)
  OBVIOUS
<1> PICK P : P = Products(g)
  OBVIOUS
<1>1. /\ P[0] = 1 /\ \A j \in 1..n : P[j] = P[j - 1] * g[j]
      /\ \A j \in 0..n : P[j] \in Nat
  <2>1. g \in Seq(Nat)
    BY DEF Positive
  <2> QED BY <2>1, ProductsOf
<1>2. /\ \A j \in 1..n : g[j] \in Nat /\ d[j] \in Nat /\ d[j] < g[j]
      /\ H[0] = 0 /\ \A j \in 1..n : H[j] = H[j - 1] * g[j] + d[j]
      /\ \A j \in 0..n : H[j] \in Nat
  BY BelowFacts, HornerFacts
<1> DEFINE S == {j \in 0..n : H[j] < P[j]}
<1>3. 0 \in S
  BY <1>1, <1>2
<1>4. \A k \in 0..n : k < n /\ k \in S => k + 1 \in S
  <2> SUFFICES ASSUME NEW k \in 0..n, k < n, H[k] < P[k] PROVE k + 1 \in S
    OBVIOUS
  <2> PICK j \in 1..n : j = k + 1 /\ j - 1 = k
    OBVIOUS
  <2>1. H[k] * g[j] + g[j] <= P[k] * g[j]
    BY <1>1, <1>2, Multiples
  <2>2. H[k] * g[j] \in Nat /\ P[k] * g[j] \in Nat
    BY <1>1, <1>2
  <2>3. H[j] = H[k] * g[j] + d[j] /\ P[j] = P[k] * g[j] /\ d[j] < g[j]
        /\ d[j] \in Nat /\ g[j] \in Nat
    BY <1>1, <1>2
  <2>4. H[j] < P[j]
    BY <2>1, <2>2, <2>3
  <2> QED BY <2>4
<1>5. \A j \in 0..n : j \in S
  <2> HIDE DEF S
  <2> QED BY <1>3, <1>4, UpToAll
<1> QED BY <1>5

(* Different coordinates within the grid have different places.             *)
LEMMA HornerDiffer ==
  ASSUME NEW g \in Seq(Positive),
         NEW d, Below(d, g), NEW H, Horner(H, d, g),
         NEW e, Below(e, g), NEW K, Horner(K, e, g),
         H[Len(g)] = K[Len(g)]
  PROVE  d = e /\ \A j \in 0..Len(g) : H[j] = K[j]
<1> PICK n \in Nat : n = Len(g)
  OBVIOUS
<1>1. /\ \A j \in 1..n : g[j] \in Nat /\ d[j] \in Nat /\ d[j] < g[j]
      /\ \A j \in 1..n : e[j] \in Nat /\ e[j] < g[j]
      /\ \A j \in 1..n : H[j] = H[j - 1] * g[j] + d[j] /\ H[j - 1] \in Nat
      /\ \A j \in 1..n : K[j] = K[j - 1] * g[j] + e[j] /\ K[j - 1] \in Nat
  <2>1. \A j \in 1..n : H[j] = H[j - 1] * g[j] + d[j] /\ H[j - 1] \in Nat
    BY HornerFacts
  <2>2. \A j \in 1..n : K[j] = K[j - 1] * g[j] + e[j] /\ K[j - 1] \in Nat
    BY HornerFacts
  <2>3. \A j \in 1..n : g[j] \in Nat /\ d[j] \in Nat /\ d[j] < g[j]
    BY BelowFacts
  <2>4. \A j \in 1..n : e[j] \in Nat /\ e[j] < g[j]
    BY BelowFacts
  <2> QED BY <2>1, <2>2, <2>3, <2>4
<1>2. ASSUME NEW j \in 1..n, H[j] = K[j]
      PROVE  H[j - 1] = K[j - 1] /\ d[j] = e[j]
  <2>1. H[j - 1] * g[j] + d[j] = K[j - 1] * g[j] + e[j]
    BY <1>1, <1>2
  <2>2. /\ H[j - 1] \in Nat /\ K[j - 1] \in Nat /\ g[j] \in Nat
        /\ d[j] \in Nat /\ e[j] \in Nat /\ d[j] < g[j] /\ e[j] < g[j]
    BY <1>1
  <2>3. Splits(H[j], g[j], H[j - 1], d[j]) /\ Splits(H[j], g[j], K[j - 1], e[j])
    BY <1>1, <2>1, <2>2 DEF Splits
  <2> QED BY <2>2, <2>3, SplitsOnce
<1> DEFINE S == {j \in 0..n : H[j] = K[j]}
<1>3. n \in S
  OBVIOUS
<1>4. \A j \in 1..n : j \in S => j - 1 \in S
  BY <1>2
<1>5. \A j \in 0..n : H[j] = K[j]
  <2>1. \A j \in 0..n : j \in S
    <3> HIDE DEF S
    <3> QED BY <1>3, <1>4, DownToAll
  <2> QED BY <2>1
<1>6. \A j \in 1..n : d[j] = e[j]
  BY <1>2, <1>5
<1>7. d = e
  <2>1. d = [j \in 1..n |-> d[j]] /\ e = [j \in 1..n |-> e[j]]
    BY BelowFacts
  <2> QED BY <1>6, <2>1
<1> QED BY <1>5, <1>7

(* The places of a shape.                                                   *)
PlacesIn(shape) == 0..(Product(shape) - 1)

(* A place without its last axes is the quotient by what they number.       *)
Leading(V, s, p) == \A j \in 0..Len(s) : V[j] = p \div After(s, j)

(* The coordinate of a place lies in the shape, and its places axis by axis *)
(* are the quotients of that place.                                         *)
LEMMA Decoded ==
  ASSUME NEW s \in Seq(Positive), NEW p \in PlacesIn(s)
  PROVE  /\ Product(s) \in Positive
         /\ Below(CoordAt(s, p), s)
         /\ \E V : Horner(V, CoordAt(s, p), s) /\ V[Len(s)] = p /\ Leading(V, s, p)
<1> PICK n \in Nat : n = Len(s)
  OBVIOUS
<1> PICK c : c = CoordAt(s, p)
  OBVIOUS
<1> DEFINE V == [j \in 0..n |-> p \div After(s, j)]
<1>1. /\ After(s, n) = 1 /\ After(s, 0) = Product(s)
      /\ \A j \in 0..n : After(s, j) \in Positive
      /\ \A j \in 1..n : After(s, j - 1) = s[j] * After(s, j)
      /\ \A j \in 1..n : Strides(s)[j] = After(s, j)
  BY AfterOf
<1>2. Product(s) \in Positive /\ p \in Nat /\ p < Product(s)
  <2>1. Product(s) \in Positive
    BY <1>1
  <2> QED BY <2>1 DEF Positive, PlacesIn
<1>3. V \in [0..n -> Nat]
  <2>1. \A j \in 0..n : p \div After(s, j) \in Nat
    BY <1>1, <1>2, Division
  <2> QED BY <2>1
<1>4. \A j \in 0..n : V[j] = p \div After(s, j)
  OBVIOUS
<1> HIDE DEF V
<1>5. V[0] = 0
  <2>1. p = 0 * Product(s) + p
    BY <1>2 DEF Positive
  <2>2. (0 * Product(s) + p) \div Product(s) = 0
    BY <1>2, DivisionUnique
  <2> QED BY <1>1, <1>4, <2>1, <2>2
<1>6. V[n] = p
  <2>1. p \div 1 = p
    BY <1>2
  <2> QED BY <1>1, <1>4, <2>1
<1>7. DOMAIN c = 1..n /\ c = [i \in 1..n |-> (p \div Strides(s)[i]) % s[i]]
  BY DEF CoordAt, Axes
<1>8. ASSUME NEW j \in 1..n
      PROVE  c[j] \in Nat /\ c[j] < s[j] /\ V[j] = V[j - 1] * s[j] + c[j]
  <2>1. c[j] = V[j] % s[j]
    BY <1>1, <1>4, <1>7
  <2>2. V[j] \in Nat /\ s[j] \in Positive
    BY <1>3
  <2>3. /\ V[j] % s[j] \in 0..(s[j] - 1)
        /\ V[j] = (V[j] \div s[j]) * s[j] + (V[j] % s[j])
    BY <2>2, Division
  <2>4. V[j - 1] = V[j] \div s[j]
    <3>1. j - 1 \in 0..n /\ j \in 0..n
      OBVIOUS
    <3>2. V[j - 1] = p \div (s[j] * After(s, j))
      BY <1>1, <1>4, <3>1
    <3>3. (p \div After(s, j)) \div s[j] = p \div (s[j] * After(s, j))
      BY <1>1, <1>2, <2>2, <3>1, DivisionTwice
    <3> QED BY <1>4, <3>1, <3>2, <3>3
  <2>5. s[j] \in Nat
    BY <2>2 DEF Positive
  <2> QED BY <2>1, <2>3, <2>4, <2>5
<1>9. Below(c, s)
  BY <1>7, <1>8 DEF Below
<1>10. Horner(V, c, s)
  BY <1>3, <1>5, <1>8 DEF Horner
<1>11. Leading(V, s, p)
  BY <1>4 DEF Leading
<1> QED BY <1>2, <1>6, <1>9, <1>10, <1>11

(* Row-major order numbers the coordinates of a shape without gaps: what    *)
(* decode_flat of src/request.rs gives for a place lies in the shape and is *)
(* at that place.                                                           *)
THEOREM LinearOfAt ==
  ASSUME NEW s \in Seq(Positive), NEW p \in PlacesIn(s)
  PROVE  Below(CoordAt(s, p), s) /\ Linear(s, CoordAt(s, p)) = p
<1>1. PICK V : Horner(V, CoordAt(s, p), s) /\ V[Len(s)] = p
  BY Decoded
<1>2. Below(CoordAt(s, p), s)
  BY Decoded
<1>3. CoordAt(s, p) \in [1..Len(s) -> Nat]
  BY <1>2 DEF Below
<1> QED BY <1>1, <1>2, <1>3, HornerOf DEF Linear

(* The row-major place of a coordinate lies in the shape, and decode_flat   *)
(* gives back the coordinate it was made of.                                *)
THEOREM AtOfLinear ==
  ASSUME NEW s \in Seq(Positive), NEW c, Below(c, s)
  PROVE  Linear(s, c) \in PlacesIn(s) /\ CoordAt(s, Linear(s, c)) = c
<1>0. c \in [1..Len(s) -> Nat] /\ Len(s) \in 0..Len(s)
  BY DEF Below
<1>1. PICK H : Horner(H, c, s)
  BY <1>0, HornerExist
<1>2. Linear(s, c) = H[Len(s)]
  BY <1>0, <1>1, HornerOf DEF Linear
<1>3. H[Len(s)] \in Nat /\ H[Len(s)] < Products(s)[Len(s)]
  BY <1>0, <1>1, HornerBelow, HornerFacts
<1>4. Product(s) = Products(s)[Len(s)] /\ Product(s) \in Nat
  <2>1. s \in Seq(Nat)
    BY DEF Positive
  <2> QED BY <1>0, <2>1, ProductsOf
<1>5. H[Len(s)] \in PlacesIn(s)
  BY <1>3, <1>4 DEF PlacesIn
<1> PICK p : p = H[Len(s)]
  OBVIOUS
<1>6. PICK V : Horner(V, CoordAt(s, p), s) /\ V[Len(s)] = p
  BY <1>5, Decoded
<1>7. Below(CoordAt(s, p), s)
  BY <1>5, Decoded
<1>8. CoordAt(s, p) = c
  BY <1>1, <1>6, <1>7, HornerDiffer
<1> QED BY <1>2, <1>5, <1>8

--------------------------------------------------------------------------------
(* Blocks.  A block shape is positive and has the tensor's axes.            *)
Fits(shape, block) ==
  /\ shape \in Seq(Positive)
  /\ block \in Seq(Positive)
  /\ Len(block) = Len(shape)

(* Its axes are those of the tensor.                                        *)
LEMMA AxesOf ==
  ASSUME NEW shape, NEW block, Fits(shape, block)
  PROVE  DOMAIN shape = 1..Len(shape) /\ DOMAIN block = 1..Len(shape)
BY DEF Fits

Quotients(shape, block, c) == [i \in Axes(shape) |-> c[i] \div block[i]]
Remainders(block, c) == [i \in DOMAIN block |-> c[i] % block[i]]

(* The number of blocks along an axis: the last one may be cut.             *)
LEMMA Ceiling ==
  ASSUME NEW n \in Positive, NEW d \in Positive
  PROVE  /\ DivCeil(n, d) \in Positive
         /\ \A c \in Nat : c < n => c \div d < DivCeil(n, d)
         /\ \A q \in Nat : q < DivCeil(n, d) => q * d < n
<1> PICK k \in Nat : k = DivCeil(n, d)
  <2>1. n + (d - 1) \in Nat
    BY DEF Positive
  <2>2. (n + (d - 1)) \div d \in Nat
    BY <2>1, Division
  <2>3. DivCeil(n, d) = (n + (d - 1)) \div d
    BY Zenon DEF DivCeil
  <2>4. DivCeil(n, d) \in Nat
    BY Zenon, <2>2, <2>3
  <2> QED BY <2>4
<1>0. n \in Nat /\ d \in Nat /\ n > 0 /\ d > 0
  BY DEF Positive
<1>1. k * d \in Nat /\ n <= k * d /\ k * d < n + d
  <2> PICK m \in Nat : m = n + (d - 1)
    BY <1>0
  <2>1. m \div d = k
    <3>1. k = (n + (d - 1)) \div d
      BY Zenon DEF DivCeil
    <3> QED BY Zenon, <3>1
  <2>2. m % d \in 0..(d - 1) /\ m = (m \div d) * d + (m % d)
    BY Division
  <2>3. k * d \in Nat
    BY <1>0
  <2> QED BY <1>0, <2>1, <2>2, <2>3
<1>2. k # 0
  <2> SUFFICES ASSUME k = 0 PROVE FALSE
    OBVIOUS
  <2>1. k * d = 0
    BY <1>0
  <2> QED BY <1>0, <1>1, <2>1
<1>3. ASSUME NEW c \in Nat, c < n PROVE c \div d < k
  <2> PICK x \in Nat : x = c \div d
    BY Division
  <2>1. x * d \in Nat /\ x * d <= c
    <3>1. c % d \in 0..(d - 1) /\ c = x * d + (c % d)
      BY Division
    <3>2. x * d \in Nat
      BY <1>0
    <3> QED BY <1>0, <3>1, <3>2
  <2>2. ~(k < x)
    <3> SUFFICES ASSUME k < x PROVE FALSE
      OBVIOUS
    <3>1. k * d + d <= x * d
      BY <1>0, Multiples
    <3> QED BY <1>0, <1>1, <1>3, <2>1, <3>1
  <2>3. x # k
    <3> SUFFICES ASSUME x = k PROVE FALSE
      OBVIOUS
    <3>1. x * d = k * d
      OBVIOUS
    <3> QED BY <1>0, <1>1, <1>3, <2>1, <3>1
  <2> QED BY <2>2, <2>3
<1>4. ASSUME NEW q \in Nat, q < k PROVE q * d < n
  <2>1. q * d + d <= k * d
    BY <1>0, <1>4, Multiples
  <2>2. q * d \in Nat
    BY <1>0
  <2> QED BY <1>0, <1>1, <2>1, <2>2
<1> QED BY <1>2, <1>3, <1>4 DEF Positive

(* The grid of blocks is itself a shape.                                    *)
LEMMA GridOf ==
  ASSUME NEW shape, NEW block, Fits(shape, block)
  PROVE  /\ Grid(shape, block) \in Seq(Positive)
         /\ Len(Grid(shape, block)) = Len(shape)
         /\ \A i \in 1..Len(shape) :
              /\ shape[i] \in Positive /\ block[i] \in Positive
              /\ Grid(shape, block)[i] = DivCeil(shape[i], block[i])
<1> PICK n \in Nat : n = Len(shape) /\ n = Len(block)
  BY DEF Fits
<1>1. \A i \in 1..n : shape[i] \in Positive /\ block[i] \in Positive
  BY DEF Fits
<1>2. \A i \in 1..n : DivCeil(shape[i], block[i]) \in Positive
  BY <1>1, Ceiling
<1>3. Grid(shape, block) = [i \in 1..n |-> DivCeil(shape[i], block[i])]
  BY DEF Grid, Axes, Fits
<1> DEFINE g == [i \in 1..n |-> DivCeil(shape[i], block[i])]
<1>4. g \in Seq(Positive) /\ Len(g) = n
  BY <1>2
<1>5. \A i \in 1..n : g[i] = DivCeil(shape[i], block[i])
  OBVIOUS
<1> HIDE DEF g
<1>6. Grid(shape, block) = g
  BY <1>3 DEF g
<1> QED BY <1>1, <1>4, <1>5, <1>6

(* A coordinate has a block in the grid and an offset in the block.         *)
LEMMA BlockOf ==
  ASSUME NEW shape, NEW block, Fits(shape, block), NEW c, Below(c, shape)
  PROVE  /\ Below(Quotients(shape, block, c), Grid(shape, block))
         /\ Below(Remainders(block, c), block)
         /\ BlockId(shape, block, c) =
              Linear(Grid(shape, block), Quotients(shape, block, c))
         /\ Offset(block, c) = Linear(block, Remainders(block, c))
<1> PICK n \in Nat : n = Len(shape) /\ n = Len(block)
  BY DEF Fits
<1> PICK g : g = Grid(shape, block)
  OBVIOUS
<1>1. /\ Len(g) = n
      /\ \A i \in 1..n : /\ shape[i] \in Positive /\ block[i] \in Positive
                         /\ g[i] = DivCeil(shape[i], block[i])
  BY GridOf
<1>2. \A i \in 1..n : c[i] \in Nat /\ c[i] < shape[i]
  BY DEF Below
<1>3. Below(Quotients(shape, block, c), g)
  <2> DEFINE q == [i \in 1..n |-> c[i] \div block[i]]
  <2>1. \A i \in 1..n : c[i] \div block[i] \in Nat /\ c[i] \div block[i] < g[i]
    <3> SUFFICES ASSUME NEW i \in 1..n
                 PROVE  c[i] \div block[i] \in Nat /\ c[i] \div block[i] < g[i]
      OBVIOUS
    <3>1. /\ shape[i] \in Positive /\ block[i] \in Positive
          /\ c[i] \in Nat /\ c[i] < shape[i]
      BY <1>1, <1>2
    <3>2. c[i] \div block[i] \in Nat
      BY <3>1, Division
    <3>3. c[i] \div block[i] < DivCeil(shape[i], block[i])
      BY <3>1, Ceiling
    <3> QED BY <1>1, <3>2, <3>3
  <2>2. q \in [1..n -> Nat] /\ \A i \in 1..n : q[i] < g[i]
    BY <2>1
  <2>3. Quotients(shape, block, c) = q
    BY DEF Quotients, Axes, Fits
  <2> HIDE DEF q
  <2> QED BY <1>1, <2>2, <2>3 DEF Below
<1>4. Below(Remainders(block, c), block)
  <2> DEFINE r == [i \in 1..n |-> c[i] % block[i]]
  <2>1. \A i \in 1..n : c[i] % block[i] \in Nat /\ c[i] % block[i] < block[i]
    <3> SUFFICES ASSUME NEW i \in 1..n
                 PROVE  c[i] % block[i] \in Nat /\ c[i] % block[i] < block[i]
      OBVIOUS
    <3>1. c[i] % block[i] \in 0..(block[i] - 1) /\ block[i] \in Nat
      BY <1>1, <1>2, Division DEF Positive
    <3> QED BY <3>1
  <2>2. r \in [1..n -> Nat] /\ \A i \in 1..n : r[i] < block[i]
    BY <2>1
  <2>3. Remainders(block, c) = r
    <3>1. DOMAIN block = 1..n
      BY DEF Fits
    <3> QED BY <3>1 DEF Remainders
  <2> HIDE DEF r
  <2> QED BY <1>1, <2>2, <2>3 DEF Below
<1>5. BlockId(shape, block, c) = Linear(g, Quotients(shape, block, c))
  BY DEF BlockId, Linear, Quotients
<1>6. Offset(block, c) = Linear(block, Remainders(block, c))
  BY DEF Offset, Linear, Remainders
<1> QED BY <1>3, <1>4, <1>5, <1>6

(* They are numbered from zero.                                             *)
LEMMA BlockBounded ==
  ASSUME NEW shape, NEW block, Fits(shape, block), NEW c, Below(c, shape)
  PROVE  /\ BlockId(shape, block, c) \in 0..(BlockCount(shape, block) - 1)
         /\ Offset(block, c) \in 0..(Product(block) - 1)
<1>1. Grid(shape, block) \in Seq(Positive)
  BY GridOf
<1>2. block \in Seq(Positive)
  BY DEF Fits
<1>3. BlockId(shape, block, c) \in 0..(Product(Grid(shape, block)) - 1)
  BY <1>1, BlockOf, AtOfLinear DEF PlacesIn
<1>4. Offset(block, c) \in 0..(Product(block) - 1)
  BY <1>2, BlockOf, AtOfLinear DEF PlacesIn
<1> QED BY <1>3, <1>4 DEF BlockCount

(* No two coordinates share an element of a block: block_position of        *)
(* src/storage_read.rs keeps them apart, blocks at the edge included.       *)
THEOREM BlocksDisjoint ==
  ASSUME NEW shape, NEW block, Fits(shape, block),
         NEW c, Below(c, shape), NEW e, Below(e, shape),
         BlockId(shape, block, c) = BlockId(shape, block, e),
         Offset(block, c) = Offset(block, e)
  PROVE  c = e
<1> PICK n \in Nat : n = Len(shape) /\ n = Len(block)
  BY DEF Fits
<1> PICK g : g = Grid(shape, block)
  OBVIOUS
<1>1. /\ g \in Seq(Positive)
      /\ \A i \in 1..n : block[i] \in Positive
  BY GridOf
<1>2. block \in Seq(Positive)
  BY DEF Fits
<1>3. Quotients(shape, block, c) = Quotients(shape, block, e)
  <2>1. CoordAt(g, Linear(g, Quotients(shape, block, c))) = Quotients(shape, block, c)
    BY <1>1, BlockOf, AtOfLinear
  <2>2. CoordAt(g, Linear(g, Quotients(shape, block, e))) = Quotients(shape, block, e)
    BY <1>1, BlockOf, AtOfLinear
  <2>3. Linear(g, Quotients(shape, block, c)) = Linear(g, Quotients(shape, block, e))
    BY BlockOf
  <2> QED BY <2>1, <2>2, <2>3
<1>4. Remainders(block, c) = Remainders(block, e)
  <2>1. CoordAt(block, Linear(block, Remainders(block, c))) = Remainders(block, c)
    BY <1>2, BlockOf, AtOfLinear
  <2>2. CoordAt(block, Linear(block, Remainders(block, e))) = Remainders(block, e)
    BY <1>2, BlockOf, AtOfLinear
  <2>3. Linear(block, Remainders(block, c)) = Linear(block, Remainders(block, e))
    BY BlockOf
  <2> QED BY <2>1, <2>2, <2>3
<1>5. ASSUME NEW i \in 1..n PROVE c[i] = e[i]
  <2>1. c[i] \div block[i] = e[i] \div block[i]
    <3>1. Quotients(shape, block, c)[i] = c[i] \div block[i]
      BY DEF Quotients, Axes, Fits
    <3>2. Quotients(shape, block, e)[i] = e[i] \div block[i]
      BY DEF Quotients, Axes, Fits
    <3> QED BY <1>3, <3>1, <3>2
  <2>2. c[i] % block[i] = e[i] % block[i]
    <3>0. DOMAIN block = 1..n
      BY DEF Fits
    <3>1. Remainders(block, c)[i] = c[i] % block[i]
      BY <3>0 DEF Remainders
    <3>2. Remainders(block, e)[i] = e[i] % block[i]
      BY <3>0 DEF Remainders
    <3> QED BY <1>4, <3>1, <3>2
  <2>3. c[i] \in Nat /\ e[i] \in Nat
    BY DEF Below
  <2>4. c[i] = (c[i] \div block[i]) * block[i] + (c[i] % block[i])
    BY <1>1, <2>3, Division
  <2>5. e[i] = (e[i] \div block[i]) * block[i] + (e[i] % block[i])
    BY <1>1, <2>3, Division
  <2> QED BY <2>1, <2>2, <2>4, <2>5
<1>6. c = [i \in 1..n |-> c[i]] /\ e = [i \in 1..n |-> e[i]]
  BY DEF Below
<1> QED BY <1>5, <1>6

(* Every block of the grid of from_block_schema (src/schema.rs) holds a     *)
(* coordinate.                                                              *)
THEOREM BlocksInhabited ==
  ASSUME NEW shape, NEW block, Fits(shape, block),
         NEW id \in 0..(BlockCount(shape, block) - 1)
  PROVE  \E p \in PlacesIn(shape) : BlockId(shape, block, CoordAt(shape, p)) = id
<1> PICK n \in Nat : n = Len(shape) /\ n = Len(block)
  BY DEF Fits
<1> PICK g : g = Grid(shape, block)
  OBVIOUS
<1>1. /\ g \in Seq(Positive) /\ Len(g) = n
      /\ \A i \in 1..n : /\ shape[i] \in Positive /\ block[i] \in Positive
                         /\ g[i] = DivCeil(shape[i], block[i])
  BY GridOf
<1> PICK q : q = CoordAt(g, id)
  OBVIOUS
<1>2. Below(q, g) /\ Linear(g, q) = id
  BY <1>1, LinearOfAt DEF BlockCount, PlacesIn
<1>3. \A i \in 1..n : q[i] \in Nat /\ q[i] < g[i] /\ block[i] \in Nat
  BY <1>1, <1>2 DEF Below, Positive
<1> DEFINE c == [i \in 1..n |-> q[i] * block[i]]
<1>4. \A i \in 1..n : c[i] = q[i] * block[i]
  OBVIOUS
<1>5. \A i \in 1..n : q[i] * block[i] \in Nat /\ q[i] * block[i] < shape[i]
  BY <1>1, <1>3, Ceiling
<1>6. c \in [1..n -> Nat]
  BY <1>5
<1> HIDE DEF c
<1>7. Below(c, shape)
  BY <1>4, <1>5, <1>6 DEF Below
<1>8. Quotients(shape, block, c) = q
  <2>1. \A i \in 1..n : c[i] \div block[i] = q[i]
    <3> SUFFICES ASSUME NEW i \in 1..n PROVE c[i] \div block[i] = q[i]
      OBVIOUS
    <3>1. (q[i] * block[i] + 0) \div block[i] = q[i]
      <4>1. block[i] \in Positive /\ 0 < block[i] /\ q[i] \in Nat
        BY <1>1, <1>3 DEF Positive
      <4> QED BY <4>1, DivisionUnique
    <3>2. q[i] * block[i] + 0 = c[i]
      BY <1>4, <1>5
    <3> QED BY <3>1, <3>2
  <2>2. q = [i \in 1..n |-> q[i]]
    BY <1>1, <1>2 DEF Below
  <2> QED BY <2>1, <2>2 DEF Quotients, Axes, Fits
<1>9. shape \in Seq(Positive)
  BY DEF Fits
<1>10. Linear(shape, c) \in PlacesIn(shape) /\ CoordAt(shape, Linear(shape, c)) = c
  BY <1>7, <1>9, AtOfLinear
<1>11. BlockId(shape, block, c) = id
  BY <1>2, <1>7, <1>8, BlockOf
<1> QED BY <1>10, <1>11

(* Quotients by one, and by the number itself.                              *)
LEMMA TrivialQuotients ==
  ASSUME NEW n \in Positive
  PROVE  /\ DivCeil(n, 1) = n /\ DivCeil(n, n) = 1
         /\ \A c \in Nat : c \div 1 = c /\ (c < n => c \div n = 0)
<1>0. n \in Nat /\ n > 0 /\ 1 \in Positive
  BY DEF Positive
<1>1. \A c \in Nat : c \div 1 = c
  OBVIOUS
<1>2. ASSUME NEW c \in Nat, c < n PROVE c \div n = 0
  <2>1. (0 * n + c) \div n = 0
    BY <1>2, DivisionUnique
  <2>2. 0 * n + c = c
    BY <1>0
  <2> QED BY <2>1, <2>2
<1>3. DivCeil(n, 1) = n
  <2>1. DivCeil(n, 1) = (n + (1 - 1)) \div 1
    BY Zenon DEF DivCeil
  <2>2. n + (1 - 1) = n
    BY <1>0
  <2> QED BY <1>0, <1>1, <2>1, <2>2
<1>4. DivCeil(n, n) = 1
  <2>1. DivCeil(n, n) = (n + (n - 1)) \div n
    BY Zenon DEF DivCeil
  <2>2. n + (n - 1) = 1 * n + (n - 1) /\ n - 1 \in Nat /\ n - 1 < n
    BY <1>0
  <2>3. (1 * n + (n - 1)) \div n = 1
    BY <2>2, DivisionUnique
  <2> QED BY <2>1, <2>2, <2>3
<1> QED BY <1>1, <1>2, <1>3, <1>4

(* Quotients keep the order.                                                *)
LEMMA DivisionOrdered ==
  ASSUME NEW p \in Nat, NEW q \in Nat, NEW g \in Positive, p <= q
  PROVE  p \div g <= q \div g
<1> PICK x \in Nat : x = p \div g
  BY Division
<1> PICK y \in Nat : y = q \div g
  BY Division
<1>0. g \in Nat
  BY DEF Positive
<1>1. x * g \in Nat /\ x * g <= p
  <2>1. p = x * g + (p % g) /\ p % g \in 0..(g - 1)
    BY Division
  <2>2. x * g \in Nat
    BY <1>0
  <2> QED BY <1>0, <2>1, <2>2
<1>2. y * g \in Nat /\ q < y * g + g
  <2>1. q = y * g + (q % g) /\ q % g \in 0..(g - 1)
    BY Division
  <2>2. y * g \in Nat
    BY <1>0
  <2> QED BY <1>0, <2>1, <2>2
<1>3. ~(y < x)
  <2> SUFFICES ASSUME y < x PROVE FALSE
    OBVIOUS
  <2>1. y * g + g <= x * g
    BY <1>0, Multiples
  <2> QED BY <1>0, <1>1, <1>2, <2>1
<1> QED BY <1>3

(* Numbers of two digits are ordered by the first digit, then the second.   *)
LEMMA RadixOrdered ==
  ASSUME NEW x \in Nat, NEW a \in Nat, NEW y \in Nat, NEW e \in Nat, NEW s \in Nat,
         NEW m \in Nat, NEW b \in Nat, NEW f \in Nat,
         NEW u \in Nat, NEW v \in Nat, NEW w \in Nat, NEW z \in Nat,
         Splits(u, s, x, a), Splits(v, s, y, e), u <= v,
         Splits(w, m, x, b), Splits(z, m, y, f), a <= e => b <= f
  PROVE  w <= z
<1>0. /\ a < s /\ e < s /\ x * s + a <= y * s + e
      /\ b < m /\ f < m /\ w = x * m + b /\ z = y * m + f
  BY DEF Splits
<1>1. ~(y < x)
  <2> SUFFICES ASSUME y < x PROVE FALSE
    OBVIOUS
  <2>1. y * s + s <= x * s
    BY Multiples
  <2>2. y * s \in Nat /\ x * s \in Nat
    OBVIOUS
  <2> QED BY <1>0, <2>1, <2>2
<1>2. CASE x = y
  <2> PICK c \in Nat : c = x * s
    OBVIOUS
  <2>1. c + a <= c + e
    BY <1>0, <1>2
  <2>2. b <= f
    BY <2>1
  <2> PICK d \in Nat : d = x * m
    OBVIOUS
  <2>3. d + b <= d + f
    BY <2>2
  <2> QED BY <1>0, <1>2, <2>3
<1>3. CASE x < y
  <2>1. x * m + m <= y * m
    BY <1>3, Multiples
  <2>2. x * m \in Nat /\ y * m \in Nat
    OBVIOUS
  <2> QED BY <1>0, <2>1, <2>2
<1> QED BY <1>1, <1>2, <1>3

(* Sequences of the same elements are equal.                                *)
LEMMA SameElements ==
  ASSUME NEW S, NEW s \in Seq(S), NEW t \in Seq(S), Len(s) = Len(t),
         \A i \in 1..Len(s) : s[i] = t[i]
  PROVE  s = t
OBVIOUS

(* The first k dimensions of a block are one.                               *)
Singles(block, k) == \A j \in 1..k : block[j] = 1

(* With blocks of one element, a block's number is a place.                 *)
LEMMA ScalarBlocks ==
  ASSUME NEW shape, NEW block, Fits(shape, block), Singles(block, Len(shape)),
         NEW p \in PlacesIn(shape)
  PROVE  BlockId(shape, block, CoordAt(shape, p)) = p
<1> PICK n \in Nat : n = Len(shape) /\ n = Len(block)
  BY DEF Fits
<1> PICK c : c = CoordAt(shape, p)
  OBVIOUS
<1>0. shape \in Seq(Positive)
  BY DEF Fits
<1>1. Below(c, shape) /\ Linear(shape, c) = p
  BY <1>0, LinearOfAt
<1>2. Grid(shape, block) = shape
  <2>1. /\ Grid(shape, block) \in Seq(Positive) /\ Len(Grid(shape, block)) = n
        /\ \A i \in 1..n : /\ shape[i] \in Positive
                           /\ Grid(shape, block)[i] = DivCeil(shape[i], block[i])
    BY GridOf
  <2>2. \A i \in 1..n : Grid(shape, block)[i] = shape[i]
    BY <2>1, TrivialQuotients DEF Singles
  <2> PICK g \in Seq(Positive) : g = Grid(shape, block)
    BY <2>1
  <2>3. Len(g) = Len(shape) /\ \A i \in 1..Len(g) : g[i] = shape[i]
    BY <2>1, <2>2
  <2>4. g = shape
    BY <2>3, SameElements DEF Fits
  <2> QED BY <2>4
<1>3. Quotients(shape, block, c) = c
  <2>1. \A i \in 1..n : c[i] \div block[i] = c[i]
    <3> SUFFICES ASSUME NEW i \in 1..n PROVE c[i] \div 1 = c[i]
      BY DEF Singles
    <3>1. c[i] \in Nat
      BY <1>1 DEF Below
    <3> QED BY <3>1
  <2>2. c = [i \in 1..n |-> c[i]]
    BY <1>1 DEF Below
  <2>3. Quotients(shape, block, c) = [i \in 1..n |-> c[i] \div block[i]]
    <3>1. DOMAIN shape = 1..n
      BY AxesOf
    <3> QED BY <3>1 DEF Quotients, Axes
  <2> QED BY <2>1, <2>2, <2>3
<1> QED BY <1>1, <1>2, <1>3, BlockOf

(* With contiguous blocks, the first axis that a block spans tells places   *)
(* of different blocks apart.                                               *)
LEMMA ContiguousBlocks ==
  ASSUME NEW shape, NEW block, Fits(shape, block), Contiguous(shape, block),
         NEW i \in 1..Len(shape), block[i] > 1, Singles(block, i - 1),
         NEW p \in PlacesIn(shape)
  PROVE  \E x, a \in Nat :
           /\ Splits(p \div After(shape, i), shape[i], x, a)
           /\ Splits(BlockId(shape, block, CoordAt(shape, p)),
                     DivCeil(shape[i], block[i]), x, a \div block[i])
<1> PICK n \in Nat : n = Len(shape) /\ n = Len(block)
  BY DEF Fits
<1> PICK c : c = CoordAt(shape, p)
  OBVIOUS
<1> PICK g : g = Grid(shape, block)
  OBVIOUS
<1> PICK d : d = Quotients(shape, block, c)
  OBVIOUS
<1>0. shape \in Seq(Positive)
  BY DEF Fits
<1>1. /\ g \in Seq(Positive) /\ Len(g) = n
      /\ \A k \in 1..n : /\ shape[k] \in Positive /\ block[k] \in Positive
                         /\ g[k] = DivCeil(shape[k], block[k])
  BY GridOf
<1>2. Below(c, shape)
  BY <1>0, LinearOfAt
<1> PICK V : Horner(V, c, shape) /\ Leading(V, shape, p)
  BY <1>0, Decoded
<1>3. /\ V[0] = 0
      /\ \A k \in 1..n : V[k] = V[k - 1] * shape[k] + c[k] /\ V[k - 1] \in Nat
      /\ \A k \in 0..n : V[k] \in Nat
      /\ \A k \in 1..n : c[k] \in Nat /\ c[k] < shape[k]
  <2>1. /\ V[0] = 0
        /\ \A k \in 1..n : V[k] = V[k - 1] * shape[k] + c[k]
        /\ \A k \in 0..n : V[k] \in Nat
        /\ \A k \in 1..n : V[k - 1] \in Nat
    <3>1. /\ V[0] = 0
          /\ \A k \in 1..Len(shape) : V[k] = V[k - 1] * shape[k] + c[k]
          /\ \A k \in 0..Len(shape) : V[k] \in Nat
          /\ \A k \in 1..Len(shape) : V[k - 1] \in Nat
      <4>1. Horner(V, c, shape)
        OBVIOUS
      <4> QED BY ONLY <1>0, <4>1, HornerFacts
    <3> QED BY <3>1
  <2>2. \A k \in 1..n : c[k] \in Nat /\ c[k] < shape[k]
    BY <1>0, <1>2, BelowFacts
  <2> QED BY <2>1, <2>2
<1>4. Below(d, g) /\ BlockId(shape, block, c) = Linear(g, d)
  BY <1>2, BlockOf
<1>5. \A k \in 1..n : d[k] = c[k] \div block[k] /\ d[k] \in Nat
  <2>1. d = [k \in 1..n |-> c[k] \div block[k]]
    <3>1. DOMAIN shape = 1..n
      BY AxesOf
    <3> QED BY <3>1 DEF Quotients, Axes
  <2> QED BY <1>1, <1>4, <2>1 DEF Below
<1>6. d \in [1..Len(g) -> Nat]
  BY <1>4 DEF Below
<1> PICK D : Horner(D, d, g)
  BY <1>1, <1>6, HornerExist
<1>7. /\ D[0] = 0
      /\ \A k \in 1..n : D[k] = D[k - 1] * g[k] + d[k]
      /\ \A k \in 0..n : D[k] \in Nat
  BY <1>1, HornerFacts
<1>8. BlockId(shape, block, c) = D[n]
  BY <1>1, <1>4, <1>6, HornerOf DEF Linear
<1>9. D[i - 1] = V[i - 1]
  <2> DEFINE S == {k \in 0..(i - 1) : D[k] = V[k]}
  <2>1. 0 \in S
    BY <1>3, <1>7
  <2>2. ASSUME NEW k \in 0..(i - 1), k < i - 1, D[k] = V[k] PROVE k + 1 \in S
    <3> PICK j \in 1..n : j = k + 1 /\ j - 1 = k /\ j \in 1..(i - 1)
      BY <2>2
    <3>1. block[j] = 1 /\ shape[j] \in Positive /\ c[j] \in Nat
      BY <1>1, <1>3 DEF Singles
    <3>2. g[j] = shape[j] /\ d[j] = c[j]
      BY <1>1, <1>5, <3>1, TrivialQuotients
    <3>3. D[j] = V[j]
      BY <1>3, <1>7, <2>2, <3>2
    <3> QED BY <3>3
  <2>3. \A k \in 0..(i - 1) : k \in S
    <3>1. i - 1 \in Nat
      OBVIOUS
    <3>2. \A k \in 0..(i - 1) : k < i - 1 /\ k \in S => k + 1 \in S
      BY <2>2
    <3> HIDE DEF S
    <3> QED BY <2>1, <3>1, <3>2, UpToAll
  <2>4. i - 1 \in 0..(i - 1)
    OBVIOUS
  <2> QED BY <2>3, <2>4
<1>10. \A k \in (i + 1)..n : block[k] = shape[k]
  <2>1. DOMAIN shape = 1..n
    BY AxesOf
  <2> QED BY <2>1 DEF Contiguous, Axes, Singles
<1>11. D[n] = D[i]
  <2> DEFINE S == {k \in 0..(n - i) : D[i + k] = D[i]}
  <2>1. 0 \in S
    <3>1. i + 0 = i
      OBVIOUS
    <3> QED BY <3>1
  <2>2. ASSUME NEW k \in 0..(n - i), k < n - i, D[i + k] = D[i] PROVE k + 1 \in S
    <3> PICK j \in 1..n : j = i + (k + 1) /\ j - 1 = i + k /\ j \in (i + 1)..n
      BY <2>2
    <3>1. block[j] = shape[j] /\ shape[j] \in Positive /\ c[j] \in Nat /\ c[j] < shape[j]
      BY <1>1, <1>3, <1>10
    <3>2. g[j] = 1 /\ d[j] = 0
      BY <1>1, <1>5, <3>1, TrivialQuotients
    <3>3. D[j] = D[j - 1] * 1 + 0
      BY <1>7, <3>2
    <3>4. D[j - 1] \in Nat
      <4>1. j - 1 \in 0..n
        OBVIOUS
      <4> QED BY <1>7, <4>1
    <3>5. D[j] = D[i]
      BY <2>2, <3>3, <3>4
    <3>6. D[i + (k + 1)] = D[i]
      BY <3>5
    <3> QED BY <2>2, <3>6
  <2>3. \A k \in 0..(n - i) : k \in S
    <3>1. n - i \in Nat
      OBVIOUS
    <3>2. \A k \in 0..(n - i) : k < n - i /\ k \in S => k + 1 \in S
      BY <2>2
    <3> HIDE DEF S
    <3> QED BY <2>1, <3>1, <3>2, UpToAll
  <2>4. n - i \in 0..(n - i) /\ i + (n - i) = n
    OBVIOUS
  <2> QED BY <2>3, <2>4
<1>12. D[i] = V[i - 1] * DivCeil(shape[i], block[i]) + (c[i] \div block[i])
  BY <1>1, <1>5, <1>7, <1>9
<1>13. p \div After(shape, i) = V[i - 1] * shape[i] + c[i]
  BY <1>3 DEF Leading
<1>14. c[i] \div block[i] < DivCeil(shape[i], block[i])
  BY <1>1, <1>3, Ceiling
<1>15. Splits(p \div After(shape, i), shape[i], V[i - 1], c[i])
  BY <1>3, <1>13 DEF Splits
<1>16. Splits(BlockId(shape, block, c), DivCeil(shape[i], block[i]), V[i - 1],
              c[i] \div block[i])
  BY <1>8, <1>11, <1>12, <1>14 DEF Splits
<1> QED BY <1>3, <1>15, <1>16

(* Blocks that Construction::new of src/tensor/sparse_storage.rs calls      *)
(* contiguous are met in order by row-major input, and so are complete when *)
(* the next one begins.                                                     *)
THEOREM ContiguousInOrder ==
  ASSUME NEW shape, NEW block, Fits(shape, block), Contiguous(shape, block),
         NEW p \in PlacesIn(shape), NEW q \in PlacesIn(shape), p <= q
  PROVE  BlockId(shape, block, CoordAt(shape, p)) <= BlockId(shape, block, CoordAt(shape, q))
<1> PICK n \in Nat : n = Len(shape) /\ n = Len(block)
  BY DEF Fits
<1>0. /\ \A i \in 1..n : shape[i] \in Positive /\ block[i] \in Positive
      /\ p \in Nat /\ q \in Nat
  <2>1. Product(shape) \in Nat
    BY AfterOf DEF Fits, Positive
  <2> QED BY <2>1 DEF Fits, PlacesIn
<1>1. CASE Singles(block, n)
  BY <1>1, ScalarBlocks
<1>2. CASE ~Singles(block, n)
  <2> DEFINE S == {k \in 1..n : block[k] # 1}
  <2>1. S \in SUBSET Nat /\ S # {}
    BY <1>2 DEF Singles
  <2> PICK i \in S : \A k \in S : i <= k
    <3> HIDE DEF S
    <3> QED BY <2>1, LeastNumber
  <2>2. i \in 1..n /\ block[i] > 1 /\ Singles(block, i - 1)
    BY <1>0 DEF Positive, Singles
  <2> HIDE DEF S
  <2>3. PICK x \in Nat, a \in Nat :
           /\ Splits(p \div After(shape, i), shape[i], x, a)
           /\ Splits(BlockId(shape, block, CoordAt(shape, p)),
                     DivCeil(shape[i], block[i]), x, a \div block[i])
    BY <2>2, ContiguousBlocks
  <2>4. PICK y \in Nat, e \in Nat :
           /\ Splits(q \div After(shape, i), shape[i], y, e)
           /\ Splits(BlockId(shape, block, CoordAt(shape, q)),
                     DivCeil(shape[i], block[i]), y, e \div block[i])
    BY <2>2, ContiguousBlocks
  <2>5. shape[i] \in Positive /\ block[i] \in Positive /\ shape[i] \in Nat
    BY <1>0, <2>2 DEF Positive
  <2>6. p \div After(shape, i) <= q \div After(shape, i)
    <3>1. After(shape, i) \in Positive
      BY <2>2, AfterOf DEF Fits
    <3> QED BY <1>0, <3>1, DivisionOrdered
  <2>7. DivCeil(shape[i], block[i]) \in Nat
    BY <2>5, Ceiling DEF Positive
  <2>8. p \div After(shape, i) \in Nat /\ q \div After(shape, i) \in Nat
    <3>1. After(shape, i) \in Positive
      BY <2>2, AfterOf DEF Fits
    <3> QED BY <1>0, <3>1, Division
  <2> PICK s \in Nat, m \in Nat, b \in Nat, f \in Nat, u \in Nat, v \in Nat :
         /\ s = shape[i] /\ m = DivCeil(shape[i], block[i])
         /\ b = a \div block[i] /\ f = e \div block[i]
         /\ u = p \div After(shape, i) /\ v = q \div After(shape, i)
    BY <2>5, <2>7, <2>8, Division
  <2> PICK w \in Nat, z \in Nat :
         w = BlockId(shape, block, CoordAt(shape, p)) /\ z = BlockId(shape, block, CoordAt(shape, q))
    <3>1. Below(CoordAt(shape, p), shape) /\ Below(CoordAt(shape, q), shape)
      BY LinearOfAt DEF Fits
    <3> QED BY <3>1, BlockBounded
  <2>9. a <= e => b <= f
    BY <2>5, DivisionOrdered
  <2>10. /\ Splits(u, s, x, a) /\ Splits(w, m, x, b)
         /\ Splits(v, s, y, e) /\ Splits(z, m, y, f)
    BY <2>3, <2>4
  <2>11. u <= v
    BY <2>6
  <2>12. w <= z
    BY ONLY <2>9, <2>10, <2>11, RadixOrdered
  <2> QED BY <2>12
<1> QED BY <1>1, <1>2

--------------------------------------------------------------------------------
(* What a reader of the place would find if the batch were staged and the   *)
(* block at hand written now.                                               *)
Pending(p) ==
  IF EntriesAt(batch, p) # {} THEN Latest(EntriesAt(batch, p)).value
  ELSE IF current.id = Id(p) THEN current.block[Position(p)]
  ELSE ValueAt(p)

GivenAt(p) == IF given[p] = NotGiven THEN Zero ELSE given[p]

GivenPlaces == {p \in Places : given[p] # NotGiven}

(* Entries are numbered in the order in which they came.                    *)
Numbered ==
  /\ \A e \in batch : e.turn <= received
  /\ \A e, f \in batch : e.turn = f.turn => e = f

(* Ordered input is never behind what was given.                            *)
Ascending ==
  input.kind # "copy" =>
    /\ \A e \in batch : e.at < previous
    /\ \A e, f \in batch : e.turn < f.turn => e.at < f.at
    /\ \A p \in Places : p >= previous => given[p] = NotGiven

(* Nothing that was given is lost before it is stored.                      *)
Merged == \A p \in Places : Pending(p) = GivenAt(p)

(* Nothing still to come belongs before the block at hand, and all rows do. *)
BlocksAscend ==
  /\ ~Streams => current.id = NoBlock
  /\ current.id = NoBlock => current.block = Zeros
  /\ Streams /\ current.id # NoBlock =>
       /\ \A e \in batch : current.id <= Id(e.at)
       /\ \A p \in Places : p >= previous => current.id <= Id(p)
  /\ Streams /\ phase \in {"collect", "stage", "finish"} =>
       \A b \in Blocks : store[b] # Missing => current.id # NoBlock /\ b < current.id

ZeroPadded ==
  /\ \A b \in Blocks : store[b] # Missing => \A o \in Padding(b) : store[b][o] = Zero
  /\ current.id # NoBlock => \A o \in Padding(current.id) : current.block[o] = Zero

NoEmptyRow == Sparse => \A b \in Blocks : store[b] # Missing => Nonzero(store[b])

(* A dense block is stored once an element of it is.                        *)
BlocksKept ==
  ~Sparse => \A p \in GivenPlaces : EntriesAt(batch, p) # {} \/ store[Id(p)] # Missing

Counted ==
  /\ input.kind = "values" => previous = received
  /\ ~Sparse /\ ~repeated => Cardinality(GivenPlaces) = received

(* After the end nothing is left to stage or to write.                      *)
Settled ==
  /\ batch = {}
  /\ current.id # NoBlock =>
       store[current.id] = IF Nonzero(current.block) THEN current.block ELSE Missing
  /\ Sparse \/ received = Expected

Staged ==
  /\ phase = "finish" => batch = {}
  /\ phase = "collect" /\ input.kind = "copy" => batch = {}
  /\ phase \in {"publish", "done"} \/ metadata => Settled
  /\ metadata => phase \in {"done", "failed"}

ConstructionInv ==
  /\ TypeOK /\ Numbered /\ Ascending /\ Merged /\ BlocksAscend
  /\ ZeroPadded /\ NoEmptyRow /\ BlocksKept /\ Counted /\ Staged

--------------------------------------------------------------------------------
(* The geometry of an input.                                                *)
LEMMA GeometryOf ==
  ASSUME input \in Inputs
  PROVE  /\ Fits(input.shape, input.block)
         /\ Places = PlacesIn(input.shape)
         /\ Expected \in Positive
         /\ Places \in SUBSET Nat /\ Blocks \in SUBSET Nat
         /\ \A p \in Places : Id(p) \in Blocks /\ Position(p) \in Offsets
         /\ NoBlock \notin Blocks
         /\ Missing \notin [Offsets -> Values]
<1>1. Fits(input.shape, input.block)
  BY ConstructionAssumption DEF Fits, Positive
<1>2. Places = PlacesIn(input.shape)
  BY DEF Places, Expected, PlacesIn
<1>3. Expected \in Positive
  BY <1>1, AfterOf DEF Fits, Expected
<1>4. Places \in SUBSET Nat
  BY <1>3 DEF Places, Positive
<1>5. Blocks \in SUBSET Nat
  <2>1. Grid(input.shape, input.block) \in Seq(Positive)
    BY <1>1, GridOf
  <2>2. BlockCount(input.shape, input.block) \in Positive
    BY <2>1, AfterOf DEF BlockCount
  <2> QED BY <2>2 DEF Blocks, Positive
<1>6. ASSUME NEW p \in Places PROVE Id(p) \in Blocks /\ Position(p) \in Offsets
  <2>1. Below(CoordAt(input.shape, p), input.shape)
    BY <1>1, <1>2, LinearOfAt DEF Fits
  <2> QED BY <1>1, <2>1, BlockBounded DEF Id, Position, Blocks, Offsets
<1>7. NoBlock \notin Blocks
  BY <1>5, ConstructionAssumption
<1>8. Missing \notin [Offsets -> Values]
  BY ConstructionAssumption DEF Offsets
<1> QED BY <1>1, <1>2, <1>3, <1>4, <1>5, <1>6, <1>7, <1>8

(* No two places share an element of a block.                               *)
LEMMA OnePlace ==
  ASSUME input \in Inputs, NEW p \in Places, NEW q \in Places,
         Id(p) = Id(q), Position(p) = Position(q)
  PROVE  p = q
<1>1. /\ input.shape \in Seq(Positive) /\ Fits(input.shape, input.block)
      /\ p \in PlacesIn(input.shape) /\ q \in PlacesIn(input.shape)
  BY GeometryOf DEF Fits
<1>2. /\ Below(CoordAt(input.shape, p), input.shape)
      /\ Below(CoordAt(input.shape, q), input.shape)
      /\ Linear(input.shape, CoordAt(input.shape, p)) = p
      /\ Linear(input.shape, CoordAt(input.shape, q)) = q
  BY <1>1, LinearOfAt
<1>3. /\ BlockId(input.shape, input.block, CoordAt(input.shape, p)) =
           BlockId(input.shape, input.block, CoordAt(input.shape, q))
      /\ Offset(input.block, CoordAt(input.shape, p)) =
           Offset(input.block, CoordAt(input.shape, q))
  BY DEF Id, Position
<1>4. CoordAt(input.shape, p) = CoordAt(input.shape, q)
  BY <1>1, <1>2, <1>3, BlocksDisjoint
<1> QED BY <1>2, <1>4

(* Every block has a place, and streamed places reach blocks in order.      *)
LEMMA BlocksReached ==
  ASSUME input \in Inputs
  PROVE  /\ \A b \in Blocks : \E p \in Places : Id(p) = b
         /\ Streams => \A p, q \in Places : p <= q => Id(p) <= Id(q)
<1>1. Fits(input.shape, input.block) /\ Places = PlacesIn(input.shape)
  BY GeometryOf
<1>2. \A b \in Blocks : \E p \in Places : Id(p) = b
  BY <1>1, BlocksInhabited DEF Blocks, Id
<1>3. Streams => \A p, q \in Places : p <= q => Id(p) <= Id(q)
  BY <1>1, ContiguousInOrder DEF Streams, Id
<1> QED BY <1>2, <1>3

(* The input does not change, and neither does what is computed from it.    *)
SameGeometry ==
  /\ Places' = Places /\ Blocks' = Blocks /\ Offsets' = Offsets /\ Zeros' = Zeros
  /\ Expected' = Expected
  /\ Sparse' = Sparse /\ Streams' = Streams
  /\ \A p : Id(p)' = Id(p) /\ Position(p)' = Position(p)
  /\ \A b : Padding(b)' = Padding(b)

(* What is computed from the input stays while the input does.              *)
LEMMA GeometryKept ==
  ASSUME input' = input
  PROVE  SameGeometry
<1>1. Expected' = Expected /\ Places' = Places /\ Blocks' = Blocks /\ Offsets' = Offsets
  BY DEF Expected, Places, Blocks, Offsets
<1>2. Zeros' = Zeros
  BY <1>1 DEF Zeros
<1>3. Sparse' = Sparse
  BY DEF Sparse
<1>4. Streams' = Streams
  BY <1>3 DEF Streams
<1>5. \A p : Id(p)' = Id(p) /\ Position(p)' = Position(p)
  BY DEF Id, Position
<1>6. ASSUME NEW b PROVE Padding(b)' = Padding(b)
  BY <1>1, <1>5 DEF Padding
<1> QED BY <1>1, <1>2, <1>3, <1>4, <1>5, <1>6 DEF SameGeometry

--------------------------------------------------------------------------------
(* Entries with numbers up to n have a latest one.                          *)
LEMMA LatestOf ==
  ASSUME NEW A, NEW V, NEW entries \in SUBSET [turn : Nat, at : A, value : V],
         NEW n \in Nat, \A e \in entries : e.turn <= n, entries # {}
  PROVE  /\ Latest(entries) \in entries
         /\ \A f \in entries : f.turn <= Latest(entries).turn
<1> DEFINE S == {n - e.turn : e \in entries}
<1>1. \A e \in entries : e.turn \in Nat /\ n - e.turn \in Nat
  OBVIOUS
<1>2. S \in SUBSET Nat /\ S # {}
  BY <1>1
<1>3. PICK x \in S : \A y \in S : x <= y
  <2> HIDE DEF S
  <2> QED BY <1>2, LeastNumber
<1>4. PICK e \in entries : x = n - e.turn
  OBVIOUS
<1>5. \A f \in entries : n - e.turn <= n - f.turn
  BY <1>3, <1>4
<1>6. \A f \in entries : f.turn <= e.turn
  BY <1>1, <1>5
<1> QED BY <1>6 DEF Latest

(* Steps that end a batch, the source or the construction leave what was    *)
(* given, staged and stored alone.                                          *)
Building(p) == p \in {"collect", "stage", "finish"}

(* A step that leaves what was given, staged and stored alone keeps the     *)
(* invariant.                                                               *)
LEMMA QuietNext ==
  ASSUME ConstructionInv, input' = input,
         UNCHANGED <<batch, previous, received, current, store, given, repeated>>,
         phase' \in {"collect", "stage", "finish", "publish", "done", "failed"},
         eof' \in BOOLEAN, metadata' \in BOOLEAN,
         Building(phase') => Building(phase),
         Staged'
  PROVE  ConstructionInv'
<1>0. /\ SameGeometry
      /\ batch' = batch /\ previous' = previous /\ received' = received
      /\ current' = current /\ store' = store /\ given' = given /\ repeated' = repeated
  BY GeometryKept
<1>1. TypeOK'
  BY <1>0 DEF ConstructionInv, TypeOK, SameGeometry
<1>2. Numbered'
  BY <1>0 DEF ConstructionInv, Numbered
<1>3. Ascending'
  BY <1>0 DEF ConstructionInv, Ascending, SameGeometry
<1>4. Merged'
  BY <1>0 DEF ConstructionInv, Merged, Pending, GivenAt, ValueAt, SameGeometry
<1>5. BlocksAscend'
  BY <1>0 DEF ConstructionInv, BlocksAscend, SameGeometry, Building
<1>6. ZeroPadded'
  BY <1>0 DEF ConstructionInv, ZeroPadded, SameGeometry
<1>7. NoEmptyRow'
  BY <1>0 DEF ConstructionInv, NoEmptyRow, SameGeometry
<1>8. BlocksKept'
  BY <1>0 DEF ConstructionInv, BlocksKept, GivenPlaces, SameGeometry
<1>9. Counted'
  BY <1>0 DEF ConstructionInv, Counted, GivenPlaces, SameGeometry
<1> QED BY <1>1, <1>2, <1>3, <1>4, <1>5, <1>6, <1>7, <1>8, <1>9 DEF ConstructionInv

(* What an invariant of types says of each variable.                        *)
LEMMA Types ==
  ASSUME ConstructionInv
  PROVE  /\ input \in Inputs
         /\ batch \in SUBSET [turn : Nat, at : Places, value : Values]
         /\ previous \in Nat /\ received \in Nat
         /\ current.id \in Blocks \union {NoBlock} /\ current.block \in [Offsets -> Values]
         /\ \A b \in Blocks : store[b] \in [Offsets -> Values] \union {Missing}
         /\ \A p \in Places : given[p] \in Values \union {NotGiven}
         /\ NotGiven \notin Values /\ Zero \in Values
         /\ Places \in SUBSET Nat /\ Blocks \in SUBSET Nat
         /\ NoBlock \notin Blocks /\ Missing \notin [Offsets -> Values]
         /\ \A p \in Places : Id(p) \in Blocks /\ Position(p) \in Offsets
<1>1. TypeOK
  BY DEF ConstructionInv
<1>2. input \in Inputs
  BY <1>1 DEF TypeOK
<1>3. current.id \in Blocks \union {NoBlock} /\ current.block \in [Offsets -> Values]
  BY <1>1 DEF TypeOK
<1>4. NotGiven \notin Values /\ Zero \in Values
  BY ConstructionAssumption
<1>5. /\ Places \in SUBSET Nat /\ Blocks \in SUBSET Nat
      /\ NoBlock \notin Blocks /\ Missing \notin [Offsets -> Values]
      /\ \A p \in Places : Id(p) \in Blocks /\ Position(p) \in Offsets
  BY <1>2, GeometryOf
<1>6. batch \in SUBSET [turn : Nat, at : Places, value : Values]
  BY <1>1 DEF TypeOK
<1>7. previous \in Nat /\ received \in Nat
  BY <1>1 DEF TypeOK
<1>8. /\ \A b \in Blocks : store[b] \in [Offsets -> Values] \union {Missing}
      /\ \A p \in Places : given[p] \in Values \union {NotGiven}
  BY <1>1 DEF TypeOK
<1> QED BY <1>2, <1>3, <1>4, <1>5, <1>6, <1>7, <1>8

(* There are finitely many places, and as many as elements are expected.    *)
LEMMA PlacesFinite ==
  ASSUME input \in Inputs
  PROVE  /\ IsFiniteSet(Places) /\ Cardinality(Places) = Expected
         /\ IsFiniteSet(GivenPlaces)
<1>1. Expected \in Nat /\ Expected > 0
  BY GeometryOf DEF Positive
<1>2. IsFiniteSet(Places) /\ Cardinality(Places) = Expected
  <2>1. IsFiniteSet(0..(Expected - 1)) /\ Cardinality(0..(Expected - 1)) = (Expected - 1) - 0 + 1
    <3>1. 0 \in Int /\ Expected - 1 \in Int /\ ~(0 > Expected - 1)
      BY <1>1
    <3> QED BY <3>1, FS_Interval
  <2> QED BY <1>1, <2>1 DEF Places
<1>3. IsFiniteSet(GivenPlaces)
  <2>1. GivenPlaces \in SUBSET Places
    BY DEF GivenPlaces
  <2> QED BY <1>2, <2>1, FS_Subset
<1> QED BY <1>2, <1>3

(* One entry is the latest of itself.                                       *)
LEMMA LatestOne ==
  ASSUME NEW e, e.turn \in Nat
  PROVE  Latest({e}) = e
BY DEF Latest

(* Ordered entries come after all that was given.                           *)
LEMMA TakeNext ==
  ASSUME ConstructionInv, phase = "collect", input.kind # "copy",
         NEW p \in Places, NEW v \in Values, p >= previous,
         input.kind = "values" => p = received,
         Take(p, v)
  PROVE  ConstructionInv'
<1> DEFINE new == [turn |-> received + 1, at |-> p, value |-> v]
<1>0. /\ input' = input /\ phase' = phase /\ eof' = eof /\ current' = current
      /\ store' = store /\ metadata' = metadata /\ repeated' = repeated
      /\ batch' = batch \union {new}
      /\ given' = [given EXCEPT ![p] = v]
      /\ previous' = p + 1 /\ received' = received + 1
  BY DEF Take
<1>1. SameGeometry
  BY <1>0, GeometryKept
<1>2. TypeOK /\ Numbered /\ Ascending /\ Merged /\ BlocksAscend
  BY DEF ConstructionInv
<1>3. ZeroPadded /\ NoEmptyRow /\ BlocksKept /\ Counted /\ Staged
  BY DEF ConstructionInv
<1>4. p \in Nat
  BY Types
<1>5. new.turn = received + 1 /\ new.at = p /\ new.value = v /\ received + 1 \in Nat
  BY Types
<1>6. new \in [turn : Nat, at : Places, value : Values]
  BY <1>5
<1> HIDE DEF new
<1>7. \A e \in batch : e.turn \in Nat /\ e.at \in Nat /\ e.turn <= received /\ e.at < previous
  <2>1. \A e \in batch : e.turn \in Nat /\ e.at \in Places
    BY Types
  <2> QED BY <1>2, <2>1, Types DEF Numbered, Ascending
<1>8. /\ given'[p] = v
      /\ \A q \in Places : q # p => given'[q] = given[q]
  BY <1>0, <1>2 DEF TypeOK
<1>9. /\ EntriesAt(batch', p) = {new}
      /\ \A q : q # p => EntriesAt(batch', q) = EntriesAt(batch, q)
  <2>1. \A e \in batch : e.at # p
    BY <1>4, <1>7, Types
  <2> QED BY <1>0, <1>5, <2>1 DEF EntriesAt
<1>10. TypeOK'
  <2>1. batch' \in SUBSET [turn : Nat, at : Places, value : Values]
    BY <1>0, <1>6, Types
  <2>2. given' \in [Places -> Values \union {NotGiven}]
    BY <1>0, <1>2 DEF TypeOK
  <2>3. previous' \in Nat /\ received' \in Nat
    BY <1>0, <1>4, Types
  <2> QED BY <1>0, <1>1, <1>2, <2>1, <2>2, <2>3 DEF TypeOK, SameGeometry
<1>11. Numbered'
  <2>1. \A e \in batch' : e.turn <= received'
    BY <1>0, <1>5, <1>7, Types
  <2>2. ASSUME NEW e \in batch', NEW f \in batch', e.turn = f.turn PROVE e = f
    <3>1. \A d \in batch : d.turn # new.turn
      BY <1>5, <1>7, Types
    <3> QED BY <1>0, <1>2, <2>2, <3>1 DEF Numbered
  <2> QED BY <2>1, <2>2 DEF Numbered
<1>12. Ascending'
  <2>1. \A e \in batch' : e.at < previous'
    BY <1>0, <1>4, <1>5, <1>7, Types
  <2>2. ASSUME NEW e \in batch', NEW f \in batch', e.turn < f.turn PROVE e.at < f.at
    <3>1. CASE e \in batch /\ f \in batch
      BY <1>2, <2>2, <3>1 DEF Ascending
    <3>2. CASE e \in batch /\ f = new
      BY <1>4, <1>5, <1>7, <3>2, Types
    <3>3. CASE e = new
      BY <1>0, <1>5, <1>7, <2>2, <3>3, Types
    <3> QED BY <1>0, <3>1, <3>2, <3>3
  <2>3. ASSUME NEW q \in Places, q >= p + 1 PROVE given'[q] = NotGiven
    <3>1. q \in Nat /\ q # p /\ q >= previous
      BY <1>4, <2>3, Types
    <3> QED BY <1>2, <1>8, <3>1 DEF Ascending
  <2> QED BY <1>0, <1>1, <2>1, <2>2, <2>3 DEF Ascending, SameGeometry
<1>13. Merged'
  <2> SUFFICES ASSUME NEW q \in Places PROVE Pending(q)' = GivenAt(q)'
    BY <1>1 DEF Merged, SameGeometry
  <2>1. CASE q = p
    <3>1. Latest(EntriesAt(batch', q)) = new
      BY <1>5, <1>9, <2>1, LatestOne
    <3>2. Pending(q)' = v
      BY <1>5, <1>9, <2>1, <3>1 DEF Pending
    <3>3. GivenAt(q)' = v
      BY <1>8, <2>1, Types DEF GivenAt
    <3> QED BY <3>2, <3>3
  <2>2. CASE q # p
    <3>1. Pending(q)' = Pending(q)
      BY <1>0, <1>1, <1>9, <2>2 DEF Pending, ValueAt, SameGeometry
    <3>2. GivenAt(q)' = GivenAt(q)
      BY <1>8, <2>2 DEF GivenAt
    <3> QED BY <1>2, <3>1, <3>2 DEF Merged
  <2> QED BY <2>1, <2>2
<1>14. BlocksAscend'
  <2>1. Streams /\ current.id # NoBlock =>
          /\ \A e \in batch' : current.id <= Id(e.at)
          /\ \A q \in Places : q >= p + 1 => current.id <= Id(q)
    <3> SUFFICES ASSUME Streams, current.id # NoBlock
                 PROVE  /\ \A e \in batch' : current.id <= Id(e.at)
                        /\ \A q \in Places : q >= p + 1 => current.id <= Id(q)
      OBVIOUS
    <3>1. \A q \in Places : q >= previous => current.id <= Id(q)
      BY <1>2 DEF BlocksAscend
    <3>2. \A e \in batch : current.id <= Id(e.at)
      BY <1>2 DEF BlocksAscend
    <3>3. current.id <= Id(new.at)
      BY <1>5, <3>1
    <3>4. \A q \in Places : q >= p + 1 => q >= previous
      BY <1>4, Types
    <3> QED BY <1>0, <3>1, <3>2, <3>3, <3>4
  <2> QED BY <1>0, <1>1, <1>2, <2>1 DEF BlocksAscend, SameGeometry
<1>15. ZeroPadded' /\ NoEmptyRow'
  BY <1>0, <1>1, <1>3 DEF ZeroPadded, NoEmptyRow, SameGeometry
<1>16. GivenPlaces' = GivenPlaces \union {p}
  BY <1>1, <1>8, Types DEF GivenPlaces, SameGeometry
<1>17. BlocksKept'
  <2> SUFFICES ASSUME ~Sparse, NEW q \in GivenPlaces'
               PROVE  EntriesAt(batch', q) # {} \/ store[Id(q)] # Missing
    BY <1>0, <1>1 DEF BlocksKept, SameGeometry
  <2>1. CASE q = p
    BY <1>9, <2>1
  <2>2. CASE q # p
    <3>1. q \in GivenPlaces
      BY <1>16, <2>2
    <3> QED BY <1>3, <1>9, <2>2, <3>1 DEF BlocksKept
  <2> QED BY <2>1, <2>2
<1>18. Counted'
  <2>1. input.kind = "values" => p + 1 = received + 1
    OBVIOUS
  <2>2. p \notin GivenPlaces
    BY <1>2, Types DEF Ascending, GivenPlaces
  <2>3. Cardinality(GivenPlaces \union {p}) = Cardinality(GivenPlaces) + 1
    BY <2>2, PlacesFinite, FS_AddElement, Types
  <2> QED BY <1>0, <1>1, <1>3, <1>16, <2>1, <2>3 DEF Counted, SameGeometry
<1>19. Staged'
  BY <1>0, <1>1, <1>3 DEF Staged
<1> QED BY <1>10, <1>11, <1>12, <1>13, <1>14, <1>15, <1>17, <1>18, <1>19 DEF ConstructionInv

(* A block of entries of different places that had no value gives as many.  *)
Adds(old, n, at) ==
  /\ \A k \in 1..n : at[k] \notin old
  /\ \A j, k \in 1..n : at[j] = at[k] => j = k

(* Adding n new places to a finite set gives n more of them.                *)
LEMMA GivenMore ==
  ASSUME NEW old, IsFiniteSet(old), NEW n \in Nat, NEW at, Adds(old, n, at)
  PROVE  Cardinality(old \union {at[k] : k \in 1..n}) = Cardinality(old) + n
<1> DEFINE some == {at[k] : k \in 1..n}
           f == [k \in 1..n |-> at[k]]
<1>1. f \in Bijection(1..n, some)
  <2>1. f \in Surjection(1..n, some)
    BY DEF Surjection
  <2>2. f \in Injection(1..n, some)
    BY DEF Injection, IsInjective, Adds
  <2> QED BY <2>1, <2>2 DEF Bijection
<1>2. IsFiniteSet(some) /\ Cardinality(some) = n
  <2>1. ExistsBijection(1..n, some)
    BY <1>1 DEF ExistsBijection
  <2>2. IsFiniteSet(1..n)
    BY FS_Interval
  <2>3. IsFiniteSet(some)
    <3> HIDE DEF some
    <3> QED BY <2>1, <2>2, FS_Bijection
  <2>4. Cardinality(some) = n
    <3> HIDE DEF some
    <3> QED BY <2>1, FS_CountingElements
  <2> QED BY <2>3, <2>4
<1>3. old \cap some = {}
  BY DEF Adds
<1> HIDE DEF some
<1>4. Cardinality(old \union some) = Cardinality(old) + Cardinality(some) - Cardinality(old \cap some)
  BY <1>2, FS_Union
<1>5. Cardinality(old \cap some) = 0 /\ Cardinality(old) \in Nat
  BY <1>3, FS_EmptySet, FS_CardinalityType
<1> QED BY <1>2, <1>4, <1>5 DEF some

(* A copied block may hold anything.                                        *)
LEMMA TakeBlockNext ==
  ASSUME ConstructionInv, TakeBlock
  PROVE  ConstructionInv'
<1>0. /\ input' = input /\ phase = "collect" /\ phase' = "stage" /\ eof' = eof
      /\ previous' = previous /\ current' = current /\ store' = store
      /\ metadata' = metadata /\ input.kind = "copy"
      /\ given' = [p \in Places |-> IF EntriesAt(batch', p) = {} THEN given[p]
                                    ELSE Latest(EntriesAt(batch', p)).value]
      /\ repeated' = (repeated \/ \E e \in batch' : \/ given[e.at] # NotGiven
                                                     \/ EntriesAt(batch', e.at) # {e})
  BY DEF TakeBlock, Collects
<1>1. SameGeometry
  BY <1>0, GeometryKept
<1>2. TypeOK /\ Merged /\ BlocksAscend /\ batch = {}
  BY <1>0 DEF ConstructionInv, Staged
<1>3. ZeroPadded /\ NoEmptyRow /\ BlocksKept /\ Counted /\ Staged
  BY DEF ConstructionInv
<1>4. PICK n \in Nat :
        /\ \E at \in [1..n -> Places], value \in [1..n -> Values] :
             batch' = {[turn |-> received + k, at |-> at[k], value |-> value[k]] : k \in 1..n}
        /\ received' = received + n
  BY ConstructionAssumption DEF TakeBlock
<1> PICK at \in [1..n -> Places], value \in [1..n -> Values] :
       batch' = {[turn |-> received + k, at |-> at[k], value |-> value[k]] : k \in 1..n}
  BY <1>4
<1> DEFINE entry(k) == [turn |-> received + k, at |-> at[k], value |-> value[k]]
<1>5. ASSUME NEW k \in 1..n
      PROVE  /\ entry(k) \in [turn : Nat, at : Places, value : Values]
             /\ entry(k).turn = received + k /\ entry(k).at = at[k]
             /\ entry(k).turn <= received + n
  BY Types
<1>6. \A e \in batch' : \E k \in 1..n : e = entry(k)
  OBVIOUS
<1>7. \A k \in 1..n : entry(k) \in batch'
  OBVIOUS
<1> HIDE DEF entry
<1>8. batch' \in SUBSET [turn : Nat, at : Places, value : Values]
  BY <1>5, <1>6
<1>9. received' \in Nat /\ \A e \in batch' : e.turn <= received'
  BY <1>4, <1>5, <1>6, Types
<1>10. Numbered'
  <2>1. ASSUME NEW e \in batch', NEW f \in batch', e.turn = f.turn PROVE e = f
    <3> PICK j \in 1..n, k \in 1..n : e = entry(j) /\ f = entry(k)
      BY <1>6
    <3>1. received + j = received + k
      BY <1>5, <2>1
    <3>2. j = k
      BY <3>1, Types
    <3> QED BY <3>2
  <2> QED BY <1>9, <2>1 DEF Numbered
<1>11. ASSUME NEW p \in Places, EntriesAt(batch', p) # {}
       PROVE  Latest(EntriesAt(batch', p)).value \in Values
  <2>1. EntriesAt(batch', p) \in SUBSET [turn : Nat, at : Places, value : Values]
    BY <1>8 DEF EntriesAt
  <2>2. \A e \in EntriesAt(batch', p) : e.turn <= received'
    BY <1>9 DEF EntriesAt
  <2>3. Latest(EntriesAt(batch', p)) \in EntriesAt(batch', p)
    BY <1>9, <1>11, <2>1, <2>2, LatestOf
  <2> QED BY <2>1, <2>3
<1>12. /\ \A p \in Places : EntriesAt(batch', p) = {} => given'[p] = given[p]
       /\ \A p \in Places : EntriesAt(batch', p) # {} =>
            given'[p] = Latest(EntriesAt(batch', p)).value /\ given'[p] \in Values
  BY <1>0, <1>11
<1>13. TypeOK'
  <2>1. given' \in [Places -> Values \union {NotGiven}]
    BY <1>0, <1>12, Types
  <2>2. repeated' \in BOOLEAN
    BY <1>0, <1>2 DEF TypeOK
  <2> QED BY <1>0, <1>1, <1>2, <1>8, <1>9, <2>1, <2>2 DEF TypeOK, SameGeometry
<1>14. Ascending'
  BY <1>0 DEF Ascending
<1>15. \A p : EntriesAt(batch, p) = {}
  BY <1>2 DEF EntriesAt
<1>16. Merged'
  <2> SUFFICES ASSUME NEW p \in Places PROVE Pending(p)' = GivenAt(p)'
    BY <1>1 DEF Merged, SameGeometry
  <2>1. CASE EntriesAt(batch', p) # {}
    BY <1>12, <2>1, Types DEF Pending, GivenAt
  <2>2. CASE EntriesAt(batch', p) = {}
    <3>1. Pending(p)' = Pending(p)
      BY <1>0, <1>1, <1>15, <2>2 DEF Pending, ValueAt, SameGeometry
    <3>2. GivenAt(p)' = GivenAt(p)
      BY <1>12, <2>2 DEF GivenAt
    <3> QED BY <1>2, <3>1, <3>2 DEF Merged
  <2> QED BY <2>1, <2>2
<1>17. ~Streams
  BY <1>0 DEF Streams, Sparse
<1>18. BlocksAscend'
  BY <1>0, <1>1, <1>2, <1>17 DEF BlocksAscend, SameGeometry
<1>19. ZeroPadded' /\ NoEmptyRow'
  BY <1>0, <1>1, <1>3 DEF ZeroPadded, NoEmptyRow, SameGeometry
<1>20. BlocksKept'
  <2> SUFFICES ASSUME ~Sparse, NEW p \in GivenPlaces', EntriesAt(batch', p) = {}
               PROVE  store[Id(p)] # Missing
    BY <1>0, <1>1 DEF BlocksKept, SameGeometry
  <2>1. p \in GivenPlaces
    BY <1>1, <1>12 DEF GivenPlaces, SameGeometry
  <2> QED BY <1>3, <1>15, <2>1 DEF BlocksKept
<1>21. Counted'
  <2> SUFFICES ASSUME ~Sparse, ~repeated' PROVE Cardinality(GivenPlaces') = received'
    BY <1>0, <1>1 DEF Counted, SameGeometry
  <2>1. /\ ~repeated
        /\ \A e \in batch' : given[e.at] = NotGiven /\ EntriesAt(batch', e.at) = {e}
    BY <1>0
  <2>2. Cardinality(GivenPlaces) = received
    BY <1>3, <2>1 DEF Counted
  <2>3. ASSUME NEW k \in 1..n PROVE at[k] \notin GivenPlaces
    <3>1. given[entry(k).at] = NotGiven /\ entry(k).at = at[k]
      BY <1>5, <1>7, <2>1
    <3> QED BY <3>1 DEF GivenPlaces
  <2>4. ASSUME NEW j \in 1..n, NEW k \in 1..n, at[j] = at[k] PROVE j = k
    <3>1. entry(j) \in EntriesAt(batch', entry(k).at)
      BY <1>5, <1>7, <2>4 DEF EntriesAt
    <3>2. entry(j) = entry(k)
      BY <1>7, <2>1, <3>1
    <3>3. received + j = received + k
      BY <1>5, <3>2
    <3> QED BY <3>3, Types
  <2>5. GivenPlaces' = GivenPlaces \union {at[k] : k \in 1..n}
    <3>1. \A p \in Places : EntriesAt(batch', p) # {} <=> \E k \in 1..n : at[k] = p
      BY <1>5, <1>6, <1>7 DEF EntriesAt
    <3>2. \A p \in Places : given'[p] # NotGiven <=>
            given[p] # NotGiven \/ \E k \in 1..n : at[k] = p
      BY <1>12, <2>3, <3>1, Types DEF GivenPlaces
    <3>3. \A k \in 1..n : at[k] \in Places
      OBVIOUS
    <3> QED BY <1>1, <3>2, <3>3 DEF GivenPlaces, SameGeometry
  <2>6. Cardinality(GivenPlaces \union {at[k] : k \in 1..n}) = Cardinality(GivenPlaces) + n
    <3>1. IsFiniteSet(GivenPlaces)
      BY PlacesFinite, Types
    <3>2. Adds(GivenPlaces, n, at)
      BY <2>3, <2>4 DEF Adds
    <3> QED BY <3>1, <3>2, GivenMore
  <2> QED BY <1>4, <2>2, <2>5, <2>6
<1>22. Staged'
  BY <1>0, <1>1, <1>3 DEF Staged
<1> QED BY <1>10, <1>13, <1>14, <1>16, <1>18, <1>19, <1>20, <1>21, <1>22 DEF ConstructionInv

(* Staging an ordered entry moves it to the block at hand, after that block *)
(* was appended if it is another.                                           *)
LEMMA StageElementNext ==
  ASSUME ConstructionInv, StageElement
  PROVE  ConstructionInv'
<1>0. /\ input' = input /\ phase = "stage" /\ phase' = phase /\ eof' = eof
      /\ previous' = previous /\ received' = received /\ metadata' = metadata
      /\ given' = given /\ repeated' = repeated /\ Streams
  BY DEF StageElement
<1>1. SameGeometry
  BY <1>0, GeometryKept
<1>2. TypeOK /\ Numbered /\ Ascending /\ Merged /\ BlocksAscend
  BY DEF ConstructionInv
<1>3. ZeroPadded /\ NoEmptyRow /\ Staged
  BY DEF ConstructionInv
<1>4. Sparse /\ input.kind = "elements"
  BY <1>0 DEF Streams, Sparse
<1>5. PICK entry \in batch :
        /\ \A e \in batch : entry.turn <= e.turn
        /\ current' = [id |-> Id(entry.at),
                       block |-> [(IF current.id \notin {NoBlock, Id(entry.at)} THEN Zeros
                                   ELSE current.block)
                                  EXCEPT ![Position(entry.at)] = entry.value]]
        /\ store' = IF current.id \notin {NoBlock, Id(entry.at)} /\ Nonzero(current.block)
                    THEN [store EXCEPT ![current.id] = current.block] ELSE store
        /\ batch' = batch \ {entry}
  BY DEF StageElement
<1> PICK id : id = Id(entry.at)
  OBVIOUS
<1> PICK at : at = entry.at
  OBVIOUS
<1> PICK turns : turns = (current.id \notin {NoBlock, id})
  OBVIOUS
<1> PICK block : block = IF turns THEN Zeros ELSE current.block
  OBVIOUS
<1>6. /\ at \in Places /\ entry.value \in Values /\ entry.turn \in Nat
      /\ id \in Blocks /\ Position(at) \in Offsets /\ id = Id(at)
  <2>1. entry.at \in Places /\ entry.value \in Values /\ entry.turn \in Nat
    BY Types
  <2> QED BY <2>1, Types
<1>7. /\ Zeros \in [Offsets -> Values] /\ \A o \in Offsets : Zeros[o] = Zero
      /\ block \in [Offsets -> Values]
  <2>1. Zeros \in [Offsets -> Values] /\ \A o \in Offsets : Zeros[o] = Zero
    BY Types DEF Zeros
  <2> QED BY <2>1, Types
<1>8. /\ current'.id = id
      /\ current'.block = [block EXCEPT ![Position(at)] = entry.value]
  BY <1>5
<1>9. /\ current'.block \in [Offsets -> Values]
      /\ current'.block[Position(at)] = entry.value
      /\ \A o \in Offsets : o # Position(at) => current'.block[o] = block[o]
  BY <1>6, <1>7, <1>8
<1>10. /\ current.id # NoBlock => current.id \in Blocks /\ current.id <= id
       /\ \A b \in Blocks : store[b] # Missing => current.id # NoBlock /\ b < current.id
  BY <1>0, <1>2, <1>6, Types DEF BlocksAscend
<1>11. turns => current.id \in Blocks /\ current.id < id
  <2>1. turns => current.id # NoBlock /\ current.id # id
    OBVIOUS
  <2>2. current.id # NoBlock => current.id \in Nat /\ id \in Nat
    BY <1>6, <1>10, Types
  <2> QED BY <1>10, <2>1, <2>2
<1>12. /\ \A b \in Blocks : ~(turns /\ b = current.id) => store'[b] = store[b]
       /\ turns /\ Nonzero(current.block) => store'[current.id] = current.block
       /\ ~Nonzero(current.block) => store' = store
  BY <1>2, <1>5, <1>11 DEF TypeOK
<1>13. \A b \in Blocks : store[b] # Missing => b < id
  BY <1>6, <1>10, Types
<1>14. \A b \in Blocks : store'[b] # Missing => b < id
  BY <1>11, <1>12, <1>13
<1>15. store[id] = Missing /\ store'[id] = Missing
  BY <1>6, <1>13, <1>14, Types
<1>16. \A e \in batch : e # entry => at < e.at /\ e.at \in Places
  <2> SUFFICES ASSUME NEW e \in batch, e # entry PROVE at < e.at /\ e.at \in Places
    OBVIOUS
  <2>1. e.turn \in Nat /\ e.at \in Places
    BY Types
  <2>2. e.turn # entry.turn
    BY <1>2 DEF Numbered
  <2>3. entry.turn < e.turn
    BY <1>5, <1>6, <2>1, <2>2
  <2> QED BY <1>2, <1>4, <2>1, <2>3 DEF Ascending
<1>17. /\ EntriesAt(batch, at) = {entry} /\ EntriesAt(batch', at) = {}
       /\ \A q : q # at => EntriesAt(batch', q) = EntriesAt(batch, q)
  <2>1. \A e \in batch : e # entry => e.at # at
    BY <1>6, <1>16, Types
  <2> QED BY <1>5, <2>1 DEF EntriesAt
<1>18. TypeOK'
  <2>1. batch' \in SUBSET [turn : Nat, at : Places, value : Values]
    BY <1>5, Types
  <2>2. current' \in [id : Blocks \union {NoBlock}, block : [Offsets -> Values]]
    BY <1>5, <1>6, <1>8, <1>9
  <2>3. store' \in [Blocks -> [Offsets -> Values] \union {Missing}]
    BY <1>2, <1>5, Types DEF TypeOK
  <2> QED BY <1>0, <1>1, <1>2, <2>1, <2>2, <2>3 DEF TypeOK, SameGeometry
<1>19. Numbered'
  BY <1>0, <1>2, <1>5 DEF Numbered
<1>20. Ascending'
  BY <1>0, <1>1, <1>2, <1>5 DEF Ascending, SameGeometry
<1>21. Merged'
  <2> SUFFICES ASSUME NEW q \in Places PROVE Pending(q)' = GivenAt(q)'
    BY <1>1 DEF Merged, SameGeometry
  <2>0. GivenAt(q)' = GivenAt(q) /\ Pending(q) = GivenAt(q)
    BY <1>0, <1>2 DEF GivenAt, Merged
  <2>1. CASE q = at
    <3>1. Pending(q) = entry.value
      BY <1>6, <1>17, <2>1, LatestOne DEF Pending
    <3>2. Pending(q)' = entry.value
      BY <1>1, <1>6, <1>8, <1>9, <1>17, <2>1 DEF Pending, SameGeometry
    <3> QED BY <2>0, <3>1, <3>2
  <2>2. CASE q # at /\ EntriesAt(batch, q) # {}
    <3>1. Pending(q)' = Pending(q)
      BY <1>17, <2>2 DEF Pending
    <3> QED BY <2>0, <3>1
  <2>3. CASE q # at /\ EntriesAt(batch, q) = {} /\ Id(q) = id
    <3>1. Position(q) # Position(at) /\ Position(q) \in Offsets
      BY <1>6, <2>3, OnePlace, Types
    <3>2. Pending(q)' = block[Position(q)]
      BY <1>1, <1>8, <1>9, <1>17, <2>3, <3>1 DEF Pending, SameGeometry
    <3>3. CASE current.id = id
      <4>1. ~turns
        BY <3>3
      <4>2. Pending(q) = current.block[Position(q)]
        BY <2>3, <3>3 DEF Pending
      <4> QED BY <2>0, <3>2, <4>1, <4>2
    <3>4. CASE current.id # id
      <4>1. block = Zeros
        BY <1>2, <3>4 DEF BlocksAscend
      <4>2. Pending(q) = Zero
        BY <1>15, <2>3, <3>4 DEF Pending, ValueAt
      <4> QED BY <1>7, <2>0, <3>1, <3>2, <4>1, <4>2
    <3> QED BY <3>3, <3>4
  <2>4. CASE q # at /\ EntriesAt(batch, q) = {} /\ Id(q) # id
    <3>1. Pending(q)' = IF store'[Id(q)] = Missing THEN Zero ELSE store'[Id(q)][Position(q)]
      BY <1>1, <1>8, <1>17, <2>4 DEF Pending, ValueAt, SameGeometry
    <3>2. Id(q) \in Blocks /\ Position(q) \in Offsets
      BY Types
    <3>3. CASE Id(q) = current.id
      <4>1. turns
        BY <2>4, <3>2, <3>3, Types
      <4>2. Pending(q) = current.block[Position(q)]
        BY <2>4, <3>3 DEF Pending
      <4>3. CASE Nonzero(current.block)
        <5>1. store'[Id(q)] = current.block /\ current.block # Missing
          BY <1>12, <3>3, <4>1, <4>3, Types
        <5> QED BY <2>0, <3>1, <4>2, <5>1
      <4>4. CASE ~Nonzero(current.block)
        <5>1. current.block[Position(q)] = Zero
          BY <3>2, <4>4, Types DEF Nonzero
        <5>2. store'[Id(q)] = Missing
          <6>1. store[current.id] = Missing
            BY <1>10, <1>11, <4>1, Types
          <6> QED BY <1>12, <3>3, <4>4, <6>1
        <5> QED BY <2>0, <3>1, <4>2, <5>1, <5>2
      <4> QED BY <4>3, <4>4
    <3>4. CASE Id(q) # current.id
      <4>1. store'[Id(q)] = store[Id(q)]
        BY <1>12, <3>2, <3>4
      <4>2. Pending(q) = IF store[Id(q)] = Missing THEN Zero ELSE store[Id(q)][Position(q)]
        BY <2>4, <3>4 DEF Pending, ValueAt
      <4> QED BY <2>0, <3>1, <4>1, <4>2
    <3> QED BY <3>3, <3>4
  <2> QED BY <2>1, <2>2, <2>3, <2>4
<1>22. BlocksAscend'
  <2>1. \A e \in batch' : id <= Id(e.at)
    BY <1>0, <1>5, <1>6, <1>16, BlocksReached, Types
  <2>2. ASSUME NEW q \in Places, q >= previous PROVE id <= Id(q)
    <3>1. at < previous
      BY <1>2, <1>4 DEF Ascending
    <3>2. at <= q
      BY <1>6, <2>2, <3>1, Types
    <3> QED BY <1>0, <1>6, <3>2, BlocksReached, Types
  <2>3. id # NoBlock
    BY <1>6, Types
  <2> QED BY <1>0, <1>1, <1>8, <1>14, <2>1, <2>2, <2>3 DEF BlocksAscend, SameGeometry
<1>23. ZeroPadded'
  <2>1. ASSUME NEW b \in Blocks, store'[b] # Missing, NEW o \in Padding(b)
        PROVE  store'[b][o] = Zero
    <3>1. CASE store'[b] = store[b]
      BY <1>3, <2>1, <3>1 DEF ZeroPadded
    <3>2. CASE store'[b] # store[b]
      <4>1. turns /\ b = current.id /\ store'[b] = current.block /\ current.id # NoBlock
        BY <1>11, <1>12, <3>2, Types
      <4> QED BY <1>3, <2>1, <4>1 DEF ZeroPadded
    <3> QED BY <3>1, <3>2
  <2>2. ASSUME NEW o \in Padding(id) PROVE current'.block[o] = Zero
    <3>1. o \in Offsets /\ o # Position(at)
      BY <1>6 DEF Padding
    <3>2. block[o] = Zero
      <4>1. CASE current.id = id
        <5>1. block = current.block /\ current.id # NoBlock
          BY <1>6, <4>1, Types
        <5> QED BY <1>3, <4>1, <5>1 DEF ZeroPadded
      <4>2. CASE current.id # id
        <5>1. block = Zeros
          BY <1>2, <4>2 DEF BlocksAscend
        <5> QED BY <1>7, <3>1, <5>1
      <4> QED BY <4>1, <4>2
    <3> QED BY <1>9, <3>1, <3>2
  <2> QED BY <1>1, <1>8, <2>1, <2>2 DEF ZeroPadded, SameGeometry
<1>24. NoEmptyRow'
  <2>1. ASSUME NEW b \in Blocks, store'[b] # Missing PROVE Nonzero(store'[b])
    <3>1. CASE store'[b] = store[b]
      BY <1>3, <1>4, <2>1, <3>1 DEF NoEmptyRow
    <3>2. CASE store'[b] # store[b]
      <4>1. store'[b] = current.block /\ Nonzero(current.block)
        BY <1>11, <1>12, <3>2
      <4> QED BY <4>1
    <3> QED BY <3>1, <3>2
  <2> QED BY <1>1, <2>1 DEF NoEmptyRow, SameGeometry
<1>25. BlocksKept' /\ Counted'
  BY <1>0, <1>1, <1>4 DEF BlocksKept, Counted, SameGeometry
<1>26. Staged'
  BY <1>0, <1>1, <1>3 DEF Staged
<1> QED BY <1>18, <1>19, <1>20, <1>21, <1>22, <1>23, <1>24, <1>25, <1>26 DEF ConstructionInv

(* Updating a block gives it the latest entries at its offsets.             *)
LEMMA UpdatedBlock ==
  ASSUME ConstructionInv, NEW id \in Blocks, NEW block \in [Offsets -> Values],
         NEW new, new = Updated(block, {e \in batch : Id(e.at) = id})
  PROVE  /\ new \in [Offsets -> Values]
         /\ \A q \in Places : Id(q) = id =>
              new[Position(q)] = IF EntriesAt(batch, q) = {} THEN block[Position(q)]
                                 ELSE Latest(EntriesAt(batch, q)).value
         /\ \A o \in Padding(id) : new[o] = block[o]
<1> DEFINE mine == {e \in batch : Id(e.at) = id}
           here(o) == {e \in mine : Position(e.at) = o}
<1>1. /\ \A o \in Offsets : new[o] = IF here(o) = {} THEN block[o] ELSE Latest(here(o)).value
      /\ new = [o \in Offsets |-> IF here(o) = {} THEN block[o] ELSE Latest(here(o)).value]
  BY DEF Updated
<1>2. \A e \in batch : e.at \in Places /\ e.turn \in Nat /\ e.turn <= received
  <2>1. \A e \in batch : e.at \in Places /\ e.turn \in Nat
    BY Types
  <2> QED BY <2>1 DEF ConstructionInv, Numbered
<1>3. ASSUME NEW o \in Offsets, here(o) # {} PROVE Latest(here(o)).value \in Values
  <2>1. here(o) \in SUBSET [turn : Nat, at : Places, value : Values]
    BY Types
  <2>2. \A e \in here(o) : e.turn <= received
    BY <1>2
  <2>3. Latest(here(o)) \in here(o)
    <3> HIDE DEF here
    <3> QED BY <1>3, <2>1, <2>2, LatestOf, Types
  <2> QED BY <2>1, <2>3
<1>4. new \in [Offsets -> Values]
  <2> HIDE DEF here
  <2> QED BY <1>1, <1>3
<1>5. ASSUME NEW q \in Places, Id(q) = id PROVE here(Position(q)) = EntriesAt(batch, q)
  <2>1. \A e \in batch : e.at = q <=> Id(e.at) = id /\ Position(e.at) = Position(q)
    BY <1>2, <1>5, OnePlace, Types
  <2> QED BY <2>1 DEF EntriesAt
<1>6. ASSUME NEW q \in Places, Id(q) = id
      PROVE  new[Position(q)] = IF EntriesAt(batch, q) = {} THEN block[Position(q)]
                                ELSE Latest(EntriesAt(batch, q)).value
  <2>1. Position(q) \in Offsets
    BY Types
  <2>2. here(Position(q)) = EntriesAt(batch, q)
    BY <1>5, <1>6
  <2> HIDE DEF here
  <2> QED BY <1>1, <2>1, <2>2
<1>7. ASSUME NEW o \in Padding(id) PROVE new[o] = block[o]
  <2>1. o \in Offsets /\ here(o) = {}
    BY <1>2 DEF Padding
  <2> HIDE DEF here
  <2> QED BY <1>1, <2>1
<1> QED BY <1>4, <1>6, <1>7

(* Staging one block of a batch that interleaves them.                      *)
LEMMA StageGroupNext ==
  ASSUME ConstructionInv, StageGroup
  PROVE  ConstructionInv'
<1>0. /\ input' = input /\ phase = "stage" /\ phase' = phase /\ eof' = eof
      /\ previous' = previous /\ received' = received /\ metadata' = metadata
      /\ given' = given /\ repeated' = repeated /\ current' = current /\ ~Streams
  BY DEF StageGroup
<1>1. SameGeometry
  BY <1>0, GeometryKept
<1>2. TypeOK /\ Numbered /\ Ascending /\ Merged /\ BlocksAscend
  BY DEF ConstructionInv
<1>3. ZeroPadded /\ NoEmptyRow /\ BlocksKept /\ Counted /\ Staged
  BY DEF ConstructionInv
<1>4. PICK id \in {Id(e.at) : e \in batch} :
        /\ batch' = batch \ {e \in batch : Id(e.at) = id}
        /\ store' = [store EXCEPT ![id] =
             IF Sparse /\ ~Nonzero(Updated(IF store[id] = Missing THEN Zeros ELSE store[id],
                                           {e \in batch : Id(e.at) = id}))
             THEN Missing
             ELSE Updated(IF store[id] = Missing THEN Zeros ELSE store[id],
                          {e \in batch : Id(e.at) = id})]
  BY DEF StageGroup
<1> PICK old : old = IF store[id] = Missing THEN Zeros ELSE store[id]
  OBVIOUS
<1> PICK new : new = Updated(old, {e \in batch : Id(e.at) = id})
  OBVIOUS
<1>5. /\ Zeros \in [Offsets -> Values] /\ \A o \in Offsets : Zeros[o] = Zero
  BY Types DEF Zeros
<1>6. id \in Blocks
  <2>1. \A e \in batch : e.at \in Places
    BY Types
  <2> QED BY <2>1, Types
<1>7. old \in [Offsets -> Values]
  BY <1>5, <1>6, Types
<1>8. /\ new \in [Offsets -> Values] /\ new # Missing
      /\ \A q \in Places : Id(q) = id =>
           new[Position(q)] = IF EntriesAt(batch, q) = {} THEN old[Position(q)]
                              ELSE Latest(EntriesAt(batch, q)).value
      /\ \A o \in Padding(id) : new[o] = old[o]
  BY <1>6, <1>7, UpdatedBlock, Types
<1>9. /\ \A b \in Blocks : b # id => store'[b] = store[b]
      /\ Sparse /\ ~Nonzero(new) => store'[id] = Missing
      /\ ~(Sparse /\ ~Nonzero(new)) => store'[id] = new
  BY <1>2, <1>4, <1>6 DEF TypeOK
<1>10. current.id = NoBlock /\ NoBlock \notin Blocks
  BY <1>0, <1>2, Types DEF BlocksAscend
<1>11. /\ \A q \in Places : Id(q) = id => EntriesAt(batch', q) = {}
       /\ \A q \in Places : Id(q) # id => EntriesAt(batch', q) = EntriesAt(batch, q)
  BY <1>4 DEF EntriesAt
<1>12. TypeOK'
  <2>1. batch' \in SUBSET [turn : Nat, at : Places, value : Values]
    BY <1>4, Types
  <2>2. store' \in [Blocks -> [Offsets -> Values] \union {Missing}]
    BY <1>2, <1>4, <1>8 DEF TypeOK
  <2> QED BY <1>0, <1>1, <1>2, <2>1, <2>2 DEF TypeOK, SameGeometry
<1>13. batch' \subseteq batch
  BY <1>4
<1>14. Numbered'
  BY <1>0, <1>2, <1>13 DEF Numbered
<1>15. Ascending'
  BY <1>0, <1>1, <1>2, <1>13 DEF Ascending, SameGeometry
<1>16. \A q \in Places :
         /\ Pending(q) = IF EntriesAt(batch, q) # {} THEN Latest(EntriesAt(batch, q)).value
                         ELSE ValueAt(q)
         /\ Pending(q)' = IF EntriesAt(batch', q) # {} THEN Latest(EntriesAt(batch', q)).value
                          ELSE ValueAt(q)'
  <2>1. \A q \in Places : current.id # Id(q)
    BY <1>10, Types
  <2> QED BY <1>0, <1>1, <2>1 DEF Pending, SameGeometry
<1>17. Merged'
  <2> SUFFICES ASSUME NEW q \in Places PROVE Pending(q)' = Pending(q)
    BY <1>0, <1>1, <1>2 DEF Merged, GivenAt, SameGeometry
  <2>1. Id(q) \in Blocks /\ Position(q) \in Offsets
    BY Types
  <2>2. CASE Id(q) = id
    <3>1. Pending(q)' = ValueAt(q)'
      BY <1>11, <1>16, <2>2
    <3>2. ValueAt(q)' = new[Position(q)]
      <4>1. ValueAt(q)' = IF store'[id] = Missing THEN Zero ELSE store'[id][Position(q)]
        BY <1>1, <2>2 DEF ValueAt, SameGeometry
      <4>2. Sparse /\ ~Nonzero(new) => new[Position(q)] = Zero
        BY <1>8, <2>1 DEF Nonzero
      <4> QED BY <1>8, <1>9, <4>1, <4>2
    <3>3. old[Position(q)] = ValueAt(q)
      BY <1>5, <2>1, <2>2 DEF ValueAt
    <3> QED BY <1>8, <1>16, <2>2, <3>1, <3>2, <3>3
  <2>3. CASE Id(q) # id
    <3>1. ValueAt(q)' = ValueAt(q)
      BY <1>1, <1>9, <2>1, <2>3 DEF ValueAt, SameGeometry
    <3> QED BY <1>11, <1>16, <2>3, <3>1
  <2> QED BY <2>2, <2>3
<1>18. BlocksAscend'
  BY <1>0, <1>1, <1>2, <1>10 DEF BlocksAscend, SameGeometry
<1>19. ZeroPadded'
  <2>1. ASSUME NEW b \in Blocks, store'[b] # Missing, NEW o \in Padding(b)
        PROVE  store'[b][o] = Zero
    <3>1. CASE b # id
      BY <1>3, <1>9, <2>1, <3>1 DEF ZeroPadded
    <3>2. CASE b = id
      <4>1. store'[b][o] = old[o]
        BY <1>8, <1>9, <2>1, <3>2
      <4>2. o \in Offsets
        BY <2>1 DEF Padding
      <4>3. old[o] = Zero
        BY <1>3, <1>5, <2>1, <3>2, <4>2 DEF ZeroPadded
      <4> QED BY <4>1, <4>3
    <3> QED BY <3>1, <3>2
  <2> QED BY <1>0, <1>1, <1>10, <2>1 DEF ZeroPadded, SameGeometry
<1>20. NoEmptyRow'
  <2>1. ASSUME Sparse, NEW b \in Blocks, store'[b] # Missing PROVE Nonzero(store'[b])
    BY <1>3, <1>9, <2>1 DEF NoEmptyRow
  <2> QED BY <1>1, <2>1 DEF NoEmptyRow, SameGeometry
<1>21. BlocksKept'
  <2> SUFFICES ASSUME ~Sparse, NEW q \in GivenPlaces
               PROVE  EntriesAt(batch', q) # {} \/ store'[Id(q)] # Missing
    BY <1>0, <1>1 DEF BlocksKept, GivenPlaces, SameGeometry
  <2>1. q \in Places
    BY DEF GivenPlaces
  <2>2. CASE Id(q) = id
    BY <1>8, <1>9, <2>2
  <2>3. CASE Id(q) # id
    BY <1>3, <1>9, <1>11, <2>1, <2>3, Types DEF BlocksKept
  <2> QED BY <2>2, <2>3
<1>22. Counted'
  BY <1>0, <1>1, <1>3 DEF Counted, GivenPlaces, SameGeometry
<1>23. Staged'
  BY <1>0, <1>1, <1>3 DEF Staged
<1> QED BY <1>12, <1>14, <1>15, <1>17, <1>18, <1>19, <1>20, <1>21, <1>22, <1>23 DEF ConstructionInv

(* The end of construction writes the block at hand.                        *)
LEMMA FinishNext ==
  ASSUME ConstructionInv, Finish
  PROVE  ConstructionInv'
<1>0. /\ input' = input /\ batch' = batch /\ phase = "finish" /\ phase' = "publish"
      /\ eof' = eof /\ previous' = previous /\ received' = received /\ metadata' = metadata
      /\ given' = given /\ repeated' = repeated /\ current' = current
      /\ Sparse \/ received = Expected
      /\ store' = IF current.id # NoBlock /\ Nonzero(current.block)
                  THEN [store EXCEPT ![current.id] = current.block]
                  ELSE store
  BY DEF Finish
<1>1. SameGeometry
  BY <1>0, GeometryKept
<1>2. TypeOK /\ Numbered /\ Ascending /\ Merged /\ BlocksAscend
  BY DEF ConstructionInv
<1>3. ZeroPadded /\ NoEmptyRow /\ BlocksKept /\ Counted /\ Staged
  BY DEF ConstructionInv
<1>4. batch = {} /\ metadata = FALSE
  BY <1>0, <1>2, <1>3 DEF Staged, TypeOK
<1>5. current.id # NoBlock => /\ current.id \in Blocks /\ Streams /\ store[current.id] = Missing
  <2> SUFFICES ASSUME current.id # NoBlock
               PROVE  current.id \in Blocks /\ Streams /\ store[current.id] = Missing
    OBVIOUS
  <2>1. current.id \in Blocks /\ current.id \in Nat
    BY Types
  <2>2. Streams
    BY <1>2 DEF BlocksAscend
  <2>3. store[current.id] # Missing => current.id < current.id
    BY <1>0, <1>2, <2>1, <2>2 DEF BlocksAscend
  <2> QED BY <2>1, <2>2, <2>3
<1>6. /\ \A b \in Blocks : b # current.id => store'[b] = store[b]
      /\ current.id # NoBlock /\ Nonzero(current.block) => store'[current.id] = current.block
      /\ ~(current.id # NoBlock /\ Nonzero(current.block)) => store' = store
  BY <1>0, <1>2, <1>5 DEF TypeOK
<1>7. TypeOK'
  <2>1. store' \in [Blocks -> [Offsets -> Values] \union {Missing}]
    BY <1>0, <1>2, Types DEF TypeOK
  <2> QED BY <1>0, <1>1, <1>2, <2>1 DEF TypeOK, SameGeometry
<1>8. Numbered' /\ Ascending'
  BY <1>0, <1>1, <1>2 DEF Numbered, Ascending, SameGeometry
<1>9. Merged'
  <2> SUFFICES ASSUME NEW q \in Places PROVE Pending(q)' = Pending(q)
    BY <1>0, <1>1, <1>2 DEF Merged, GivenAt, SameGeometry
  <2>1. Id(q) # current.id => ValueAt(q)' = ValueAt(q)
    BY <1>1, <1>6, Types DEF ValueAt, SameGeometry
  <2> QED BY <1>0, <1>1, <2>1 DEF Pending, SameGeometry
<1>10. BlocksAscend'
  BY <1>0, <1>1, <1>2 DEF BlocksAscend, SameGeometry
<1>11. ZeroPadded'
  <2>1. ASSUME NEW b \in Blocks, store'[b] # Missing, NEW o \in Padding(b)
        PROVE  store'[b][o] = Zero
    <3>1. CASE store'[b] = store[b]
      BY <1>3, <2>1, <3>1 DEF ZeroPadded
    <3>2. CASE store'[b] # store[b]
      <4>1. b = current.id /\ store'[b] = current.block /\ current.id # NoBlock
        BY <1>6, <3>2, Types
      <4> QED BY <1>3, <2>1, <4>1 DEF ZeroPadded
    <3> QED BY <3>1, <3>2
  <2> QED BY <1>0, <1>1, <1>3, <2>1 DEF ZeroPadded, SameGeometry
<1>12. NoEmptyRow'
  <2>1. ASSUME Sparse, NEW b \in Blocks, store'[b] # Missing PROVE Nonzero(store'[b])
    <3>1. CASE store'[b] = store[b]
      BY <1>3, <2>1, <3>1 DEF NoEmptyRow
    <3>2. CASE store'[b] # store[b]
      <4>1. store'[b] = current.block /\ Nonzero(current.block)
        BY <1>6, <3>2
      <4> QED BY <4>1
    <3> QED BY <3>1, <3>2
  <2> QED BY <1>1, <2>1 DEF NoEmptyRow, SameGeometry
<1>13. BlocksKept'
  <2>1. ~Sparse => store' = store
    BY <1>5, <1>6 DEF Streams
  <2> QED BY <1>0, <1>1, <1>3, <2>1 DEF BlocksKept, GivenPlaces, SameGeometry
<1>14. Counted'
  BY <1>0, <1>1, <1>3 DEF Counted, GivenPlaces, SameGeometry
<1>15. Staged'
  <2>1. current.id # NoBlock =>
          store'[current.id] = IF Nonzero(current.block) THEN current.block ELSE Missing
    BY <1>5, <1>6
  <2> QED BY <1>0, <1>1, <1>4, <2>1 DEF Staged, Settled, SameGeometry
<1> QED BY <1>7, <1>8, <1>9, <1>10, <1>11, <1>12, <1>13, <1>14, <1>15 DEF ConstructionInv

(* Nothing is staged or stored before the first batch.                      *)
LEMMA ConstructionInit ==
  ASSUME Init
  PROVE  ConstructionInv
<1>0. /\ input \in Inputs /\ phase = "collect" /\ batch = {} /\ eof = FALSE /\ previous = 0
      /\ received = 0 /\ current = [id |-> NoBlock, block |-> Zeros]
      /\ store = [b \in Blocks |-> Missing] /\ metadata = FALSE
      /\ given = [p \in Places |-> NotGiven] /\ repeated = FALSE
  BY DEF Init
<1>1. Zeros \in [Offsets -> Values] /\ \A o \in Offsets : Zeros[o] = Zero
  BY ConstructionAssumption DEF Zeros
<1>2. TypeOK
  BY <1>0, <1>1 DEF TypeOK
<1>3. Numbered /\ Ascending
  BY <1>0 DEF Numbered, Ascending
<1>4. /\ \A b \in Blocks : store[b] = Missing
      /\ \A p \in Places : given[p] = NotGiven /\ Id(p) \in Blocks /\ Position(p) \in Offsets
      /\ current.id = NoBlock /\ current.block = Zeros /\ NoBlock \notin Blocks
  BY <1>0, GeometryOf
<1>5. Merged
  <2> SUFFICES ASSUME NEW p \in Places PROVE Pending(p) = GivenAt(p)
    BY DEF Merged
  <2>1. EntriesAt(batch, p) = {}
    BY <1>0 DEF EntriesAt
  <2>2. Pending(p) = Zero
    BY <1>4, <2>1 DEF Pending, ValueAt
  <2> QED BY <1>4, <2>2 DEF GivenAt
<1>6. BlocksAscend /\ ZeroPadded /\ NoEmptyRow
  BY <1>4 DEF BlocksAscend, ZeroPadded, NoEmptyRow
<1>7. GivenPlaces = {}
  BY <1>4 DEF GivenPlaces
<1>8. BlocksKept /\ Counted
  BY <1>0, <1>7, FS_EmptySet DEF BlocksKept, Counted
<1>9. Staged
  BY <1>0 DEF Staged
<1> QED BY <1>2, <1>3, <1>5, <1>6, <1>8, <1>9 DEF ConstructionInv

(* Every step of a construction keeps the invariant.                        *)
LEMMA ConstructionNext ==
  ASSUME ConstructionInv, [Next]_vars
  PROVE  ConstructionInv'
<1>0. TypeOK /\ Staged
  BY DEF ConstructionInv
<1>1. CASE Fail /\ phase \in {"collect", "finish"}
  <2>1. /\ input' = input /\ phase' = "failed" /\ eof' = eof /\ metadata' = metadata
        /\ UNCHANGED <<batch, previous, received, current, store, given, repeated>>
    BY <1>1 DEF Fail
  <2>2. metadata' = FALSE /\ eof' \in BOOLEAN
    BY <1>0, <1>1, <2>1 DEF TypeOK, Staged
  <2>3. Staged'
    BY <2>1, <2>2 DEF Staged
  <2> QED BY <2>1, <2>2, <2>3, QuietNext DEF Building
<1>2. CASE TakeElement
  <2>1. PICK p \in Places, v \in Values : p >= previous /\ Take(p, v)
    BY <1>2 DEF TakeElement
  <2>2. phase = "collect" /\ input.kind = "elements"
    BY <1>2 DEF TakeElement, Collects
  <2> QED BY <2>1, <2>2, TakeNext
<1>3. CASE RefuseElement
  BY <1>1, <1>3 DEF RefuseElement, Collects
<1>4. CASE TakeValue
  <2>1. PICK v \in Values : Take(received, v)
    BY <1>4 DEF TakeValue
  <2>2. phase = "collect" /\ input.kind = "values" /\ received < Expected
    BY <1>4 DEF TakeValue, Collects
  <2>3. received \in Places
    BY <2>2, GeometryOf, Types DEF Places, Positive
  <2>4. previous = received
    BY <2>2 DEF ConstructionInv, Counted
  <2>5. received >= previous
    BY <2>4, Types
  <2> QED BY <2>1, <2>2, <2>3, <2>5, TakeNext
<1>5. CASE RefuseValue
  BY <1>1, <1>5 DEF RefuseValue, Collects
<1>6. CASE TakeBlock
  BY <1>6, TakeBlockNext
<1>7. CASE RefuseBlock
  BY <1>1, <1>7 DEF RefuseBlock, Collects
<1>8. CASE BatchFull
  <2>1. /\ input' = input /\ phase = "collect" /\ phase' = "stage" /\ eof' = eof
        /\ metadata' = metadata
        /\ UNCHANGED <<batch, previous, received, current, store, given, repeated>>
    BY <1>8 DEF BatchFull
  <2>2. metadata' = FALSE /\ eof' \in BOOLEAN
    BY <1>0, <2>1 DEF TypeOK, Staged
  <2>3. Staged'
    BY <2>1, <2>2 DEF Staged
  <2> QED BY <2>1, <2>2, <2>3, QuietNext DEF Building
<1>9. CASE SourceEnds
  <2>1. /\ input' = input /\ phase = "collect" /\ eof' = TRUE /\ metadata' = metadata
        /\ phase' = IF batch = {} THEN "finish" ELSE "stage"
        /\ UNCHANGED <<batch, previous, received, current, store, given, repeated>>
    BY <1>9 DEF SourceEnds
  <2>2. metadata' = FALSE /\ eof' \in BOOLEAN
    BY <1>0, <2>1 DEF TypeOK, Staged
  <2>3. Staged'
    BY <2>1, <2>2 DEF Staged
  <2> QED BY <2>1, <2>2, <2>3, QuietNext DEF Building
<1>10. CASE StageElement
  BY <1>10, StageElementNext
<1>11. CASE StageGroup
  BY <1>11, StageGroupNext
<1>12. CASE EndStage
  <2>1. /\ input' = input /\ phase = "stage" /\ eof' = eof /\ metadata' = metadata
        /\ phase' = IF eof THEN "finish" ELSE "collect"
        /\ batch = {}
        /\ UNCHANGED <<batch, previous, received, current, store, given, repeated>>
    BY <1>12 DEF EndStage
  <2>2. metadata' = FALSE /\ eof' \in BOOLEAN
    BY <1>0, <2>1 DEF TypeOK, Staged
  <2>3. Staged'
    BY <2>1, <2>2 DEF Staged
  <2> QED BY <2>1, <2>2, <2>3, QuietNext DEF Building
<1>13. CASE RefuseTooFew
  BY <1>1, <1>13 DEF RefuseTooFew
<1>14. CASE Finish
  BY <1>14, FinishNext
<1>15. CASE Publish
  <2>1. /\ input' = input /\ phase = "publish" /\ phase' = "done" /\ eof' = eof
        /\ metadata' = TRUE
        /\ UNCHANGED <<batch, previous, received, current, store, given, repeated>>
    BY <1>15 DEF Publish
  <2>2. eof' \in BOOLEAN /\ Settled /\ SameGeometry
    BY <1>0, <2>1, GeometryKept DEF TypeOK, Staged
  <2>3. Staged'
    BY <2>1, <2>2 DEF Staged, Settled, SameGeometry
  <2> QED BY <2>1, <2>2, <2>3, QuietNext DEF Building
<1>16. CASE Break
  <2>1. /\ input' = input /\ phase \notin {"done", "failed"} /\ phase' = "failed" /\ eof' = eof
        /\ metadata' \in IF phase = "publish" THEN BOOLEAN ELSE {metadata}
        /\ UNCHANGED <<batch, previous, received, current, store, given, repeated>>
    BY <1>16 DEF Break
  <2>2. eof' \in BOOLEAN /\ metadata' \in BOOLEAN /\ SameGeometry /\ ~metadata
    BY <1>0, <2>1, GeometryKept DEF TypeOK, Staged
  <2>3. metadata' => Settled
    BY <1>0, <2>1, <2>2 DEF Staged
  <2>4. Staged'
    BY <2>1, <2>2, <2>3 DEF Staged, Settled, SameGeometry
  <2> QED BY <2>1, <2>2, <2>4, QuietNext DEF Building
<1>17. CASE UNCHANGED vars
  <2>1. /\ input' = input /\ phase' = phase /\ eof' = eof /\ metadata' = metadata
        /\ UNCHANGED <<batch, previous, received, current, store, given, repeated>>
    BY <1>17 DEF vars
  <2>2. eof' \in BOOLEAN /\ metadata' \in BOOLEAN /\ SameGeometry
        /\ phase' \in {"collect", "stage", "finish", "publish", "done", "failed"}
    BY <1>0, <2>1, GeometryKept DEF TypeOK
  <2>3. Staged'
    BY <1>0, <2>1, <2>2 DEF Staged, Settled, SameGeometry
  <2> QED BY <2>1, <2>2, <2>3, QuietNext DEF Building
<1> QED BY <1>2, <1>3, <1>4, <1>5, <1>6, <1>7, <1>8, <1>9, <1>10, <1>11, <1>12, <1>13,
           <1>14, <1>15, <1>16, <1>17 DEF Next

(* The invariant holds in every state of every construction.                *)
THEOREM ConstructionInvariant == Spec => []ConstructionInv
<1>1. Init => ConstructionInv
  BY ConstructionInit
<1>2. ConstructionInv /\ [Next]_vars => ConstructionInv'
  BY ConstructionNext
<1> QED BY <1>1, <1>2, PTL DEF Spec

(* The variables have their types.                                          *)
THEOREM ConstructionTypes == Spec => []TypeOK
<1>1. ConstructionInv => TypeOK
  BY DEF ConstructionInv
<1> QED BY <1>1, ConstructionInvariant, PTL

(* Storage whose metadata exists is whole: publish_metadata of              *)
(* src/tensor.rs runs after the last block is written, whatever came before.*)
THEOREM Loadable == Spec => []LoadableIsWhole
<1>1. ASSUME ConstructionInv PROVE LoadableIsWhole
  <2> SUFFICES ASSUME metadata
               PROVE  /\ \A p \in Places : ValueAt(p) = GivenAt(p)
                      /\ \A b \in Blocks : store[b] # Missing =>
                           \A o \in Padding(b) : store[b][o] = Zero
                      /\ Sparse => \A b \in Blocks : store[b] # Missing => Nonzero(store[b])
                      /\ ~Sparse /\ ~repeated =>
                           /\ \A b \in Blocks : store[b] # Missing
                           /\ \A p \in Places : given[p] # NotGiven
    BY DEF LoadableIsWhole, GivenAt
  <2>1. TypeOK /\ Merged /\ ZeroPadded /\ NoEmptyRow /\ BlocksKept /\ Counted /\ Settled
    BY <1>1 DEF ConstructionInv, Staged
  <2>2. \A p : EntriesAt(batch, p) = {}
    BY <2>1 DEF Settled, EntriesAt
  <2>3. ASSUME NEW p \in Places PROVE ValueAt(p) = GivenAt(p)
    <3>1. Pending(p) = GivenAt(p)
      BY <2>1 DEF Merged
    <3>2. Id(p) \in Blocks /\ Position(p) \in Offsets /\ NoBlock \notin Blocks
          /\ current.block \in [Offsets -> Values] /\ Missing \notin [Offsets -> Values]
      BY <1>1, Types
    <3>3. CASE current.id = Id(p)
      <4>1. Pending(p) = current.block[Position(p)]
        BY <2>2, <3>3 DEF Pending
      <4>2. store[Id(p)] = IF Nonzero(current.block) THEN current.block ELSE Missing
        BY <2>1, <3>2, <3>3 DEF Settled
      <4>3. ~Nonzero(current.block) => current.block[Position(p)] = Zero
        BY <3>2 DEF Nonzero
      <4> QED BY <3>1, <3>2, <4>1, <4>2, <4>3 DEF ValueAt
    <3>4. CASE current.id # Id(p)
      BY <2>2, <3>1, <3>4 DEF Pending
    <3> QED BY <3>3, <3>4
  <2>4. ASSUME ~Sparse, ~repeated
        PROVE  /\ \A b \in Blocks : store[b] # Missing
               /\ \A p \in Places : given[p] # NotGiven
    <3>1. Cardinality(GivenPlaces) = Expected
      BY <2>1, <2>4 DEF Counted, Settled
    <3>2. GivenPlaces = Places
      <4>1. GivenPlaces \in SUBSET Places
        BY DEF GivenPlaces
      <4> QED BY <1>1, <3>1, <4>1, PlacesFinite, FS_Subset, Types
    <3>3. \A p \in Places : given[p] # NotGiven
      BY <3>2 DEF GivenPlaces
    <3>4. \A p \in Places : store[Id(p)] # Missing
      BY <2>1, <2>2, <2>4, <3>2 DEF BlocksKept
    <3>5. \A b \in Blocks : \E p \in Places : Id(p) = b
      BY <1>1, BlocksReached, Types
    <3> QED BY <3>3, <3>4, <3>5
  <2> QED BY <2>1, <2>3, <2>4 DEF ZeroPadded, NoEmptyRow
<1> QED BY <1>1, ConstructionInvariant, PTL

(* Streamed rows are appended: a row that is written had none, and all that *)
(* are there come before it (Construction::stage of                         *)
(* src/tensor/sparse_storage.rs).                                           *)
THEOREM Appended == Spec => RowsAreAppended
<1> DEFINE Row(b) == store[b] = Missing /\ \A c \in Blocks : store[c] # Missing => c < b
<1>1. ASSUME ConstructionInv, [Next]_vars, Streams
      PROVE  \A b \in Blocks : store'[b] # store[b] => Row(b)
  <2>0. TypeOK /\ BlocksAscend
    BY <1>1 DEF ConstructionInv
  <2>1. CASE store' = store
    BY <2>1
  <2>2. CASE StageElement \/ Finish
    <3>1. phase \in {"stage", "finish"}
      BY <2>2 DEF StageElement, Finish
    <3>2. store' = store \/ (current.id # NoBlock
                              /\ store' = [store EXCEPT ![current.id] = current.block])
      BY <2>2 DEF StageElement, Finish
    <3>3. \A b \in Blocks : store'[b] # store[b] => current.id # NoBlock /\ b = current.id
      BY <2>0, <3>2 DEF TypeOK
    <3>4. \A b \in Blocks : store[b] # Missing => b < current.id
      BY <1>1, <2>0, <3>1 DEF BlocksAscend
    <3>5. \A b \in Blocks : b \in Nat
      BY <1>1, Types
    <3>6. ASSUME NEW b \in Blocks, store'[b] # store[b] PROVE Row(b)
      <4>1. b = current.id
        BY <3>3, <3>6
      <4>2. store[b] # Missing => b < b
        BY <3>4, <4>1
      <4>3. store[b] = Missing
        BY <3>5, <4>2
      <4> QED BY <3>4, <4>1, <4>3
    <3> QED BY <3>6
  <2>3. store' = store \/ StageElement \/ Finish
    BY <1>1 DEF Next, vars, TakeElement, RefuseElement, TakeValue, RefuseValue, TakeBlock,
                RefuseBlock, BatchFull, SourceEnds, StageGroup, EndStage, RefuseTooFew,
                Publish, Break, Take, Fail
  <2> QED BY <2>1, <2>2, <2>3
<1>2. ConstructionInv /\ [Next]_vars =>
        [Streams => \A b \in Blocks : store'[b] # store[b] =>
           /\ store[b] = Missing
           /\ \A c \in Blocks : store[c] # Missing => c < b]_vars
  BY <1>1
<1> QED BY <1>2, ConstructionInvariant, PTL DEF Spec, RowsAreAppended

--------------------------------------------------------------------------------
(* Sums, of numbers of either sign.                                         *)

(* g has the sums of the first elements of s.                               *)
RunningSums(g, s, n) ==
  /\ g \in [0..n -> Int] /\ g[0] = 0
  /\ \A k \in 1..n : g[k] = g[k - 1] + s[k]

(* The total of a sequence is the last of such sums.                        *)
LEMMA SumsExist ==
  ASSUME NEW n \in Nat, NEW s \in [1..n -> Int]
  PROVE  \E g : RunningSums(g, s, n) /\ Total(s) = g[n]
<1>1. s \in Seq(Int) /\ Len(s) = n
  OBVIOUS
<1>2. RunningSums(Totals(s), s, n) /\ Total(s) = Totals(s)[n]
  BY <1>1, SumsOf DEF RunningSums
<1> QED BY <1>2

(* Two of the elements' sums are the sums of the sequences' totals.         *)
LEMMA SumOfSums ==
  ASSUME NEW n \in Nat, NEW s \in [1..n -> Int], NEW t \in [1..n -> Int], NEW u \in [1..n -> Int],
         \A k \in 1..n : s[k] = t[k] + u[k]
  PROVE  Total(s) = Total(t) + Total(u)
<1> PICK f, g, h :
      /\ RunningSums(f, s, n) /\ Total(s) = f[n]
      /\ RunningSums(g, t, n) /\ Total(t) = g[n]
      /\ RunningSums(h, u, n) /\ Total(u) = h[n]
  BY SumsExist
<1> DEFINE S == {k \in 0..n : f[k] = g[k] + h[k]}
<1>1. 0 \in S
  BY DEF RunningSums
<1>2. \A k \in 0..n : k < n /\ k \in S => k + 1 \in S
  <2> SUFFICES ASSUME NEW k \in 0..n, k < n, f[k] = g[k] + h[k] PROVE k + 1 \in S
    OBVIOUS
  <2>1. k + 1 \in 1..n /\ k + 1 \in 0..n /\ (k + 1) - 1 = k
    OBVIOUS
  <2>2. /\ f[k + 1] = f[k] + s[k + 1] /\ g[k + 1] = g[k] + t[k + 1] /\ h[k + 1] = h[k] + u[k + 1]
        /\ f[k] \in Int /\ g[k] \in Int /\ h[k] \in Int
    BY <2>1 DEF RunningSums
  <2>3. s[k + 1] = t[k + 1] + u[k + 1] /\ t[k + 1] \in Int /\ u[k + 1] \in Int
    BY <2>1
  <2> QED BY <2>1, <2>2, <2>3
<1>3. \A k \in 0..n : k \in S
  <2> HIDE DEF S
  <2> QED BY <1>1, <1>2, UpToAll
<1>4. n \in 0..n
  OBVIOUS
<1> QED BY <1>3, <1>4

(* Zeros add up to zero.                                                    *)
LEMMA SumOfZeros ==
  ASSUME NEW n \in Nat, NEW s \in [1..n -> Int], \A k \in 1..n : s[k] = 0
  PROVE  Total(s) = 0
<1>1. Total(s) = Total(s) + Total(s) /\ Total(s) \in Int
  <2>1. \A k \in 1..n : s[k] = s[k] + s[k]
    OBVIOUS
  <2>2. Total(s) = Total(s) + Total(s)
    BY <2>1, SumOfSums
  <2>3. PICK g : RunningSums(g, s, n) /\ Total(s) = g[n]
    BY SumsExist
  <2> QED BY <2>2, <2>3 DEF RunningSums
<1> QED BY <1>1

(* A sum is a number.                                                       *)
LEMMA SumIsNumber ==
  ASSUME NEW n \in Nat, NEW s \in [1..n -> Int]
  PROVE  Total(s) \in Int
<1>1. PICK g : RunningSums(g, s, n) /\ Total(s) = g[n]
  BY SumsExist
<1> QED BY <1>1 DEF RunningSums

(* One more element is added last.                                          *)
LEMMA SumExtended ==
  ASSUME NEW m \in Nat, NEW s \in [1..(m + 1) -> Int], NEW t \in [1..m -> Int],
         \A k \in 1..m : t[k] = s[k]
  PROVE  Total(s) = Total(t) + s[m + 1]
<1> PICK g, h : RunningSums(g, s, m + 1) /\ Total(s) = g[m + 1] /\ RunningSums(h, t, m) /\ Total(t) = h[m]
  <2>1. m + 1 \in Nat
    OBVIOUS
  <2> QED BY <2>1, SumsExist
<1> DEFINE S == {k \in 0..m : g[k] = h[k]}
<1>1. 0 \in S
  BY DEF RunningSums
<1>2. \A k \in 0..m : k < m /\ k \in S => k + 1 \in S
  <2> SUFFICES ASSUME NEW k \in 0..m, k < m, g[k] = h[k] PROVE k + 1 \in S
    OBVIOUS
  <2>1. k + 1 \in 1..m /\ k + 1 \in 1..(m + 1) /\ k + 1 \in 0..m /\ (k + 1) - 1 = k
    OBVIOUS
  <2>2. g[k + 1] = g[k] + s[k + 1] /\ h[k + 1] = h[k] + t[k + 1]
    BY <2>1 DEF RunningSums
  <2>3. t[k + 1] = s[k + 1]
    BY <2>1
  <2> QED BY <2>1, <2>2, <2>3
<1>3. \A k \in 0..m : k \in S
  <2> HIDE DEF S
  <2> QED BY <1>1, <1>2, UpToAll
<1>4. m \in 0..m /\ m + 1 \in 1..(m + 1) /\ (m + 1) - 1 = m
  OBVIOUS
<1>5. g[m + 1] = g[m] + s[m + 1]
  BY <1>4 DEF RunningSums
<1> QED BY <1>3, <1>4, <1>5

(* All but one of the first n elements are zero.                            *)
ZeroBut(s, n, x) == \A k \in 1..n : k # x => s[k] = 0

(* Their sum is the element.                                                *)
LEMMA SumOfOne ==
  ASSUME NEW n \in Nat, NEW s \in [1..n -> Int], NEW x \in 1..n, ZeroBut(s, n, x)
  PROVE  Total(s) = s[x]
<1> PICK g : RunningSums(g, s, n) /\ Total(s) = g[n]
  BY SumsExist
<1> DEFINE S == {k \in 0..n : g[k] = IF k < x THEN 0 ELSE s[x]}
<1>1. 0 \in S
  BY DEF RunningSums
<1>2. \A k \in 0..n : k < n /\ k \in S => k + 1 \in S
  <2> SUFFICES ASSUME NEW k \in 0..n, k < n, g[k] = IF k < x THEN 0 ELSE s[x] PROVE k + 1 \in S
    OBVIOUS
  <2>1. k + 1 \in 1..n /\ k + 1 \in 0..n /\ (k + 1) - 1 = k
    OBVIOUS
  <2>2. g[k + 1] = g[k] + s[k + 1]
    BY <2>1 DEF RunningSums
  <2>3. s[x] \in Int /\ s[k + 1] \in Int
    BY <2>1
  <2>4. CASE k + 1 = x
    BY <2>1, <2>2, <2>3, <2>4
  <2>5. CASE k + 1 # x
    <3>1. s[k + 1] = 0
      BY <2>1, <2>5 DEF ZeroBut
    <3> QED BY <2>1, <2>2, <2>3, <2>5, <3>1
  <2> QED BY <2>4, <2>5
<1>3. \A k \in 0..n : k \in S
  <2> HIDE DEF S
  <2> QED BY <1>1, <1>2, UpToAll
<1>4. n \in 0..n /\ ~(n < x)
  OBVIOUS
<1>5. n \in S
  BY ONLY <1>3, <1>4
<1> QED BY <1>4, <1>5

(* The first m elements are different.                                      *)
Distinctly(kept, m) == \A j, k \in 1..m : kept[j] = kept[k] => j = k

(* A sum does not depend on the order of its elements, nor on zeros that    *)
(* are left out.                                                            *)
Reorders(n, m) ==
  \A kept \in [1..m -> 1..n], f \in [1..n -> Int] :
    /\ Distinctly(kept, m)
    /\ \A i \in 1..n : (\A k \in 1..m : kept[k] # i) => f[i] = 0
    => Total([k \in 1..m |-> f[kept[k]]]) = Total(f)

LEMMA Reordered ==
  ASSUME NEW n \in Nat, NEW m \in Nat
  PROVE  Reorders(n, m)
<1> DEFINE S == {k \in 0..m : Reorders(n, k)}
<1>1. 0 \in S
  <2> SUFFICES ASSUME NEW kept \in [1..0 -> 1..n], NEW f \in [1..n -> Int],
                      \A i \in 1..n : (\A k \in 1..0 : kept[k] # i) => f[i] = 0
               PROVE  Total([k \in 1..0 |-> f[kept[k]]]) = Total(f)
    BY DEF Reorders
  <2>1. \A i \in 1..n : f[i] = 0
    OBVIOUS
  <2>2. Total(f) = 0
    BY <2>1, SumOfZeros
  <2>3. PICK e : e = [k \in 1..0 |-> f[kept[k]]]
    OBVIOUS
  <2>4. e \in [1..0 -> Int] /\ \A k \in 1..0 : e[k] = 0
    BY <2>3
  <2>5. Total(e) = 0
    <3>1. 0 \in Nat
      OBVIOUS
    <3> QED BY <2>4, <3>1, SumOfZeros
  <2> QED BY <2>2, <2>3, <2>5
<1>2. \A l \in 0..m : l < m /\ l \in S => l + 1 \in S
  <2> SUFFICES ASSUME NEW l \in 0..m, l < m, Reorders(n, l) PROVE Reorders(n, l + 1)
    OBVIOUS
  <2> SUFFICES ASSUME NEW kept \in [1..(l + 1) -> 1..n], NEW f \in [1..n -> Int],
                      Distinctly(kept, l + 1),
                      \A i \in 1..n : (\A k \in 1..(l + 1) : kept[k] # i) => f[i] = 0
               PROVE  Total([k \in 1..(l + 1) |-> f[kept[k]]]) = Total(f)
    BY DEF Reorders
  <2> PICK x \in 1..n : x = kept[l + 1]
    OBVIOUS
  <2> PICK less : less = [k \in 1..l |-> kept[k]]
    OBVIOUS
  <2> PICK h : h = [i \in 1..n |-> IF i = x THEN 0 ELSE f[i]]
    OBVIOUS
  <2> PICK u : u = [i \in 1..n |-> IF i = x THEN f[i] ELSE 0]
    OBVIOUS
  <2>1. l \in Nat /\ \A k \in 1..l : k \in 1..(l + 1) /\ k # l + 1
    OBVIOUS
  <2>2. /\ less \in [1..l -> 1..n] /\ Distinctly(less, l)
        /\ \A k \in 1..l : less[k] = kept[k] /\ less[k] # x
    <3>1. \A k \in 1..l : less[k] = kept[k] /\ less[k] \in 1..n
      BY <2>1
    <3>2. \A k \in 1..l : kept[k] # x
      BY <2>1 DEF Distinctly
    <3> QED BY <2>1, <3>1, <3>2 DEF Distinctly
  <2>3. /\ h \in [1..n -> Int] /\ u \in [1..n -> Int]
        /\ \A i \in 1..n : f[i] = h[i] + u[i]
    OBVIOUS
  <2>4. ASSUME NEW i \in 1..n, \A k \in 1..l : less[k] # i PROVE h[i] = 0
    <3>1. CASE i = x
      BY <3>1
    <3>2. CASE i # x
      <4>1. \A k \in 1..(l + 1) : kept[k] # i
        <5> SUFFICES ASSUME NEW k \in 1..(l + 1) PROVE kept[k] # i
          OBVIOUS
        <5>1. CASE k = l + 1
          BY <3>2, <5>1
        <5>2. CASE k # l + 1
          <6>1. k \in 1..l
            BY <5>2
          <6> QED BY <2>2, <2>4, <6>1
        <5> QED BY <5>1, <5>2
      <4>2. f[i] = 0
        BY <4>1
      <4> QED BY <4>2
    <3> QED BY <3>1, <3>2
  <2>5. Total([k \in 1..l |-> h[less[k]]]) = Total(h)
    <3>1. Reorders(n, l) /\ less \in [1..l -> 1..n] /\ Distinctly(less, l) /\ h \in [1..n -> Int]
      BY <2>2, <2>3
    <3> QED BY ONLY <2>4, <3>1 DEF Reorders
  <2> PICK s, t : s = [k \in 1..(l + 1) |-> f[kept[k]]] /\ t = [k \in 1..l |-> h[less[k]]]
    OBVIOUS
  <2>6. /\ s \in [1..(l + 1) -> Int] /\ t \in [1..l -> Int] /\ s[l + 1] = f[x]
        /\ \A k \in 1..l : t[k] = s[k]
    <3>1. \A k \in 1..(l + 1) : kept[k] \in 1..n /\ s[k] = f[kept[k]] /\ f[kept[k]] \in Int
      OBVIOUS
    <3>2. \A k \in 1..l : t[k] = h[less[k]] /\ h[less[k]] = f[kept[k]]
      BY <2>2
    <3>3. l + 1 \in 1..(l + 1)
      OBVIOUS
    <3> QED BY <2>1, <3>1, <3>2, <3>3
  <2>7. Total(s) = Total(t) + s[l + 1]
    BY <2>1, <2>6, SumExtended
  <2>8. Total(f) = Total(h) + Total(u)
    BY ONLY n \in Nat, f \in [1..n -> Int], <2>3, SumOfSums
  <2>9. Total(u) = f[x]
    <3>1. ZeroBut(u, n, x)
      BY DEF ZeroBut
    <3>2. Total(u) = u[x]
      <4>1. u \in [1..n -> Int]
        BY <2>3
      <4> QED BY ONLY n \in Nat, x \in 1..n, <3>1, <4>1, SumOfOne
    <3> QED BY <3>2
  <2> QED BY <2>5, <2>6, <2>7, <2>8, <2>9
<1>3. m \in 0..m
  OBVIOUS
<1> HIDE DEF S
<1>4. m \in S
  BY <1>1, <1>2, <1>3, UpToAll
<1> QED BY <1>4 DEF S

--------------------------------------------------------------------------------
(* The axes that are kept, in order.                                        *)

(* Those of A up to i are in s, each once.                                  *)
Keeps(s, i, A) ==
  /\ \A k \in 1..Len(s) : s[k] <= i /\ s[k] \in A
  /\ Distinctly(s, Len(s))
  /\ \A j \in 1..i : j \in A => \E k \in 1..Len(s) : s[k] = j

(* One more is kept, or not.                                                *)
LEMMA KeepsMore ==
  ASSUME NEW n \in Nat, NEW A, NEW i \in 1..n, NEW s \in Seq(1..n), Keeps(s, i - 1, A)
  PROVE  LET t == IF i \in A THEN Append(s, i) ELSE s
         IN t \in Seq(1..n) /\ Keeps(t, i, A)
<1> PICK m \in Nat : m = Len(s) /\ DOMAIN s = 1..m
  OBVIOUS
<1>1. /\ \A k \in 1..m : s[k] <= i - 1 /\ s[k] \in A /\ s[k] \in 1..n
      /\ \A j, k \in 1..m : s[j] = s[k] => j = k
      /\ \A j \in 1..(i - 1) : j \in A => \E k \in 1..m : s[k] = j
  BY DEF Keeps, Distinctly
<1>2. CASE i \notin A
  <2>1. \A k \in 1..m : s[k] <= i
    BY <1>1
  <2>2. \A j \in 1..i : j \in A => j \in 1..(i - 1)
    BY <1>2
  <2> QED BY <1>1, <1>2, <2>1, <2>2 DEF Keeps, Distinctly
<1>3. CASE i \in A
  <2> PICK t : t = Append(s, i)
    OBVIOUS
  <2>1. /\ t \in Seq(1..n) /\ Len(t) = m + 1 /\ t[m + 1] = i
        /\ \A k \in 1..m : t[k] = s[k]
    OBVIOUS
  <2>2. \A k \in 1..(m + 1) : k \in 1..m \/ k = m + 1
    OBVIOUS
  <2>3. \A k \in 1..(m + 1) : t[k] <= i /\ t[k] \in A
    <3> SUFFICES ASSUME NEW k \in 1..(m + 1) PROVE t[k] <= i /\ t[k] \in A
      OBVIOUS
    <3>1. CASE k = m + 1
      BY <1>3, <2>1, <3>1
    <3>2. CASE k \in 1..m
      BY <1>1, <2>1, <3>2
    <3> QED BY <2>2, <3>1, <3>2
  <2>4. \A k \in 1..m : t[k] # t[m + 1]
    <3> SUFFICES ASSUME NEW k \in 1..m PROVE t[k] # t[m + 1]
      OBVIOUS
    <3>1. s[k] <= i - 1 /\ s[k] \in 1..n
      BY <1>1
    <3> QED BY <2>1, <3>1
  <2>5. \A j, k \in 1..(m + 1) : t[j] = t[k] => j = k
    <3> SUFFICES ASSUME NEW j \in 1..(m + 1), NEW k \in 1..(m + 1), t[j] = t[k] PROVE j = k
      OBVIOUS
    <3>1. CASE j \in 1..m /\ k \in 1..m
      BY <1>1, <2>1, <3>1
    <3>2. CASE ~(j \in 1..m /\ k \in 1..m)
      BY <2>2, <2>4, <3>2
    <3> QED BY <3>1, <3>2
  <2>6. \A j \in 1..i : j \in A => \E k \in 1..(m + 1) : t[k] = j
    <3> SUFFICES ASSUME NEW j \in 1..i, j \in A PROVE \E k \in 1..(m + 1) : t[k] = j
      OBVIOUS
    <3>1. CASE j = i
      BY <2>1, <3>1
    <3>2. CASE j # i
      <4>1. j \in 1..(i - 1)
        BY <3>2
      <4>2. PICK k \in 1..m : s[k] = j
        BY <1>1, <4>1
      <4>3. k \in 1..(m + 1)
        OBVIOUS
      <4> QED BY <2>1, <4>2, <4>3
    <3> QED BY <3>1, <3>2
  <2>7. Keeps(t, i, A)
    BY <2>1, <2>3, <2>5, <2>6 DEF Keeps, Distinctly
  <2> QED BY <1>3, <2>1, <2>7
<1> QED BY <1>2, <1>3

(* Kept names the axes of A, each once.                                     *)
Names(kept, n, A, m) ==
  /\ kept \in [1..m -> 1..n] /\ DOMAIN kept = 1..m
  /\ Distinctly(kept, m)
  /\ \A k \in 1..m : kept[k] \in A
  /\ \A i \in 1..n : i \in A => \E k \in 1..m : kept[k] = i

LEMMA KeptFacts ==
  ASSUME NEW n \in Nat, NEW A
  PROVE  \E m \in Nat : Names(Kept(n, A), n, A, m)
<1> DEFINE More(s, i) == IF i \in A THEN Append(s, i) ELSE s
           IsKept(g) == g = [i \in 0..n |-> IF i = 0 THEN <<>> ELSE
                                IF i \in A THEN Append(g[i - 1], i) ELSE g[i - 1]]
           Q == Seq(1..n)
           G == [z \in Q \X (1..n) |-> More(z[1], z[2])]
<1>1. G \in [Q \X (1..n) -> Q]
  <2>1. \A s \in Q, i \in 1..n : More(s, i) \in Q
    <3>1. \A s \in Q, i \in 1..n : Append(s, i) \in Q
      OBVIOUS
    <3> HIDE DEF Q
    <3> QED BY ONLY <3>1
  <2> HIDE DEF More, Q
  <2> QED BY <2>1
<1>2. \A s \in Q, k \in 1..n : G[<<s, k>>] = More(s, k)
  BY Zenon
<1> HIDE DEF G
<1>3. PICK f \in [0..n -> Q] : Steps(f, n, <<>>, G)
  <2>1. <<>> \in Q
    OBVIOUS
  <2> HIDE DEF Q
  <2> QED BY <1>1, <2>1, Recursion
<1>4. f[0] = <<>> /\ \A k \in 1..n : f[k] = More(f[k - 1], k)
  <2> HIDE DEF More, Q
  <2> SUFFICES ASSUME NEW k \in 1..n PROVE f[k] = More(f[k - 1], k)
    BY <1>3 DEF Steps
  <2>1. f[k] = G[<<f[k - 1], k>>]
    BY <1>3 DEF Steps
  <2>2. f[k - 1] \in Q
    OBVIOUS
  <2> QED BY <1>2, <2>1, <2>2
<1>5. IsKept(f)
  <2> DEFINE h == [i \in 0..n |-> IF i = 0 THEN <<>> ELSE
                                    IF i \in A THEN Append(f[i - 1], i) ELSE f[i - 1]]
  <2>1. DOMAIN f = 0..n /\ DOMAIN h = 0..n /\ f = [i \in 0..n |-> f[i]]
    BY ONLY f \in [0..n -> Q]
  <2>2. \A i \in 0..n : f[i] = h[i]
    <3>1. \A i \in 1..n : f[i] = IF i \in A THEN Append(f[i - 1], i) ELSE f[i - 1]
      BY <1>4
    <3>2. \A i \in 0..n : i = 0 \/ i \in 1..n
      OBVIOUS
    <3>3. \A i \in 1..n : i # 0
      OBVIOUS
    <3> QED BY ONLY <1>4, <3>1, <3>2, <3>3
  <2> HIDE DEF h
  <2>3. f = h
    <3>1. h = [i \in 0..n |-> h[i]]
      BY DEF h
    <3> QED BY <2>1, <2>2, <3>1
  <2> QED BY <2>3 DEF h
<1>6. PICK g : g = (CHOOSE h : IsKept(h)) /\ Kept(n, A) = g[n]
  BY Zenon DEF Kept
<1>7. IsKept(g)
  BY <1>5, <1>6
<1>8. g[0] = <<>> /\ \A k \in 1..n : g[k] = More(g[k - 1], k)
  <2>1. \A i \in 0..n : g[i] = IF i = 0 THEN <<>> ELSE
                                 IF i \in A THEN Append(g[i - 1], i) ELSE g[i - 1]
    BY <1>7
  <2>2. \A k \in 1..n : k \in 0..n /\ k # 0
    OBVIOUS
  <2>3. \A k \in 1..n : g[k] = More(g[k - 1], k)
    BY ONLY <2>1, <2>2
  <2> QED BY <2>1, <2>3
<1>9. \A k \in 0..n : g[k] \in Q /\ Keeps(g[k], k, A)
  <2> DEFINE S == {k \in 0..n : g[k] \in Q /\ Keeps(g[k], k, A)}
  <2>1. 0 \in S
    <3>1. <<>> \in Q /\ Len(<<>>) = 0 /\ 1..0 = {} /\ 0 \in 0..n
      OBVIOUS
    <3>2. Keeps(<<>>, 0, A)
      BY ONLY <3>1 DEF Keeps, Distinctly
    <3> QED BY ONLY <1>8, <3>1, <3>2
  <2>2. \A k \in 0..n : k < n /\ k \in S => k + 1 \in S
    <3> SUFFICES ASSUME NEW k \in 0..n, k < n, g[k] \in Q, Keeps(g[k], k, A) PROVE k + 1 \in S
      OBVIOUS
    <3>1. k + 1 \in 1..n /\ k + 1 \in 0..n /\ (k + 1) - 1 = k
      OBVIOUS
    <3> PICK s \in Q, i \in 1..n : s = g[k] /\ i = k + 1
      BY <3>1
    <3>2. Keeps(s, i - 1, A)
      BY <3>1
    <3>3. More(s, i) \in Q /\ Keeps(More(s, i), i, A)
      BY <3>2, KeepsMore
    <3>4. g[i] = More(s, i)
      BY ONLY <1>8, <3>1, s = g[k], i = k + 1
    <3> QED BY <3>1, <3>3, <3>4
  <2>3. \A k \in 0..n : k \in S
    <3> HIDE DEF S
    <3> QED BY <2>1, <2>2, UpToAll
  <2> QED BY <2>3
<1> PICK s \in Q : s = g[n]
  <2>1. n \in 0..n
    OBVIOUS
  <2> QED BY <1>9, <2>1
<1> PICK m \in Nat : m = Len(s) /\ DOMAIN s = 1..m
  OBVIOUS
<1>10. s \in [1..m -> 1..n]
  OBVIOUS
<1>11. Keeps(s, n, A)
  <2>1. n \in 0..n
    OBVIOUS
  <2> QED BY <1>9, <2>1
<1>12. Kept(n, A) = s
  BY <1>6
<1>13. Distinctly(s, m) /\ \A k \in 1..m : s[k] \in A
  BY ONLY <1>11, m = Len(s) DEF Keeps
<1>14. \A i \in 1..n : i \in A => \E k \in 1..m : s[k] = i
  BY ONLY <1>11, m = Len(s) DEF Keeps
<1> HIDE DEF Q
<1> QED BY ONLY m \in Nat, DOMAIN s = 1..m, <1>10, <1>12, <1>13, <1>14 DEF Names

(* A kept axis has its place.                                               *)
LEMMA PlaceOfKept ==
  ASSUME NEW m \in Nat, NEW n, NEW kept \in [1..m -> n], Distinctly(kept, m), NEW k \in 1..m
  PROVE  PlaceIn(kept, kept[k]) = k
<1>1. \E j \in DOMAIN kept : kept[j] = kept[k]
  OBVIOUS
<1>2. PlaceIn(kept, kept[k]) \in DOMAIN kept /\ kept[PlaceIn(kept, kept[k])] = kept[k]
  BY <1>1 DEF PlaceIn
<1> QED BY <1>2 DEF Distinctly

(* A permutation has every number once.                                     *)
LEMMA PermutationFacts ==
  ASSUME NEW n \in Nat, NEW p \in Bijection(1..n, 1..n)
  PROVE  /\ p \in [1..n -> 1..n] /\ Distinctly(p, n)
         /\ \A i \in 1..n : \E k \in 1..n : p[k] = i
BY DEF Bijection, Injection, Surjection, IsInjective, Distinctly

--------------------------------------------------------------------------------
(* Coordinates.                                                             *)

(* One and the dimensions of a shape have a greatest.                       *)
LEMMA GreatestDimension ==
  ASSUME NEW s \in Seq(Positive)
  PROVE  LET D == {1} \union {s[i] : i \in Axes(s)}
         IN Max(D) \in Nat /\ \A i \in Axes(s) : s[i] <= Max(D)
<1> PICK n \in Nat : n = Len(s) /\ DOMAIN s = 1..n
  OBVIOUS
<1>1. \A i \in 1..n : s[i] \in Nat
  BY DEF Positive
<1> DEFINE D(k) == {1} \union {s[i] : i \in 1..k}
           S == {k \in 0..n : \E x \in D(k) : x \in Nat /\ \A y \in D(k) : x >= y}
<1>2. 0 \in S
  OBVIOUS
<1>3. \A k \in 0..n : k < n /\ k \in S => k + 1 \in S
  <2> SUFFICES ASSUME NEW k \in 0..n, k < n, NEW x \in D(k), x \in Nat, \A y \in D(k) : x >= y
               PROVE  k + 1 \in S
    OBVIOUS
  <2> PICK z \in Nat : z = s[k + 1]
    BY <1>1
  <2>1. D(k + 1) = D(k) \union {z}
    <3>1. 1..(k + 1) = 1..k \union {k + 1}
      OBVIOUS
    <3> QED BY <3>1
  <2>2. CASE z <= x
    <3>1. x \in D(k + 1) /\ \A y \in D(k + 1) : x >= y
      <4> HIDE DEF D
      <4> QED BY <2>1, <2>2
    <3> HIDE DEF D
    <3> QED BY <3>1
  <2>3. CASE ~(z <= x)
    <3>1. \A y \in D(k) : z >= y
      <4>1. \A y \in D(k) : y \in Nat
        BY <1>1
      <4> HIDE DEF D
      <4> QED BY <2>3, <4>1
    <3> HIDE DEF D
    <3>2. z \in D(k + 1) /\ \A y \in D(k + 1) : z >= y
      BY <2>1, <3>1
    <3> QED BY <3>2
  <2> QED BY <2>2, <2>3
<1>4. n \in S
  <2>1. n \in 0..n
    OBVIOUS
  <2> HIDE DEF S
  <2> QED BY <1>2, <1>3, <2>1, UpToAll
<1>5. D(n) = {1} \union {s[i] : i \in Axes(s)}
  BY DEF Axes
<1>6. Max(D(n)) \in D(n) /\ \A y \in D(n) : Max(D(n)) >= y
  <2> HIDE DEF D
  <2> QED BY <1>4 DEF Max
<1>7. \A y \in D(n) : y \in Nat
  BY <1>1
<1>8. \A i \in Axes(s) : s[i] \in D(n)
  BY DEF Axes
<1> HIDE DEF D
<1> QED BY <1>5, <1>6, <1>7, <1>8

(* The coordinates of a shape are below it.                                 *)
LEMMA CoordsAre ==
  ASSUME NEW s \in Seq(Positive), NEW c
  PROVE  c \in Coords(s) <=> Below(c, s)
<1> PICK n \in Nat : n = Len(s) /\ Axes(s) = 1..n
  BY DEF Axes
<1> PICK most : most = Max({1} \union {s[i] : i \in Axes(s)})
  OBVIOUS
<1>1. most \in Nat /\ \A i \in 1..n : s[i] <= most
  BY GreatestDimension, Zenon
<1>2. c \in Coords(s) <=> c \in [1..n -> 0..(most - 1)] /\ \A i \in 1..n : c[i] < s[i]
  BY DEF Coords
<1>3. \A i \in 1..n : s[i] \in Nat
  BY DEF Positive
<1>4. ASSUME c \in [1..n -> Nat], \A i \in 1..n : c[i] < s[i]
      PROVE  c \in [1..n -> 0..(most - 1)]
  <2>1. \A i \in 1..n : c[i] \in 0..(most - 1)
    BY <1>1, <1>3, <1>4
  <2> QED BY <1>4, <2>1
<1>5. ASSUME c \in [1..n -> 0..(most - 1)] PROVE c \in [1..n -> Nat]
  <2>1. \A i \in 1..n : c[i] \in Nat
    BY <1>1, <1>5
  <2> QED BY <1>5, <2>1
<1> QED BY <1>2, <1>4, <1>5 DEF Below

--------------------------------------------------------------------------------
(* Views.  What an axis of a map is: a step, an offset that is repeated, or *)
(* a window of a table.                                                     *)
IsTable(axis, dim) ==
  /\ axis \in [kind : {"gather"}, offsets : Seq(Int), start : Int, step : Int,
               reversed : BOOLEAN, len : Nat]
  /\ axis.len = dim
  /\ \A k \in 0..(dim - 1) : Entry(axis, k) + 1 \in 1..Len(axis.offsets)

IsAxis(axis, dim) ==
  \/ \E step \in Int : axis = Stride(step)
  \/ \E offset \in Int : axis = Broadcast(offset)
  \/ IsTable(axis, dim)

IsMap(m) ==
  /\ m = [offset |-> m.offset, axes |-> m.axes, shape |-> m.shape]
  /\ m.offset \in Int /\ m.shape \in Seq(Positive)
  /\ DOMAIN m.axes = 1..Len(m.shape)
  /\ \A i \in 1..Len(m.shape) : IsAxis(m.axes[i], m.shape[i])

(* What the axes add to the offset.                                         *)
Parts(m, c) == [i \in 1..Rank(m) |-> Contribution(m.axes[i], c[i])]

(* Two coordinates that agree on the axes with a step.                      *)
Alike(m, c, d) == \A i \in 1..Rank(m) : m.axes[i].kind = "stride" => c[i] = d[i]

(* Besides sending every coordinate where the transforms do, into the       *)
(* tensor, a view sends none to the same place that differ on an axis with  *)
(* a step.                                                                  *)
ViewInv ==
  /\ base \in Bases
  /\ IsMap(map)
  /\ MapsCompose
  /\ \A c \in Coords(map.shape) : meaning[c] \in PlacesIn(base.shape)
  /\ \A c, d \in Coords(map.shape) : meaning[c] = meaning[d] => Alike(map, c, d)

(* What each kind of axis adds.                                             *)
LEMMA OfStride ==
  ASSUME NEW step, NEW k
  PROVE  Stride(step).kind = "stride" /\ Stride(step).step = step /\ Contribution(Stride(step), k) = k * step
BY DEF Stride, Contribution

LEMMA OfBroadcast ==
  ASSUME NEW offset, NEW k
  PROVE  Broadcast(offset).kind = "broadcast" /\ Contribution(Broadcast(offset), k) = offset
BY DEF Broadcast, Contribution

LEMMA OfTable ==
  ASSUME NEW dim, NEW axis, IsTable(axis, dim), NEW k
  PROVE  axis.kind = "gather" /\ Contribution(axis, k) = axis.offsets[Entry(axis, k) + 1]
BY DEF IsTable, Contribution, GatherAt

(* It is a number.                                                          *)
LEMMA AxisFacts ==
  ASSUME NEW dim \in Nat, NEW axis, IsAxis(axis, dim), NEW k \in 0..(dim - 1)
  PROVE  Contribution(axis, k) \in Int
<1>1. CASE \E step \in Int : axis = Stride(step)
  <2> PICK step \in Int : axis = Stride(step)
    BY <1>1
  <2> QED BY OfStride
<1>2. CASE \E offset \in Int : axis = Broadcast(offset)
  BY <1>2, OfBroadcast
<1>3. CASE IsTable(axis, dim)
  <2>1. Contribution(axis, k) = axis.offsets[Entry(axis, k) + 1]
    BY <1>3, OfTable
  <2>2. axis.offsets \in Seq(Int) /\ Entry(axis, k) + 1 \in 1..Len(axis.offsets)
    BY <1>3 DEF IsTable
  <2> QED BY ONLY <2>1, <2>2
<1> QED BY <1>1, <1>2, <1>3 DEF IsAxis

(* A map's axes add numbers to its offset.                                  *)
LEMMA PartsFacts ==
  ASSUME NEW m, IsMap(m), NEW c, Below(c, m.shape)
  PROVE  /\ Rank(m) \in Nat /\ m.offset \in Int
         /\ Parts(m, c) \in [1..Rank(m) -> Int] /\ DOMAIN c = 1..Rank(m)
         /\ \A i \in 1..Rank(m) : Parts(m, c)[i] = Contribution(m.axes[i], c[i])
         /\ FlatOffset(m, c) = m.offset + Total(Parts(m, c))
<1> PICK n \in Nat : n = Len(m.shape) /\ n = Rank(m)
  BY DEF IsMap, Rank
<1>1. \A i \in 1..n : m.shape[i] \in Nat /\ c[i] \in 0..(m.shape[i] - 1)
  <2>1. m.shape \in Seq(Positive) /\ Len(m.shape) = n
    BY DEF IsMap
  <2>2. \A i \in 1..n : m.shape[i] \in Positive
    BY ONLY <2>1
  <2>3. \A i \in 1..n : c[i] \in Nat /\ c[i] < m.shape[i]
    BY DEF Below
  <2>4. \A i \in 1..n : m.shape[i] \in Nat
    BY <2>2 DEF Positive
  <2> QED BY <2>3, <2>4
<1>2. \A i \in 1..n : IsAxis(m.axes[i], m.shape[i])
  BY DEF IsMap
<1>3. \A i \in 1..n : Contribution(m.axes[i], c[i]) \in Int
  BY <1>1, <1>2, AxisFacts
<1>4. Parts(m, c) \in [1..n -> Int] /\ \A i \in 1..n : Parts(m, c)[i] = Contribution(m.axes[i], c[i])
  BY <1>3 DEF Parts
<1>5. FlatOffset(m, c) = m.offset + Total(Parts(m, c))
  BY Zenon DEF FlatOffset, Parts
<1>6. DOMAIN c = 1..n /\ m.offset \in Int
  BY DEF Below, IsMap
<1> QED BY <1>4, <1>5, <1>6

(* A map whose axes have the strides of its shape gives row-major places.   *)
LEMMA OffsetOfStrided ==
  ASSUME NEW m, IsMap(m), \A i \in 1..Rank(m) : m.axes[i] = Stride(Strides(m.shape)[i]),
         NEW c, Below(c, m.shape)
  PROVE  FlatOffset(m, c) = m.offset + Linear(m.shape, c)
<1>1. DOMAIN c = 1..Rank(m) /\ FlatOffset(m, c) = m.offset + Total(Parts(m, c))
  BY PartsFacts
<1>2. \A i \in 1..Rank(m) : Contribution(m.axes[i], c[i]) = c[i] * Strides(m.shape)[i]
  BY OfStride
<1>3. Parts(m, c) = [i \in DOMAIN c |-> c[i] * Strides(m.shape)[i]]
  BY <1>1, <1>2 DEF Parts
<1> QED BY <1>1, <1>3 DEF Linear, Dot

(* Such a map is a map.                                                     *)
LEMMA IdentityFacts ==
  ASSUME NEW s \in Seq(Positive), NEW offset \in Int, NEW m,
         m = [offset |-> offset, axes |-> [i \in Axes(s) |-> Stride(Strides(s)[i])], shape |-> s]
  PROVE  IsMap(m) /\ \A i \in 1..Rank(m) : m.axes[i] = Stride(Strides(m.shape)[i])
<1>1. Axes(s) = 1..Len(s) /\ m.shape = s /\ Rank(m) = Len(s)
  BY DEF Axes, Rank
<1>2. \A i \in 1..Len(s) : Strides(s)[i] \in Int
  <2>1. \A i \in 1..Len(s) : Strides(s)[i] = After(s, i) /\ i \in 0..Len(s)
    BY AfterOf
  <2> QED BY <2>1, AfterOf DEF Positive
<1>3. \A i \in 1..Len(s) : m.axes[i] = Stride(Strides(s)[i])
  BY <1>1
<1>4. \A i \in 1..Len(s) : IsAxis(m.axes[i], s[i])
  BY <1>2, <1>3 DEF IsAxis
<1> QED BY <1>1, <1>3, <1>4 DEF IsMap

(* A transform that computes where coordinates come from keeps the          *)
(* invariant.                                                               *)
LEMMA Became ==
  ASSUME ViewInv, NEW m, NEW before, Become(m, before), IsMap(m),
         \A c : Below(c, m.shape) =>
           Below(before[c], map.shape) /\ FlatOffset(m, c) = FlatOffset(map, before[c]),
         \A c, d : Below(c, m.shape) /\ Below(d, m.shape) /\ Alike(map, before[c], before[d]) => Alike(m, c, d)
  PROVE  ViewInv'
<1>1. /\ map' = m /\ base' = base
      /\ meaning' = [c \in Coords(m.shape) |-> meaning[before[c]]]
  BY DEF Become
<1>2. m.shape \in Seq(Positive) /\ map.shape \in Seq(Positive)
  BY DEF ViewInv, IsMap
<1>3. ASSUME NEW c \in Coords(m.shape)
      PROVE  /\ Below(c, m.shape) /\ before[c] \in Coords(map.shape)
             /\ meaning'[c] = meaning[before[c]]
             /\ FlatOffset(m, c) = FlatOffset(map, before[c])
  <2>1. Below(c, m.shape)
    BY <1>2, CoordsAre
  <2>2. before[c] \in Coords(map.shape)
    BY <1>2, <2>1, CoordsAre
  <2> QED BY <1>1, <2>1, <2>2
<1>4. MapsCompose'
  <2>1. DOMAIN meaning' = Coords(map'.shape)
    BY <1>1
  <2>2. ASSUME NEW c \in Coords(map'.shape) PROVE FlatOffset(map', c) = meaning'[c]
    <3>1. FlatOffset(map, before[c]) = meaning[before[c]]
      BY <1>1, <1>3, <2>2 DEF ViewInv, MapsCompose
    <3> QED BY <1>1, <1>3, <2>2, <3>1
  <2> QED BY <2>1, <2>2 DEF MapsCompose
<1>5. ASSUME NEW c \in Coords(map'.shape), NEW d \in Coords(map'.shape), meaning'[c] = meaning'[d]
      PROVE  Alike(map', c, d)
  <2>1. c \in Coords(m.shape) /\ d \in Coords(m.shape)
    BY <1>1, <1>5
  <2>2. meaning[before[c]] = meaning[before[d]] /\ before[c] \in Coords(map.shape) /\ before[d] \in Coords(map.shape)
    BY <1>3, <1>5, <2>1
  <2>3. Alike(map, before[c], before[d])
    BY <2>2 DEF ViewInv
  <2>4. Below(c, m.shape) /\ Below(d, m.shape)
    BY <1>3, <2>1
  <2> QED BY <1>1, <2>3, <2>4
<1>6. base' \in Bases /\ IsMap(map)'
  <2>1. IsMap(m)
    OBVIOUS
  <2> QED BY <1>1, <2>1 DEF ViewInv, IsMap, IsAxis, IsTable
<1>7. ASSUME NEW c \in Coords(map'.shape) PROVE meaning'[c] \in PlacesIn(base'.shape)
  <2>1. c \in Coords(m.shape)
    BY <1>1, <1>7
  <2>2. meaning[before[c]] \in PlacesIn(base.shape)
    BY <1>3, <2>1 DEF ViewInv
  <2> QED BY <1>1, <1>3, <2>1, <2>2
<1> QED BY <1>4, <1>5, <1>6, <1>7 DEF ViewInv, Alike, Rank, PlacesIn

(* Reshaping.                                                               *)
LEMMA ReshapeNext ==
  ASSUME ViewInv, Reshape
  PROVE  ViewInv'
<1> PICK s \in Shapes :
      /\ Product(s) = Product(map.shape) /\ IsCContiguous(map)
      /\ Become([Identity(s) EXCEPT !.offset = map.offset],
                [c \in Coords(s) |-> Decode(map.shape, Linear(s, c))])
  BY DEF Reshape
<1> PICK m, before, r :
      /\ m = [Identity(s) EXCEPT !.offset = map.offset] /\ r = map.shape
      /\ before = [c \in Coords(s) |-> Decode(map.shape, Linear(s, c))]
  OBVIOUS
<1>1. s \in Seq(Positive) /\ r \in Seq(Positive) /\ map.offset \in Int
  <2>1. s \in Seq(Positive)
    BY MapAssumption DEF Positive
  <2> QED BY <2>1 DEF ViewInv, IsMap
<1>2. m = [offset |-> map.offset, axes |-> [i \in Axes(s) |-> Stride(Strides(s)[i])], shape |-> s]
  <2> PICK axes : axes = [i \in Axes(s) |-> Stride(Strides(s)[i])]
    OBVIOUS
  <2>1. Identity(s) = [offset |-> 0, axes |-> axes, shape |-> s]
    BY DEF Identity
  <2>2. m = [Identity(s) EXCEPT !.offset = map.offset]
    OBVIOUS
  <2> QED BY ONLY <2>1, <2>2, axes = [i \in Axes(s) |-> Stride(Strides(s)[i])]
<1>3. IsMap(m) /\ m.shape = s /\ m.offset = map.offset /\ \A i \in 1..Rank(m) : m.axes[i] = Stride(Strides(m.shape)[i])
  <2>1. m.shape = s /\ m.offset = map.offset
    BY ONLY <1>2
  <2>2. s \in Seq(Positive) /\ map.offset \in Int
    BY <1>1
  <2>3. IsMap(m) /\ \A i \in 1..Rank(m) : m.axes[i] = Stride(Strides(m.shape)[i])
    BY ONLY <1>2, <2>2, IdentityFacts
  <2> QED BY <2>1, <2>3
<1>4. IsMap(map) /\ \A i \in 1..Rank(map) : map.axes[i] = Stride(Strides(map.shape)[i])
  BY DEF ViewInv, IsCContiguous
<1>5. ASSUME NEW c, Below(c, s)
      PROVE  /\ before[c] = CoordAt(r, Linear(s, c)) /\ Linear(s, c) \in PlacesIn(r)
             /\ Below(before[c], r) /\ Linear(r, before[c]) = Linear(s, c)
  <2>1. c \in Coords(s)
    BY <1>1, <1>5, CoordsAre
  <2>2. before[c] = CoordAt(r, Linear(s, c))
    BY <2>1 DEF Decode, CoordAt
  <2>3. Linear(s, c) \in PlacesIn(r)
    BY <1>1, <1>5, AtOfLinear DEF PlacesIn
  <2> QED BY <1>1, <2>2, <2>3, LinearOfAt
<1>6. ASSUME NEW c, Below(c, m.shape)
      PROVE  Below(before[c], map.shape) /\ FlatOffset(m, c) = FlatOffset(map, before[c])
  <2>1. Below(c, s) /\ Below(before[c], map.shape)
    BY <1>3, <1>5, <1>6
  <2>2. FlatOffset(m, c) = m.offset + Linear(m.shape, c)
    BY <1>3, <1>6, OffsetOfStrided
  <2>3. FlatOffset(map, before[c]) = map.offset + Linear(map.shape, before[c])
    BY <1>4, <2>1, OffsetOfStrided
  <2> QED BY <1>3, <1>5, <2>1, <2>2, <2>3
<1>7. ASSUME NEW c, NEW d, Below(c, m.shape), Below(d, m.shape), Alike(map, before[c], before[d])
      PROVE  Alike(m, c, d)
  <2>1. Below(c, s) /\ Below(d, s)
    BY <1>3, <1>7
  <2>2. Below(before[c], r) /\ Below(before[d], r)
    BY <1>5, <2>1
  <2>3. \A i \in 1..Rank(map) : before[c][i] = before[d][i]
    BY <1>4, <1>7, OfStride DEF Alike
  <2>4. before[c] = before[d]
    <3>1. before[c] = [i \in 1..Len(r) |-> before[c][i]] /\ before[d] = [i \in 1..Len(r) |-> before[d][i]]
      <4>1. before[c] \in [1..Len(r) -> Nat] /\ before[d] \in [1..Len(r) -> Nat]
        BY <2>2 DEF Below
      <4> QED BY ONLY <4>1
    <3>2. Len(r) = Rank(map)
      BY DEF Rank
    <3> QED BY <2>3, <3>1, <3>2
  <2>5. Linear(s, c) = Linear(s, d)
    BY <1>5, <2>1, <2>4
  <2>6. c = d
    BY <1>1, <2>1, <2>5, AtOfLinear
  <2> QED BY <2>6 DEF Alike
<1> QED BY <1>3, <1>6, <1>7, Became

--------------------------------------------------------------------------------
(* How the axes of a view follow from those of the view before.             *)

(* Some of the axes are taken, in any order, each with a part of what it    *)
(* added, and the offset takes the other parts and the other axes.          *)
Selects(m, c, a, b, kept, shift) ==
  /\ kept \in [1..Rank(m) -> 1..Rank(a)] /\ Distinctly(kept, Rank(m))
  /\ shift \in [1..Rank(a) -> Int] /\ m.offset = a.offset + Total(shift)
  /\ \A k \in 1..Rank(m) : Contribution(a.axes[kept[k]], b[kept[k]])
                              = shift[kept[k]] + Contribution(m.axes[k], c[k])
  /\ \A i \in 1..Rank(a) :
        (\A k \in 1..Rank(m) : kept[k] # i) => Contribution(a.axes[i], b[i]) = shift[i]

(* The view then sends coordinates where the view before does.              *)
LEMMA Selected ==
  ASSUME NEW a, IsMap(a), NEW b, Below(b, a.shape), NEW m, IsMap(m), NEW c, Below(c, m.shape),
         NEW kept, NEW shift, Selects(m, c, a, b, kept, shift)
  PROVE  FlatOffset(m, c) = FlatOffset(a, b)
<1> USE DEF Selects
<1> PICK n, l, f, g : n = Rank(a) /\ l = Rank(m) /\ f = Parts(a, b) /\ g = Parts(m, c)
  OBVIOUS
<1>1. /\ n \in Nat /\ a.offset \in Int /\ f \in [1..n -> Int]
      /\ \A i \in 1..n : f[i] = Contribution(a.axes[i], b[i])
      /\ FlatOffset(a, b) = a.offset + Total(f)
  BY PartsFacts
<1>2. /\ l \in Nat /\ g \in [1..l -> Int]
      /\ \A k \in 1..l : g[k] = Contribution(m.axes[k], c[k])
      /\ FlatOffset(m, c) = m.offset + Total(g)
  BY PartsFacts
<1> PICK h : h = [i \in 1..n |-> f[i] - shift[i]]
  OBVIOUS
<1>3. /\ shift \in [1..n -> Int] /\ h \in [1..n -> Int]
      /\ \A i \in 1..n : f[i] = shift[i] + h[i]
  <2>1. shift \in [1..n -> Int]
    OBVIOUS
  <2>2. \A i \in 1..n : f[i] \in Int /\ shift[i] \in Int
    BY ONLY <1>1, <2>1
  <2>3. \A i \in 1..n : h[i] = f[i] - shift[i]
    BY ONLY h = [i \in 1..n |-> f[i] - shift[i]]
  <2>4. \A i \in 1..n : h[i] \in Int /\ f[i] = shift[i] + h[i]
    BY ONLY <2>2, <2>3
  <2>5. h = [i \in 1..n |-> h[i]]
    BY ONLY h = [i \in 1..n |-> f[i] - shift[i]]
  <2> QED BY ONLY <2>1, <2>4, <2>5
<1>4. Total(f) = Total(shift) + Total(h)
  BY ONLY <1>1, <1>3, SumOfSums
<1>5. kept \in [1..l -> 1..n] /\ Distinctly(kept, l)
  OBVIOUS
<1>6. \A k \in 1..l : h[kept[k]] = g[k]
  <2> SUFFICES ASSUME NEW k \in 1..l PROVE h[kept[k]] = g[k]
    OBVIOUS
  <2>1. f[kept[k]] = shift[kept[k]] + g[k]
    BY <1>1, <1>2, <1>5
  <2>2. shift[kept[k]] \in Int /\ g[k] \in Int /\ h[kept[k]] = f[kept[k]] - shift[kept[k]]
    BY <1>2, <1>3, <1>5
  <2> QED BY <2>1, <2>2
<1>7. \A i \in 1..n : (\A k \in 1..l : kept[k] # i) => h[i] = 0
  <2> SUFFICES ASSUME NEW i \in 1..n, \A k \in 1..l : kept[k] # i PROVE h[i] = 0
    OBVIOUS
  <2>1. f[i] = shift[i]
    BY <1>1
  <2> QED BY <1>3, <2>1
<1>8. Total([k \in 1..l |-> h[kept[k]]]) = Total(h)
  <2>1. Reorders(n, l)
    BY ONLY <1>1, <1>2, Reordered
  <2> QED BY ONLY <1>3, <1>5, <1>7, <2>1 DEF Reorders
<1>9. g = [k \in 1..l |-> h[kept[k]]]
  BY <1>2, <1>6
<1>10. Total(shift) \in Int /\ Total(h) \in Int
  BY <1>1, <1>3, SumIsNumber
<1> QED BY <1>1, <1>2, <1>4, <1>8, <1>9, <1>10

(* The axes are all taken, and others that add nothing.                     *)
Spreads(m, c, a, b, kept) ==
  /\ kept \in [1..Rank(a) -> 1..Rank(m)] /\ Distinctly(kept, Rank(a)) /\ m.offset = a.offset
  /\ \A i \in 1..Rank(a) : Contribution(m.axes[kept[i]], c[kept[i]]) = Contribution(a.axes[i], b[i])
  /\ \A k \in 1..Rank(m) :
        (\A i \in 1..Rank(a) : kept[i] # k) => Contribution(m.axes[k], c[k]) = 0

(* Again the view sends coordinates where the view before does.             *)
LEMMA Spread ==
  ASSUME NEW a, IsMap(a), NEW b, Below(b, a.shape), NEW m, IsMap(m), NEW c, Below(c, m.shape),
         NEW kept, Spreads(m, c, a, b, kept)
  PROVE  FlatOffset(m, c) = FlatOffset(a, b)
<1> USE DEF Spreads
<1> PICK n, l, f, g : n = Rank(a) /\ l = Rank(m) /\ f = Parts(a, b) /\ g = Parts(m, c)
  OBVIOUS
<1>1. /\ n \in Nat /\ f \in [1..n -> Int]
      /\ \A i \in 1..n : f[i] = Contribution(a.axes[i], b[i])
      /\ FlatOffset(a, b) = a.offset + Total(f)
  BY PartsFacts
<1>2. /\ l \in Nat /\ g \in [1..l -> Int]
      /\ \A k \in 1..l : g[k] = Contribution(m.axes[k], c[k])
      /\ FlatOffset(m, c) = m.offset + Total(g)
  BY PartsFacts
<1>3. kept \in [1..n -> 1..l] /\ Distinctly(kept, n)
  OBVIOUS
<1>4. \A i \in 1..n : g[kept[i]] = f[i]
  BY <1>1, <1>2, <1>3
<1>5. \A k \in 1..l : (\A i \in 1..n : kept[i] # k) => g[k] = 0
  BY <1>2
<1>6. Total([i \in 1..n |-> g[kept[i]]]) = Total(g)
  <2>1. Reorders(l, n)
    BY ONLY <1>1, <1>2, Reordered
  <2> QED BY ONLY <1>2, <1>3, <1>5, <2>1 DEF Reorders
<1>7. f = [i \in 1..n |-> g[kept[i]]]
  BY <1>1, <1>4
<1> QED BY <1>1, <1>2, <1>6, <1>7

(* Broadcasting.                                                            *)
LEMMA BroadcastToNext ==
  ASSUME ViewInv, BroadcastTo
  PROVE  ViewInv'
<1> DEFINE Added(s) == Len(s) - Rank(map)
           Axis(i) == IF map.shape[i] = 1 THEN Repeated(map.axes[i]) ELSE map.axes[i]
<1> PICK s \in Shapes :
      /\ Added(s) >= 0
      /\ \A i \in 1..Rank(map) : map.shape[i] \in {1, s[i + Added(s)]}
      /\ Become([offset |-> map.offset,
                  axes |-> [i \in 1..Len(s) |->
                    IF i <= Added(s) THEN Broadcast(0) ELSE Axis(i - Added(s))],
                  shape |-> s],
                [c \in Coords(s) |-> [i \in 1..Rank(map) |->
                  IF map.shape[i] = 1 THEN 0 ELSE c[i + Added(s)]]])
  BY DEF BroadcastTo
<1> PICK added, n, l, r : added = Added(s) /\ n = Rank(map) /\ l = Len(s) /\ r = map.shape
  OBVIOUS
<1> PICK axes, before :
      /\ axes = [i \in 1..l |-> IF i <= added THEN Broadcast(0) ELSE Axis(i - added)]
      /\ before = [c \in Coords(s) |-> [i \in 1..n |-> IF r[i] = 1 THEN 0 ELSE c[i + added]]]
  OBVIOUS
<1> PICK m : m = [offset |-> map.offset, axes |-> axes, shape |-> s]
  OBVIOUS
<1>1. s \in Seq(Positive)
  BY MapAssumption DEF Positive
<1>2. /\ map = [offset |-> map.offset, axes |-> map.axes, shape |-> map.shape]
      /\ map.offset \in Int /\ r \in Seq(Positive) /\ n = Len(r) /\ IsMap(map)
      /\ \A i \in 1..n : IsAxis(map.axes[i], r[i])
  BY DEF ViewInv, IsMap, Rank
<1>3. n \in Nat /\ l \in Nat /\ added \in Nat /\ l = n + added
  BY <1>1, <1>2
<1>4. Become(m, before)
  BY Zenon
<1>5. m.offset = map.offset /\ m.axes = axes /\ m.shape = s /\ Rank(m) = l
  BY DEF Rank
<1>6. \A i \in 1..n : r[i] \in {1, s[i + added]} /\ i + added \in 1..l /\ ~(i + added <= added) /\ (i + added) - added = i
  <2>1. \A i \in 1..n : i + added \in 1..l /\ ~(i + added <= added) /\ (i + added) - added = i
    BY ONLY <1>3
  <2> QED BY <2>1
<1>7. \A i \in 1..n : axes[i + added] = Axis(i)
  <2> HIDE DEF Axis
  <2> QED BY <1>6
<1>8. \A k \in 1..l : k <= added => axes[k] = Broadcast(0)
  <2> HIDE DEF Axis
  <2> QED OBVIOUS
<1>9. \A k \in 1..l : k <= added \/ \E i \in 1..n : k = i + added
  <2> SUFFICES ASSUME NEW k \in 1..l, ~(k <= added) PROVE \E i \in 1..n : k = i + added
    OBVIOUS
  <2>1. k - added \in 1..n /\ k = (k - added) + added
    BY ONLY <1>3, k \in 1..l, ~(k <= added)
  <2> QED BY <2>1
<1>10. ASSUME NEW i \in 1..n
       PROVE  /\ IsAxis(Axis(i), s[i + added])
              /\ r[i] = 1 => \E x \in Int : Axis(i) = Broadcast(x) /\ x = Contribution(map.axes[i], 0)
              /\ r[i] # 1 => Axis(i) = map.axes[i] /\ s[i + added] = r[i]
  <2>1. CASE r[i] = 1
    <3>1. Contribution(map.axes[i], 0) \in Int
      <4>1. r[i] \in Nat /\ 0 \in 0..(r[i] - 1)
        BY <2>1
      <4> QED BY <1>2, <4>1, AxisFacts
    <3>2. Axis(i) = Broadcast(Contribution(map.axes[i], 0))
      <4>1. Axis(i) = Repeated(map.axes[i])
        BY <2>1
      <4>2. CASE \E step \in Int : map.axes[i] = Stride(step)
        <5> PICK step \in Int : map.axes[i] = Stride(step)
          BY <4>2
        <5>1. Contribution(map.axes[i], 0) = 0 * step /\ map.axes[i].kind = "stride"
          BY OfStride
        <5>2. 0 * step = 0
          OBVIOUS
        <5> QED BY <4>1, <5>1, <5>2 DEF Repeated
      <4>3. CASE map.axes[i].kind # "stride"
        BY <4>1, <4>3 DEF Repeated
      <4>4. map.axes[i].kind # "stride" \/ \E step \in Int : map.axes[i] = Stride(step)
        <5>1. IsAxis(map.axes[i], r[i])
          BY <1>2
        <5>2. IsTable(map.axes[i], r[i]) => map.axes[i].kind = "gather"
          BY OfTable
        <5>3. \A x : Broadcast(x).kind = "broadcast"
          BY OfBroadcast
        <5> QED BY ONLY <5>1, <5>2, <5>3 DEF IsAxis
      <4> QED BY <4>2, <4>3, <4>4
    <3> QED BY <2>1, <3>1, <3>2 DEF IsAxis
  <2>2. CASE r[i] # 1
    <3>1. r[i] = s[i + added] /\ Axis(i) = map.axes[i]
      BY <1>6, <2>2
    <3>2. IsAxis(map.axes[i], r[i])
      BY <1>2
    <3> QED BY <2>2, <3>1, <3>2
  <2> QED BY <2>1, <2>2
<1> HIDE DEF Axis
<1>11. IsMap(m)
  <2>1. ASSUME NEW k \in 1..l PROVE IsAxis(axes[k], s[k])
    <3>1. CASE k <= added
      <4>1. 0 \in Int
        OBVIOUS
      <4> QED BY <1>8, <3>1, <4>1 DEF IsAxis
    <3>2. CASE ~(k <= added)
      <4>1. PICK i \in 1..n : k = i + added
        BY <1>9, <3>2
      <4> QED BY <1>7, <1>10, <4>1
    <3> QED BY <3>1, <3>2
  <2>2. DOMAIN axes = 1..l
    OBVIOUS
  <2> QED BY <1>1, <1>2, <1>5, <2>1, <2>2 DEF IsMap
<1>12. ASSUME NEW c, Below(c, s)
       PROVE  /\ before[c] = [i \in 1..n |-> IF r[i] = 1 THEN 0 ELSE c[i + added]]
              /\ Below(before[c], r)
  <2>1. c \in Coords(s)
    BY <1>1, <1>12, CoordsAre
  <2>2. before[c] = [i \in 1..n |-> IF r[i] = 1 THEN 0 ELSE c[i + added]]
    BY <2>1
  <2>3. ASSUME NEW i \in 1..n PROVE before[c][i] \in Nat /\ before[c][i] < r[i]
    <3>0. before[c][i] = IF r[i] = 1 THEN 0 ELSE c[i + added]
      BY ONLY <2>2, i \in 1..n
    <3>1. CASE r[i] = 1
      BY ONLY <3>0, <3>1
    <3>2. CASE r[i] # 1
      <4>1. before[c][i] = c[i + added] /\ r[i] = s[i + added] /\ i + added \in 1..l
        BY <1>6, <1>10, <3>0, <3>2
      <4>2. c[i + added] \in Nat /\ c[i + added] < s[i + added]
        BY <1>12, <4>1 DEF Below
      <4> QED BY <4>1, <4>2
    <3> QED BY <3>1, <3>2
  <2>4. before[c] \in [1..Len(r) -> Nat] /\ \A i \in 1..Len(r) : before[c][i] < r[i]
    BY <1>2, <2>2, <2>3
  <2> QED BY <2>2, <2>4 DEF Below
<1>13. ASSUME NEW c, Below(c, m.shape)
       PROVE  Below(before[c], map.shape) /\ FlatOffset(m, c) = FlatOffset(map, before[c])
  <2>1. Below(c, s) /\ Below(before[c], map.shape)
    BY <1>5, <1>12, <1>13
  <2> PICK kept, b : kept = [i \in 1..n |-> i + added] /\ b = before[c]
    OBVIOUS
  <2>2. kept \in [1..Rank(map) -> 1..Rank(m)] /\ Distinctly(kept, Rank(map))
    <3>1. kept \in [1..n -> 1..l]
      BY <1>6
    <3>2. Distinctly(kept, n)
      BY ONLY <1>3, kept = [i \in 1..n |-> i + added] DEF Distinctly
    <3> QED BY <1>5, <3>1, <3>2
  <2>3. ASSUME NEW i \in 1..Rank(map)
        PROVE  Contribution(m.axes[kept[i]], c[kept[i]]) = Contribution(map.axes[i], b[i])
    <3>0. i \in 1..n /\ kept[i] = i + added
      BY ONLY kept = [k \in 1..n |-> k + added], i \in 1..Rank(map), n = Rank(map)
    <3>1. m.axes[i + added] = Axis(i) /\ b[i] = IF r[i] = 1 THEN 0 ELSE c[i + added]
      <4>1. b = [j \in 1..n |-> IF r[j] = 1 THEN 0 ELSE c[j + added]]
        BY <1>12, <2>1
      <4>2. b[i] = IF r[i] = 1 THEN 0 ELSE c[i + added]
        BY ONLY <3>0, <4>1
      <4> QED BY <1>5, <1>7, <3>0, <4>2
    <3>2. CASE r[i] = 1
      BY <1>10, <3>0, <3>1, <3>2, OfBroadcast
    <3>3. CASE r[i] # 1
      BY <1>10, <3>0, <3>1, <3>3
    <3> QED BY <3>2, <3>3
  <2>4. \A k \in 1..Rank(m) :
          (\A i \in 1..Rank(map) : kept[i] # k) => Contribution(m.axes[k], c[k]) = 0
    <3> SUFFICES ASSUME NEW k \in 1..l, \A i \in 1..n : i + added # k
                 PROVE  Contribution(m.axes[k], c[k]) = 0
      BY <1>5
    <3>1. m.axes[k] = Broadcast(0)
      BY <1>5, <1>8, <1>9
    <3> QED BY <3>1, OfBroadcast
  <2>5. FlatOffset(m, c) = FlatOffset(map, b)
    <3>1. Below(b, map.shape) /\ Below(c, m.shape) /\ m.offset = map.offset /\ IsMap(map)
      BY <1>2, <1>5, <1>13, <2>1
    <3>2. Spreads(m, c, map, b, kept)
      BY ONLY <2>2, <2>3, <2>4, <3>1 DEF Spreads
    <3> QED BY ONLY <1>11, <3>1, <3>2, Spread
  <2> QED BY <2>1, <2>5
<1>14. ASSUME NEW c, NEW d, Below(c, m.shape), Below(d, m.shape), Alike(map, before[c], before[d])
       PROVE  Alike(m, c, d)
  <2>1. Below(c, s) /\ Below(d, s)
    BY <1>5, <1>14
  <2>2. ASSUME NEW k \in 1..l, axes[k].kind = "stride" PROVE c[k] = d[k]
    <3>1. ~(k <= added)
      BY <1>8, <2>2, OfBroadcast
    <3> PICK i \in 1..n : k = i + added
      BY <1>9, <3>1
    <3>2. axes[k] = Axis(i)
      BY <1>7
    <3>3. r[i] # 1
      BY <1>10, <2>2, <3>2, OfBroadcast
    <3>4. before[c][i] = c[k] /\ before[d][i] = d[k]
      <4>1. /\ before[c] = [j \in 1..n |-> IF r[j] = 1 THEN 0 ELSE c[j + added]]
            /\ before[d] = [j \in 1..n |-> IF r[j] = 1 THEN 0 ELSE d[j + added]]
        BY <1>12, <2>1
      <4> QED BY ONLY <3>3, <4>1, i \in 1..n, k = i + added
    <3>5. map.axes[i].kind = "stride"
      BY <1>10, <2>2, <3>2, <3>3
    <3> QED BY <1>14, <3>4, <3>5 DEF Alike
  <2> QED BY <1>5, <2>2 DEF Alike
<1> QED BY <1>4, <1>11, <1>13, <1>14, Became

--------------------------------------------------------------------------------
(* A sequence is a function from its places.                                *)
LEMMA PlacesFacts ==
  ASSUME NEW n \in Nat, NEW S, NEW s \in [1..n -> S]
  PROVE  s \in Seq(S) /\ Len(s) = n /\ DOMAIN s = 1..n
OBVIOUS

(* Transposing.                                                             *)
LEMMA TransposeNext ==
  ASSUME ViewInv, Transpose
  PROVE  ViewInv'
<1> PICK p \in Bijection(1..Rank(map), 1..Rank(map)) :
      Become([offset |-> map.offset, axes |-> Pick(map.axes, p), shape |-> Pick(map.shape, p)],
             [c \in Coords(Pick(map.shape, p)) |-> [i \in 1..Rank(map) |-> c[PlaceIn(p, i)]]])
  BY DEF Transpose
<1> PICK n, r, s, axes : n = Rank(map) /\ r = map.shape /\ s = Pick(r, p) /\ axes = Pick(map.axes, p)
  OBVIOUS
<1> PICK before : before = [c \in Coords(s) |-> [i \in 1..n |-> c[PlaceIn(p, i)]]]
  OBVIOUS
<1> PICK m : m = [offset |-> map.offset, axes |-> axes, shape |-> s]
  OBVIOUS
<1>1. /\ map.offset \in Int /\ r \in Seq(Positive) /\ n = Len(r) /\ n \in Nat /\ IsMap(map)
      /\ \A i \in 1..n : IsAxis(map.axes[i], r[i])
  <2>1. IsMap(map)
    BY DEF ViewInv
  <2>2. map.offset \in Int /\ r \in Seq(Positive) /\ n = Len(r)
    BY <2>1 DEF IsMap, Rank
  <2>3. \A i \in 1..n : IsAxis(map.axes[i], r[i])
    BY <2>1, <2>2 DEF IsMap
  <2> QED BY <2>1, <2>2, <2>3
<1>2. p \in [1..n -> 1..n] /\ Distinctly(p, n) /\ \A i \in 1..n : \E k \in 1..n : p[k] = i
  <2>1. n \in Nat /\ p \in Bijection(1..n, 1..n)
    BY <1>1
  <2> QED BY ONLY <2>1, PermutationFacts
<1>3. /\ s = [k \in 1..n |-> r[p[k]]] /\ axes = [k \in 1..n |-> map.axes[p[k]]]
  BY <1>2 DEF Pick
<1>4. s \in Seq(Positive) /\ Len(s) = n
  <2>1. \A i \in 1..n : r[i] \in Positive
    BY ONLY <1>1
  <2>2. s \in [1..n -> Positive]
    BY ONLY <1>2, <1>3, <2>1
  <2> QED BY ONLY <1>1, <2>2, PlacesFacts
<1>5. Become(m, before)
  BY Zenon
<1>6. m.offset = map.offset /\ m.axes = axes /\ m.shape = s /\ Rank(m) = n
  BY <1>4 DEF Rank
<1>7. IsMap(m)
  <2>1. \A k \in 1..n : IsAxis(axes[k], s[k])
    <3> SUFFICES ASSUME NEW k \in 1..n PROVE IsAxis(axes[k], s[k])
      OBVIOUS
    <3>1. axes[k] = map.axes[p[k]] /\ s[k] = r[p[k]] /\ p[k] \in 1..n
      BY ONLY <1>2, <1>3, k \in 1..n
    <3> QED BY <1>1, <3>1
  <2>2. DOMAIN axes = 1..n
    BY <1>3
  <2> QED BY <1>1, <1>4, <1>6, <2>1, <2>2 DEF IsMap
<1>8. \A k \in 1..n : PlaceIn(p, p[k]) = k
  BY ONLY <1>1, <1>2, PlaceOfKept
<1>9. ASSUME NEW c, Below(c, s)
      PROVE  Below(before[c], r) /\ \A k \in 1..n : before[c][p[k]] = c[k]
  <2>1. c \in Coords(s)
    BY <1>4, <1>9, CoordsAre
  <2>2. before[c] = [i \in 1..n |-> c[PlaceIn(p, i)]]
    BY <2>1
  <2>3. \A k \in 1..n : before[c][p[k]] = c[k]
    BY ONLY <1>2, <1>8, <2>2
  <2>4. \A k \in 1..n : c[k] \in Nat /\ c[k] < s[k] /\ s[k] = r[p[k]]
    BY <1>3, <1>4, <1>9 DEF Below
  <2>5. \A i \in 1..n : before[c][i] \in Nat /\ before[c][i] < r[i]
    <3> SUFFICES ASSUME NEW i \in 1..n PROVE before[c][i] \in Nat /\ before[c][i] < r[i]
      OBVIOUS
    <3> PICK k \in 1..n : p[k] = i
      BY <1>2
    <3> QED BY ONLY <2>3, <2>4, p[k] = i, k \in 1..n
  <2>6. before[c] \in [1..Len(r) -> Nat]
    BY <1>1, <2>2, <2>5
  <2> QED BY <1>1, <2>3, <2>5, <2>6 DEF Below
<1>10. ASSUME NEW c, Below(c, m.shape)
       PROVE  Below(before[c], map.shape) /\ FlatOffset(m, c) = FlatOffset(map, before[c])
  <2>1. Below(c, s) /\ Below(before[c], map.shape)
    BY <1>6, <1>9, <1>10
  <2> PICK b, shift : b = before[c] /\ shift = [i \in 1..n |-> 0]
    OBVIOUS
  <2>2. shift \in [1..n -> Int] /\ \A i \in 1..n : shift[i] = 0
    OBVIOUS
  <2>3. Total(shift) = 0
    BY ONLY <1>1, <2>2, SumOfZeros
  <2>4. m.offset = map.offset + Total(shift)
    BY <1>1, <1>6, <2>3
  <2>5. ASSUME NEW k \in 1..n
        PROVE  Contribution(map.axes[p[k]], b[p[k]]) = shift[p[k]] + Contribution(m.axes[k], c[k])
    <3>1. b[p[k]] = c[k] /\ m.axes[k] = map.axes[p[k]] /\ p[k] \in 1..n /\ shift[p[k]] = 0
      <4>1. p[k] \in 1..n
        BY ONLY <1>2, k \in 1..n
      <4>2. m.axes[k] = map.axes[p[k]]
        BY ONLY <1>3, <1>6, k \in 1..n
      <4>3. b[p[k]] = c[k]
        BY <1>9, <2>1
      <4> QED BY ONLY <2>2, <4>1, <4>2, <4>3
    <3>2. Contribution(m.axes[k], c[k]) \in Int
      <4>1. Parts(m, c) \in [1..n -> Int] /\ \A i \in 1..n : Parts(m, c)[i] = Contribution(m.axes[i], c[i])
        BY <1>6, <1>7, <1>10, PartsFacts
      <4> QED BY ONLY <4>1, k \in 1..n
    <3> QED BY <3>1, <3>2
  <2>6. \A i \in 1..n : ~(\A k \in 1..n : p[k] # i)
    BY ONLY <1>2
  <2>7. Selects(m, c, map, b, p, shift)
    BY <1>2, <1>6, <2>2, <2>4, <2>5, <2>6 DEF Selects
  <2>8. Below(b, map.shape)
    BY <2>1
  <2>9. FlatOffset(m, c) = FlatOffset(map, b)
    BY ONLY <1>1, <1>7, <1>10, <2>7, <2>8, Selected
  <2> QED BY <2>1, <2>9
<1>11. ASSUME NEW c, NEW d, Below(c, m.shape), Below(d, m.shape), Alike(map, before[c], before[d])
       PROVE  Alike(m, c, d)
  <2>1. Below(c, s) /\ Below(d, s)
    BY <1>6, <1>11
  <2>2. ASSUME NEW k \in 1..n, axes[k].kind = "stride" PROVE c[k] = d[k]
    <3>1. axes[k] = map.axes[p[k]] /\ p[k] \in 1..n
      BY <1>2, <1>3
    <3>2. before[c][p[k]] = before[d][p[k]]
      BY <1>11, <2>2, <3>1 DEF Alike
    <3> QED BY <1>9, <2>1, <3>2
  <2> QED BY <1>6, <2>2 DEF Alike
<1> QED BY <1>5, <1>7, <1>10, <1>11, Became

(* A table's entries from its last to its first.                            *)
LEMMA FlippedFacts ==
  ASSUME NEW dim \in Nat, NEW g, IsTable(g, dim)
  PROVE  /\ IsTable(Flipped(g), dim)
         /\ \A k \in 0..(dim - 1) : Contribution(Flipped(g), k) = Contribution(g, (dim - 1) - k)
<1> PICK h : h = Flipped(g)
  OBVIOUS
<1> PICK offsets, start, step, reversed :
      /\ offsets = g.offsets /\ start = g.start /\ step = g.step /\ reversed = g.reversed
  OBVIOUS
<1>1. /\ g = [kind |-> "gather", offsets |-> offsets, start |-> start, step |-> step,
              reversed |-> reversed, len |-> dim]
      /\ offsets \in Seq(Int) /\ start \in Int /\ step \in Int /\ reversed \in BOOLEAN
  BY DEF IsTable
<1>2. \A k \in Int : Entry(g, k) = IF reversed THEN start - k * step ELSE start + k * step
  BY DEF Entry
<1> PICK last \in Int : last = dim - 1
  OBVIOUS
<1> PICK first \in Int : first = IF reversed THEN start - last * step ELSE start + last * step
  BY <1>1
<1>3. Entry(g, g.len - 1) = first
  <2>1. g.len - 1 = last
    BY <1>1
  <2> QED BY <1>2, <2>1
<1>4. h = [kind |-> "gather", offsets |-> offsets, start |-> first, step |-> step,
           reversed |-> ~reversed, len |-> dim]
  <2>1. h = [g EXCEPT !.start = first, !.reversed = ~g.reversed]
    BY <1>3 DEF Flipped
  <2>2. /\ DOMAIN g = {"kind", "offsets", "start", "step", "reversed", "len"}
        /\ g.kind = "gather" /\ g.len = dim
    BY ONLY <1>1
  <2>3. /\ DOMAIN h = {"kind", "offsets", "start", "step", "reversed", "len"}
        /\ h.kind = "gather" /\ h.len = dim /\ h.offsets = offsets /\ h.start = first
        /\ h.step = step /\ h.reversed = ~reversed
    BY ONLY <2>1, <2>2, offsets = g.offsets, step = g.step, reversed = g.reversed
  <2>4. h = [i \in {"kind", "offsets", "start", "step", "reversed", "len"} |-> h[i]]
    BY ONLY <2>1, <2>2
  <2> QED BY ONLY <2>3, <2>4
<1>5. \A k \in Int : Entry(h, k) = IF reversed THEN first + k * step ELSE first - k * step
  <2>1. h.start = first /\ h.step = step /\ h.reversed = ~reversed
    BY ONLY <1>4
  <2>2. \A k \in Int : Entry(h, k) = IF h.reversed THEN h.start - k * h.step ELSE h.start + k * h.step
    BY ONLY DEF Entry
  <2> QED BY ONLY <1>1, <2>1, <2>2
<1>6. ASSUME NEW k \in 0..last
      PROVE  last - k \in 0..last /\ Entry(h, k) = Entry(g, last - k)
  <2>1. k \in Int /\ last - k \in Int /\ last - k \in 0..last
    OBVIOUS
  <2>2. (last - k) * step = last * step - k * step
    BY <1>1, <2>1
  <2> PICK x \in Int, y \in Int : x = last * step /\ y = k * step
    BY <1>1, <2>1
  <2>3. first = IF reversed THEN start - x ELSE start + x
    OBVIOUS
  <2>4. Entry(h, k) = IF reversed THEN first + y ELSE first - y
    BY <1>5, <2>1
  <2>5. Entry(g, last - k) = IF reversed THEN start - (x - y) ELSE start + (x - y)
    BY <1>2, <2>1, <2>2
  <2>6. Entry(h, k) = Entry(g, last - k)
    BY ONLY <2>3, <2>4, <2>5, <1>1, x \in Int, y \in Int
  <2> QED BY <2>1, <2>6
<1>7. IsTable(h, dim)
  <2>1. \A k \in 0..(dim - 1) : Entry(h, k) + 1 \in 1..Len(offsets)
    <3> SUFFICES ASSUME NEW k \in 0..last PROVE Entry(h, k) + 1 \in 1..Len(offsets)
      OBVIOUS
    <3>1. last - k \in 0..(dim - 1) /\ Entry(h, k) = Entry(g, last - k)
      BY <1>6
    <3> QED BY <3>1 DEF IsTable
  <2>2. (~reversed) \in BOOLEAN
    BY ONLY <1>1
  <2>3. h \in [kind : {"gather"}, offsets : Seq(Int), start : Int, step : Int,
                reversed : BOOLEAN, len : Nat]
    <3>1. first \in Int /\ dim \in Nat
      OBVIOUS
    <3> QED BY ONLY <1>1, <1>4, <2>2, <3>1
  <2>4. h.len = dim /\ h.offsets = offsets
    BY ONLY <1>4
  <2> QED BY ONLY <2>1, <2>3, <2>4 DEF IsTable
<1>8. ASSUME NEW k \in 0..(dim - 1) PROVE Contribution(h, k) = Contribution(g, (dim - 1) - k)
  <2>1. Entry(h, k) = Entry(g, last - k)
    BY <1>6
  <2>2. Contribution(h, k) = h.offsets[Entry(h, k) + 1]
    BY <1>7, OfTable
  <2>3. Contribution(g, last - k) = g.offsets[Entry(g, last - k) + 1]
    BY OfTable
  <2>4. h.offsets = g.offsets
    BY <1>4
  <2> QED BY <2>1, <2>2, <2>3, <2>4
<1> QED BY <1>7, <1>8

(* A step from the last to the first.                                       *)
LEMMA StepBack == \A last, k, step \in Int : (last - k) * step = last * step + k * (-step)
<1> SUFFICES ASSUME NEW last \in Int, NEW k \in Int, NEW step \in Int
             PROVE  (last - k) * step = last * step + k * (-step)
  OBVIOUS
<1>1. (last - k) * step = last * step - k * step
  OBVIOUS
<1>2. k * (-step) = -(k * step)
  OBVIOUS
<1>3. last * step \in Int /\ k * step \in Int
  OBVIOUS
<1> QED BY <1>1, <1>2, <1>3

(* What flip_axis_contrib makes of an axis, and adds to the offset.         *)
FlippedAxis(axis) ==
  CASE axis.kind = "stride" -> Stride(-axis.step)
    [] axis.kind = "broadcast" -> axis
    [] axis.kind = "gather" -> Flipped(axis)
FlippedOffset(axis, dim) == IF axis.kind = "stride" THEN (dim - 1) * axis.step ELSE 0

(* The axis read backwards.                                                 *)
LEMMA FlippedAxisFacts ==
  ASSUME NEW dim \in Nat, NEW axis, IsAxis(axis, dim)
  PROVE  /\ IsAxis(FlippedAxis(axis), dim) /\ FlippedOffset(axis, dim) \in Int
         /\ FlippedAxis(axis).kind = axis.kind
         /\ \A k \in 0..(dim - 1) :
              Contribution(axis, (dim - 1) - k) = FlippedOffset(axis, dim) + Contribution(FlippedAxis(axis), k)
<1>1. CASE \E step \in Int : axis = Stride(step)
  <2> PICK step \in Int : axis = Stride(step)
    BY <1>1
  <2>1. axis.kind = "stride" /\ axis.step = step
    BY OfStride
  <2>2. FlippedAxis(axis) = Stride(-step)
    BY <2>1 DEF FlippedAxis
  <2>3. FlippedOffset(axis, dim) = (dim - 1) * step
    BY <2>1 DEF FlippedOffset
  <2>4. -step \in Int /\ (dim - 1) * step \in Int
    OBVIOUS
  <2>5. ASSUME NEW k \in 0..(dim - 1)
        PROVE  Contribution(axis, (dim - 1) - k) = FlippedOffset(axis, dim) + Contribution(FlippedAxis(axis), k)
    <3>1. Contribution(axis, (dim - 1) - k) = ((dim - 1) - k) * step
      BY OfStride
    <3>2. Contribution(FlippedAxis(axis), k) = k * (-step)
      BY <2>2, OfStride
    <3>3. ((dim - 1) - k) * step = (dim - 1) * step + k * (-step)
      <4>1. dim - 1 \in Int /\ k \in Int
        OBVIOUS
      <4> QED BY ONLY <4>1, step \in Int, StepBack
    <3> QED BY <2>3, <3>1, <3>2, <3>3
  <2>6. IsAxis(FlippedAxis(axis), dim)
    BY ONLY <2>2, <2>4 DEF IsAxis
  <2>7. FlippedAxis(axis).kind = axis.kind
    BY <2>1, <2>2, <2>4, OfStride
  <2> QED BY <2>3, <2>4, <2>5, <2>6, <2>7
<1>2. CASE \E offset \in Int : axis = Broadcast(offset)
  <2> PICK offset \in Int : axis = Broadcast(offset)
    BY <1>2
  <2>1. axis.kind = "broadcast" /\ \A k : Contribution(axis, k) = offset
    BY OfBroadcast
  <2>2. FlippedAxis(axis) = axis /\ FlippedOffset(axis, dim) = 0
    BY <2>1 DEF FlippedAxis, FlippedOffset
  <2> QED BY <2>1, <2>2
<1>3. CASE IsTable(axis, dim)
  <2>1. axis.kind = "gather"
    BY <1>3, OfTable
  <2>2. FlippedAxis(axis) = Flipped(axis) /\ FlippedOffset(axis, dim) = 0
    BY <2>1 DEF FlippedAxis, FlippedOffset
  <2>3. /\ IsTable(Flipped(axis), dim)
        /\ \A k \in 0..(dim - 1) : Contribution(Flipped(axis), k) = Contribution(axis, (dim - 1) - k)
    BY <1>3, FlippedFacts
  <2>4. IsAxis(FlippedAxis(axis), dim) /\ FlippedAxis(axis).kind = "gather"
    BY <2>2, <2>3, OfTable DEF IsAxis
  <2>5. \A k \in 0..(dim - 1) : Contribution(Flipped(axis), k) \in Int
    BY <2>2, <2>4, AxisFacts
  <2> QED BY <2>1, <2>2, <2>3, <2>4, <2>5
<1> QED BY <1>1, <1>2, <1>3 DEF IsAxis

(* Reversing an axis.                                                       *)
LEMMA FlipNext ==
  ASSUME ViewInv, Flip
  PROVE  ViewInv'
<1> DEFINE AxisThen(a) == CASE map.axes[a].kind = "stride" -> Stride(-map.axes[a].step)
                            [] map.axes[a].kind = "broadcast" -> map.axes[a]
                            [] map.axes[a].kind = "gather" -> Flipped(map.axes[a])
           OffsetThen(a) == IF map.axes[a].kind = "stride" THEN (map.shape[a] - 1) * map.axes[a].step ELSE 0
<1> PICK a \in 1..Rank(map) :
      Become([offset |-> map.offset + OffsetThen(a), axes |-> [map.axes EXCEPT ![a] = AxisThen(a)],
              shape |-> map.shape],
             [c \in Coords(map.shape) |-> [c EXCEPT ![a] = (map.shape[a] - 1) - @]])
  BY Zenon DEF Flip
<1> PICK axis, offset : axis = FlippedAxis(map.axes[a]) /\ offset = FlippedOffset(map.axes[a], map.shape[a])
  OBVIOUS
<1>1. axis = AxisThen(a) /\ offset = OffsetThen(a)
  BY Zenon DEF FlippedAxis, FlippedOffset
<1> PICK n, r, axes : n = Rank(map) /\ r = map.shape /\ axes = [map.axes EXCEPT ![a] = axis]
  OBVIOUS
<1> PICK before : before = [c \in Coords(r) |-> [c EXCEPT ![a] = (r[a] - 1) - @]]
  OBVIOUS
<1> PICK m : m = [offset |-> map.offset + offset, axes |-> axes, shape |-> r]
  OBVIOUS
<1>2. Become(m, before)
  <2> HIDE DEF AxisThen, OffsetThen
  <2> QED BY <1>1, Zenon
<1> HIDE DEF AxisThen, OffsetThen
<1>3. /\ map.offset \in Int /\ r \in Seq(Positive) /\ n = Len(r) /\ n \in Nat /\ IsMap(map)
      /\ DOMAIN map.axes = 1..n /\ a \in 1..n
      /\ \A i \in 1..n : IsAxis(map.axes[i], r[i])
  <2>1. IsMap(map)
    BY DEF ViewInv
  <2>2. map.offset \in Int /\ r \in Seq(Positive) /\ n = Len(r)
    BY <2>1 DEF IsMap, Rank
  <2>3. DOMAIN map.axes = 1..n /\ \A i \in 1..n : IsAxis(map.axes[i], r[i])
    BY <2>1, <2>2 DEF IsMap
  <2> QED BY <2>1, <2>2, <2>3
<1>4. \A i \in 1..n : r[i] \in Nat
  <2>1. \A i \in 1..n : r[i] \in Positive
    BY ONLY <1>3
  <2> QED BY <2>1 DEF Positive
<1>5. /\ IsAxis(axis, r[a]) /\ offset \in Int /\ axis.kind = map.axes[a].kind
      /\ \A k \in 0..(r[a] - 1) :
           Contribution(map.axes[a], (r[a] - 1) - k) = offset + Contribution(axis, k)
  BY <1>3, <1>4, FlippedAxisFacts
<1>6. axes[a] = axis /\ DOMAIN axes = 1..n /\ \A i \in 1..n : i # a => axes[i] = map.axes[i]
  BY <1>3
<1>7. m.offset = map.offset + offset /\ m.axes = axes /\ m.shape = r /\ Rank(m) = n
  BY <1>3 DEF Rank
<1>8. IsMap(m)
  <2>1. \A k \in 1..n : IsAxis(axes[k], r[k])
    BY <1>3, <1>5, <1>6
  <2>2. m.offset \in Int
    BY <1>3, <1>5, <1>7
  <2> QED BY <1>3, <1>6, <1>7, <2>1, <2>2 DEF IsMap
<1>9. ASSUME NEW c, Below(c, r)
      PROVE  /\ Below(before[c], r) /\ before[c][a] = (r[a] - 1) - c[a]
             /\ \A i \in 1..n : i # a => before[c][i] = c[i]
  <2>1. c \in Coords(r)
    BY <1>3, <1>9, CoordsAre
  <2>2. before[c] = [c EXCEPT ![a] = (r[a] - 1) - @]
    BY <2>1
  <2>3. c \in [1..n -> Nat] /\ \A i \in 1..n : c[i] < r[i]
    BY <1>3, <1>9 DEF Below
  <2>4. /\ DOMAIN before[c] = 1..n /\ before[c] = [i \in 1..n |-> before[c][i]]
        /\ before[c][a] = (r[a] - 1) - c[a]
        /\ \A i \in 1..n : i # a => before[c][i] = c[i]
    BY ONLY <1>3, <2>2, <2>3
  <2>5. \A i \in 1..n : before[c][i] \in Nat /\ before[c][i] < r[i]
    <3> SUFFICES ASSUME NEW i \in 1..n PROVE before[c][i] \in Nat /\ before[c][i] < r[i]
      OBVIOUS
    <3>1. c[i] \in Nat /\ c[i] < r[i] /\ r[i] \in Nat
      BY ONLY <1>4, <2>3, i \in 1..n
    <3>2. CASE i = a
      <4>1. before[c][i] = (r[i] - 1) - c[i]
        BY <2>4, <3>2
      <4> QED BY ONLY <3>1, <4>1
    <3>3. CASE i # a
      BY <2>4, <3>1, <3>3
    <3> QED BY <3>2, <3>3
  <2>6. before[c] \in [1..n -> Nat]
    BY ONLY <2>4, <2>5
  <2> QED BY <1>3, <2>4, <2>5, <2>6 DEF Below
<1>10. ASSUME NEW c, Below(c, m.shape)
       PROVE  Below(before[c], map.shape) /\ FlatOffset(m, c) = FlatOffset(map, before[c])
  <2>1. Below(c, r) /\ Below(before[c], map.shape)
    BY <1>7, <1>9, <1>10
  <2> PICK b, shift, kept :
        /\ b = before[c] /\ shift = [i \in 1..n |-> IF i = a THEN offset ELSE 0]
        /\ kept = [i \in 1..n |-> i]
    OBVIOUS
  <2>2. shift \in [1..n -> Int] /\ shift[a] = offset /\ \A i \in 1..n : i # a => shift[i] = 0
    BY <1>3, <1>5
  <2>3. Total(shift) = offset
    <3>1. ZeroBut(shift, n, a) /\ shift \in [1..n -> Int]
      BY <2>2 DEF ZeroBut
    <3>2. Total(shift) = shift[a]
      BY ONLY <1>3, <3>1, SumOfOne
    <3> QED BY <2>2, <3>2
  <2>4. kept \in [1..n -> 1..n] /\ Distinctly(kept, n) /\ \A k \in 1..n : kept[k] = k
    BY DEF Distinctly
  <2>5. \A k \in 1..n : Contribution(m.axes[k], c[k]) \in Int
    <3>1. Parts(m, c) \in [1..n -> Int] /\ \A i \in 1..n : Parts(m, c)[i] = Contribution(m.axes[i], c[i])
      <4>1. /\ Parts(m, c) \in [1..Rank(m) -> Int]
            /\ \A i \in 1..Rank(m) : Parts(m, c)[i] = Contribution(m.axes[i], c[i])
        BY ONLY <1>8, <1>10, PartsFacts
      <4> QED BY ONLY <1>7, <4>1
    <3> QED BY ONLY <3>1
  <2>6. ASSUME NEW k \in 1..n
        PROVE  Contribution(map.axes[k], b[k]) = shift[k] + Contribution(m.axes[k], c[k])
    <3>1. CASE k = a
      <4>1. c[a] \in 0..(r[a] - 1)
        <5>1. c[a] \in Nat /\ c[a] < r[a] /\ r[a] \in Nat
          BY <1>3, <1>4, <2>1 DEF Below
        <5> QED BY ONLY <5>1
      <4>2. b[a] = (r[a] - 1) - c[a] /\ m.axes[a] = axis
        BY <1>6, <1>7, <1>9, <2>1
      <4> QED BY <1>5, <2>2, <3>1, <4>1, <4>2
    <3>2. CASE k # a
      <4>1. b[k] = c[k] /\ m.axes[k] = map.axes[k] /\ shift[k] = 0
        BY <1>6, <1>7, <1>9, <2>1, <2>2, <3>2
      <4>2. Contribution(m.axes[k], c[k]) \in Int
        BY <2>5
      <4> QED BY ONLY <4>1, <4>2
    <3> QED BY <3>1, <3>2
  <2>7. Selects(m, c, map, b, kept, shift)
    <3>1. Rank(m) = n /\ Rank(map) = n /\ m.offset = map.offset + Total(shift)
      BY <1>7, <2>3
    <3>2. \A k \in 1..n : Contribution(map.axes[kept[k]], b[kept[k]])
                            = shift[kept[k]] + Contribution(m.axes[k], c[k])
      BY ONLY <2>4, <2>6
    <3>3. \A i \in 1..n : ~(\A k \in 1..n : kept[k] # i)
      BY ONLY <2>4
    <3> QED BY ONLY <2>2, <2>4, <3>1, <3>2, <3>3 DEF Selects
  <2>8. Below(b, map.shape)
    BY <2>1
  <2>9. FlatOffset(m, c) = FlatOffset(map, b)
    BY ONLY <1>3, <1>8, <1>10, <2>7, <2>8, Selected
  <2> QED BY <2>1, <2>9
<1>11. ASSUME NEW c, NEW d, Below(c, m.shape), Below(d, m.shape), Alike(map, before[c], before[d])
       PROVE  Alike(m, c, d)
  <2>1. Below(c, r) /\ Below(d, r)
    BY <1>7, <1>11
  <2>2. ASSUME NEW k \in 1..n, axes[k].kind = "stride" PROVE c[k] = d[k]
    <3>1. map.axes[k].kind = "stride"
      BY <1>5, <1>6, <2>2
    <3>2. before[c][k] = before[d][k]
      BY <1>11, <3>1 DEF Alike
    <3>3. c[k] \in Nat /\ d[k] \in Nat /\ r[k] \in Nat
      BY <1>3, <1>4, <2>1 DEF Below
    <3>4. CASE k = a
      <4>1. before[c][k] = (r[k] - 1) - c[k] /\ before[d][k] = (r[k] - 1) - d[k]
        BY <1>9, <2>1, <3>4
      <4> PICK x \in Nat, y \in Nat, z \in Nat : x = c[k] /\ y = d[k] /\ z = r[k]
        BY <3>3
      <4>2. (z - 1) - x = (z - 1) - y
        BY <3>2, <4>1
      <4>3. x = y
        BY ONLY <4>2, x \in Nat, y \in Nat, z \in Nat
      <4> QED BY <4>3
    <3>5. CASE k # a
      BY <1>9, <2>1, <3>2, <3>5
    <3> QED BY <3>4, <3>5
  <2> QED BY <1>7, <2>2 DEF Alike
<1> QED BY <1>2, <1>8, <1>10, <1>11, Became

--------------------------------------------------------------------------------
(* What the invariant says of the view's map.                               *)
LEMMA MapFacts ==
  ASSUME ViewInv
  PROVE  /\ IsMap(map) /\ map.offset \in Int /\ map.shape \in Seq(Positive)
         /\ Rank(map) = Len(map.shape) /\ Rank(map) \in Nat /\ DOMAIN map.axes = 1..Rank(map)
         /\ \A i \in 1..Rank(map) :
              /\ map.shape[i] \in Positive /\ map.shape[i] \in Nat /\ map.shape[i] > 0
              /\ IsAxis(map.axes[i], map.shape[i])
<1> PICK n, r : n = Rank(map) /\ r = map.shape
  OBVIOUS
<1>1. IsMap(map)
  BY DEF ViewInv
<1>2. map.offset \in Int /\ r \in Seq(Positive) /\ n = Len(r) /\ n \in Nat
  BY <1>1 DEF IsMap, Rank
<1>3. DOMAIN map.axes = 1..n /\ \A i \in 1..n : IsAxis(map.axes[i], r[i])
  BY <1>1, <1>2 DEF IsMap
<1>4. \A i \in 1..n : r[i] \in Positive
  BY ONLY <1>2
<1>5. \A i \in 1..n : r[i] \in Nat /\ r[i] > 0
  BY ONLY <1>4 DEF Positive
<1> QED BY <1>1, <1>2, <1>3, <1>4, <1>5

(* A map of some of the view's axes, narrowed, one by one: of every axis    *)
(* that is kept, its new indices name old ones, and of one that is not, one *)
(* index is meant.                                                          *)
Keeping(m, before, kept, shift, named) ==
  /\ kept \in [1..Rank(m) -> 1..Rank(map)] /\ Distinctly(kept, Rank(m))
  /\ shift \in [1..Rank(map) -> Int] /\ m.offset = map.offset + Total(shift)
  /\ \A i \in 1..Rank(map), k \in 1..Rank(m) : kept[k] = i =>
       \A x \in 0..(m.shape[k] - 1) :
         /\ named[<<i, x>>] \in 0..(map.shape[i] - 1)
         /\ Contribution(map.axes[i], named[<<i, x>>]) = shift[i] + Contribution(m.axes[k], x)
         /\ m.axes[k].kind = "stride" =>
              /\ map.axes[i].kind = "stride"
              /\ \A y \in 0..(m.shape[k] - 1) : named[<<i, x>>] = named[<<i, y>>] => x = y
  /\ \A i \in 1..Rank(map) : (\A k \in 1..Rank(m) : kept[k] # i) =>
       named[<<i, 0>>] \in 0..(map.shape[i] - 1) /\ Contribution(map.axes[i], named[<<i, 0>>]) = shift[i]
  /\ \A c : Below(c, m.shape) =>
       /\ before[c] = [i \in 1..Rank(map) |-> before[c][i]]
       /\ \A k \in 1..Rank(m) : before[c][kept[k]] = named[<<kept[k], c[k]>>]
       /\ \A i \in 1..Rank(map) : (\A k \in 1..Rank(m) : kept[k] # i) => before[c][i] = named[<<i, 0>>]

(* Such a transform keeps the invariant.                                    *)
LEMMA KeptNext ==
  ASSUME ViewInv, NEW m, IsMap(m), NEW before, Become(m, before),
         NEW kept, NEW shift, NEW named, Keeping(m, before, kept, shift, named)
  PROVE  ViewInv'
<1> PICK n, r, l, s : n = Rank(map) /\ r = map.shape /\ l = Rank(m) /\ s = m.shape
  OBVIOUS
<1>1. n \in Nat /\ IsMap(map) /\ map.offset \in Int /\ n = Len(r) /\ \A i \in 1..n : r[i] \in Nat
  BY MapFacts
<1>2. l \in Nat /\ l = Len(s) /\ \A k \in 1..l : s[k] \in Nat
  <2>1. s \in Seq(Positive) /\ l = Len(s)
    BY DEF IsMap, Rank
  <2>2. \A k \in 1..l : s[k] \in Positive
    BY ONLY <2>1
  <2> QED BY <2>1, <2>2 DEF Positive
<1>3. /\ kept \in [1..l -> 1..n] /\ Distinctly(kept, l)
      /\ shift \in [1..n -> Int] /\ m.offset = map.offset + Total(shift)
  BY DEF Keeping
<1>4. ASSUME NEW k \in 1..l, NEW i \in 1..n, kept[k] = i, NEW x \in 0..(s[k] - 1)
      PROVE  /\ named[<<i, x>>] \in 0..(r[i] - 1)
             /\ Contribution(map.axes[i], named[<<i, x>>]) = shift[i] + Contribution(m.axes[k], x)
             /\ m.axes[k].kind = "stride" =>
                  /\ map.axes[i].kind = "stride"
                  /\ \A y \in 0..(s[k] - 1) : named[<<i, x>>] = named[<<i, y>>] => x = y
  BY <1>4 DEF Keeping
<1>5. \A i \in 1..n : (\A k \in 1..l : kept[k] # i) =>
        named[<<i, 0>>] \in 0..(r[i] - 1) /\ Contribution(map.axes[i], named[<<i, 0>>]) = shift[i]
  BY DEF Keeping
<1>6. ASSUME NEW c, Below(c, s)
      PROVE  /\ before[c] = [i \in 1..n |-> before[c][i]]
             /\ \A k \in 1..l : before[c][kept[k]] = named[<<kept[k], c[k]>>] /\ c[k] \in 0..(s[k] - 1)
             /\ \A i \in 1..n : (\A k \in 1..l : kept[k] # i) => before[c][i] = named[<<i, 0>>]
  <2>1. \A k \in 1..l : c[k] \in 0..(s[k] - 1)
    <3>1. \A k \in 1..l : c[k] \in Nat /\ c[k] < s[k]
      BY <1>2, <1>6 DEF Below
    <3> QED BY ONLY <1>2, <3>1
  <2>2. Below(c, m.shape)
    BY <1>6
  <2>3. /\ before[c] = [i \in 1..n |-> before[c][i]]
        /\ \A k \in 1..l : before[c][kept[k]] = named[<<kept[k], c[k]>>]
        /\ \A i \in 1..n : (\A k \in 1..l : kept[k] # i) => before[c][i] = named[<<i, 0>>]
    <3>1. Keeping(m, before, kept, shift, named)
      OBVIOUS
    <3>2. /\ before[c] = [i \in 1..Rank(map) |-> before[c][i]]
          /\ \A k \in 1..Rank(m) : before[c][kept[k]] = named[<<kept[k], c[k]>>]
          /\ \A i \in 1..Rank(map) : (\A k \in 1..Rank(m) : kept[k] # i) => before[c][i] = named[<<i, 0>>]
      BY ONLY <2>2, <3>1, Zenon DEF Keeping
    <3> QED BY ONLY <3>2, n = Rank(map), l = Rank(m)
  <2> QED BY ONLY <2>1, <2>3
<1>7. ASSUME NEW c, Below(c, s) PROVE Below(before[c], r)
  <2>1. ASSUME NEW i \in 1..n PROVE before[c][i] \in 0..(r[i] - 1)
    <3>1. CASE \E k \in 1..l : kept[k] = i
      <4> PICK k \in 1..l : kept[k] = i
        BY <3>1
      <4>1. before[c][i] = named[<<i, c[k]>>] /\ c[k] \in 0..(s[k] - 1)
        BY <1>6, <1>7
      <4> QED BY <1>4, <4>1
    <3>2. CASE ~\E k \in 1..l : kept[k] = i
      <4>1. \A k \in 1..l : kept[k] # i
        BY ONLY <3>2
      <4>2. before[c][i] = named[<<i, 0>>]
        BY <1>6, <1>7, <4>1
      <4>3. named[<<i, 0>>] \in 0..(r[i] - 1)
        BY ONLY <1>5, <4>1, i \in 1..n
      <4> QED BY ONLY <4>2, <4>3
    <3> QED BY <3>1, <3>2
  <2>2. \A i \in 1..n : before[c][i] \in Nat /\ before[c][i] < r[i]
    BY ONLY <1>1, <2>1
  <2>3. before[c] = [i \in 1..n |-> before[c][i]]
    BY <1>6, <1>7
  <2>4. before[c] \in [1..n -> Nat]
    BY ONLY <2>2, <2>3
  <2> QED BY <1>1, <2>2, <2>4 DEF Below
<1>8. ASSUME NEW c, Below(c, m.shape)
      PROVE  Below(before[c], map.shape) /\ FlatOffset(m, c) = FlatOffset(map, before[c])
  <2> PICK b : b = before[c]
    OBVIOUS
  <2>1. Below(c, s) /\ Below(b, map.shape)
    BY <1>7, <1>8
  <2>2. ASSUME NEW k \in 1..l
        PROVE  Contribution(map.axes[kept[k]], b[kept[k]]) = shift[kept[k]] + Contribution(m.axes[k], c[k])
    <3>1. b[kept[k]] = named[<<kept[k], c[k]>>] /\ c[k] \in 0..(s[k] - 1)
      BY <1>6, <2>1
    <3>2. kept[k] \in 1..n
      BY <1>3
    <3> QED BY <1>4, <3>1, <3>2
  <2>3. ASSUME NEW i \in 1..n, \A k \in 1..l : kept[k] # i PROVE Contribution(map.axes[i], b[i]) = shift[i]
    <3>1. b[i] = named[<<i, 0>>]
      BY <1>6, <2>1, <2>3
    <3>2. Contribution(map.axes[i], named[<<i, 0>>]) = shift[i]
      BY ONLY <1>5, <2>3, i \in 1..n
    <3> QED BY ONLY <3>1, <3>2
  <2>4. Rank(m) = l /\ Rank(map) = n
    OBVIOUS
  <2>5. Selects(m, c, map, b, kept, shift)
    BY ONLY <1>3, <2>2, <2>3, <2>4 DEF Selects
  <2>6. IsMap(m)
    OBVIOUS
  <2>7. FlatOffset(m, c) = FlatOffset(map, b)
    BY ONLY <1>1, <1>8, <2>1, <2>5, <2>6, Selected
  <2> QED BY <2>1, <2>7
<1>9. ASSUME NEW c, NEW d, Below(c, m.shape), Below(d, m.shape), Alike(map, before[c], before[d])
      PROVE  Alike(m, c, d)
  <2>1. Below(c, s) /\ Below(d, s)
    BY <1>9
  <2>2. ASSUME NEW k \in 1..l, m.axes[k].kind = "stride" PROVE c[k] = d[k]
    <3> PICK i \in 1..n : kept[k] = i
      BY <1>3
    <3>1. /\ before[c][i] = named[<<i, c[k]>>] /\ c[k] \in 0..(s[k] - 1)
          /\ before[d][i] = named[<<i, d[k]>>] /\ d[k] \in 0..(s[k] - 1)
      BY <1>6, <2>1
    <3>2. map.axes[i].kind = "stride"
      BY <1>4, <2>2, <3>1
    <3>3. before[c][i] = before[d][i]
      BY <1>9, <3>2 DEF Alike
    <3>4. \A y \in 0..(s[k] - 1) : named[<<i, c[k]>>] = named[<<i, y>>] => c[k] = y
      BY <1>4, <2>2, <3>1
    <3> QED BY <3>1, <3>3, <3>4
  <2> QED BY <2>2 DEF Alike
<1> QED BY <1>8, <1>9, Became

--------------------------------------------------------------------------------
(* Axes of extent one are left out.                                         *)
LEMMA SqueezeNext ==
  ASSUME ViewInv, Squeeze
  PROVE  ViewInv'
<1> DEFINE KeptBut(removed) == Kept(Rank(map), 1..Rank(map) \ removed)
<1> PICK removed \in SUBSET {i \in 1..Rank(map) : map.shape[i] = 1} :
      Become([offset |-> map.offset +
                Total([i \in 1..Rank(map) |->
                  IF i \in removed THEN Contribution(map.axes[i], 0) ELSE 0]),
              axes |-> Pick(map.axes, KeptBut(removed)), shape |-> Pick(map.shape, KeptBut(removed))],
             [c \in Coords(Pick(map.shape, KeptBut(removed))) |->
               [i \in 1..Rank(map) |-> IF i \in removed THEN 0 ELSE c[PlaceIn(KeptBut(removed), i)]]])
  BY Zenon DEF Squeeze
<1> PICK n, r, kept, shift :
      /\ n = Rank(map) /\ r = map.shape /\ kept = KeptBut(removed)
      /\ shift = [i \in 1..n |-> IF i \in removed THEN Contribution(map.axes[i], 0) ELSE 0]
  OBVIOUS
<1> PICK s, axes, before :
      /\ s = Pick(r, kept) /\ axes = Pick(map.axes, kept)
      /\ before = [c \in Coords(s) |-> [i \in 1..n |-> IF i \in removed THEN 0 ELSE c[PlaceIn(kept, i)]]]
  OBVIOUS
<1> PICK m : m = [offset |-> map.offset + Total(shift), axes |-> axes, shape |-> s]
  OBVIOUS
<1>1. Become(m, before)
  <2> HIDE DEF KeptBut
  <2> QED BY Zenon
<1>2. /\ n \in Nat /\ IsMap(map) /\ map.offset \in Int
      /\ \A i \in 1..n : r[i] \in Positive /\ r[i] \in Nat /\ r[i] > 0 /\ IsAxis(map.axes[i], r[i])
  BY MapFacts
<1>3. kept = Kept(n, 1..n \ removed)
  OBVIOUS
<1> HIDE DEF KeptBut
<1> PICK l \in Nat : Names(kept, n, 1..n \ removed, l)
  BY ONLY <1>2, <1>3, KeptFacts
<1> USE DEF Names
<1>4. \A i \in 1..n : i \in removed => r[i] = 1 /\ Contribution(map.axes[i], 0) \in Int
  <2> SUFFICES ASSUME NEW i \in 1..n, i \in removed PROVE r[i] = 1 /\ Contribution(map.axes[i], 0) \in Int
    OBVIOUS
  <2>1. r[i] = 1
    OBVIOUS
  <2>2. IsAxis(map.axes[i], r[i]) /\ r[i] \in Nat /\ 0 \in 0..(r[i] - 1)
    BY <1>2, <2>1
  <2> QED BY ONLY <2>1, <2>2, AxisFacts
<1>5. shift \in [1..n -> Int] /\ \A i \in 1..n : shift[i] = IF i \in removed THEN Contribution(map.axes[i], 0) ELSE 0
  BY ONLY <1>4, shift = [i \in 1..n |-> IF i \in removed THEN Contribution(map.axes[i], 0) ELSE 0]
<1>6. Total(shift) \in Int
  BY ONLY <1>2, <1>5, SumIsNumber
<1>7. s = [k \in 1..l |-> r[kept[k]]] /\ axes = [k \in 1..l |-> map.axes[kept[k]]]
  BY DEF Pick
<1>8. s \in Seq(Positive) /\ Len(s) = l
  <2>1. \A k \in 1..l : kept[k] \in 1..n
    OBVIOUS
  <2>2. s \in [1..l -> Positive]
    BY ONLY <1>2, <1>7, <2>1
  <2> QED BY ONLY <2>2, l \in Nat, PlacesFacts
<1>9. m.offset = map.offset + Total(shift) /\ m.axes = axes /\ m.shape = s /\ Rank(m) = l
  BY <1>8 DEF Rank
<1>10. IsMap(m)
  <2>1. \A k \in 1..l : IsAxis(axes[k], s[k])
    BY <1>2, <1>7
  <2>2. m.offset \in Int /\ DOMAIN axes = 1..l
    BY <1>2, <1>6, <1>7, <1>9
  <2> QED BY <1>8, <1>9, <2>1, <2>2 DEF IsMap
<1> PICK named : named = [z \in (1..n) \X Nat |-> z[2]]
  OBVIOUS
<1>11. \A i \in 1..n, x \in Nat : named[<<i, x>>] = x
  OBVIOUS
<1>12. \A i \in 1..n : (\A k \in 1..l : kept[k] # i) => i \in removed
  OBVIOUS
<1>13. ASSUME NEW i \in 1..n, NEW k \in 1..l, kept[k] = i, NEW x \in 0..(s[k] - 1)
       PROVE  /\ named[<<i, x>>] \in 0..(r[i] - 1)
              /\ Contribution(map.axes[i], named[<<i, x>>]) = shift[i] + Contribution(axes[k], x)
              /\ axes[k].kind = "stride" =>
                   /\ map.axes[i].kind = "stride"
                   /\ \A y \in 0..(s[k] - 1) : named[<<i, x>>] = named[<<i, y>>] => x = y
  <2>1. s[k] = r[i] /\ axes[k] = map.axes[i]
    BY <1>7, <1>13
  <2>2. x \in Nat /\ \A y \in 0..(s[k] - 1) : y \in Nat
    OBVIOUS
  <2>3. named[<<i, x>>] = x /\ \A y \in 0..(s[k] - 1) : named[<<i, y>>] = y
    BY ONLY <1>11, <2>2, i \in 1..n
  <2>4. Contribution(map.axes[i], x) \in Int
    <3>1. IsAxis(map.axes[i], r[i]) /\ r[i] \in Nat /\ x \in 0..(r[i] - 1)
      BY <1>2, <2>1
    <3> QED BY ONLY <3>1, AxisFacts
  <2>5. shift[i] = 0
    BY <1>5, <1>13
  <2>6. named[<<i, x>>] \in 0..(r[i] - 1)
    BY ONLY <2>1, <2>3, x \in 0..(s[k] - 1)
  <2>7. Contribution(map.axes[i], named[<<i, x>>]) = shift[i] + Contribution(axes[k], x)
    BY ONLY <2>1, <2>3, <2>4, <2>5
  <2>8. \A y \in 0..(s[k] - 1) : named[<<i, x>>] = named[<<i, y>>] => x = y
    BY ONLY <2>3
  <2> QED BY ONLY <2>1, <2>6, <2>7, <2>8
<1>14. ASSUME NEW i \in 1..n, \A k \in 1..l : kept[k] # i
       PROVE  named[<<i, 0>>] \in 0..(r[i] - 1) /\ Contribution(map.axes[i], named[<<i, 0>>]) = shift[i]
  <2>1. i \in removed /\ r[i] = 1 /\ named[<<i, 0>>] = 0
    BY <1>4, <1>11, <1>12, <1>14
  <2>2. shift[i] = Contribution(map.axes[i], 0)
    BY <1>5, <2>1
  <2> QED BY ONLY <2>1, <2>2
<1>15. ASSUME NEW c, Below(c, s)
       PROVE  /\ before[c] = [i \in 1..n |-> before[c][i]]
              /\ \A k \in 1..l : before[c][kept[k]] = named[<<kept[k], c[k]>>]
              /\ \A i \in 1..n : (\A k \in 1..l : kept[k] # i) => before[c][i] = named[<<i, 0>>]
  <2>1. c \in Coords(s)
    BY <1>8, <1>15, CoordsAre
  <2>2. before[c] = [i \in 1..n |-> IF i \in removed THEN 0 ELSE c[PlaceIn(kept, i)]]
    BY <2>1
  <2>3. ASSUME NEW k \in 1..l PROVE before[c][kept[k]] = named[<<kept[k], c[k]>>]
    <3>1. kept[k] \in 1..n /\ kept[k] \notin removed
      OBVIOUS
    <3>2. PlaceIn(kept, kept[k]) = k
      BY PlaceOfKept
    <3>3. before[c][kept[k]] = c[k]
      BY ONLY <2>2, <3>1, <3>2
    <3>4. c[k] \in Nat
      BY <1>8, <1>15 DEF Below
    <3>5. named[<<kept[k], c[k]>>] = c[k]
      BY ONLY <1>11, <3>1, <3>4
    <3> QED BY <3>3, <3>5
  <2>4. ASSUME NEW i \in 1..n, \A k \in 1..l : kept[k] # i PROVE before[c][i] = named[<<i, 0>>]
    <3>1. i \in removed
      BY <1>12, <2>4
    <3>2. before[c][i] = 0
      BY ONLY <2>2, <3>1, i \in 1..n
    <3> QED BY <1>11, <3>2
  <2>5. before[c] = [i \in 1..n |-> before[c][i]]
    BY ONLY <2>2
  <2> QED BY ONLY <2>3, <2>4, <2>5
<1>16. Keeping(m, before, kept, shift, named)
  <2>1. Rank(m) = l /\ Rank(map) = n /\ m.axes = axes /\ m.shape = s /\ map.shape = r
    BY <1>9
  <2>2. kept \in [1..l -> 1..n] /\ Distinctly(kept, l) /\ m.offset = map.offset + Total(shift)
    BY <1>9
  <2> QED BY ONLY <1>5, <1>13, <1>14, <1>15, <2>1, <2>2 DEF Keeping
<1> QED BY <1>1, <1>10, <1>16, KeptNext

--------------------------------------------------------------------------------
(* Slicing.                                                                 *)

(* Steps of steps.                                                          *)
LEMMA StepOfSteps ==
  \A start, k, step, by \in Int : (start + k * by) * step = start * step + k * (step * by)
<1> SUFFICES ASSUME NEW start \in Int, NEW k \in Int, NEW step \in Int, NEW by \in Int
             PROVE  (start + k * by) * step = start * step + k * (step * by)
  OBVIOUS
<1> PICK x \in Int : x = k * by
  OBVIOUS
<1>1. (start + x) * step = start * step + x * step
  OBVIOUS
<1>2. (k * by) * step = k * (step * by)
  OBVIOUS
<1> QED BY <1>1, <1>2

(* Some of a table's entries, in steps.                                     *)
LEMMA GatherSliceFacts ==
  ASSUME NEW dim \in Nat, NEW g, IsTable(g, dim), NEW first \in Nat, NEW by \in Nat, NEW l \in Positive,
         \A k \in 0..(l - 1) : first + k * by \in 0..(dim - 1)
  PROVE  /\ IsTable(GatherSlice(g, first, by, l), l)
         /\ \A k \in 0..(l - 1) :
              Contribution(GatherSlice(g, first, by, l), k) = Contribution(g, first + k * by)
<1> PICK h : h = GatherSlice(g, first, by, l)
  OBVIOUS
<1> PICK offsets, start, step, reversed :
      /\ offsets = g.offsets /\ start = g.start /\ step = g.step /\ reversed = g.reversed
  OBVIOUS
<1>1. /\ g = [kind |-> "gather", offsets |-> offsets, start |-> start, step |-> step,
              reversed |-> reversed, len |-> dim]
      /\ offsets \in Seq(Int) /\ start \in Int /\ step \in Int /\ reversed \in BOOLEAN
  BY DEF IsTable
<1>2. \A k \in Int : Entry(g, k) = IF reversed THEN start - k * step ELSE start + k * step
  BY DEF Entry
<1> PICK then \in Int : then = IF l <= 1 THEN 1 ELSE step * by
  BY <1>1
<1> PICK from \in Int : from = IF reversed THEN start - first * step ELSE start + first * step
  BY <1>1
<1>3. Entry(g, first) = from
  BY <1>2
<1>4. h = [kind |-> "gather", offsets |-> offsets, start |-> from, step |-> then,
           reversed |-> reversed, len |-> l]
  <2>1. h = [g EXCEPT !.start = from, !.step = then, !.len = l]
    BY <1>3 DEF GatherSlice
  <2>2. /\ DOMAIN g = {"kind", "offsets", "start", "step", "reversed", "len"}
        /\ g.kind = "gather"
    BY ONLY <1>1
  <2>3. /\ DOMAIN h = {"kind", "offsets", "start", "step", "reversed", "len"}
        /\ h.kind = "gather" /\ h.len = l /\ h.offsets = offsets /\ h.start = from
        /\ h.step = then /\ h.reversed = reversed
    BY ONLY <2>1, <2>2, offsets = g.offsets, reversed = g.reversed
  <2>4. h = [i \in {"kind", "offsets", "start", "step", "reversed", "len"} |-> h[i]]
    BY ONLY <2>1, <2>2
  <2> QED BY ONLY <2>3, <2>4
<1>5. \A k \in Int : Entry(h, k) = IF reversed THEN from - k * then ELSE from + k * then
  <2>1. h.start = from /\ h.step = then /\ h.reversed = reversed
    BY ONLY <1>4
  <2>2. \A k \in Int : Entry(h, k) = IF h.reversed THEN h.start - k * h.step ELSE h.start + k * h.step
    BY ONLY DEF Entry
  <2> QED BY ONLY <1>1, <2>1, <2>2
<1>6. l \in Nat /\ l > 0
  BY DEF Positive
<1>7. ASSUME NEW k \in 0..(l - 1) PROVE Entry(h, k) = Entry(g, first + k * by)
  <2>1. k \in Int /\ k \in Nat /\ first + k * by \in Int
    BY <1>6
  <2>2. k * then = k * (step * by)
    <3>1. CASE l <= 1
      <4>1. k = 0
        BY <1>6, <3>1
      <4> QED BY <1>1, <4>1
    <3>2. CASE ~(l <= 1)
      BY <3>2
    <3> QED BY <3>1, <3>2
  <2>3. (first + k * by) * step = first * step + k * (step * by)
    <3>1. first \in Int /\ by \in Int
      OBVIOUS
    <3> QED BY ONLY <1>1, <2>1, <3>1, StepOfSteps
  <2> PICK x \in Int, y \in Int : x = first * step /\ y = k * then
    BY <1>1, <2>1
  <2>4. from = IF reversed THEN start - x ELSE start + x
    OBVIOUS
  <2>5. Entry(h, k) = IF reversed THEN from - y ELSE from + y
    BY <1>5, <2>1
  <2>6. Entry(g, first + k * by) = IF reversed THEN start - (x + y) ELSE start + (x + y)
    BY <1>2, <2>1, <2>2, <2>3
  <2> QED BY ONLY <2>4, <2>5, <2>6, <1>1, x \in Int, y \in Int
<1>8. IsTable(h, l)
  <2>1. \A k \in 0..(l - 1) : Entry(h, k) + 1 \in 1..Len(offsets)
    <3> SUFFICES ASSUME NEW k \in 0..(l - 1) PROVE Entry(h, k) + 1 \in 1..Len(offsets)
      OBVIOUS
    <3>1. first + k * by \in 0..(dim - 1) /\ Entry(h, k) = Entry(g, first + k * by)
      BY <1>7
    <3> QED BY <3>1 DEF IsTable
  <2>2. h \in [kind : {"gather"}, offsets : Seq(Int), start : Int, step : Int,
               reversed : BOOLEAN, len : Nat]
    <3>1. from \in Int /\ then \in Int
      OBVIOUS
    <3> QED BY ONLY <1>1, <1>4, <1>6, <3>1
  <2>3. h.len = l /\ h.offsets = offsets
    BY ONLY <1>4
  <2> QED BY ONLY <2>1, <2>2, <2>3 DEF IsTable
<1>9. ASSUME NEW k \in 0..(l - 1) PROVE Contribution(h, k) = Contribution(g, first + k * by)
  <2>1. Entry(h, k) = Entry(g, first + k * by)
    BY <1>7
  <2>2. Contribution(h, k) = h.offsets[Entry(h, k) + 1]
    BY <1>8, OfTable
  <2>3. Contribution(g, first + k * by) = g.offsets[Entry(g, first + k * by) + 1]
    BY OfTable
  <2>4. h.offsets = g.offsets
    BY <1>4
  <2> QED BY <2>1, <2>2, <2>3, <2>4
<1> QED BY <1>8, <1>9

(* A new table has what it is given.                                        *)
LEMMA GatherFacts ==
  ASSUME NEW offsets \in Seq(Int)
  PROVE  /\ IsTable(Gather(offsets), Len(offsets))
         /\ \A k \in 0..(Len(offsets) - 1) : Contribution(Gather(offsets), k) = offsets[k + 1]
<1> PICK g : g = Gather(offsets)
  OBVIOUS
<1> PICK l \in Nat : l = Len(offsets)
  OBVIOUS
<1>1. g = [kind |-> "gather", offsets |-> offsets, start |-> 0, step |-> 1, reversed |-> FALSE, len |-> l]
  BY DEF Gather
<1>2. g.start = 0 /\ g.step = 1 /\ g.reversed = FALSE /\ g.len = l /\ g.offsets = offsets
  BY ONLY <1>1
<1>3. \A k \in Int : Entry(g, k) = k
  BY ONLY <1>2 DEF Entry
<1>4. IsTable(g, l)
  <2>1. g \in [kind : {"gather"}, offsets : Seq(Int), start : Int, step : Int, reversed : BOOLEAN, len : Nat]
    BY ONLY <1>1, offsets \in Seq(Int), l \in Nat
  <2>2. \A k \in 0..(l - 1) : Entry(g, k) + 1 \in 1..l
    BY ONLY <1>3, l \in Nat
  <2> QED BY <1>2, <2>1, <2>2 DEF IsTable
<1>5. ASSUME NEW k \in 0..(l - 1) PROVE Contribution(g, k) = offsets[k + 1]
  <2>1. Contribution(g, k) = g.offsets[Entry(g, k) + 1]
    BY <1>4, OfTable
  <2> QED BY <1>2, <1>3, <2>1
<1> QED BY <1>4, <1>5

(* Bounds that are accepted: an index of an axis, steps along it, or a list *)
(* of its indices, of which there is one.                                   *)
LEMMA BoundFacts ==
  ASSUME NEW dim \in Nat, NEW bound \in AxisRange, Accepts(dim, bound)
  PROVE  /\ bound.kind \in {"at", "in", "of"}
         /\ bound.kind = "at" => bound.index \in 0..(dim - 1)
         /\ bound.kind # "at" => Extent(bound) \in Positive
         /\ bound.kind = "in" =>
              /\ bound.start \in Nat /\ bound.step \in Nat /\ bound.step > 0
              /\ \A k \in 0..(Extent(bound) - 1) : bound.start + k * bound.step \in 0..(dim - 1)
         /\ bound.kind = "of" =>
              /\ bound.indices \in Seq(Nat) /\ Len(bound.indices) = Extent(bound)
              /\ \A k \in 1..Extent(bound) : bound.indices[k] \in 0..(dim - 1)
<1>1. CASE bound \in [kind : {"at"}, index : Nat]
  <2>1. bound.kind = "at" /\ bound.index \in Nat
    BY <1>1
  <2>2. bound.index < dim
    BY <2>1 DEF Accepts
  <2> QED BY ONLY <2>1, <2>2, dim \in Nat
<1>2. CASE bound \in [kind : {"in"}, start : Nat, stop : Nat, step : Nat]
  <2> PICK start \in Nat, stop \in Nat, step \in Nat :
        start = bound.start /\ stop = bound.stop /\ step = bound.step
    BY <1>2
  <2>1. bound.kind = "in"
    BY <1>2
  <2>2. step > 0 /\ start < stop /\ stop <= dim
    BY <2>1 DEF Accepts
  <2> PICK d \in Nat : d = stop - start
    BY <2>2
  <2>3. d \in Positive /\ step \in Positive
    BY <2>2 DEF Positive
  <2>4. Extent(bound) = DivCeil(d, step)
    BY <2>1 DEF Extent
  <2> PICK e \in Positive : e = Extent(bound) /\ \A q \in Nat : q < e => q * step < d
    BY <2>3, <2>4, Ceiling
  <2>5. ASSUME NEW k \in 0..(e - 1) PROVE start + k * step \in 0..(dim - 1)
    <3>1. e \in Nat
      BY DEF Positive
    <3>2. k \in Nat /\ k < e
      BY ONLY <3>1, k \in 0..(e - 1)
    <3> PICK x \in Nat : x = k * step
      BY ONLY <3>2, step \in Nat
    <3>3. x < d
      BY <3>2
    <3>4. start + x \in 0..(dim - 1)
      BY ONLY <2>2, <3>3, x \in Nat, d = stop - start, start \in Nat, stop \in Nat, dim \in Nat
    <3> QED BY <3>4
  <2> QED BY ONLY <2>1, <2>2, <2>5, e = Extent(bound), e \in Positive, start = bound.start, step = bound.step,
                  start \in Nat, step \in Nat
<1>3. CASE bound \in [kind : {"of"}, indices : Seq(Nat)]
  <2>1. bound.kind = "of" /\ bound.indices \in Seq(Nat)
    BY <1>3
  <2> PICK s \in Seq(Nat) : s = bound.indices
    BY <2>1
  <2> PICK l \in Nat : l = Len(s) /\ DOMAIN s = 1..l
    OBVIOUS
  <2>2. s # <<>> /\ \A k \in DOMAIN s : s[k] < dim
    BY <2>1 DEF Accepts
  <2>3. Extent(bound) = l
    BY <2>1 DEF Extent
  <2>4. l # 0
    BY <2>2
  <2>5. \A k \in 1..l : s[k] \in 0..(dim - 1)
    <3>1. \A k \in 1..l : s[k] \in Nat /\ s[k] < dim
      BY <2>2
    <3> QED BY ONLY <3>1, dim \in Nat
  <2>6. l \in Positive
    BY ONLY <2>4, l \in Nat DEF Positive
  <2> QED BY ONLY <2>1, <2>3, <2>5, <2>6, s = bound.indices, l = Len(s)
<1> QED BY <1>1, <1>2, <1>3 DEF AxisRange

(* An axis narrowed by an accepted bound adds to the shift what the axis    *)
(* adds at the index that is meant.                                         *)
Narrows(axis, bound, narrow, shift, dim) ==
  \A x \in 0..(Extent(bound) - 1) :
    /\ IndexOf(bound, x) \in 0..(dim - 1)
    /\ Contribution(axis, IndexOf(bound, x)) = shift + Contribution(narrow, x)
    /\ narrow.kind = "stride" =>
         /\ axis.kind = "stride"
         /\ \A y \in 0..(Extent(bound) - 1) : IndexOf(bound, x) = IndexOf(bound, y) => x = y

(* One index is meant by all its parts added to the offset.                 *)
LEMMA SlicedAt ==
  ASSUME NEW dim \in Nat, NEW axis, IsAxis(axis, dim), NEW bound \in AxisRange, Accepts(dim, bound),
         bound.kind = "at"
  PROVE  /\ Shift(axis, bound) \in Int
         /\ bound.index \in 0..(dim - 1) /\ Contribution(axis, bound.index) = Shift(axis, bound)
<1>1. bound.index \in 0..(dim - 1)
  BY BoundFacts
<1>2. Shift(axis, bound) = Contribution(axis, bound.index)
  BY Zenon DEF Shift
<1> QED BY <1>1, <1>2, AxisFacts

(* Two steps along an axis that reach one index are one.                    *)
LEMMA StepsApart ==
  ASSUME NEW start \in Nat, NEW by \in Nat, by > 0, NEW x \in Nat, NEW y \in Nat,
         start + x * by = start + y * by
  PROVE  x = y
<1> PICK p \in Nat, q \in Nat : p = x * by /\ q = y * by
  OBVIOUS
<1>1. p = q
  BY ONLY start + x * by = start + y * by, p = x * by, q = y * by, p \in Nat, q \in Nat, start \in Nat
<1>2. x * by + 0 = y * by + 0 /\ 0 \in Nat /\ 0 < by
  BY <1>1
<1> QED BY ONLY <1>2, x \in Nat, y \in Nat, by \in Nat, RadixUnique

(* A repeated axis stays one.                                               *)
LEMMA SlicedBroadcast ==
  ASSUME NEW dim \in Nat, NEW offset \in Int, NEW bound \in AxisRange, Accepts(dim, bound),
         bound.kind # "at"
  PROVE  LET axis == Broadcast(offset) IN
         /\ Shift(axis, bound) = 0 /\ IsAxis(Narrowed(axis, bound), Extent(bound))
         /\ Narrows(axis, bound, Narrowed(axis, bound), Shift(axis, bound), dim)
<1> PICK axis : axis = Broadcast(offset)
  OBVIOUS
<1>1. axis.kind = "broadcast" /\ \A k : Contribution(axis, k) = offset
  BY OfBroadcast
<1>2. Narrowed(axis, bound) = axis
  BY <1>1, Zenon DEF Narrowed
<1>3. Shift(axis, bound) = 0
  <2>1. ~(bound.kind = "at") /\ ~(bound.kind = "in" /\ axis.kind = "stride")
    BY <1>1
  <2> QED BY <2>1, Zenon DEF Shift
<1>4. IsAxis(axis, Extent(bound))
  BY DEF IsAxis
<1>5. \A x \in 0..(Extent(bound) - 1) : IndexOf(bound, x) \in 0..(dim - 1)
  <2>1. CASE bound.kind = "in"
    <3>1. \A x : IndexOf(bound, x) = bound.start + x * bound.step
      BY <2>1 DEF IndexOf
    <3> QED BY <2>1, <3>1, BoundFacts
  <2>2. CASE bound.kind = "of"
    <3>1. \A x : IndexOf(bound, x) = bound.indices[x + 1]
      BY <2>2 DEF IndexOf
    <3>2. \A k \in 1..Extent(bound) : bound.indices[k] \in 0..(dim - 1)
      BY <2>2, BoundFacts
    <3>3. Extent(bound) \in Nat
      BY BoundFacts DEF Positive
    <3>4. \A x \in 0..(Extent(bound) - 1) : x + 1 \in 1..Extent(bound)
      BY ONLY <3>3
    <3> QED BY <3>1, <3>2, <3>4
  <2> QED BY <2>1, <2>2, BoundFacts
<1>6. Narrows(axis, bound, axis, 0, dim)
  <2>1. offset = 0 + offset
    OBVIOUS
  <2> QED BY ONLY <1>1, <1>5, <2>1 DEF Narrows
<1> QED BY <1>2, <1>3, <1>4, <1>6

(* Steps along an axis.                                                     *)
LEMMA SlicedIn ==
  ASSUME NEW dim \in Nat, NEW axis, IsAxis(axis, dim), NEW bound \in AxisRange, Accepts(dim, bound),
         bound.kind = "in"
  PROVE  /\ Shift(axis, bound) \in Int /\ IsAxis(Narrowed(axis, bound), Extent(bound))
         /\ Narrows(axis, bound, Narrowed(axis, bound), Shift(axis, bound), dim)
<1> PICK start \in Nat, by \in Nat, e \in Positive :
      /\ start = bound.start /\ by = bound.step /\ e = Extent(bound)
      /\ by > 0 /\ \A k \in 0..(e - 1) : start + k * by \in 0..(dim - 1)
  BY BoundFacts
<1>1. \A x : IndexOf(bound, x) = start + x * by
  BY DEF IndexOf
<1>2. \A x \in 0..(e - 1) : x \in Nat /\ x \in Int
  BY DEF Positive
<1>3. CASE \E step \in Int : axis = Stride(step)
  <2> PICK step \in Int : axis = Stride(step)
    BY <1>3
  <2>1. axis.kind = "stride" /\ axis.step = step /\ \A k : Contribution(axis, k) = k * step
    BY OfStride
  <2>2. Shift(axis, bound) = start * step
    BY <2>1, Zenon DEF Shift
  <2> PICK narrow : narrow = Stride(step * by)
    OBVIOUS
  <2>3. Narrowed(axis, bound) = narrow
    BY <2>1, Zenon DEF Narrowed
  <2>4. \A k : Contribution(narrow, k) = k * (step * by)
    BY OfStride
  <2>5. start * step \in Int /\ step * by \in Int
    OBVIOUS
  <2>6. IsAxis(narrow, e)
    BY <2>5 DEF IsAxis
  <2>7. ASSUME NEW x \in 0..(e - 1)
        PROVE  Contribution(axis, start + x * by) = start * step + Contribution(narrow, x)
    <3>1. start \in Int /\ by \in Int /\ x \in Int
      BY <1>2
    <3>2. (start + x * by) * step = start * step + x * (step * by)
      BY ONLY <3>1, step \in Int, StepOfSteps
    <3> QED BY <2>1, <2>4, <3>2
  <2>8. ASSUME NEW x \in 0..(e - 1), NEW y \in 0..(e - 1), start + x * by = start + y * by
        PROVE  x = y
    <3>1. x \in Nat /\ y \in Nat
      BY <1>2
    <3> QED BY ONLY <2>8, <3>1, start \in Nat, by \in Nat, by > 0, StepsApart
  <2>9. Narrows(axis, bound, narrow, start * step, dim)
    BY ONLY <1>1, <2>1, <2>7, <2>8, e = Extent(bound), \A k \in 0..(e - 1) : start + k * by \in 0..(dim - 1)
       DEF Narrows
  <2> QED BY <2>2, <2>3, <2>5, <2>6, <2>9
<1>4. CASE \E offset \in Int : axis = Broadcast(offset)
  BY <1>4, SlicedBroadcast
<1>5. CASE IsTable(axis, dim)
  <2>1. axis.kind = "gather"
    BY <1>5, OfTable
  <2>2. Shift(axis, bound) = 0
    <3>1. ~(bound.kind = "at") /\ ~(bound.kind = "in" /\ axis.kind = "stride")
      BY <2>1
    <3> QED BY <3>1, Zenon DEF Shift
  <2> PICK narrow : narrow = GatherSlice(axis, start, by, e)
    OBVIOUS
  <2>3. Narrowed(axis, bound) = narrow
    BY <2>1, Zenon DEF Narrowed
  <2>4. /\ IsTable(narrow, e)
        /\ \A k \in 0..(e - 1) : Contribution(narrow, k) = Contribution(axis, start + k * by)
    BY <1>5, GatherSliceFacts
  <2>5. IsAxis(narrow, e) /\ narrow.kind = "gather"
    BY <2>4, OfTable DEF IsAxis
  <2>6. \A k \in 0..(e - 1) : Contribution(narrow, k) \in Int
    <3>1. e \in Nat
      BY DEF Positive
    <3> QED BY <2>5, <3>1, AxisFacts
  <2>7. \A k \in 0..(e - 1) : Contribution(axis, start + k * by) = 0 + Contribution(narrow, k)
    BY ONLY <2>4, <2>6
  <2>8. Narrows(axis, bound, narrow, 0, dim)
    <3>1. ~(narrow.kind = "stride")
      BY <2>5
    <3> QED BY ONLY <1>1, <2>7, <3>1, e = Extent(bound), \A k \in 0..(e - 1) : start + k * by \in 0..(dim - 1)
         DEF Narrows
  <2> QED BY <2>2, <2>3, <2>5, <2>8
<1> QED BY <1>3, <1>4, <1>5 DEF IsAxis

(* Indices from a list.                                                     *)
LEMMA SlicedOf ==
  ASSUME NEW dim \in Nat, NEW axis, IsAxis(axis, dim), NEW bound \in AxisRange, Accepts(dim, bound),
         bound.kind = "of"
  PROVE  /\ Shift(axis, bound) \in Int /\ IsAxis(Narrowed(axis, bound), Extent(bound))
         /\ Narrows(axis, bound, Narrowed(axis, bound), Shift(axis, bound), dim)
<1> PICK e \in Positive, s \in Seq(Nat) :
      /\ e = Extent(bound) /\ s = bound.indices /\ Len(s) = e
      /\ \A k \in 1..e : s[k] \in 0..(dim - 1)
  BY BoundFacts
<1>1. \A x : IndexOf(bound, x) = s[x + 1]
  BY DEF IndexOf
<1>2. e \in Nat /\ DOMAIN s = 1..e /\ \A x \in 0..(e - 1) : x + 1 \in 1..e
  BY DEF Positive
<1>3. CASE \E offset \in Int : axis = Broadcast(offset)
  <2> PICK offset \in Int : axis = Broadcast(offset)
    BY <1>3
  <2> QED BY SlicedBroadcast
<1>4. CASE axis.kind # "broadcast"
  <2> PICK offsets : offsets = [k \in DOMAIN s |-> Contribution(axis, s[k])]
    OBVIOUS
  <2>1. \A k \in 1..e : Contribution(axis, s[k]) \in Int
    BY AxisFacts
  <2>2. offsets \in [1..e -> Int] /\ \A k \in 1..e : offsets[k] = Contribution(axis, s[k])
    BY ONLY <1>2, <2>1, offsets = [k \in DOMAIN s |-> Contribution(axis, s[k])]
  <2>3. offsets \in Seq(Int) /\ Len(offsets) = e
    BY ONLY <1>2, <2>2, PlacesFacts
  <2> PICK narrow : narrow = Gather(offsets)
    OBVIOUS
  <2>4. Narrowed(axis, bound) = narrow
    BY <1>4, Zenon DEF Narrowed
  <2>5. Shift(axis, bound) = 0
    <3>1. ~(bound.kind = "at") /\ ~(bound.kind = "in" /\ axis.kind = "stride")
      OBVIOUS
    <3> QED BY <3>1, Zenon DEF Shift
  <2>6. IsTable(narrow, e) /\ \A k \in 0..(e - 1) : Contribution(narrow, k) = offsets[k + 1]
    BY <2>3, GatherFacts
  <2>7. IsAxis(narrow, e) /\ ~(narrow.kind = "stride")
    BY <2>6, OfTable DEF IsAxis
  <2>8. \A x \in 0..(e - 1) : Contribution(axis, s[x + 1]) = 0 + Contribution(narrow, x)
    BY ONLY <1>2, <2>1, <2>2, <2>6
  <2>9. \A x \in 0..(e - 1) : s[x + 1] \in 0..(dim - 1)
    BY <1>2
  <2>10. Narrows(axis, bound, narrow, 0, dim)
    BY ONLY <1>1, <2>7, <2>8, <2>9, e = Extent(bound) DEF Narrows
  <2> QED BY <2>4, <2>5, <2>7, <2>10
<1>5. axis.kind # "broadcast" \/ \E offset \in Int : axis = Broadcast(offset)
  <2>1. IsTable(axis, dim) => axis.kind = "gather"
    BY OfTable
  <2>2. \A x : Stride(x).kind = "stride"
    BY OfStride
  <2> QED BY ONLY <2>1, <2>2, IsAxis(axis, dim) DEF IsAxis
<1> QED BY <1>3, <1>4, <1>5

(* One axis is sliced, and the others are kept whole.                       *)
LEMMA SliceNext ==
  ASSUME ViewInv, Slice
  PROVE  ViewInv'
<1> DEFINE RangeOf(a, bound) == [[i \in 1..Rank(map) |-> In(0, map.shape[i], 1)] EXCEPT ![a] = bound]
           KeptOf(range) == Kept(Rank(map), {i \in 1..Rank(map) : range[i].kind # "at"})
           ShapeOf(range, kept) == [k \in DOMAIN kept |-> Extent(range[kept[k]])]
           ShiftOf(range) == [i \in 1..Rank(map) |-> Shift(map.axes[i], range[i])]
           AxesMade(range, kept) == [k \in DOMAIN kept |-> Narrowed(map.axes[kept[k]], range[kept[k]])]
           BeforeOf(range, kept, shape) ==
             [c \in Coords(shape) |-> [i \in 1..Rank(map) |->
               IF range[i].kind = "at" THEN range[i].index ELSE IndexOf(range[i], c[PlaceIn(kept, i)])]]
           MapOf(shift, axes, shape) == [offset |-> map.offset + Total(shift), axes |-> axes, shape |-> shape]
           Becomes(range, kept) ==
             Become(MapOf(ShiftOf(range), AxesMade(range, kept), ShapeOf(range, kept)),
                    BeforeOf(range, kept, ShapeOf(range, kept)))
<1> PICK a \in {i \in 1..Rank(map) : map.shape[i] \in DOMAIN Ranges} :
      \E bound \in Ranges[map.shape[a]] : Becomes(RangeOf(a, bound), KeptOf(RangeOf(a, bound)))
  BY Zenon DEF Slice
<1> PICK bound \in Ranges[map.shape[a]] : Becomes(RangeOf(a, bound), KeptOf(RangeOf(a, bound)))
  OBVIOUS
<1> PICK n, r, range, kept :
      /\ n = Rank(map) /\ r = map.shape /\ range = RangeOf(a, bound) /\ kept = KeptOf(range)
      /\ Becomes(range, kept)
  <2> HIDE DEF RangeOf, KeptOf, Becomes
  <2> QED OBVIOUS
<1> PICK shift, s, axes, m, before :
      /\ shift = ShiftOf(range) /\ s = ShapeOf(range, kept) /\ axes = AxesMade(range, kept)
      /\ m = MapOf(shift, axes, s) /\ before = BeforeOf(range, kept, s) /\ Become(m, before)
  <2> HIDE DEF RangeOf, KeptOf, ShapeOf, ShiftOf, AxesMade, BeforeOf, MapOf
  <2> QED OBVIOUS
<1>1. Become(m, before)
  OBVIOUS
<1>2. /\ m = [offset |-> map.offset + Total(shift), axes |-> axes, shape |-> s]
      /\ before = [c \in Coords(s) |-> [i \in 1..n |->
                    IF range[i].kind = "at" THEN range[i].index ELSE IndexOf(range[i], c[PlaceIn(kept, i)])]]
      /\ range = [[i \in 1..n |-> In(0, r[i], 1)] EXCEPT ![a] = bound]
      /\ kept = Kept(n, {i \in 1..n : range[i].kind # "at"})
      /\ shift = [i \in 1..n |-> Shift(map.axes[i], range[i])]
      /\ s = [k \in DOMAIN kept |-> Extent(range[kept[k]])]
      /\ axes = [k \in DOMAIN kept |-> Narrowed(map.axes[kept[k]], range[kept[k]])]
  BY Zenon
<1> HIDE DEF RangeOf, KeptOf, ShapeOf, ShiftOf, AxesMade, BeforeOf, MapOf, Becomes
<1>3. /\ n \in Nat /\ IsMap(map) /\ map.offset \in Int /\ map.shape = r
      /\ \A i \in 1..n : r[i] \in Positive /\ r[i] \in Nat /\ r[i] > 0 /\ IsAxis(map.axes[i], r[i])
  BY MapFacts
<1>4. ASSUME NEW i \in 1..n PROVE range[i] \in AxisRange /\ Accepts(r[i], range[i])
  <2>1. CASE i = a
    <3>1. range[i] = bound
      BY ONLY <1>2, <2>1, i \in 1..n
    <3>2. bound \in AxisRange /\ Accepts(r[a], bound)
      BY MapAssumption
    <3> QED BY <2>1, <3>1, <3>2
  <2>2. CASE i # a
    <3>1. range[i] = In(0, r[i], 1)
      BY ONLY <1>2, <2>2, i \in 1..n
    <3> PICK d \in Nat : d = r[i] /\ d > 0
      BY <1>3
    <3> PICK whole : whole = In(0, d, 1)
      OBVIOUS
    <3>2. whole = [kind |-> "in", start |-> 0, stop |-> d, step |-> 1]
      BY DEF In
    <3>3. whole \in AxisRange
      <4>1. whole \in [kind : {"in"}, start : Nat, stop : Nat, step : Nat]
        BY ONLY <3>2, d \in Nat
      <4> QED BY <4>1 DEF AxisRange
    <3>4. Accepts(d, whole)
      <4>1. whole.kind = "in" /\ whole.start = 0 /\ whole.stop = d /\ whole.step = 1
        BY ONLY <3>2
      <4> QED BY ONLY <4>1, d \in Nat, d > 0 DEF Accepts
    <3> QED BY <3>1, <3>3, <3>4
  <2> QED BY <2>1, <2>2
<1> PICK A : A = {i \in 1..n : range[i].kind # "at"}
  OBVIOUS
<1> PICK l \in Nat : Names(kept, n, A, l)
  <2>1. kept = Kept(n, A)
    BY <1>2
  <2> QED BY ONLY <1>3, <2>1, KeptFacts
<1>5. /\ kept \in [1..l -> 1..n] /\ DOMAIN kept = 1..l /\ Distinctly(kept, l)
      /\ \A k \in 1..l : range[kept[k]].kind # "at"
      /\ \A i \in 1..n : (\A k \in 1..l : kept[k] # i) => range[i].kind = "at"
  BY DEF Names
<1>6. ASSUME NEW i \in 1..n, range[i].kind # "at"
      PROVE  /\ Shift(map.axes[i], range[i]) \in Int /\ Extent(range[i]) \in Positive
             /\ IsAxis(Narrowed(map.axes[i], range[i]), Extent(range[i]))
             /\ Narrows(map.axes[i], range[i], Narrowed(map.axes[i], range[i]), Shift(map.axes[i], range[i]), r[i])
  <2>0. /\ r[i] \in Nat /\ IsAxis(map.axes[i], r[i])
        /\ range[i] \in AxisRange /\ Accepts(r[i], range[i])
    BY <1>3, <1>4
  <2> PICK dim, axis, some : dim = r[i] /\ axis = map.axes[i] /\ some = range[i]
    OBVIOUS
  <2>1. dim \in Nat /\ some \in AxisRange /\ IsAxis(axis, dim) /\ Accepts(dim, some)
    BY ONLY <2>0, dim = r[i], axis = map.axes[i], some = range[i]
  <2>2. (some.kind = "in" \/ some.kind = "of") /\ Extent(some) \in Positive
    BY <1>6, <2>1, BoundFacts
  <2>3. CASE some.kind = "in"
    <3>1. /\ Shift(axis, some) \in Int /\ IsAxis(Narrowed(axis, some), Extent(some))
          /\ Narrows(axis, some, Narrowed(axis, some), Shift(axis, some), dim)
      BY ONLY <2>1, <2>3, SlicedIn
    <3> QED BY <2>2, <3>1
  <2>4. CASE some.kind = "of"
    <3>1. /\ Shift(axis, some) \in Int /\ IsAxis(Narrowed(axis, some), Extent(some))
          /\ Narrows(axis, some, Narrowed(axis, some), Shift(axis, some), dim)
      BY ONLY <2>1, <2>4, SlicedOf
    <3> QED BY <2>2, <3>1
  <2> QED BY <2>2, <2>3, <2>4
<1>7. ASSUME NEW i \in 1..n, range[i].kind = "at"
      PROVE  /\ Shift(map.axes[i], range[i]) \in Int /\ range[i].index \in 0..(r[i] - 1)
             /\ Contribution(map.axes[i], range[i].index) = Shift(map.axes[i], range[i])
  <2>0. /\ r[i] \in Nat /\ IsAxis(map.axes[i], r[i])
        /\ range[i] \in AxisRange /\ Accepts(r[i], range[i])
    BY <1>3, <1>4
  <2> PICK dim, axis, some : dim = r[i] /\ axis = map.axes[i] /\ some = range[i]
    OBVIOUS
  <2>1. dim \in Nat /\ some \in AxisRange /\ IsAxis(axis, dim) /\ Accepts(dim, some)
    BY ONLY <2>0, dim = r[i], axis = map.axes[i], some = range[i]
  <2>2. some.kind = "at"
    BY <1>7
  <2>3. /\ Shift(axis, some) \in Int /\ some.index \in 0..(dim - 1)
        /\ Contribution(axis, some.index) = Shift(axis, some)
    BY ONLY <2>1, <2>2, SlicedAt
  <2> QED BY ONLY <2>3, dim = r[i], axis = map.axes[i], some = range[i]
<1>8. shift \in [1..n -> Int] /\ \A i \in 1..n : shift[i] = Shift(map.axes[i], range[i])
  <2>1. \A i \in 1..n : Shift(map.axes[i], range[i]) \in Int
    BY <1>6, <1>7
  <2>2. shift = [i \in 1..n |-> Shift(map.axes[i], range[i])]
    BY <1>2
  <2> QED BY ONLY <2>1, <2>2
<1>9. Total(shift) \in Int
  BY ONLY <1>3, <1>8, SumIsNumber
<1>10. /\ s = [k \in 1..l |-> Extent(range[kept[k]])]
       /\ axes = [k \in 1..l |-> Narrowed(map.axes[kept[k]], range[kept[k]])]
  BY <1>2, <1>5, Zenon
<1>11. s \in Seq(Positive) /\ Len(s) = l
  <2>1. \A k \in 1..l : Extent(range[kept[k]]) \in Positive
    BY <1>5, <1>6
  <2>2. s \in [1..l -> Positive]
    BY ONLY <1>10, <2>1
  <2> QED BY ONLY <2>2, l \in Nat, PlacesFacts
<1>12. m.offset = map.offset + Total(shift) /\ m.axes = axes /\ m.shape = s /\ Rank(m) = l
  <2>1. m.offset = map.offset + Total(shift) /\ m.axes = axes /\ m.shape = s
    BY ONLY <1>2
  <2> QED BY ONLY <1>11, <2>1 DEF Rank
<1>13. IsMap(m)
  <2>1. ASSUME NEW k \in 1..l PROVE IsAxis(axes[k], s[k])
    <3>1. axes[k] = Narrowed(map.axes[kept[k]], range[kept[k]]) /\ s[k] = Extent(range[kept[k]])
      BY ONLY <1>10, k \in 1..l
    <3> QED BY <1>5, <1>6, <3>1
  <2>2. m.offset \in Int /\ DOMAIN axes = 1..l
    <3>1. m.offset \in Int
      BY ONLY <1>3, <1>9, <1>12
    <3>2. DOMAIN axes = 1..l
      BY ONLY <1>10
    <3> QED BY <3>1, <3>2
  <2> QED BY <1>2, <1>11, <1>12, <2>1, <2>2 DEF IsMap
<1> PICK named :
      named = [z \in (1..n) \X Nat |->
                IF range[z[1]].kind = "at" THEN range[z[1]].index ELSE IndexOf(range[z[1]], z[2])]
  OBVIOUS
<1>14. \A i \in 1..n, x \in Nat :
         named[<<i, x>>] = IF range[i].kind = "at" THEN range[i].index ELSE IndexOf(range[i], x)
  OBVIOUS
<1>15. ASSUME NEW i \in 1..n, NEW k \in 1..l, kept[k] = i, NEW x \in 0..(s[k] - 1)
       PROVE  /\ named[<<i, x>>] \in 0..(r[i] - 1)
              /\ Contribution(map.axes[i], named[<<i, x>>]) = shift[i] + Contribution(axes[k], x)
              /\ axes[k].kind = "stride" =>
                   /\ map.axes[i].kind = "stride"
                   /\ \A y \in 0..(s[k] - 1) : named[<<i, x>>] = named[<<i, y>>] => x = y
  <2>1. s[k] = Extent(range[i]) /\ axes[k] = Narrowed(map.axes[i], range[i])
    BY ONLY <1>10, <1>15, k \in 1..l
  <2>2. s[k] \in Nat
    <3>1. s[k] \in Positive
      BY ONLY <1>11, k \in 1..l
    <3> QED BY <3>1 DEF Positive
  <2>3. \A y \in 0..(s[k] - 1) : y \in Nat
    BY ONLY <2>2
  <2>4. ~(range[i].kind = "at")
    BY <1>5, <1>15
  <2>5. \A y \in 0..(s[k] - 1) : named[<<i, y>>] = IndexOf(range[i], y)
    BY ONLY <1>14, <2>3, <2>4, i \in 1..n
  <2>6. Narrows(map.axes[i], range[i], axes[k], shift[i], r[i])
    BY <1>6, <1>8, <2>1, <2>4
  <2> QED BY ONLY <2>1, <2>5, <2>6, x \in 0..(s[k] - 1) DEF Narrows
<1>16. ASSUME NEW i \in 1..n, \A k \in 1..l : kept[k] # i
       PROVE  named[<<i, 0>>] \in 0..(r[i] - 1) /\ Contribution(map.axes[i], named[<<i, 0>>]) = shift[i]
  <2>1. range[i].kind = "at"
    BY ONLY <1>5, <1>16
  <2>2. named[<<i, 0>>] = range[i].index
    BY ONLY <1>14, <2>1, i \in 1..n
  <2> QED BY <1>7, <1>8, <2>1, <2>2
<1>17. ASSUME NEW c, Below(c, s)
       PROVE  /\ before[c] = [i \in 1..n |-> before[c][i]]
              /\ \A k \in 1..l : before[c][kept[k]] = named[<<kept[k], c[k]>>]
              /\ \A i \in 1..n : (\A k \in 1..l : kept[k] # i) => before[c][i] = named[<<i, 0>>]
  <2>1. c \in Coords(s)
    BY <1>11, <1>17, CoordsAre
  <2>2. before[c] = [i \in 1..n |->
          IF range[i].kind = "at" THEN range[i].index ELSE IndexOf(range[i], c[PlaceIn(kept, i)])]
    BY ONLY <1>2, <2>1
  <2>3. ASSUME NEW k \in 1..l PROVE before[c][kept[k]] = named[<<kept[k], c[k]>>]
    <3>1. kept[k] \in 1..n /\ ~(range[kept[k]].kind = "at")
      BY ONLY <1>5, k \in 1..l
    <3>2. PlaceIn(kept, kept[k]) = k
      BY ONLY <1>5, k \in 1..l, l \in Nat, PlaceOfKept
    <3>3. before[c][kept[k]] = IndexOf(range[kept[k]], c[k])
      BY ONLY <2>2, <3>1, <3>2
    <3>4. c[k] \in Nat
      BY <1>11, <1>17 DEF Below
    <3>5. named[<<kept[k], c[k]>>] = IndexOf(range[kept[k]], c[k])
      BY ONLY <1>14, <3>1, <3>4
    <3> QED BY <3>3, <3>5
  <2>4. ASSUME NEW i \in 1..n, \A k \in 1..l : kept[k] # i PROVE before[c][i] = named[<<i, 0>>]
    <3>1. range[i].kind = "at"
      BY ONLY <1>5, <2>4
    <3>2. before[c][i] = range[i].index
      BY ONLY <2>2, <3>1, i \in 1..n
    <3>3. named[<<i, 0>>] = range[i].index
      BY ONLY <1>14, <3>1, i \in 1..n
    <3> QED BY <3>2, <3>3
  <2>5. before[c] = [i \in 1..n |-> before[c][i]]
    BY ONLY <2>2
  <2> QED BY ONLY <2>3, <2>4, <2>5
<1>18. Keeping(m, before, kept, shift, named)
  <2>1. Rank(m) = l /\ Rank(map) = n /\ m.axes = axes /\ m.shape = s /\ map.shape = r
    BY <1>3, <1>12
  <2>2. kept \in [1..l -> 1..n] /\ Distinctly(kept, l) /\ m.offset = map.offset + Total(shift)
    BY <1>5, <1>12
  <2> QED BY ONLY <1>8, <1>15, <1>16, <1>17, <2>1, <2>2 DEF Keeping
<1> QED BY <1>1, <1>13, <1>18, KeptNext

--------------------------------------------------------------------------------
(* New axes are put in.  How many are put in before an old axis.            *)
LEMMA PutInFacts ==
  ASSUME NEW n \in Nat, NEW inserted \in SUBSET (1..n)
  PROVE  LET ahead(i) == Cardinality({j \in inserted : j <= i}) IN
         /\ Cardinality(inserted) \in Nat
         /\ \A i \in 1..n : ahead(i) \in Nat /\ ahead(i) <= Cardinality(inserted)
         /\ \A i, j \in 1..n : i < j => ahead(i) <= ahead(j)
<1> DEFINE Ahead(i) == {j \in inserted : j <= i}
<1>1. IsFiniteSet(inserted)
  <2>1. 1 \in Int /\ n \in Int
    OBVIOUS
  <2>2. IsFiniteSet(1..n)
    BY ONLY <2>1, FS_Interval
  <2> QED BY <2>2, FS_Subset
<1>2. Cardinality(inserted) \in Nat
  BY <1>1, FS_CardinalityType
<1>3. ASSUME NEW i \in 1..n
      PROVE  IsFiniteSet(Ahead(i)) /\ Cardinality(Ahead(i)) \in Nat /\ Cardinality(Ahead(i)) <= Cardinality(inserted)
  <2>1. Ahead(i) \subseteq inserted
    OBVIOUS
  <2> HIDE DEF Ahead
  <2>2. IsFiniteSet(Ahead(i)) /\ Cardinality(Ahead(i)) <= Cardinality(inserted)
    BY <1>1, <2>1, FS_Subset
  <2> QED BY <2>2, FS_CardinalityType
<1>4. ASSUME NEW i \in 1..n, NEW j \in 1..n, i < j PROVE Cardinality(Ahead(i)) <= Cardinality(Ahead(j))
  <2>1. Ahead(i) \subseteq Ahead(j)
    <3> SUFFICES ASSUME NEW k \in inserted, k <= i PROVE k <= j
      OBVIOUS
    <3>1. k \in Int /\ i \in Int /\ j \in Int
      OBVIOUS
    <3> QED BY ONLY <1>4, <3>1, k <= i
  <2>2. IsFiniteSet(Ahead(j))
    BY <1>3
  <2> HIDE DEF Ahead
  <2> QED BY <2>1, <2>2, FS_Subset
<1> QED BY <1>2, <1>3, <1>4

(* The only element is the least.                                           *)
LEMMA LeastOfOne ==
  ASSUME NEW x \in Int
  PROVE  Min({x}) = x
<1>1. \E y \in {x} : \A z \in {x} : y <= z
  OBVIOUS
<1>2. Min({x}) \in {x}
  BY <1>1 DEF Min
<1> QED BY <1>2

(* New axes, of extent one.                                                 *)
LEMMA UnsqueezeNext ==
  ASSUME ViewInv, Unsqueeze
  PROVE  ViewInv'
<1> DEFINE AtOf(inserted) == [i \in 1..Rank(map) |-> i + Cardinality({j \in inserted : j <= i})]
           OldOf(at, k) == {i \in 1..Rank(map) : at[i] = k}
           ShapeOf(at, inserted) ==
             [k \in 1..(Rank(map) + Cardinality(inserted)) |->
               IF OldOf(at, k) = {} THEN 1 ELSE map.shape[Min(OldOf(at, k))]]
           AxesMade(at, shape) ==
             [k \in DOMAIN shape |->
               IF OldOf(at, k) = {} THEN Stride(Strides(shape)[k]) ELSE map.axes[Min(OldOf(at, k))]]
           BeforeOf(at, shape) == [c \in Coords(shape) |-> [i \in 1..Rank(map) |-> c[at[i]]]]
           Becomes(at, shape) ==
             Become([offset |-> map.offset, axes |-> AxesMade(at, shape), shape |-> shape], BeforeOf(at, shape))
<1> PICK inserted \in SUBSET (1..Rank(map)) \ {{}} : Becomes(AtOf(inserted), ShapeOf(AtOf(inserted), inserted))
  <2>1. PICK inserted \in SUBSET (1..Rank(map)) \ {{}} :
          LET at(i) == i + Cardinality({j \in inserted : j <= i})
              old(k) == {i \in 1..Rank(map) : at(i) = k}
              shape == [k \in 1..(Rank(map) + Cardinality(inserted)) |->
                         IF old(k) = {} THEN 1 ELSE map.shape[Min(old(k))]]
          IN Become([offset |-> map.offset,
                     axes |-> [k \in DOMAIN shape |->
                       IF old(k) = {} THEN Stride(Strides(shape)[k]) ELSE map.axes[Min(old(k))]],
                     shape |-> shape],
                    [c \in Coords(shape) |-> [i \in 1..Rank(map) |-> c[at(i)]]])
    BY Zenon DEF Unsqueeze
  <2> DEFINE at(i) == i + Cardinality({j \in inserted : j <= i})
             old(k) == {i \in 1..Rank(map) : at(i) = k}
             shape == [k \in 1..(Rank(map) + Cardinality(inserted)) |->
                        IF old(k) = {} THEN 1 ELSE map.shape[Min(old(k))]]
  <2>2. \A k : OldOf(AtOf(inserted), k) = old(k)
    OBVIOUS
  <2>3. ShapeOf(AtOf(inserted), inserted) = shape
    <3> HIDE DEF OldOf, AtOf, old
    <3> QED BY <2>2
  <2>4. AxesMade(AtOf(inserted), shape) =
          [k \in DOMAIN shape |-> IF old(k) = {} THEN Stride(Strides(shape)[k]) ELSE map.axes[Min(old(k))]]
    <3> HIDE DEF OldOf, AtOf, old, shape
    <3> QED BY <2>2
  <2>5. BeforeOf(AtOf(inserted), shape) = [c \in Coords(shape) |-> [i \in 1..Rank(map) |-> c[at(i)]]]
    <3> HIDE DEF shape
    <3>1. \A i \in 1..Rank(map) : AtOf(inserted)[i] = at(i)
      OBVIOUS
    <3> HIDE DEF AtOf, at
    <3>2. \A c : [i \in 1..Rank(map) |-> c[AtOf(inserted)[i]]] = [i \in 1..Rank(map) |-> c[at(i)]]
      BY <3>1
    <3> QED BY <3>2
  <2>6. Become([offset |-> map.offset,
                axes |-> [k \in DOMAIN shape |->
                  IF old(k) = {} THEN Stride(Strides(shape)[k]) ELSE map.axes[Min(old(k))]],
                shape |-> shape],
               [c \in Coords(shape) |-> [i \in 1..Rank(map) |-> c[at(i)]]])
    BY <2>1, Zenon
  <2>7. Becomes(AtOf(inserted), shape)
    <3> HIDE DEF AtOf, AxesMade, BeforeOf, shape, old, at
    <3> QED BY <2>4, <2>5, <2>6
  <2> HIDE DEF Becomes, AtOf, ShapeOf, shape
  <2> QED BY <2>3, <2>7
<1> PICK n, r, q, at :
      n = Rank(map) /\ r = map.shape /\ q = Cardinality(inserted) /\ at = AtOf(inserted)
  OBVIOUS
<1> PICK s, axes, before, m :
      /\ s = ShapeOf(at, inserted) /\ axes = AxesMade(at, s) /\ before = BeforeOf(at, s)
      /\ m = [offset |-> map.offset, axes |-> axes, shape |-> s] /\ Become(m, before)
  <2> HIDE DEF AtOf, ShapeOf, AxesMade, BeforeOf
  <2> QED OBVIOUS
<1> PICK old : old = [k \in 1..(n + q) |-> {i \in 1..n : at[i] = k}]
  OBVIOUS
<1>1. Become(m, before)
  OBVIOUS
<1>2. /\ m = [offset |-> map.offset, axes |-> axes, shape |-> s]
      /\ at = [i \in 1..n |-> i + Cardinality({j \in inserted : j <= i})]
      /\ before = [c \in Coords(s) |-> [i \in 1..n |-> c[at[i]]]]
  BY Zenon
<1>3. s = [k \in 1..(n + q) |-> IF old[k] = {} THEN 1 ELSE r[Min(old[k])]]
  <2>1. \A k \in 1..(n + q) : old[k] = OldOf(at, k)
    OBVIOUS
  <2> HIDE DEF OldOf
  <2>2. s = [k \in 1..(n + q) |-> IF OldOf(at, k) = {} THEN 1 ELSE r[Min(OldOf(at, k))]]
    OBVIOUS
  <2> QED BY ONLY <2>1, <2>2
<1>4. axes = [k \in 1..(n + q) |-> IF old[k] = {} THEN Stride(Strides(s)[k]) ELSE map.axes[Min(old[k])]]
  <2>1. \A k \in 1..(n + q) : old[k] = OldOf(at, k)
    OBVIOUS
  <2> HIDE DEF OldOf
  <2>2. DOMAIN s = 1..(n + q)
    BY ONLY <1>3
  <2>3. axes = [k \in DOMAIN s |-> IF OldOf(at, k) = {} THEN Stride(Strides(s)[k]) ELSE map.axes[Min(OldOf(at, k))]]
    OBVIOUS
  <2> QED BY ONLY <2>1, <2>2, <2>3
<1> HIDE DEF AtOf, OldOf, ShapeOf, AxesMade, BeforeOf, Becomes
<1>5. /\ n \in Nat /\ IsMap(map) /\ map.offset \in Int /\ map.shape = r
      /\ \A i \in 1..n : r[i] \in Positive /\ r[i] \in Nat /\ r[i] > 0 /\ IsAxis(map.axes[i], r[i])
  BY MapFacts
<1>6. q \in Nat /\ at \in [1..n -> 1..(n + q)] /\ \A i, j \in 1..n : i < j => at[i] < at[j]
  <2> DEFINE ahead(i) == Cardinality({j \in inserted : j <= i})
  <2>1. inserted \in SUBSET (1..n)
    OBVIOUS
  <2>2. /\ q \in Nat
        /\ \A i \in 1..n : ahead(i) \in Nat /\ ahead(i) <= q
        /\ \A i, j \in 1..n : i < j => ahead(i) <= ahead(j)
    BY ONLY <1>5, <2>1, q = Cardinality(inserted), PutInFacts, Zenon
  <2>3. at = [i \in 1..n |-> i + ahead(i)]
    BY <1>2
  <2> HIDE DEF ahead
  <2>4. \A i \in 1..n : at[i] = i + ahead(i)
    BY ONLY <2>3
  <2>5. ASSUME NEW i \in 1..n PROVE at[i] \in 1..(n + q)
    BY ONLY <1>5, <2>2, <2>4, i \in 1..n
  <2>6. ASSUME NEW i \in 1..n, NEW j \in 1..n, i < j PROVE at[i] < at[j]
    BY ONLY <1>5, <2>2, <2>4, <2>6
  <2> QED BY ONLY <2>2, <2>3, <2>5, <2>6
<1>7. Distinctly(at, n)
  <2>1. \A i, j \in 1..n : i # j => i < j \/ j < i
    BY ONLY <1>5
  <2>2. \A i \in 1..n : at[i] \in Int
    BY ONLY <1>5, <1>6
  <2> QED BY ONLY <1>6, <2>1, <2>2 DEF Distinctly
<1>8. ASSUME NEW i \in 1..n PROVE at[i] \in 1..(n + q) /\ s[at[i]] = r[i] /\ axes[at[i]] = map.axes[i]
  <2>1. at[i] \in 1..(n + q)
    BY ONLY <1>6, i \in 1..n
  <2>2. old[at[i]] = {i}
    <3>1. old[at[i]] = {j \in 1..n : at[j] = at[i]}
      BY <2>1
    <3> QED BY ONLY <1>7, <3>1, i \in 1..n DEF Distinctly
  <2>3. Min(old[at[i]]) = i /\ old[at[i]] # {}
    <3>1. i \in Int
      BY ONLY <1>5, i \in 1..n
    <3>2. Min({i}) = i
      BY ONLY <3>1, LeastOfOne
    <3> QED BY ONLY <2>2, <3>2
  <2> QED BY ONLY <1>3, <1>4, <2>1, <2>3
<1>9. ASSUME NEW k \in 1..(n + q), \A i \in 1..n : at[i] # k
      PROVE  s[k] = 1 /\ axes[k] = Stride(Strides(s)[k])
  <2>1. old[k] = {}
    BY <1>9
  <2> QED BY ONLY <1>3, <1>4, <2>1, k \in 1..(n + q)
<1>10. s \in Seq(Positive) /\ Len(s) = n + q
  <2>1. ASSUME NEW k \in 1..(n + q) PROVE s[k] \in Positive
    <3>1. CASE \E i \in 1..n : at[i] = k
      BY <1>5, <1>8, <3>1
    <3>2. CASE ~\E i \in 1..n : at[i] = k
      BY <1>9, <3>2 DEF Positive
    <3> QED BY <3>1, <3>2
  <2> PICK l : l = n + q
    OBVIOUS
  <2>2. l \in Nat
    BY <1>5, <1>6
  <2>3. s \in [1..l -> Positive]
    <3>1. \A k \in 1..l : s[k] \in Positive
      BY <2>1
    <3>2. s = [k \in 1..l |-> s[k]]
      BY ONLY <1>3, l = n + q
    <3> QED BY ONLY <3>1, <3>2
  <2> QED BY ONLY <2>2, <2>3, l = n + q, PlacesFacts
<1>11. m.offset = map.offset /\ m.axes = axes /\ m.shape = s /\ Rank(m) = n + q
  <2>1. m.offset = map.offset /\ m.axes = axes /\ m.shape = s
    BY ONLY <1>2
  <2> QED BY ONLY <1>10, <2>1 DEF Rank
<1>12. IsMap(m)
  <2>1. ASSUME NEW k \in 1..(n + q) PROVE IsAxis(axes[k], s[k])
    <3>1. CASE \E i \in 1..n : at[i] = k
      BY <1>5, <1>8, <3>1
    <3>2. CASE ~\E i \in 1..n : at[i] = k
      <4>1. axes[k] = Stride(Strides(s)[k])
        BY <1>9, <3>2
      <4>2. Strides(s)[k] \in Int
        <5>1. k \in 1..Len(s) /\ k \in 0..Len(s)
          BY <1>5, <1>6, <1>10
        <5>2. Strides(s)[k] = After(s, k)
          BY <1>10, <5>1, AfterOf
        <5> QED BY <1>10, <5>1, <5>2, AfterOf DEF Positive
      <4> QED BY <4>1, <4>2 DEF IsAxis
    <3> QED BY <3>1, <3>2
  <2>2. DOMAIN axes = 1..(n + q)
    BY ONLY <1>4
  <2> QED BY <1>2, <1>5, <1>10, <1>11, <2>1, <2>2 DEF IsMap
<1>13. ASSUME NEW c, Below(c, s)
       PROVE  before[c] = [i \in 1..n |-> c[at[i]]] /\ Below(before[c], r)
  <2>1. c \in Coords(s)
    BY <1>10, <1>13, CoordsAre
  <2>2. before[c] = [i \in 1..n |-> c[at[i]]]
    BY ONLY <1>2, <2>1
  <2>3. ASSUME NEW i \in 1..n PROVE before[c][i] \in Nat /\ before[c][i] < r[i]
    <3>1. before[c][i] = c[at[i]]
      BY ONLY <2>2, i \in 1..n
    <3>2. c[at[i]] \in Nat /\ c[at[i]] < s[at[i]]
      BY <1>8, <1>10, <1>13 DEF Below
    <3> QED BY <1>8, <3>1, <3>2
  <2>4. n = Len(r)
    BY DEF Rank
  <2>5. before[c] \in [1..Len(r) -> Nat] /\ \A i \in 1..Len(r) : before[c][i] < r[i]
    BY <2>2, <2>3, <2>4
  <2> QED BY <2>2, <2>5 DEF Below
<1>14. ASSUME NEW c, Below(c, m.shape)
       PROVE  Below(before[c], map.shape) /\ FlatOffset(m, c) = FlatOffset(map, before[c])
  <2> PICK b : b = before[c]
    OBVIOUS
  <2>1. Below(c, s) /\ Below(b, map.shape) /\ b = [i \in 1..n |-> c[at[i]]]
    BY <1>5, <1>11, <1>13, <1>14
  <2>2. \A i \in 1..n : Contribution(m.axes[at[i]], c[at[i]]) = Contribution(map.axes[i], b[i])
    BY <1>8, <1>11, <2>1
  <2>3. ASSUME NEW k \in 1..(n + q), \A i \in 1..n : at[i] # k PROVE Contribution(m.axes[k], c[k]) = 0
    <3>1. m.axes[k] = Stride(Strides(s)[k]) /\ s[k] = 1
      BY <1>9, <1>11, <2>3
    <3>2. c[k] = 0
      <4>1. c[k] \in Nat /\ c[k] < s[k]
        BY <1>10, <2>1 DEF Below
      <4> QED BY <3>1, <4>1
    <3>3. k \in 1..Len(s) /\ k \in 0..Len(s)
      BY <1>5, <1>6, <1>10
    <3>4. Strides(s)[k] = After(s, k)
      BY <1>10, <3>3, AfterOf
    <3>5. Strides(s)[k] \in Int
      BY <1>10, <3>3, <3>4, AfterOf DEF Positive
    <3>6. 0 * Strides(s)[k] = 0
      BY <3>5
    <3> QED BY <3>1, <3>2, <3>6, OfStride
  <2>4. Rank(m) = n + q /\ Rank(map) = n /\ m.offset = map.offset
    BY <1>11
  <2>5. Spreads(m, c, map, b, at)
    BY ONLY <1>6, <1>7, <2>2, <2>3, <2>4 DEF Spreads
  <2>6. Below(c, m.shape)
    BY <1>14
  <2>7. FlatOffset(m, c) = FlatOffset(map, b)
    BY ONLY <1>5, <1>12, <2>1, <2>5, <2>6, Spread
  <2> QED BY <2>1, <2>7
<1>15. ASSUME NEW c, NEW d, Below(c, m.shape), Below(d, m.shape), Alike(map, before[c], before[d])
       PROVE  Alike(m, c, d)
  <2>1. Below(c, s) /\ Below(d, s)
    BY <1>11, <1>15
  <2>2. ASSUME NEW k \in 1..(n + q), axes[k].kind = "stride" PROVE c[k] = d[k]
    <3>1. CASE \E i \in 1..n : at[i] = k
      <4> PICK i \in 1..n : at[i] = k
        BY <3>1
      <4>1. before[c][i] = c[k] /\ before[d][i] = d[k]
        <5>1. before[c] = [j \in 1..n |-> c[at[j]]] /\ before[d] = [j \in 1..n |-> d[at[j]]]
          BY <1>13, <2>1
        <5> QED BY ONLY <5>1, i \in 1..n, at[i] = k
      <4>2. map.axes[i].kind = "stride"
        BY <1>8, <2>2
      <4> QED BY <1>15, <4>1, <4>2 DEF Alike
    <3>2. CASE ~\E i \in 1..n : at[i] = k
      <4>1. s[k] = 1
        BY <1>9, <3>2
      <4>2. c[k] \in Nat /\ c[k] < s[k] /\ d[k] \in Nat /\ d[k] < s[k]
        BY <1>10, <2>1 DEF Below
      <4> QED BY <4>1, <4>2
    <3> QED BY <3>1, <3>2
  <2> QED BY <1>11, <2>2 DEF Alike
<1> QED BY <1>1, <1>12, <1>14, <1>15, Became

(* The invariant, and what the runs check of it.                            *)

(* A view begins as the tensor itself.                                      *)
LEMMA ViewBegins ==
  ASSUME ViewInit
  PROVE  ViewInv
<1> PICK s : s = base.shape
  OBVIOUS
<1>1. /\ base \in Bases /\ map = Identity(s)
      /\ meaning = [c \in Coords(s) |-> Linear(s, c)]
  BY DEF ViewInit
<1>2. s \in Seq(Positive)
  BY <1>1, MapAssumption DEF Positive
<1>3. map = [offset |-> 0, axes |-> [i \in Axes(s) |-> Stride(Strides(s)[i])], shape |-> s]
  BY <1>1 DEF Identity
<1>4. map.shape = s /\ map.offset = 0
  BY ONLY <1>3
<1>5. IsMap(map) /\ \A i \in 1..Rank(map) : map.axes[i] = Stride(Strides(map.shape)[i])
  <2>1. 0 \in Int
    OBVIOUS
  <2> QED BY ONLY <1>2, <1>3, <2>1, IdentityFacts
<1>6. ASSUME NEW c \in Coords(s)
      PROVE  /\ Below(c, s) /\ meaning[c] = Linear(s, c)
             /\ Linear(s, c) \in PlacesIn(s) /\ Linear(s, c) \in Nat
  <2>1. Below(c, s)
    BY <1>2, CoordsAre
  <2>2. Linear(s, c) \in PlacesIn(s)
    BY ONLY <1>2, <2>1, AtOfLinear
  <2>3. Linear(s, c) \in Nat
    BY ONLY <2>2 DEF PlacesIn
  <2> QED BY <1>1, <2>1, <2>2, <2>3
<1>7. MapsCompose
  <2>1. ASSUME NEW c \in Coords(map.shape) PROVE FlatOffset(map, c) = meaning[c]
    <3>1. Below(c, map.shape) /\ meaning[c] = Linear(map.shape, c) /\ Linear(map.shape, c) \in Nat
      BY <1>4, <1>6
    <3>2. FlatOffset(map, c) = 0 + Linear(map.shape, c)
      BY <1>4, <1>5, <3>1, OffsetOfStrided
    <3> QED BY <3>1, <3>2
  <2> QED BY <1>1, <1>4, <2>1 DEF MapsCompose
<1>8. ASSUME NEW c \in Coords(map.shape), NEW d \in Coords(map.shape), meaning[c] = meaning[d]
      PROVE  Alike(map, c, d)
  <2>1. /\ Below(c, s) /\ meaning[c] = Linear(s, c)
        /\ Below(d, s) /\ meaning[d] = Linear(s, d)
    BY <1>4, <1>6
  <2>2. Linear(s, c) = Linear(s, d)
    BY <1>8, <2>1
  <2>3. CoordAt(s, Linear(s, c)) = c
    BY ONLY <1>2, <2>1, AtOfLinear
  <2>4. CoordAt(s, Linear(s, d)) = d
    BY ONLY <1>2, <2>1, AtOfLinear
  <2>5. c = d
    BY ONLY <2>2, <2>3, <2>4
  <2> QED BY <2>5 DEF Alike
<1>9. \A c \in Coords(map.shape) : meaning[c] \in PlacesIn(base.shape)
  BY <1>4, <1>6
<1> QED BY <1>1, <1>5, <1>7, <1>8, <1>9 DEF ViewInv

(* Taking some of the axes in another order keeps the invariant, and so do  *)
(* the other transforms, and a step that is none.                           *)
LEMMA ViewStays ==
  ASSUME ViewInv, [ViewNext]_viewing
  PROVE  ViewInv'
<1>1. CASE Reshape
  BY <1>1, ReshapeNext
<1>2. CASE BroadcastTo
  BY <1>2, BroadcastToNext
<1>3. CASE Slice
  BY <1>3, SliceNext
<1>4. CASE Transpose
  BY <1>4, TransposeNext
<1>5. CASE Flip
  BY <1>5, FlipNext
<1>6. CASE Squeeze
  BY <1>6, SqueezeNext
<1>7. CASE Unsqueeze
  BY <1>7, UnsqueezeNext
<1>8. CASE UNCHANGED viewing
  <2>1. map' = map /\ base' = base /\ meaning' = meaning
    BY <1>8 DEF viewing
  <2>2. IsMap(map)'
    BY <2>1 DEF ViewInv, IsMap, IsAxis, IsTable
  <2>3. MapsCompose'
    BY <2>1 DEF ViewInv, MapsCompose
  <2>4. (\A c, d \in Coords(map.shape) : meaning[c] = meaning[d] => Alike(map, c, d))'
    BY <2>1 DEF ViewInv, Alike, Rank
  <2>5. (\A c \in Coords(map.shape) : meaning[c] \in PlacesIn(base.shape))'
    BY <2>1 DEF ViewInv
  <2> QED BY <2>1, <2>2, <2>3, <2>4, <2>5 DEF ViewInv
<1> QED BY <1>1, <1>2, <1>3, <1>4, <1>5, <1>6, <1>7, <1>8 DEF ViewNext

(* A view that is written through sends no two coordinates to one place.    *)
LEMMA ViewWrites ==
  ASSUME ViewInv
  PROVE  WritesReachOneElement
<1>1. map.shape \in Seq(Positive) /\ IsMap(map) /\ MapsCompose
  BY MapFacts DEF ViewInv
<1> PICK n \in Nat : n = Rank(map) /\ n = Len(map.shape)
  BY MapFacts
<1>2. ASSUME SupportsWriteThrough(map), NEW c \in Coords(map.shape), NEW d \in Coords(map.shape), c # d
      PROVE  meaning[c] # meaning[d]
  <2> SUFFICES ASSUME meaning[c] = meaning[d] PROVE FALSE
    OBVIOUS
  <2>1. Below(c, map.shape) /\ Below(d, map.shape)
    BY <1>1, CoordsAre
  <2>2. c \in [1..n -> Nat] /\ d \in [1..n -> Nat]
    BY <2>1 DEF Below
  <2>3. \A i \in 1..n : c[i] = d[i]
    BY <1>2 DEF ViewInv, Alike, SupportsWriteThrough
  <2>4. c = d
    BY ONLY <2>2, <2>3
  <2> QED BY <1>2, <2>4
<1>3. ASSUME IsBaseMapping(map), NEW c \in Coords(map.shape)
      PROVE  meaning[c] = Linear(base.shape, c)
  <2>1. /\ map.offset = 0 /\ map.shape = base.shape
        /\ \A i \in 1..Rank(map) : map.axes[i] = Stride(Strides(map.shape)[i])
    BY <1>3 DEF IsBaseMapping, IsCContiguous
  <2>2. Below(c, map.shape)
    BY <1>1, CoordsAre
  <2>3. Linear(map.shape, c) \in Nat
    <3>1. Linear(map.shape, c) \in PlacesIn(map.shape)
      BY ONLY <1>1, <2>2, AtOfLinear
    <3> QED BY ONLY <3>1 DEF PlacesIn
  <2>4. FlatOffset(map, c) = 0 + Linear(map.shape, c)
    BY <1>1, <2>1, <2>2, OffsetOfStrided
  <2>5. FlatOffset(map, c) = meaning[c]
    BY <1>1 DEF MapsCompose
  <2> QED BY <2>1, <2>3, <2>4, <2>5
<1> QED BY <1>2, <1>3 DEF WritesReachOneElement

(* The state of a view at every time.                                       *)
LEMMA Viewed == ViewSpec => []ViewInv
BY ViewBegins, ViewStays, PTL DEF ViewSpec

(* However views are stacked on views, for every tensor, every bound and    *)
(* any number of transforms, the map sends each coordinate where the        *)
(* transforms, one after the other, send it (CoordinateMap::flat_offset,    *)
(* slice, transpose, flip, reshape, broadcast, squeeze and unsqueeze).      *)
THEOREM Composed == ViewSpec => []MapsCompose
<1>1. ViewInv => MapsCompose
  BY DEF ViewInv
<1> QED BY <1>1, Viewed, PTL

(* A view that is written through sends no two of its coordinates to one    *)
(* place, and one that is taken for the base tensor sends each to its own   *)
(* (supports_write_through, is_base_mapping).                               *)
THEOREM WrittenOnce == ViewSpec => []WritesReachOneElement
BY ViewWrites, Viewed, PTL

--------------------------------------------------------------------------------
(* What a view reaches: an interval of places, and the blocks around it.    *)

(* A sum is not greater than that of numbers that are not less.             *)
LEMMA SumsOrdered ==
  ASSUME NEW n \in Nat, NEW s \in [1..n -> Int], NEW t \in [1..n -> Int],
         \A k \in 1..n : s[k] <= t[k]
  PROVE  Total(s) <= Total(t)
<1> PICK g, h : RunningSums(g, s, n) /\ Total(s) = g[n] /\ RunningSums(h, t, n) /\ Total(t) = h[n]
  BY SumsExist
<1> DEFINE S == {k \in 0..n : g[k] <= h[k]}
<1>1. 0 \in S
  BY DEF RunningSums
<1>2. \A k \in 0..n : k < n /\ k \in S => k + 1 \in S
  <2> SUFFICES ASSUME NEW k \in 0..n, k < n, g[k] <= h[k] PROVE k + 1 \in S
    OBVIOUS
  <2>1. k + 1 \in 1..n /\ k + 1 \in 0..n /\ (k + 1) - 1 = k
    OBVIOUS
  <2>2. /\ g[k + 1] = g[k] + s[k + 1] /\ h[k + 1] = h[k] + t[k + 1]
        /\ g[k] \in Int /\ h[k] \in Int
    BY <2>1 DEF RunningSums
  <2>3. s[k + 1] \in Int /\ t[k + 1] \in Int /\ s[k + 1] <= t[k + 1]
    BY <2>1
  <2> QED BY <2>1, <2>2, <2>3
<1>3. \A k \in 0..n : k \in S
  <2> HIDE DEF S
  <2> QED BY <1>1, <1>2, UpToAll
<1>4. n \in 0..n
  OBVIOUS
<1>5. n \in S
  BY ONLY <1>3, <1>4
<1> QED BY <1>5

(* A number of S that is below, or above, all of them.                      *)
Bounded(S) ==
  /\ \E x \in S : \A y \in S : x <= y
  /\ \E x \in S : \A y \in S : x >= y

(* Finitely many numbers have a least and a greatest.                       *)
LEMMA LeastAndGreatest ==
  ASSUME NEW n \in Nat, NEW f \in [0..n -> Int]
  PROVE  Bounded({f[k] : k \in 0..n})
<1> DEFINE V(m) == {f[k] : k \in 0..m}
           S == {m \in 0..n : Bounded(V(m))}
<1>1. 0 \in S
  <2>1. V(0) = {f[0]} /\ f[0] \in Int /\ 0 \in 0..n
    OBVIOUS
  <2>2. f[0] <= f[0] /\ f[0] >= f[0]
    BY <2>1
  <2> HIDE DEF V
  <2> QED BY <2>1, <2>2 DEF Bounded
<1>2. \A m \in 0..n : m < n /\ m \in S => m + 1 \in S
  <2> SUFFICES ASSUME NEW m \in 0..n, m < n, Bounded(V(m)) PROVE m + 1 \in S
    OBVIOUS
  <2>0. m + 1 \in 0..n
    OBVIOUS
  <2> PICK z \in Int : z = f[m + 1]
    OBVIOUS
  <2>1. V(m + 1) = V(m) \union {z}
    <3>1. 0..(m + 1) = 0..m \union {m + 1}
      OBVIOUS
    <3> QED BY <3>1
  <2>2. \A y \in V(m) : y \in Int
    OBVIOUS
  <2> PICK W : W = V(m) /\ W \union {z} = V(m + 1)
    BY <2>1
  <2> HIDE DEF V
  <2>3. W \in SUBSET Int /\ Bounded(W)
    BY <2>2
  <2>4. \E x \in W \union {z} : \A y \in W \union {z} : x <= y
    <3> PICK x \in W : \A y \in W : x <= y
      BY <2>3 DEF Bounded
    <3>1. CASE x <= z
      BY <3>1, <2>3
    <3>2. CASE ~(x <= z)
      <4>1. z <= z /\ \A y \in W : z <= y
        BY <2>3, <3>2
      <4> QED BY <4>1
    <3> QED BY <3>1, <3>2
  <2>5. \E x \in W \union {z} : \A y \in W \union {z} : x >= y
    <3> PICK x \in W : \A y \in W : x >= y
      BY <2>3 DEF Bounded
    <3>1. CASE x >= z
      BY <3>1, <2>3
    <3>2. CASE ~(x >= z)
      <4>1. z >= z /\ \A y \in W : z >= y
        BY <2>3, <3>2
      <4> QED BY <4>1
    <3> QED BY <3>1, <3>2
  <2>6. Bounded(V(m + 1))
    BY <2>4, <2>5 DEF Bounded
  <2> QED BY <2>0, <2>6
<1>3. n \in 0..n
  OBVIOUS
<1> HIDE DEF S
<1>4. n \in S
  BY <1>1, <1>2, <1>3, UpToAll
<1> QED BY <1>4 DEF S

(* What flat_bounds takes the least and the greatest of.                    *)
Ends(axis, dim) ==
  IF axis.kind = "stride" THEN {0, axis.step * (dim - 1)}
  ELSE {Contribution(axis, k) : k \in 0..(dim - 1)}

(* An axis adds no less than the one and no more than the other.            *)
LEMMA EndsFacts ==
  ASSUME NEW dim \in Nat, dim > 0, NEW axis, IsAxis(axis, dim)
  PROVE  /\ Min(Ends(axis, dim)) \in Int /\ Max(Ends(axis, dim)) \in Int
         /\ \A k \in 0..(dim - 1) : /\ Min(Ends(axis, dim)) <= Contribution(axis, k)
                                    /\ Contribution(axis, k) <= Max(Ends(axis, dim))
<1> PICK E : E = Ends(axis, dim)
  OBVIOUS
<1>1. /\ E \in SUBSET Int /\ Bounded(E)
      /\ \A k \in 0..(dim - 1) : /\ \E x \in E : x <= Contribution(axis, k)
                                 /\ \E x \in E : Contribution(axis, k) <= x
  <2>1. CASE axis.kind = "stride"
    <3> PICK step \in Int : axis = Stride(step)
      BY <2>1, OfBroadcast, OfTable DEF IsAxis
    <3> PICK w \in Int : w = step * (dim - 1)
      OBVIOUS
    <3>1. E = {0, w}
      BY <2>1, OfStride DEF Ends
    <3>2. Bounded(E)
      <4>1. CASE w <= 0
        BY ONLY w \in Int, <3>1, <4>1 DEF Bounded
      <4>2. CASE ~(w <= 0)
        <5>1. 0 <= w /\ w <= w /\ 0 <= 0
          BY <4>2
        <5> QED BY ONLY w \in Int, <3>1, <5>1 DEF Bounded
      <4> QED BY <4>1, <4>2
    <3>3. ASSUME NEW k \in 0..(dim - 1)
          PROVE  /\ \E x \in E : x <= Contribution(axis, k)
                 /\ \E x \in E : Contribution(axis, k) <= x
      <4>1. Contribution(axis, k) = k * step
        BY OfStride
      <4>2. \/ 0 <= k * step /\ k * step <= step * (dim - 1)
            \/ step * (dim - 1) <= k * step /\ k * step <= 0
        <5> PICK j \in Nat : dim - 1 = k + j
          <6>1. (dim - 1) - k \in Nat /\ dim - 1 = k + ((dim - 1) - k)
            OBVIOUS
          <6> QED BY <6>1
        <5>1. step * (k + j) = k * step + j * step
          OBVIOUS
        <5>2. CASE step >= 0
          <6>1. k * step >= 0 /\ j * step >= 0 /\ k * step \in Int /\ j * step \in Int
            BY <5>2
          <6> QED BY <5>1, <6>1
        <5>3. CASE ~(step >= 0)
          <6>1. k * step <= 0 /\ j * step <= 0 /\ k * step \in Int /\ j * step \in Int
            BY <5>3
          <6> QED BY <5>1, <6>1
        <5> QED BY <5>2, <5>3
      <4> QED BY <3>1, <4>1, <4>2
    <3> QED BY <3>1, <3>2, <3>3
  <2>2. CASE axis.kind # "stride"
    <3> PICK n \in Nat : n = dim - 1
      OBVIOUS
    <3> PICK f : f = [k \in 0..n |-> Contribution(axis, k)]
      OBVIOUS
    <3>1. \A k \in 0..n : Contribution(axis, k) \in Int
      BY AxisFacts
    <3>2. f \in [0..n -> Int] /\ \A k \in 0..n : f[k] = Contribution(axis, k)
      BY <3>1
    <3>3. E = {f[k] : k \in 0..n}
      <4>1. E = {Contribution(axis, k) : k \in 0..n}
        BY <2>2 DEF Ends
      <4> QED BY ONLY <3>2, <4>1
    <3>4. Bounded(E)
      BY <3>2, <3>3, LeastAndGreatest
    <3>5. \A k \in 0..n : f[k] \in E /\ f[k] <= f[k]
      BY <3>2, <3>3
    <3> QED BY <3>2, <3>3, <3>4, <3>5
  <2> QED BY <2>1, <2>2
<1>2. Min(E) \in E /\ \A y \in E : Min(E) <= y
  <2>1. \E x \in E : \A y \in E : x <= y
    BY <1>1 DEF Bounded
  <2> QED BY ONLY <2>1 DEF Min
<1>3. Max(E) \in E /\ \A y \in E : Max(E) >= y
  <2>1. \E x \in E : \A y \in E : x >= y
    BY <1>1 DEF Bounded
  <2> QED BY ONLY <2>1 DEF Max
<1> PICK lo \in Int, hi \in Int : lo = Min(E) /\ hi = Max(E)
  BY <1>1, <1>2, <1>3
<1>4. ASSUME NEW k \in 0..(dim - 1) PROVE lo <= Contribution(axis, k) /\ Contribution(axis, k) <= hi
  <2> PICK v \in Int : v = Contribution(axis, k)
    BY AxisFacts
  <2> PICK x \in Int, y \in Int : lo <= x /\ x <= v /\ v <= y /\ y <= hi
    <3>1. \E x \in E : x <= v
      BY <1>1
    <3>2. \E x \in E : v <= x
      BY <1>1
    <3>3. \A z \in E : z \in Int /\ lo <= z /\ z <= hi
      BY <1>1, <1>2, <1>3
    <3> QED BY ONLY <3>1, <3>2, <3>3
  <2> QED OBVIOUS
<1> QED BY <1>4

(* The view's places are in its reach.                                      *)
LEMMA ReachFacts ==
  ASSUME ViewInv
  PROVE  /\ Reach(map).lo \in Int /\ Reach(map).hi \in Int
         /\ \A c : Below(c, map.shape) =>
              Reach(map).lo <= FlatOffset(map, c) /\ FlatOffset(map, c) <= Reach(map).hi
<1> PICK n \in Nat : n = Rank(map)
  BY MapFacts
<1> PICK least, most :
      /\ least = [i \in 1..n |-> Min(Ends(map.axes[i], map.shape[i]))]
      /\ most = [i \in 1..n |-> Max(Ends(map.axes[i], map.shape[i]))]
  OBVIOUS
<1>1. ASSUME NEW i \in 1..n
      PROVE  /\ map.shape[i] \in Nat /\ map.shape[i] > 0 /\ IsAxis(map.axes[i], map.shape[i])
  BY MapFacts
<1>2. /\ least \in [1..n -> Int] /\ most \in [1..n -> Int]
      /\ \A i \in 1..n : \A k \in 0..(map.shape[i] - 1) :
           /\ least[i] <= Contribution(map.axes[i], k) /\ Contribution(map.axes[i], k) <= most[i]
  <2>1. \A i \in 1..n :
          /\ Min(Ends(map.axes[i], map.shape[i])) \in Int
          /\ Max(Ends(map.axes[i], map.shape[i])) \in Int
          /\ \A k \in 0..(map.shape[i] - 1) :
               /\ Min(Ends(map.axes[i], map.shape[i])) <= Contribution(map.axes[i], k)
               /\ Contribution(map.axes[i], k) <= Max(Ends(map.axes[i], map.shape[i]))
    BY <1>1, EndsFacts
  <2>2. \A i \in 1..n : /\ least[i] = Min(Ends(map.axes[i], map.shape[i]))
                        /\ most[i] = Max(Ends(map.axes[i], map.shape[i]))
    OBVIOUS
  <2> QED BY <2>1, <2>2
<1>3. Reach(map) = [lo |-> map.offset + Total(least), hi |-> map.offset + Total(most)]
  <2>1. least = [i \in 1..n |->
               Min(IF map.axes[i].kind = "stride"
                   THEN {0, map.axes[i].step * (map.shape[i] - 1)}
                   ELSE {Contribution(map.axes[i], k) : k \in 0..(map.shape[i] - 1)})]
    BY Zenon DEF Ends
  <2>2. most = [i \in 1..n |->
               Max(IF map.axes[i].kind = "stride"
                   THEN {0, map.axes[i].step * (map.shape[i] - 1)}
                   ELSE {Contribution(map.axes[i], k) : k \in 0..(map.shape[i] - 1)})]
    BY Zenon DEF Ends
  <2> QED BY Zenon, <2>1, <2>2 DEF Reach
<1>4. Total(least) \in Int /\ Total(most) \in Int /\ map.offset \in Int
  BY <1>2, SumIsNumber, MapFacts
<1>5. ASSUME NEW c, Below(c, map.shape)
      PROVE  /\ map.offset + Total(least) <= FlatOffset(map, c)
             /\ FlatOffset(map, c) <= map.offset + Total(most)
  <2> PICK s : s = Parts(map, c)
    OBVIOUS
  <2>1. /\ s \in [1..n -> Int] /\ \A i \in 1..n : s[i] = Contribution(map.axes[i], c[i])
        /\ FlatOffset(map, c) = map.offset + Total(s)
    BY <1>5, MapFacts, PartsFacts
  <2>2. \A i \in 1..n : c[i] \in 0..(map.shape[i] - 1)
    <3>1. \A i \in 1..n : c[i] \in Nat /\ c[i] < map.shape[i]
      BY <1>5, MapFacts DEF Below
    <3> QED BY <1>1, <3>1
  <2>3. \A i \in 1..n : least[i] <= s[i] /\ s[i] <= most[i]
    BY <1>2, <2>1, <2>2
  <2>4. Total(least) <= Total(s) /\ Total(s) <= Total(most) /\ Total(s) \in Int
    BY ONLY n \in Nat, <1>2, <2>1, <2>3, SumsOrdered, SumIsNumber
  <2> QED BY <1>4, <2>1, <2>4
<1> PICK a, b : a = map.offset + Total(least) /\ b = map.offset + Total(most)
  OBVIOUS
<1>8. a \in Int /\ b \in Int
  BY <1>4
<1>6. Reach(map) = [lo |-> a, hi |-> b]
  BY <1>3
<1>7. Reach(map).lo = a /\ Reach(map).hi = b
  BY ONLY <1>6
<1> QED BY <1>5, <1>7, <1>8

(* Quotients keep the order, of numbers of either sign too.                 *)
LEMMA QuotientsOrdered ==
  ASSUME NEW p \in Int, NEW q \in Int, NEW g \in Positive, p <= q
  PROVE  p \div g \in Int /\ q \div g \in Int /\ p \div g <= q \div g
<1>0. g \in Nat /\ g > 0
  BY DEF Positive
<1> PICK x \in Int, a \in Int : x = p \div g /\ a = p % g /\ 0 <= a /\ a < g /\ p = x * g + a
  BY <1>0
<1> PICK y \in Int, b \in Int : y = q \div g /\ b = q % g /\ 0 <= b /\ b < g /\ q = y * g + b
  BY <1>0
<1>1. ~(y < x)
  <2> SUFFICES ASSUME y < x PROVE FALSE
    OBVIOUS
  <2> PICK k \in Nat : x = y + 1 + k
    <3>1. x - y - 1 \in Nat /\ x = y + 1 + (x - y - 1)
      OBVIOUS
    <3> QED BY <3>1
  <2>1. x * g = y * g + g + k * g
    BY <1>0
  <2>2. k * g \in Nat /\ y * g \in Int
    BY <1>0
  <2> QED BY <1>0, <2>1, <2>2
<1> QED BY <1>1

(* What Span gives holds the remainder of every number between its ends.    *)
LEMMA SpanHolds ==
  ASSUME NEW len \in Positive, NEW start \in Int, NEW end \in Int, NEW q \in Int,
         start <= q, q <= end
  PROVE  /\ Span(len, start, end).lo \in 0..(len - 1) /\ Span(len, start, end).hi \in 0..(len - 1)
         /\ q % len \in 0..(len - 1)
         /\ Span(len, start, end).lo <= q % len /\ q % len <= Span(len, start, end).hi
<1>0. len \in Nat /\ len > 0
  BY DEF Positive
<1> PICK x \in Int, a \in Int : x = start \div len /\ a = start % len /\ 0 <= a /\ a < len /\ start = x * len + a
  BY <1>0
<1> PICK y \in Int, b \in Int : y = end \div len /\ b = end % len /\ 0 <= b /\ b < len /\ end = y * len + b
  BY <1>0
<1> PICK z \in Int, e \in Int : z = q \div len /\ e = q % len /\ 0 <= e /\ e < len /\ q = z * len + e
  BY <1>0
<1>1. CASE x = y
  <2>1. x <= z /\ z <= y
    BY QuotientsOrdered
  <2>2. z = x
    BY <1>1, <2>1
  <2> PICK w \in Int : w = x * len
    BY <1>0
  <2>3. start = w + a /\ end = w + b /\ q = w + e
    BY <1>1, <2>2
  <2>4. a <= e /\ e <= b
    BY <2>3
  <2>5. Span(len, start, end) = [lo |-> a, hi |-> b]
    BY <1>1 DEF Span
  <2> QED BY <1>0, <2>4, <2>5
<1>2. CASE x # y
  <2>1. Span(len, start, end) = [lo |-> 0, hi |-> len - 1]
    BY <1>2 DEF Span
  <2> QED BY <1>0, <2>1
<1> QED BY <1>1, <1>2

(* Row-major places keep the order of coordinates.                          *)
LEMMA LinearOrdered ==
  ASSUME NEW g \in Seq(Positive), NEW c, Below(c, g), NEW d, Below(d, g),
         \A i \in 1..Len(g) : c[i] <= d[i]
  PROVE  Linear(g, c) <= Linear(g, d)
<1> PICK n \in Nat : n = Len(g)
  OBVIOUS
<1>1. \A i \in 1..n : Strides(g)[i] \in Nat
  <2>1. \A i \in 1..n : Strides(g)[i] = After(g, i) /\ After(g, i) \in Positive
    <3>1. \A i \in 1..n : i \in 0..n
      OBVIOUS
    <3> QED BY <3>1, AfterOf
  <2> QED BY <2>1 DEF Positive
<1>2. c \in [1..n -> Nat] /\ d \in [1..n -> Nat]
  BY DEF Below
<1> PICK s, t : s = [i \in 1..n |-> c[i] * Strides(g)[i]] /\ t = [i \in 1..n |-> d[i] * Strides(g)[i]]
  OBVIOUS
<1>3. s \in [1..n -> Int] /\ t \in [1..n -> Int] /\ \A i \in 1..n : s[i] <= t[i]
  <2>1. ASSUME NEW i \in 1..n
        PROVE  /\ c[i] * Strides(g)[i] \in Int /\ d[i] * Strides(g)[i] \in Int
               /\ c[i] * Strides(g)[i] <= d[i] * Strides(g)[i]
    <3> PICK x \in Nat, y \in Nat, w \in Nat : x = c[i] /\ y = d[i] /\ w = Strides(g)[i]
      BY <1>1, <1>2
    <3>1. x <= y
      OBVIOUS
    <3> PICK k \in Nat : y = x + k
      <4>1. y - x \in Nat /\ y = x + (y - x)
        BY <3>1
      <4> QED BY <4>1
    <3>2. (x + k) * w = x * w + k * w
      BY Distributes
    <3> PICK u, v, z : u = x * w /\ v = k * w /\ z = y * w
      OBVIOUS
    <3>5. u \in Nat /\ v \in Nat
      BY ONLY x \in Nat, k \in Nat, w \in Nat, u = x * w, v = k * w
    <3>3. z = u + v
      BY <3>2
    <3>4. u \in Int /\ z \in Int /\ u <= z
      BY ONLY <3>3, <3>5
    <3> QED BY <3>4
  <2> QED BY <2>1
<1>4. Linear(g, c) = Total(s) /\ Linear(g, d) = Total(t)
  <2>1. DOMAIN c = 1..n /\ DOMAIN d = 1..n
    BY <1>2
  <2> QED BY Zenon, <2>1 DEF Linear, Dot
<1> QED BY <1>3, <1>4, SumsOrdered

(* So do the numbers of their blocks.                                       *)
LEMMA BlocksOrdered ==
  ASSUME NEW shape, NEW block, Fits(shape, block), NEW c, Below(c, shape), NEW d, Below(d, shape),
         \A i \in 1..Len(shape) : c[i] <= d[i]
  PROVE  BlockId(shape, block, c) <= BlockId(shape, block, d)
<1> PICK n \in Nat : n = Len(shape)
  BY DEF Fits
<1> PICK g : g = Grid(shape, block)
  OBVIOUS
<1>1. /\ g \in Seq(Positive) /\ Len(g) = n
      /\ \A i \in 1..n : block[i] \in Positive
  BY GridOf
<1>2. /\ Below(Quotients(shape, block, c), g) /\ Below(Quotients(shape, block, d), g)
      /\ BlockId(shape, block, c) = Linear(g, Quotients(shape, block, c))
      /\ BlockId(shape, block, d) = Linear(g, Quotients(shape, block, d))
  BY BlockOf
<1>3. \A i \in 1..n : Quotients(shape, block, c)[i] <= Quotients(shape, block, d)[i]
  <2>1. ASSUME NEW i \in 1..n PROVE c[i] \div block[i] <= d[i] \div block[i]
    <3>1. c[i] \in Nat /\ d[i] \in Nat /\ c[i] <= d[i]
      BY DEF Below
    <3> QED BY <1>1, <3>1, DivisionOrdered
  <2>2. Axes(shape) = 1..n
    BY DEF Axes, Fits
  <2> QED BY <2>1, <2>2 DEF Quotients
<1> QED BY <1>1, <1>2, <1>3, LinearOrdered

(* The tensor's blocks, and the strides of its axes.                        *)
LEMMA BaseFacts ==
  ASSUME ViewInv
  PROVE  /\ Fits(base.shape, base.block) /\ base.shape \in Seq(Positive)
         /\ Len(base.shape) \in Nat /\ Axes(base.shape) = 1..Len(base.shape)
         /\ \A i \in 1..Len(base.shape) : base.shape[i] \in Positive /\ Strides(base.shape)[i] \in Positive
<1> PICK s : s = base.shape
  OBVIOUS
<1>1. Fits(s, base.block)
  BY MapAssumption DEF ViewInv, Fits, Positive
<1>2. s \in Seq(Positive)
  BY <1>1 DEF Fits
<1>3. Len(s) \in Nat /\ Axes(s) = 1..Len(s) /\ \A i \in 1..Len(s) : s[i] \in Positive /\ i \in 0..Len(s)
  BY ONLY <1>2 DEF Axes
<1>4. \A i \in 1..Len(s) : Strides(s)[i] \in Positive
  BY ONLY <1>2, <1>3, AfterOf
<1> QED BY <1>1, <1>2, <1>3, <1>4

(* The interval of blocks holds the block of every place of the view.       *)
LEMMA BlocksCovered ==
  ASSUME ViewInv, NEW c \in Coords(map.shape)
  PROVE  BlockId(base.shape, base.block, Decode(base.shape, meaning[c])) \in BlockRange
<1> PICK s, block, p : s = base.shape /\ block = base.block /\ p = meaning[c]
  OBVIOUS
<1> PICK lo \in Int, hi \in Int : lo = Reach(map).lo /\ hi = Reach(map).hi
  BY ReachFacts
<1> PICK n \in Nat : n = Len(s)
  BY BaseFacts
<1>1. /\ Fits(s, block) /\ s \in Seq(Positive) /\ Axes(s) = 1..n
      /\ \A i \in 1..n : s[i] \in Positive /\ Strides(s)[i] \in Positive
  BY BaseFacts
<1>2. p \in PlacesIn(s) /\ p \in Int /\ lo <= p /\ p <= hi
  <2>1. p \in PlacesIn(s)
    BY DEF ViewInv
  <2>2. p = FlatOffset(map, c) /\ Below(c, map.shape)
    BY MapFacts, CoordsAre DEF ViewInv, MapsCompose
  <2>3. p \in Int
    BY <2>1 DEF PlacesIn
  <2> QED BY <2>1, <2>2, <2>3, ReachFacts
<1> PICK x : x = CoordAt(s, p)
  OBVIOUS
<1>3. Below(x, s) /\ Decode(s, p) = x
  BY <1>1, <1>2, LinearOfAt DEF Decode, CoordAt
<1> PICK spans : spans = [i \in Axes(s) |-> Span(s[i], lo \div Strides(s)[i], hi \div Strides(s)[i])]
  OBVIOUS
<1> PICK a, b : a = [i \in Axes(s) |-> spans[i].lo] /\ b = [i \in Axes(s) |-> spans[i].hi]
  OBVIOUS
<1>4. BlockRange = BlockId(s, block, a)..BlockId(s, block, b)
  BY Zenon DEF BlockRange
<1>5. ASSUME NEW i \in 1..n
      PROVE  /\ a[i] \in Nat /\ a[i] < s[i] /\ b[i] \in Nat /\ b[i] < s[i]
             /\ a[i] <= x[i] /\ x[i] <= b[i]
  <2> PICK g \in Positive, len \in Positive : g = Strides(s)[i] /\ len = s[i]
    BY <1>1
  <2> PICK u, v, w : u = lo \div g /\ v = hi \div g /\ w = p \div g
    OBVIOUS
  <2>0. u \in Int /\ v \in Int /\ w \in Int /\ u <= w /\ w <= v
    BY <1>2, QuotientsOrdered
  <2>1. x[i] = w % len /\ a[i] = Span(len, u, v).lo /\ b[i] = Span(len, u, v).hi
    <3>1. i \in Axes(s)
      BY <1>1
    <3> QED BY <3>1 DEF CoordAt
  <2>2. /\ Span(len, u, v).lo \in 0..(len - 1) /\ Span(len, u, v).hi \in 0..(len - 1)
        /\ Span(len, u, v).lo <= w % len /\ w % len <= Span(len, u, v).hi
    BY ONLY <2>0, len \in Positive, SpanHolds
  <2>3. len \in Nat
    BY DEF Positive
  <2> PICK y : y = w % len
    OBVIOUS
  <2>4. x[i] = y /\ len = s[i]
    BY <2>1
  <2> QED BY ONLY <2>1, <2>2, <2>3, <2>4, y = w % len
<1>6. Below(a, s) /\ Below(b, s)
  <2>1. a = [i \in 1..n |-> spans[i].lo] /\ b = [i \in 1..n |-> spans[i].hi]
    BY <1>1
  <2>2. a \in [1..n -> Nat] /\ b \in [1..n -> Nat]
    BY ONLY <1>5, <2>1
  <2> QED BY <1>5, <2>2 DEF Below
<1>7. BlockId(s, block, a) <= BlockId(s, block, x) /\ BlockId(s, block, x) <= BlockId(s, block, b)
  BY <1>1, <1>3, <1>5, <1>6, BlocksOrdered
<1>8. BlockId(s, block, a) \in Int /\ BlockId(s, block, x) \in Int /\ BlockId(s, block, b) \in Int
  <2>1. \A d : Below(d, s) => BlockId(s, block, d) \in 0..(BlockCount(s, block) - 1)
    BY <1>1, BlockBounded
  <2> PICK k : k = BlockCount(s, block) - 1
    OBVIOUS
  <2> QED BY ONLY <1>3, <1>6, <2>1, k = BlockCount(s, block) - 1
<1>9. BlockId(s, block, Decode(s, p)) = BlockId(s, block, x)
  BY <1>3
<1>10. BlockId(s, block, x) \in BlockRange
  BY ONLY <1>4, <1>7, <1>8
<1> QED BY <1>9, <1>10
--------------------------------------------------------------------------------
(* Storage slices: the base axes that the view's axes step along.           *)

(* Some numbers up to n have a greatest.                                    *)
LEMMA GreatestNumber ==
  ASSUME NEW n \in Nat, NEW S \in SUBSET (0..n), S # {}
  PROVE  Max(S) \in S
<1> PICK T : T = {n - x : x \in S}
  OBVIOUS
<1>1. T \in SUBSET Nat /\ T # {}
  <2>1. \A x \in S : n - x \in Nat
    OBVIOUS
  <2> QED BY <2>1
<1> PICK y \in T : \A z \in T : y <= z
  BY ONLY <1>1, LeastNumber
<1> PICK x \in S : y = n - x
  OBVIOUS
<1>2. \A z \in S : x >= z
  <2> SUFFICES ASSUME NEW z \in S PROVE x >= z
    OBVIOUS
  <2>1. n - z \in T
    OBVIOUS
  <2>2. n - x <= n - z
    BY <2>1
  <2> QED BY <2>2
<1> QED BY ONLY x \in S, <1>2 DEF Max

(* The base axes that an axis of the view can step along, the one that it   *)
(* is given, and what is chosen with it (the choose of StorageSlice).       *)
Able(o, taken, i) ==
  {b \in Axes(base.shape) : Eligible(o, taken, map.axes[i], map.shape[i], b)}
Exactly(o, taken, i) ==
  {b \in Able(o, taken, i) : map.axes[i].step = Strides(base.shape)[b]}
Given(o, taken, i) ==
  IF Exactly(o, taken, i) # {} THEN Min(Exactly(o, taken, i)) ELSE Max(Able(o, taken, i))
Chosen(o, taken, i) ==
  IF Len(taken) < i - 1 \/ Able(o, taken, i) = {} THEN taken
  ELSE Append(taken, [axis |-> Given(o, taken, i),
                      step |-> map.axes[i].step \div Strides(base.shape)[Given(o, taken, i)]])

(* A base axis and a step along it that are what an axis of the view does.  *)
Forward == [axis : Axes(base.shape), step : Nat]
Matches(o, i, f) ==
  /\ f \in Forward
  /\ map.axes[i] = Stride(f.step * Strides(base.shape)[f.axis])
  /\ o[f.axis] + f.step * (map.shape[i] - 1) < base.shape[f.axis]

(* What is given to an axis is so, and was not taken.                       *)
LEMMA GivenFacts ==
  ASSUME ViewInv, NEW o, NEW taken, NEW i \in 1..Rank(map), Able(o, taken, i) # {}
  PROVE  LET b == Given(o, taken, i)
             f == [axis |-> b, step |-> map.axes[i].step \div Strides(base.shape)[b]]
         IN Matches(o, i, f) /\ \A k \in DOMAIN taken : taken[k].axis # b
<1> PICK n \in Nat : n = Len(base.shape) /\ Axes(base.shape) = 1..n
  BY BaseFacts
<1> PICK able, exact, b :
      able = Able(o, taken, i) /\ exact = Exactly(o, taken, i) /\ b = Given(o, taken, i)
  OBVIOUS
<1>1. able \subseteq 1..n /\ exact \subseteq able /\ able # {}
  BY DEF Able, Exactly
<1>2. b \in able
  <2>1. CASE exact # {}
    <3>1. exact \in SUBSET Nat
      BY <1>1
    <3>2. \E x \in exact : \A y \in exact : x <= y
      BY ONLY <2>1, <3>1, LeastNumber
    <3>3. Min(exact) \in exact
      BY ONLY <3>2 DEF Min
    <3> QED BY <1>1, <2>1, <3>3 DEF Given
  <2>2. CASE exact = {}
    <3>1. able \in SUBSET (0..n)
      BY <1>1
    <3>2. Max(able) \in able
      BY ONLY <1>1, <3>1, n \in Nat, GreatestNumber
    <3> QED BY <2>2, <3>2 DEF Given
  <2> QED BY <2>1, <2>2
<1>3. b \in 1..n /\ Eligible(o, taken, map.axes[i], map.shape[i], b)
  BY <1>1, <1>2 DEF Able
<1>4. /\ map.axes[i].kind = "stride" /\ map.axes[i].step > 0
      /\ \A k \in DOMAIN taken : taken[k].axis # b
      /\ map.axes[i].step % Strides(base.shape)[b] = 0
      /\ o[b] + (map.axes[i].step \div Strides(base.shape)[b]) * (map.shape[i] - 1) < base.shape[b]
  BY <1>3 DEF Eligible
<1> PICK step \in Int : map.axes[i] = Stride(step)
  <2>1. IsAxis(map.axes[i], map.shape[i])
    BY MapFacts
  <2> QED BY <1>4, <2>1, OfBroadcast, OfTable DEF IsAxis
<1> PICK g \in Positive : g = Strides(base.shape)[b]
  BY <1>3, BaseFacts
<1> PICK f : f = [axis |-> b, step |-> step \div g]
  OBVIOUS
<1>5. map.axes[i].step = step
  BY OfStride
<1>6. step \in Nat /\ step % g = 0
  BY <1>4, <1>5
<1>7. step \div g \in Nat /\ step = (step \div g) * g + 0
  BY <1>6, Division
<1>8. step = (step \div g) * g
  <2>1. g \in Nat
    BY DEF Positive
  <2> QED BY <1>7, <2>1
<1>9. f \in Forward /\ f.axis = b /\ f.step = step \div g
  <2>1. b \in Axes(base.shape)
    BY <1>3
  <2> QED BY ONLY <1>7, <2>1, f = [axis |-> b, step |-> step \div g] DEF Forward
<1>10. Matches(o, i, f)
  BY <1>4, <1>5, <1>8, <1>9 DEF Matches
<1>11. f = [axis |-> b, step |-> map.axes[i].step \div Strides(base.shape)[b]]
  BY <1>5
<1> QED BY <1>4, <1>10, <1>11

(* The first axes of the view have base axes, each its own.                 *)
Matched(o, t, i) ==
  /\ t \in Seq(Forward) /\ Len(t) <= i
  /\ \A k \in 1..Len(t) : Matches(o, k, t[k])
  /\ \A j, k \in 1..Len(t) : t[j].axis = t[k].axis => j = k

(* One more is chosen, or none.                                             *)
LEMMA ChosenNext ==
  ASSUME ViewInv, NEW o, NEW i \in 1..Rank(map), NEW taken \in Seq(Forward)
  PROVE  /\ Chosen(o, taken, i) \in Seq(Forward)
         /\ Matched(o, taken, i - 1) => Matched(o, Chosen(o, taken, i), i)
<1>0. i \in Nat /\ i >= 1
  BY MapFacts
<1>1. CASE Len(taken) < i - 1 \/ Able(o, taken, i) = {}
  <2>1. Chosen(o, taken, i) = taken
    BY <1>1 DEF Chosen
  <2>2. Len(taken) \in Nat
    OBVIOUS
  <2> QED BY <1>0, <2>1, <2>2 DEF Matched
<1>2. CASE ~(Len(taken) < i - 1) /\ Able(o, taken, i) # {}
  <2> PICK b : b = Given(o, taken, i)
    OBVIOUS
  <2> PICK f : f = [axis |-> b, step |-> map.axes[i].step \div Strides(base.shape)[b]]
    OBVIOUS
  <2> PICK l \in Nat : l = Len(taken) /\ DOMAIN taken = 1..l
    OBVIOUS
  <2>1. Matches(o, i, f) /\ \A k \in 1..l : taken[k].axis # b
    BY <1>2, GivenFacts
  <2>2. f \in Forward /\ f.axis = b
    BY <2>1 DEF Matches
  <2> PICK t : t = Append(taken, f)
    OBVIOUS
  <2>3. Chosen(o, taken, i) = t
    BY <1>2 DEF Chosen
  <2>4. /\ t \in Seq(Forward) /\ Len(t) = l + 1 /\ t[l + 1] = f
        /\ \A k \in 1..l : t[k] = taken[k]
    BY ONLY <2>2, taken \in Seq(Forward), t = Append(taken, f), l = Len(taken)
  <2>5. ASSUME Matched(o, taken, i - 1) PROVE Matched(o, t, i)
    <3>1. /\ l <= i - 1 /\ ~(l < i - 1)
          /\ \A k \in 1..l : Matches(o, k, taken[k])
          /\ \A j, k \in 1..l : taken[j].axis = taken[k].axis => j = k
      BY <1>2, <2>5 DEF Matched
    <3>2. l + 1 = i /\ \A k \in 1..(l + 1) : k \in 1..l \/ k = l + 1
      BY <1>0, <3>1
    <3>3. ASSUME NEW k \in 1..(l + 1) PROVE Matches(o, k, t[k])
      <4>1. CASE k \in 1..l
        BY <2>4, <3>1, <4>1
      <4>2. CASE k = l + 1
        BY <2>1, <2>4, <3>2, <4>2
      <4> QED BY <3>2, <4>1, <4>2
    <3>4. ASSUME NEW j \in 1..(l + 1), NEW k \in 1..(l + 1), t[j].axis = t[k].axis PROVE j = k
      BY ONLY <2>1, <2>2, <2>4, <3>1, <3>2, <3>4
    <3> QED BY <1>0, <2>4, <3>2, <3>3, <3>4 DEF Matched
  <2> QED BY <2>3, <2>4, <2>5
<1> QED BY <1>1, <1>2

(* What is chosen for the first axes of the view.                           *)
IsChosen(g, o, n) == g = [i \in 0..n |-> IF i = 0 THEN <<>> ELSE Chosen(o, g[i - 1], i)]
AllChosen(o, n) == CHOOSE g : IsChosen(g, o, n)
SliceOf(o, n, t) == IF Len(t) < n THEN Irregular ELSE <<[origins |-> o, axes |-> t]>>

(* A slice is made of it.                                                   *)
LEMMA SliceIsChosen ==
  StorageSlice(map) =
    SliceOf(Decode(base.shape, FlatOffset(map, Origin(map))), Rank(map),
            AllChosen(Decode(base.shape, FlatOffset(map, Origin(map))), Rank(map))[Rank(map)])
BY Zenon DEF StorageSlice, SliceOf, AllChosen, IsChosen, Chosen, Given, Exactly, Able

(* A slice that there is has a base axis for every axis of the view.        *)
LEMMA SliceFacts ==
  ASSUME ViewInv, StorageSlice(map) # Irregular
  PROVE  LET o == Decode(base.shape, FlatOffset(map, Origin(map)))
         IN \E t : /\ StorageSlice(map) = <<[origins |-> o, axes |-> t]>>
                   /\ Len(t) = Rank(map) /\ Matched(o, t, Rank(map))
<1> PICK n \in Nat : n = Rank(map)
  BY MapFacts
<1> PICK o : o = Decode(base.shape, FlatOffset(map, Origin(map)))
  OBVIOUS
<1> DEFINE Q == Seq(Forward)
           G == [z \in Q \X (1..n) |-> Chosen(o, z[1], z[2])]
<1>1. \A s \in Q, i \in 1..n : Chosen(o, s, i) \in Q
  BY ChosenNext
<1>2. G \in [Q \X (1..n) -> Q] /\ \A s \in Q, k \in 1..n : G[<<s, k>>] = Chosen(o, s, k)
  <2> HIDE DEF Q
  <2>1. G \in [Q \X (1..n) -> Q]
    BY <1>1
  <2>2. \A s \in Q, k \in 1..n : G[<<s, k>>] = Chosen(o, s, k)
    BY Zenon
  <2> QED BY <2>1, <2>2
<1> HIDE DEF G
<1>3. PICK f \in [0..n -> Q] : Steps(f, n, <<>>, G)
  <2>1. <<>> \in Q
    OBVIOUS
  <2> HIDE DEF Q
  <2> QED BY <1>2, <2>1, Recursion
<1>4. f[0] = <<>> /\ \A k \in 1..n : f[k] = Chosen(o, f[k - 1], k)
  <2> HIDE DEF Q
  <2> SUFFICES ASSUME NEW k \in 1..n PROVE f[k] = Chosen(o, f[k - 1], k)
    BY <1>3 DEF Steps
  <2>1. f[k] = G[<<f[k - 1], k>>]
    BY <1>3 DEF Steps
  <2>2. f[k - 1] \in Q
    OBVIOUS
  <2> QED BY <1>2, <2>1, <2>2
<1>5. IsChosen(f, o, n)
  <2> DEFINE h == [i \in 0..n |-> IF i = 0 THEN <<>> ELSE Chosen(o, f[i - 1], i)]
  <2>1. DOMAIN f = 0..n /\ DOMAIN h = 0..n /\ f = [i \in 0..n |-> f[i]]
    BY ONLY f \in [0..n -> Q]
  <2>2. \A i \in 0..n : f[i] = h[i]
    <3>1. \A i \in 0..n : i = 0 \/ i \in 1..n
      OBVIOUS
    <3>2. \A i \in 1..n : i # 0
      OBVIOUS
    <3> QED BY ONLY <1>4, <3>1, <3>2
  <2> HIDE DEF h
  <2>3. f = h
    <3>1. h = [i \in 0..n |-> h[i]]
      BY DEF h
    <3> QED BY <2>1, <2>2, <3>1
  <2> QED BY <2>3 DEF h, IsChosen
<1>6. PICK g :
        /\ g = AllChosen(o, n)
        /\ StorageSlice(map) =
             IF Len(g[n]) < n THEN Irregular ELSE <<[origins |-> o, axes |-> g[n]]>>
  BY Zenon, SliceIsChosen DEF SliceOf
<1>7. g[0] = <<>> /\ \A k \in 1..n : g[k] = Chosen(o, g[k - 1], k)
  <2>1. IsChosen(g, o, n)
    BY <1>5, <1>6 DEF AllChosen
  <2>2. \A i \in 0..n : g[i] = IF i = 0 THEN <<>> ELSE Chosen(o, g[i - 1], i)
    BY <2>1 DEF IsChosen
  <2>3. \A k \in 1..n : k \in 0..n /\ k # 0
    OBVIOUS
  <2>4. \A k \in 1..n : g[k] = Chosen(o, g[k - 1], k)
    BY ONLY <2>2, <2>3
  <2> QED BY <2>2, <2>4
<1>8. Matched(o, g[n], n)
  <2> DEFINE S == {k \in 0..n : Matched(o, g[k], k)}
  <2>1. 0 \in S
    <3>1. <<>> \in Q /\ Len(<<>>) = 0 /\ 1..0 = {} /\ 0 \in 0..n /\ 0 <= 0
      OBVIOUS
    <3>2. Matched(o, <<>>, 0)
      BY ONLY <3>1 DEF Matched
    <3> QED BY ONLY <1>7, <3>1, <3>2
  <2>2. \A k \in 0..n : k < n /\ k \in S => k + 1 \in S
    <3> SUFFICES ASSUME NEW k \in 0..n, k < n, Matched(o, g[k], k) PROVE k + 1 \in S
      OBVIOUS
    <3>1. k + 1 \in 1..n /\ k + 1 \in 0..n /\ (k + 1) - 1 = k
      OBVIOUS
    <3>2. g[k] \in Seq(Forward)
      BY DEF Matched
    <3>3. Matched(o, Chosen(o, g[k], k + 1), k + 1)
      BY <3>1, <3>2, ChosenNext
    <3>4. g[k + 1] = Chosen(o, g[k], k + 1)
      BY ONLY <1>7, <3>1
    <3> QED BY <3>1, <3>3, <3>4
  <2>3. n \in 0..n
    OBVIOUS
  <2> HIDE DEF S
  <2>4. n \in S
    BY <2>1, <2>2, <2>3, UpToAll
  <2> QED BY <2>4 DEF S
<1>9. ~(Len(g[n]) < n)
  BY <1>6
<1>10. Len(g[n]) = n
  <2>1. Len(g[n]) <= n /\ g[n] \in Seq(Forward)
    BY <1>8 DEF Matched
  <2>2. Len(g[n]) \in Nat
    BY ONLY <2>1
  <2> QED BY <1>9, <2>1, <2>2
<1> QED BY <1>6, <1>8, <1>9, <1>10

(* A product grows with its second factor.                                  *)
LEMMA LargerFactor ==
  ASSUME NEW k \in Nat, NEW z \in Nat, NEW d \in Int, z <= d
  PROVE  k * z \in Nat /\ k * d \in Nat /\ k * z <= k * d
<1> PICK j \in Nat : d = z + j
  <2>1. d - z \in Nat /\ d = z + (d - z)
    OBVIOUS
  <2> QED BY <2>1
<1>1. k * (z + j) = k * z + k * j
  BY ONLY k \in Nat, z \in Nat, j \in Nat
<1>2. k * z \in Nat /\ k * j \in Nat
  BY ONLY k \in Nat, z \in Nat, j \in Nat
<1> QED BY <1>1, <1>2

(* The base coordinate that a slice names for a coordinate of the view.     *)
SliceCoord(o, t, c) ==
  [b \in Axes(base.shape) |->
     o[b] + Total([i \in 1..Rank(map) |-> IF t[i].axis = b THEN t[i].step * c[i] ELSE 0])]

(* What a slice adds to each base axis is added by the view's own axis.     *)
LEMMA SliceExact ==
  ASSUME ViewInv, NEW o, o = Decode(base.shape, FlatOffset(map, Origin(map))),
         NEW t, Len(t) = Rank(map), Matched(o, t, Rank(map)), NEW c, Below(c, map.shape)
  PROVE  Decode(base.shape, meaning[c]) = SliceCoord(o, t, c)
<1> PICK s : s = base.shape
  OBVIOUS
<1> PICK r \in Nat : r = Rank(map)
  BY MapFacts
<1> PICK n \in Nat : n = Len(s)
  BY BaseFacts
<1>1. /\ s \in Seq(Positive) /\ Axes(s) = 1..n
      /\ \A b \in 1..n : s[b] \in Nat /\ Strides(s)[b] \in Nat
  BY BaseFacts DEF Positive
<1> PICK ax, st, w :
      /\ ax = [i \in 1..r |-> t[i].axis] /\ st = [i \in 1..r |-> t[i].step]
      /\ w = [i \in 1..r |-> t[i].step * c[i]]
  OBVIOUS
<1>2. ASSUME NEW i \in 1..r
      PROVE  /\ ax[i] = t[i].axis /\ st[i] = t[i].step
             /\ w[i] = t[i].step * c[i] /\ w[i] = st[i] * c[i]
             /\ ax[i] \in 1..n /\ st[i] \in Nat
             /\ map.axes[i] = Stride(st[i] * Strides(s)[ax[i]])
             /\ o[ax[i]] + st[i] * (map.shape[i] - 1) < s[ax[i]]
             /\ c[i] \in Nat /\ c[i] <= map.shape[i] - 1 /\ map.shape[i] \in Nat
  <2>1. Matches(o, i, t[i])
    BY DEF Matched
  <2>2. /\ ax[i] = t[i].axis /\ st[i] = t[i].step
        /\ w[i] = t[i].step * c[i] /\ w[i] = st[i] * c[i]
    OBVIOUS
  <2>3. t[i].axis \in 1..n /\ t[i].step \in Nat
    BY <1>1, <2>1 DEF Matches, Forward
  <2>4. c[i] \in Nat /\ c[i] < map.shape[i] /\ map.shape[i] \in Nat
    BY MapFacts DEF Below
  <2> QED BY <2>1, <2>2, <2>3, <2>4 DEF Matches
<1>3. Distinctly(ax, r) /\ ax \in [1..r -> 1..n]
  <2>1. \A j, k \in 1..r : t[j].axis = t[k].axis => j = k
    BY DEF Matched
  <2> QED BY <1>2, <2>1 DEF Distinctly
<1> PICK only : only = [b \in 1..n |-> [i \in 1..r |-> IF ax[i] = b THEN w[i] ELSE 0]]
  OBVIOUS
<1> PICK along : along = [b \in 1..n |-> Total(only[b])]
  OBVIOUS
<1>4. \A i \in 1..r : w[i] \in Nat
  BY <1>2
<1>5. ASSUME NEW b \in 1..n
      PROVE  /\ only[b] \in [1..r -> Int] /\ along[b] \in Int /\ along[b] = Total(only[b])
             /\ \A i \in 1..r : ax[i] = b => along[b] = w[i]
             /\ (\A i \in 1..r : ax[i] # b) => along[b] = 0
  <2> PICK e : e = only[b]
    OBVIOUS
  <2>1. e \in [1..r -> Int] /\ \A i \in 1..r : e[i] = IF ax[i] = b THEN w[i] ELSE 0
    BY <1>4
  <2>2. along[b] = Total(e) /\ Total(e) \in Int
    BY <2>1, SumIsNumber
  <2>3. ASSUME NEW i \in 1..r, ax[i] = b PROVE Total(e) = w[i]
    <3>1. ZeroBut(e, r, i)
      BY <1>3, <2>1, <2>3 DEF ZeroBut, Distinctly
    <3>2. Total(e) = e[i]
      BY ONLY r \in Nat, i \in 1..r, <2>1, <3>1, SumOfOne
    <3> QED BY <2>1, <2>3, <3>2
  <2>4. ASSUME \A i \in 1..r : ax[i] # b PROVE Total(e) = 0
    <3>1. \A i \in 1..r : e[i] = 0
      BY ONLY <2>1, <2>4
    <3> QED BY ONLY r \in Nat, <2>1, <3>1, SumOfZeros
  <2>5. only[b] \in [1..r -> Int] /\ along[b] \in Int /\ along[b] = Total(only[b])
    BY ONLY <2>1, <2>2, e = only[b]
  <2>6. \A i \in 1..r : ax[i] = b => along[b] = w[i]
    BY ONLY <2>2, <2>3
  <2>7. (\A i \in 1..r : ax[i] # b) => along[b] = 0
    BY ONLY <2>2, <2>4
  <2> QED BY ONLY <2>5, <2>6, <2>7
<1>5a. \A b \in 1..n : \A i \in 1..r : ax[i] = b => along[b] = w[i]
  BY ONLY <1>5
<1>6. Below(Origin(map), map.shape)
  BY MapFacts DEF Origin, Below
<1>7. /\ FlatOffset(map, Origin(map)) = map.offset
      /\ map.offset \in PlacesIn(s) /\ map.offset \in Int
  <2> PICK e : e = Parts(map, Origin(map))
    OBVIOUS
  <2>1. /\ e \in [1..r -> Int] /\ FlatOffset(map, Origin(map)) = map.offset + Total(e)
        /\ \A i \in 1..r : e[i] = Contribution(map.axes[i], Origin(map)[i])
    BY <1>6, MapFacts, PartsFacts
  <2>2. ASSUME NEW i \in 1..r PROVE e[i] = 0
    <3> PICK k, g : k = st[i] /\ g = Strides(s)[ax[i]]
      OBVIOUS
    <3>0. k \in Nat /\ g \in Nat
      BY <1>1, <1>2
    <3> PICK step \in Nat : step = k * g
      BY ONLY <3>0
    <3>3. map.axes[i] = Stride(step)
      BY <1>2
    <3>1. Origin(map)[i] = 0
      BY DEF Origin
    <3>2. Contribution(map.axes[i], Origin(map)[i]) = 0 * step
      BY <3>1, <3>3, OfStride
    <3> QED BY <2>1, <3>2
  <2>3. Total(e) = 0
    BY <2>1, <2>2, SumOfZeros
  <2>4. map.offset \in Int
    BY MapFacts
  <2>5. FlatOffset(map, Origin(map)) \in PlacesIn(s)
    <3>1. Origin(map) \in Coords(map.shape)
      BY <1>6, MapFacts, CoordsAre
    <3> QED BY <3>1 DEF ViewInv, MapsCompose
  <2> QED BY <2>1, <2>3, <2>4, <2>5
<1>8. Below(o, s) /\ Linear(s, o) = map.offset
  <2>1. o = CoordAt(s, map.offset)
    BY <1>7 DEF Decode, CoordAt
  <2> QED BY <1>1, <1>7, <2>1, LinearOfAt
<1> PICK x : x = [b \in 1..n |-> o[b] + along[b]]
  OBVIOUS
<1>9. \A b \in 1..n : o[b] \in Nat /\ o[b] < s[b]
  BY <1>8 DEF Below
<1>10. ASSUME NEW b \in 1..n PROVE x[b] \in Nat /\ x[b] < s[b]
  <2>1. x[b] = o[b] + along[b] /\ o[b] \in Nat /\ o[b] < s[b]
    BY <1>9
  <2>2. CASE \A i \in 1..r : ax[i] # b
    <3>1. along[b] = 0
      BY <1>5, <2>2
    <3> QED BY ONLY <2>1, <3>1
  <2>3. CASE \E i \in 1..r : ax[i] = b
    <3> PICK i \in 1..r : ax[i] = b
      BY <2>3
    <3> PICK k, z, d, y, a : k = st[i] /\ z = c[i] /\ d = map.shape[i] - 1 /\ y = o[b] /\ a = s[b]
      OBVIOUS
    <3>0. k \in Nat /\ z \in Nat /\ d \in Int /\ z <= d /\ y \in Nat /\ a \in Nat
      BY <1>1, <1>2, <1>9
    <3>1. along[b] = k * z /\ y + k * d < a
      <4>1. along[b] = w[i]
        BY ONLY <1>5a, b \in 1..n, i \in 1..r, ax[i] = b
      <4>2. w[i] = k * z
        BY <1>2
      <4>3. o[ax[i]] + st[i] * (map.shape[i] - 1) < s[ax[i]]
        BY <1>2
      <4>4. y + k * d < a
        BY ONLY <4>3, ax[i] = b, k = st[i], d = map.shape[i] - 1, y = o[b], a = s[b]
      <4> QED BY ONLY <4>1, <4>2, <4>4
    <3>2. k * z \in Nat /\ k * d \in Nat /\ k * z <= k * d
      BY ONLY <3>0, LargerFactor
    <3>3. y + along[b] \in Nat /\ y + along[b] < a
      BY ONLY <3>0, <3>1, <3>2
    <3> QED BY <2>1, <3>3
  <2> QED BY <2>2, <2>3
<1>11. Below(x, s)
  BY <1>10 DEF Below
<1> PICK p, q, e :
      /\ p = [b \in 1..n |-> x[b] * Strides(s)[b]]
      /\ q = [b \in 1..n |-> o[b] * Strides(s)[b]]
      /\ e = [b \in 1..n |-> along[b] * Strides(s)[b]]
  OBVIOUS
<1>12. /\ p \in [1..n -> Int] /\ q \in [1..n -> Int] /\ e \in [1..n -> Int]
       /\ \A b \in 1..n : p[b] = q[b] + e[b]
  <2>1. ASSUME NEW b \in 1..n
        PROVE  p[b] \in Int /\ q[b] \in Int /\ e[b] \in Int /\ p[b] = q[b] + e[b]
    <3> PICK y, z, g : y = o[b] /\ z = along[b] /\ g = Strides(s)[b]
      OBVIOUS
    <3>0. y \in Int /\ z \in Int /\ g \in Int
      <4>1. o[b] \in Nat
        BY <1>9
      <4>2. along[b] \in Int
        BY <1>5
      <4>3. Strides(s)[b] \in Nat
        BY <1>1
      <4> QED BY ONLY <4>1, <4>2, <4>3, y = o[b], z = along[b], g = Strides(s)[b]
    <3>1. p[b] = (y + z) * g /\ q[b] = y * g /\ e[b] = z * g
      OBVIOUS
    <3>2. (y + z) * g = y * g + z * g /\ y * g \in Int /\ z * g \in Int /\ (y + z) * g \in Int
      BY ONLY <3>0
    <3> QED BY ONLY <3>1, <3>2
  <2>2. \A b \in 1..n : p[b] \in Int /\ q[b] \in Int /\ e[b] \in Int /\ p[b] = q[b] + e[b]
    BY ONLY <2>1
  <2>3. p = [b \in 1..n |-> p[b]] /\ q = [b \in 1..n |-> q[b]] /\ e = [b \in 1..n |-> e[b]]
    OBVIOUS
  <2> QED BY ONLY <2>2, <2>3
<1>13. Linear(s, x) = Total(p) /\ Linear(s, o) = Total(q)
  <2>1. DOMAIN x = 1..n /\ DOMAIN o = 1..n
    BY <1>8, <1>11 DEF Below
  <2> QED BY Zenon, <2>1 DEF Linear, Dot
<1>14. Total(p) = Total(q) + Total(e)
  BY ONLY n \in Nat, <1>12, SumOfSums
<1> PICK parts : parts = Parts(map, c)
  OBVIOUS
<1>15. /\ parts \in [1..r -> Int] /\ FlatOffset(map, c) = map.offset + Total(parts)
       /\ \A i \in 1..r : parts[i] = Contribution(map.axes[i], c[i])
  BY MapFacts, PartsFacts
<1>16. Total(e) = Total(parts)
  <2> PICK picked : picked = [i \in 1..r |-> e[ax[i]]]
    OBVIOUS
  <2>1. ASSUME NEW i \in 1..r PROVE picked[i] = parts[i]
    <3> PICK b \in 1..n : b = ax[i]
      BY <1>2
    <3> PICK k, z, g : k = st[i] /\ z = c[i] /\ g = Strides(s)[b]
      OBVIOUS
    <3>0. k \in Nat /\ z \in Nat /\ g \in Nat
      BY <1>1, <1>2
    <3>1. along[b] = k * z
      <4>1. along[b] = w[i]
        BY ONLY <1>5a, b \in 1..n, i \in 1..r, b = ax[i]
      <4>2. w[i] = k * z
        BY <1>2
      <4> QED BY ONLY <4>1, <4>2
    <3>2. picked[i] = (k * z) * g
      <4>1. picked[i] = e[b] /\ e[b] = along[b] * Strides(s)[b]
        OBVIOUS
      <4> QED BY ONLY <3>1, <4>1, g = Strides(s)[b]
    <3>3. parts[i] = z * (k * g)
      <4>1. map.axes[i] = Stride(k * g) /\ parts[i] = Contribution(map.axes[i], z)
        BY <1>2, <1>15
      <4> QED BY ONLY <4>1, OfStride
    <3>4. (k * z) * g = z * (k * g)
      BY ONLY <3>0
    <3> QED BY <3>2, <3>3, <3>4
  <2>2. picked = parts
    BY ONLY <1>15, <2>1, picked = [i \in 1..r |-> e[ax[i]]]
  <2>3. ASSUME NEW b \in 1..n, \A i \in 1..r : ax[i] # b PROVE e[b] = 0
    <3> PICK g \in Nat : g = Strides(s)[b]
      BY <1>1
    <3>1. along[b] = 0
      BY <1>5, <2>3
    <3>2. e[b] = along[b] * g
      OBVIOUS
    <3>3. e[b] = 0 * g
      BY ONLY <3>1, <3>2
    <3> QED BY ONLY <3>3, g \in Nat
  <2>4. Total(picked) = Total(e)
    <3>1. Reorders(n, r)
      BY Reordered
    <3> QED BY ONLY <1>3, <1>12, <2>3, <3>1, picked = [i \in 1..r |-> e[ax[i]]] DEF Reorders
  <2> QED BY <2>2, <2>4
<1>17. Linear(s, x) = meaning[c]
  <2>1. meaning[c] = FlatOffset(map, c)
    <3>1. c \in Coords(map.shape)
      BY MapFacts, CoordsAre
    <3> QED BY <3>1 DEF ViewInv, MapsCompose
  <2> QED BY ONLY <1>8, <1>13, <1>14, <1>15, <1>16, <2>1
<1>18. Decode(s, meaning[c]) = x
  <2>1. CoordAt(s, Linear(s, x)) = x
    BY ONLY <1>1, <1>11, AtOfLinear
  <2>2. Decode(s, meaning[c]) = CoordAt(s, meaning[c])
    BY DEF Decode, CoordAt
  <2> QED BY ONLY <1>17, <2>1, <2>2
<1>19. \A b \in 1..n : only[b] = [i \in 1..r |-> IF t[i].axis = b THEN t[i].step * c[i] ELSE 0]
  <2>1. \A b \in 1..n : \A i \in 1..r :
          (IF ax[i] = b THEN w[i] ELSE 0) = (IF t[i].axis = b THEN t[i].step * c[i] ELSE 0)
    BY <1>2
  <2> QED BY ONLY <2>1, only = [b \in 1..n |-> [i \in 1..r |-> IF ax[i] = b THEN w[i] ELSE 0]]
<1>20. x = SliceCoord(o, t, c)
  <2>1. \A b \in 1..n :
          x[b] = o[b] + Total([i \in 1..r |-> IF t[i].axis = b THEN t[i].step * c[i] ELSE 0])
    BY <1>5, <1>19
  <2>2. x = [b \in 1..n |-> x[b]]
    OBVIOUS
  <2> QED BY Zenon, <1>1, <2>1, <2>2 DEF SliceCoord
<1> QED BY <1>18, <1>20

(* The interval of blocks and the slice are as they should be.              *)
LEMMA ViewSummaries ==
  ASSUME ViewInv
  PROVE  SummariesAgree
<1>1. ASSUME NEW c \in Coords(map.shape), StorageSlice(map) # Irregular
      PROVE  Decode(base.shape, meaning[c]) =
               [b \in Axes(base.shape) |-> StorageSlice(map)[1].origins[b] +
                  Total([i \in 1..Rank(map) |->
                    IF StorageSlice(map)[1].axes[i].axis = b
                    THEN StorageSlice(map)[1].axes[i].step * c[i] ELSE 0])]
  <2> PICK o : o = Decode(base.shape, FlatOffset(map, Origin(map)))
    OBVIOUS
  <2> PICK t : /\ StorageSlice(map) = <<[origins |-> o, axes |-> t]>>
               /\ Len(t) = Rank(map) /\ Matched(o, t, Rank(map))
    BY <1>1, SliceFacts
  <2>1. Below(c, map.shape)
    BY MapFacts, CoordsAre
  <2>2. Decode(base.shape, meaning[c]) = SliceCoord(o, t, c)
    BY <2>1, SliceExact
  <2>3. StorageSlice(map)[1].origins = o /\ StorageSlice(map)[1].axes = t
    OBVIOUS
  <2> QED BY Zenon, <2>2, <2>3 DEF SliceCoord
<1> QED BY Zenon, <1>1, BlocksCovered DEF SummariesAgree

(* What lock reservations and the occupancy index are told of a view covers *)
(* it, for every tensor, every block shape, every bound and any number of   *)
(* transforms: its interval of blocks holds all its elements, and a storage *)
(* slice, if there is one, names its base coordinates exactly               *)
(* (flat_bounds, logical_block_range, storage_slice).                       *)
THEOREM Summarised == ViewSpec => []SummariesAgree
BY ViewSummaries, Viewed, PTL

--------------------------------------------------------------------------------
(* The block shapes that greedy_block_shape chooses.                        *)

(* Of two sizes, the smaller one.                                           *)
LEMMA SmallerOf ==
  ASSUME NEW a \in Nat, NEW b \in Nat
  PROVE  /\ Min({a, b}) \in {a, b}
         /\ Min({a, b}) <= a /\ Min({a, b}) <= b
<1>1. \E x \in {a, b} : \A y \in {a, b} : x <= y
  <2>1. CASE a <= b
    BY <2>1
  <2>2. CASE ~(a <= b)
    <3>1. b <= a
      BY <2>2
    <3> QED BY <3>1
  <2> QED BY <2>1, <2>2
<1>2. Min({a, b}) \in {a, b} /\ \A y \in {a, b} : Min({a, b}) <= y
  BY <1>1 DEF Min
<1> QED BY <1>2

(* What an axis takes of the room there is: not more than the axis, its     *)
(* multiple by the room that is left is within the room there was, and an   *)
(* axis that is not taken whole leaves nothing to spend.                    *)
LEMMA Taken ==
  ASSUME NEW d \in Positive, NEW room \in Positive
  PROVE  /\ Min({d, room}) \in Positive
         /\ room \div Min({d, room}) \in Positive
         /\ Min({d, room}) * (room \div Min({d, room})) <= room
         /\ Min({d, room}) # d => room \div Min({d, room}) = 1
         /\ room = 1 => Min({d, room}) = 1
         /\ d = 1 => Min({d, room}) = 1
<1>0. d \in Nat /\ room \in Nat /\ d > 0 /\ room > 0
  BY DEF Positive
<1> PICK x : x = Min({d, room})
  OBVIOUS
<1>1. x \in {d, room} /\ x <= d /\ x <= room
  BY <1>0, SmallerOf
<1>2. x \in Positive /\ x \in Nat /\ x > 0
  BY <1>0, <1>1 DEF Positive
<1> PICK q, r : q = room \div x /\ r = room % x
  OBVIOUS
<1>3. q \in Nat /\ r \in Nat /\ r < x /\ room = q * x + r
  <2>1. q \in Nat /\ r \in 0..(x - 1) /\ room = q * x + r
    BY <1>0, <1>2, Division
  <2>2. \A y \in 0..(x - 1) : y \in Nat /\ y < x
    BY ONLY <1>2
  <2> QED BY <2>1, <2>2
<1>4. q # 0
  <2> SUFFICES ASSUME q = 0 PROVE FALSE
    OBVIOUS
  <2>1. room = 0 * x + r
    BY <1>3
  <2>2. room = r
    BY ONLY <2>1, <1>2, <1>3
  <2> QED BY <1>0, <1>1, <1>2, <1>3, <2>2
<1>5. q \in Positive
  BY <1>3, <1>4 DEF Positive
<1>6. x * q <= room
  <2>1. x * q = q * x
    BY ONLY <1>2, <1>3
  <2> PICK z \in Nat : z = q * x
    BY <1>2, <1>3
  <2> QED BY ONLY <1>3, <2>1, z = q * x, z \in Nat
<1>7. ASSUME x # d PROVE q = 1
  <2>1. x = room
    BY <1>1, <1>7
  <2>2. 0 < x /\ (1 * x + 0) \div x = 1
    BY ONLY <1>2, DivisionUnique, 0 \in Nat, 1 \in Nat
  <2>3. 1 * x + 0 = x
    BY ONLY <1>2
  <2> QED BY <2>1, <2>2, <2>3
<1>8. (room = 1 => x = 1) /\ (d = 1 => x = 1)
  BY <1>0, <1>1, <1>2
<1> QED BY <1>2, <1>5, <1>6, <1>7, <1>8

(* What the last axes leave of the capacity.                                *)
IsRoom(left, shape, capacity) ==
  /\ left \in [0..Len(shape) -> Positive]
  /\ left[0] = capacity
  /\ \A k \in 1..Len(shape) :
       left[k] = left[k - 1] \div Min({shape[Len(shape) - k + 1], left[k - 1]})

(* There is room after any number of axes, and each axis takes of it.       *)
LEMMA GreedyFacts ==
  ASSUME NEW s \in Seq(Positive), NEW capacity \in Positive
  PROVE  \E left : /\ IsRoom(left, s, capacity)
                   /\ Greedy(s, capacity) = [i \in 1..Len(s) |-> Min({s[i], left[Len(s) - i]})]
<1> PICK n \in Nat : n = Len(s)
  OBVIOUS
<1>1. \A k \in 1..n : s[n - k + 1] \in Positive
  <2> SUFFICES ASSUME NEW k \in 1..n PROVE s[n - k + 1] \in Positive
    OBVIOUS
  <2>1. n - k + 1 \in 1..n
    OBVIOUS
  <2> QED BY <2>1
<1> DEFINE G == [z \in Positive \X (1..n) |-> z[1] \div Min({s[n - z[2] + 1], z[1]})]
<1>2. G \in [Positive \X (1..n) -> Positive]
  <2> SUFFICES ASSUME NEW x \in Positive, NEW k \in 1..n
               PROVE  x \div Min({s[n - k + 1], x}) \in Positive
    OBVIOUS
  <2> QED BY <1>1, Taken
<1>3. \A x \in Positive, k \in 1..n : G[<<x, k>>] = x \div Min({s[n - k + 1], x})
  OBVIOUS
<1> HIDE DEF G
<1>4. PICK f \in [0..n -> Positive] : Steps(f, n, capacity, G)
  BY <1>2, Recursion
<1>5. /\ f[0] = capacity
      /\ \A k \in 1..n : f[k] = f[k - 1] \div Min({s[n - k + 1], f[k - 1]})
  <2> SUFFICES ASSUME NEW k \in 1..n
               PROVE  f[k] = f[k - 1] \div Min({s[n - k + 1], f[k - 1]})
    BY <1>4 DEF Steps
  <2>1. f[k] = G[<<f[k - 1], k>>]
    BY <1>4 DEF Steps
  <2>2. f[k - 1] \in Positive
    OBVIOUS
  <2> QED BY <1>3, <2>1, <2>2
<1> DEFINE Is(g) ==
      g = [k \in 0..n |-> IF k = 0 THEN capacity ELSE g[k - 1] \div Min({s[n - k + 1], g[k - 1]})]
<1>6. Is(f)
  <2> DEFINE h == [k \in 0..n |->
        IF k = 0 THEN capacity ELSE f[k - 1] \div Min({s[n - k + 1], f[k - 1]})]
  <2>1. DOMAIN f = 0..n /\ DOMAIN h = 0..n /\ f = [k \in 0..n |-> f[k]]
    OBVIOUS
  <2>2. \A k \in 0..n : f[k] = h[k]
    BY <1>5
  <2>3. h = [k \in 0..n |-> h[k]]
    OBVIOUS
  <2> HIDE DEF h
  <2>4. f = h
    BY <2>1, <2>2, <2>3
  <2> QED BY <2>4 DEF h
<1> DEFINE g == CHOOSE g : Is(g)
<1>7. Is(g)
  BY <1>6
<1>8. Greedy(s, capacity) = [i \in 1..n |-> Min({s[i], g[n - i]})]
  BY DEF Greedy, Axes
<1> HIDE DEF g
<1>9. \A k \in 0..n : g[k] = IF k = 0 THEN capacity ELSE g[k - 1] \div Min({s[n - k + 1], g[k - 1]})
  BY <1>7
<1>9a. g[0] = capacity
  <2>1. 0 \in 0..n
    OBVIOUS
  <2> QED BY ONLY <1>9, <2>1
<1> HIDE DEF Is
<1>10. \A k \in 0..n : g[k] \in Positive
  <2> DEFINE S == {k \in 0..n : g[k] \in Positive}
  <2>1. 0 \in S
    BY <1>9a
  <2>2. \A k \in 0..n : k < n /\ k \in S => k + 1 \in S
    <3> SUFFICES ASSUME NEW k \in 0..n, k < n, g[k] \in Positive PROVE k + 1 \in S
      OBVIOUS
    <3>1. k + 1 \in 1..n /\ (k + 1) - 1 = k /\ k + 1 \in 0..n /\ k + 1 # 0
      OBVIOUS
    <3>2. g[k + 1] = g[k] \div Min({s[n - (k + 1) + 1], g[k]})
      BY <1>9, <3>1
    <3>3. s[n - (k + 1) + 1] \in Positive
      BY <1>1, <3>1
    <3>4. g[k + 1] \in Positive
      BY <3>2, <3>3, Taken
    <3> QED BY <3>1, <3>4
  <2>3. \A k \in 0..n : k \in S
    <3> HIDE DEF S
    <3> QED BY <2>1, <2>2, UpToAll
  <2> QED BY <2>3
<1>11. IsRoom(g, s, capacity)
  <2>1. g = [k \in 0..n |-> g[k]]
    BY <1>7 DEF Is
  <2>2. g \in [0..n -> Positive]
    BY <1>10, <2>1
  <2>3. g[0] = capacity
    BY <1>9a
  <2>4. \A k \in 1..n : g[k] = g[k - 1] \div Min({s[n - k + 1], g[k - 1]})
    BY <1>9
  <2> QED BY <2>2, <2>3, <2>4 DEF IsRoom
<1> QED BY <1>8, <1>11

(* A block that is chosen for a region has its axes, fits the capacity, and *)
(* spans every axis after one of which it takes more than one index.        *)
LEMMA GreedyChosen ==
  ASSUME NEW s \in Seq(Positive), NEW capacity \in Positive
  PROVE  /\ Fits(s, Greedy(s, capacity))
         /\ Product(Greedy(s, capacity)) <= capacity
         /\ \A i, k \in 1..Len(s) :
              i < k /\ Greedy(s, capacity)[i] > 1 => Greedy(s, capacity)[k] = s[k]
         /\ \A i \in 1..Len(s) : s[i] = 1 => Greedy(s, capacity)[i] = 1
<1> PICK n \in Nat : n = Len(s)
  OBVIOUS
<1> PICK left : /\ IsRoom(left, s, capacity)
                /\ Greedy(s, capacity) = [i \in 1..n |-> Min({s[i], left[n - i]})]
  <2>1. \E left : /\ IsRoom(left, s, capacity)
                  /\ Greedy(s, capacity) = [i \in 1..Len(s) |-> Min({s[i], left[Len(s) - i]})]
    BY GreedyFacts
  <2> QED BY Zenon, <2>1
<1> PICK b : b = Greedy(s, capacity)
  OBVIOUS
<1>1. /\ \A j \in 0..n : left[j] \in Positive
      /\ left[0] = capacity
  BY DEF IsRoom
<1>2. ASSUME NEW i \in 1..n
      PROVE  /\ n - i \in 0..n /\ n - i + 1 \in 0..n
             /\ s[i] \in Positive /\ left[n - i] \in Positive
             /\ b[i] = Min({s[i], left[n - i]})
             /\ left[n - i + 1] = left[n - i] \div b[i]
  <2>1. /\ n - i + 1 \in 1..n /\ n - i \in 0..n /\ n - i + 1 \in 0..n
        /\ (n - i + 1) - 1 = n - i /\ n - (n - i + 1) + 1 = i
    OBVIOUS
  <2>2. left[n - i + 1] = left[(n - i + 1) - 1]
          \div Min({s[n - (n - i + 1) + 1], left[(n - i + 1) - 1]})
    BY <2>1 DEF IsRoom
  <2>3. b[i] = Min({s[i], left[n - i]})
    OBVIOUS
  <2>4. left[n - i + 1] = left[n - i] \div b[i]
    BY <2>1, <2>2, <2>3
  <2> QED BY <1>1, <2>1, <2>3, <2>4
<1>3. \A i \in 1..n :
        /\ b[i] \in Positive
        /\ b[i] * left[n - i + 1] <= left[n - i]
        /\ b[i] # s[i] => left[n - i + 1] = 1
        /\ left[n - i] = 1 => b[i] = 1 /\ left[n - i + 1] = 1
        /\ s[i] = 1 => b[i] = 1
  <2> SUFFICES ASSUME NEW i \in 1..n
               PROVE  /\ b[i] \in Positive
                      /\ b[i] * left[n - i + 1] <= left[n - i]
                      /\ b[i] # s[i] => left[n - i + 1] = 1
                      /\ left[n - i] = 1 => b[i] = 1 /\ left[n - i + 1] = 1
                      /\ s[i] = 1 => b[i] = 1
    OBVIOUS
  <2> PICK d, l, x, m : d = s[i] /\ l = left[n - i] /\ x = b[i] /\ m = left[n - i + 1]
    OBVIOUS
  <2>1. d \in Positive /\ l \in Positive /\ x = Min({d, l}) /\ m = l \div x
    BY <1>2
  <2>2. /\ x \in Positive /\ x * m <= l
        /\ x # d => m = 1
        /\ l = 1 => x = 1
        /\ d = 1 => x = 1
    BY ONLY <2>1, Taken
  <2>3. l = 1 => m = 1
    <3>1. 1 \div 1 = 1
      OBVIOUS
    <3> QED BY <2>1, <2>2, <3>1
  <2> QED BY <2>2, <2>3
<1>4. b \in Seq(Positive) /\ Len(b) = n /\ b \in Seq(Nat)
  <2>1. b = [i \in 1..n |-> b[i]]
    OBVIOUS
  <2>2. b \in [1..n -> Positive]
    BY <1>3, <2>1
  <2>3. b \in Seq(Positive) /\ Len(b) = n
    BY ONLY <2>2, n \in Nat
  <2> QED BY ONLY <2>3 DEF Positive
<1>5. Fits(s, b)
  BY <1>4 DEF Fits
<1>6. Product(b) <= capacity
  <2> DEFINE S == {j \in 0..n : After(b, j) * left[n - j] <= capacity}
  <2>1. n \in S
    <3>1. After(b, n) = 1
      BY <1>4, AfterOf
    <3>2. n - n = 0 /\ capacity \in Nat /\ 1 * capacity = capacity /\ capacity <= capacity
      BY DEF Positive
    <3> QED BY <1>1, <3>1, <3>2
  <2>2. \A j \in 1..n : j \in S => j - 1 \in S
    <3> SUFFICES ASSUME NEW j \in 1..n, After(b, j) * left[n - j] <= capacity PROVE j - 1 \in S
      OBVIOUS
    <3> PICK a, x, m, l : a = After(b, j) /\ x = b[j] /\ m = left[n - j + 1] /\ l = left[n - j]
      OBVIOUS
    <3>1. a \in Nat /\ x \in Nat /\ m \in Nat /\ l \in Nat /\ capacity \in Nat
      <4>1. j \in 0..n /\ n - j \in 0..n /\ n - j + 1 \in 0..n
        OBVIOUS
      <4>2. After(b, j) \in Positive
        BY <1>4, <4>1, AfterOf
      <4> QED BY <1>1, <1>3, <4>1, <4>2 DEF Positive
    <3>2. After(b, j - 1) = x * a
      BY <1>4, AfterStep
    <3>3. x * m <= l
      BY <1>3
    <3>4. (x * a) * m = a * (x * m)
      <4>1. x * a = a * x
        BY ONLY <3>1
      <4>2. (a * x) * m = a * (x * m)
        BY ONLY <3>1
      <4> QED BY ONLY <4>1, <4>2
    <3>5. a * (x * m) <= a * l
      <4> PICK z \in Nat : z = x * m
        BY ONLY <3>1
      <4>1. z <= l
        BY <3>3
      <4>2. a * z <= a * l
        BY ONLY <3>1, <4>1, z \in Nat, LargerFactor
      <4> QED BY <4>2
    <3> PICK p, q : p = (x * a) * m /\ q = a * l
      OBVIOUS
    <3>6. p \in Nat /\ q \in Nat
      <4>1. x * a \in Nat
        BY ONLY <3>1
      <4> QED BY ONLY <3>1, <4>1, p = (x * a) * m, q = a * l
    <3>7. p <= q /\ q <= capacity
      BY <3>4, <3>5
    <3>8. p <= capacity
      BY ONLY <3>1, <3>6, <3>7
    <3>9. j - 1 \in 0..n /\ n - (j - 1) = n - j + 1
      OBVIOUS
    <3>10. After(b, j - 1) * left[n - (j - 1)] = p
      BY <3>2, <3>9
    <3> QED BY <3>8, <3>9, <3>10
  <2>3. 0 \in S
    <3>1. 0 \in 0..n
      OBVIOUS
    <3> HIDE DEF S
    <3> QED BY <2>1, <2>2, <3>1, DownToAll
  <2>4. After(b, 0) = Product(b) /\ n - 0 = n /\ Product(b) \in Positive
    <3>1. 0 \in 0..n
      OBVIOUS
    <3>2. After(b, 0) = Product(b) /\ After(b, 0) \in Positive
      BY <1>4, <3>1, AfterOf
    <3> QED BY <3>2
  <2> PICK p \in Nat : p = Product(b)
    BY <2>4 DEF Positive
  <2> PICK l \in Positive : l = left[n]
    <3>1. n \in 0..n
      OBVIOUS
    <3> QED BY <1>1, <3>1
  <2>5. p * l <= capacity
    BY <2>3, <2>4
  <2>6. p <= p * l
    <3>1. 1 \in Nat /\ l \in Nat /\ 1 <= l
      BY DEF Positive
    <3>2. p * 1 <= p * l
      BY ONLY <3>1, p \in Nat, LargerFactor
    <3> QED BY <3>2
  <2> PICK z \in Nat : z = p * l
    <3>1. l \in Nat
      BY DEF Positive
    <3> QED BY ONLY <3>1, p \in Nat
  <2>7. z <= capacity /\ p <= z /\ capacity \in Nat
    BY ONLY <2>5, <2>6, z = p * l, capacity \in Positive DEF Positive
  <2>8. p <= capacity
    BY ONLY <2>7, z \in Nat, p \in Nat
  <2> QED BY <2>8
<1>7. ASSUME NEW i \in 1..n, NEW k \in 1..n, i < k, b[i] > 1 PROVE b[k] = s[k]
  <2> SUFFICES ASSUME b[k] # s[k] PROVE FALSE
    OBVIOUS
  <2> DEFINE S == {j \in 0..(k - 1) : left[n - j] = 1}
  <2>1. k - 1 \in S
    <3>1. left[n - k + 1] = 1 /\ n - (k - 1) = n - k + 1
      BY <1>3
    <3> QED BY <3>1
  <2>2. \A j \in 1..(k - 1) : j \in S => j - 1 \in S
    <3> SUFFICES ASSUME NEW j \in 1..(k - 1), left[n - j] = 1 PROVE j - 1 \in S
      OBVIOUS
    <3>1. j \in 1..n /\ n - (j - 1) = n - j + 1 /\ j - 1 \in 0..(k - 1)
      OBVIOUS
    <3>2. left[n - j + 1] = 1
      BY <1>3, <3>1
    <3> QED BY <3>1, <3>2
  <2>3. i \in S
    <3>1. k - 1 \in Nat /\ i \in 0..(k - 1)
      BY ONLY n \in Nat, i \in 1..n, k \in 1..n, i < k
    <3> HIDE DEF S
    <3> QED BY <2>1, <2>2, <3>1, DownToAll
  <2>4. b[i] = 1
    BY <1>3, <2>3
  <2> QED BY <1>7, <2>4
<1> QED BY <1>3, <1>5, <1>6, <1>7

(* The region that a block may cover: nothing of the leading axes, all of   *)
(* the others.                                                              *)
LEMMA RegionOf ==
  ASSUME NEW s \in Seq(Positive), NEW prefix \in Nat
  PROVE  /\ Region(s, prefix) \in Seq(Positive) /\ Len(Region(s, prefix)) = Len(s)
         /\ \A i \in 1..Len(s) : Region(s, prefix)[i] = IF i <= prefix THEN 1 ELSE s[i]
<1> PICK n \in Nat : n = Len(s)
  OBVIOUS
<1> PICK r : r = Region(s, prefix)
  OBVIOUS
<1>1. r = [i \in 1..n |-> IF i <= prefix THEN 1 ELSE s[i]]
  BY DEF Region, Axes
<1>2. \A i \in 1..n : (IF i <= prefix THEN 1 ELSE s[i]) \in Positive
  BY DEF Positive
<1>3. r \in [1..n -> Positive]
  BY <1>1, <1>2
<1> QED BY <1>1, <1>3

(* The block shape that StorageSchema::new of src/schema.rs chooses has the *)
(* tensor's axes, holds no more than the capacity, covers nothing of the    *)
(* leading axes but an index each, and is contiguous: every tensor that the *)
(* library lays out itself streams row-major input one block after another. *)
THEOREM ChosenBlocks ==
  ASSUME NEW shape \in Seq(Positive), NEW prefix \in Nat, NEW capacity \in Positive
  PROVE  /\ Fits(shape, NewBlockShape(shape, prefix, capacity))
         /\ Product(NewBlockShape(shape, prefix, capacity)) <= capacity
         /\ \A i \in Axes(shape) : i <= prefix => NewBlockShape(shape, prefix, capacity)[i] = 1
         /\ Contiguous(shape, NewBlockShape(shape, prefix, capacity))
<1> PICK n \in Nat : n = Len(shape)
  OBVIOUS
<1> PICK r, b : r = Region(shape, prefix) /\ b = Greedy(r, capacity)
  OBVIOUS
<1>1. /\ r \in Seq(Positive) /\ Len(r) = n
      /\ \A i \in 1..n : r[i] = IF i <= prefix THEN 1 ELSE shape[i]
  BY RegionOf
<1>2. /\ Fits(r, b) /\ Product(b) <= capacity
      /\ \A i, k \in 1..n : i < k /\ b[i] > 1 => b[k] = r[k]
      /\ \A i \in 1..n : r[i] = 1 => b[i] = 1
  BY <1>1, GreedyChosen
<1>3. Fits(shape, b)
  BY <1>1, <1>2 DEF Fits
<1>4. \A i \in 1..n : i <= prefix => b[i] = 1
  BY <1>1, <1>2
<1>5. ASSUME NEW i \in 1..n, NEW k \in (i + 1)..n, b[i] > 1 PROVE b[k] = shape[k]
  <2>1. k \in 1..n /\ i < k
    OBVIOUS
  <2>2. ~(i <= prefix)
    BY <1>4, <1>5
  <2>3. ~(k <= prefix)
    BY <2>1, <2>2
  <2>4. b[k] = r[k]
    BY <1>2, <1>5, <2>1
  <2> QED BY <1>1, <2>1, <2>3, <2>4
<1>6. Axes(shape) = 1..n
  BY DEF Axes
<1>7. Contiguous(shape, b)
  BY <1>5, <1>6 DEF Contiguous
<1> QED BY <1>2, <1>3, <1>4, <1>6, <1>7 DEF NewBlockShape

(* What is called contiguous is met in order, and what is chosen fits and   *)
(* is contiguous.                                                           *)
LEMMA ViewBlocks ==
  ASSUME ViewInv
  PROVE  ContiguousMeansOrdered
<1> PICK s, b : s = base.shape /\ b = base.block
  OBVIOUS
<1>1. Fits(s, b) /\ s \in Seq(Positive) /\ Len(s) \in Nat
  BY BaseFacts
<1>2. Product(s) \in Positive
  <2>1. 0 \in 0..Len(s)
    BY <1>1
  <2>2. After(s, 0) = Product(s) /\ After(s, 0) \in Positive
    BY <1>1, <2>1, AfterOf
  <2> QED BY <2>2
<1>3. ASSUME Contiguous(s, b), NEW flat \in 1..(Product(s) - 1)
      PROVE  BlockId(s, b, Decode(s, flat - 1)) <= BlockId(s, b, Decode(s, flat))
  <2> PICK p \in Nat : p = Product(s)
    BY <1>2 DEF Positive
  <2>1. flat - 1 \in 0..(p - 1) /\ flat \in 0..(p - 1) /\ flat - 1 <= flat
    OBVIOUS
  <2>2. flat - 1 \in PlacesIn(s) /\ flat \in PlacesIn(s)
    BY <2>1 DEF PlacesIn
  <2>3. BlockId(s, b, CoordAt(s, flat - 1)) <= BlockId(s, b, CoordAt(s, flat))
    BY <1>1, <1>3, <2>1, <2>2, ContiguousInOrder
  <2> QED BY <2>3 DEF Decode, CoordAt
<1>4. ASSUME NEW prefix \in 0..Len(s), NEW capacity \in 1..(Product(s) + 1)
      PROVE  /\ Product(NewBlockShape(s, prefix, capacity)) <= capacity
             /\ Contiguous(s, NewBlockShape(s, prefix, capacity))
  <2>1. prefix \in Nat /\ capacity \in Positive
    BY <1>1, <1>2 DEF Positive
  <2> QED BY <1>1, <2>1, ChosenBlocks
<1> QED BY <1>3, <1>4 DEF ContiguousMeansOrdered

(* What Construction::new calls contiguous never returns to a block that    *)
(* row-major input has left, and the block shapes that are chosen for a     *)
(* tensor fit the capacity and are contiguous, for every tensor, capacity   *)
(* and number of leading axes (greedy_block_shape, StorageSchema::new).     *)
THEOREM MetInOrder == ViewSpec => []ContiguousMeansOrdered
BY ViewBlocks, Viewed, PTL
================================================================================
