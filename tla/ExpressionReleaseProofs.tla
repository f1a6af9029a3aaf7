------------------------ MODULE ExpressionReleaseProofs ------------------------
(****************************************************************************)
(* The safety of ExpressionRelease for every expression, number of threads  *)
(* and number of handles: the counts are exact, whatever the interleaving   *)
(* of clones and drops, and destruction never nests.                        *)
(****************************************************************************)
EXTENDS ExpressionRelease, Integers, FiniteSetTheorems, TLAPS

--------------------------------------------------------------------------------
(* What a drop relies on: a thread has one list, and what it is destroying  *)
(* is live and taken by no other thread.                                    *)
OneList ==
  \A t \in Threads :
    /\ Len(work[t]) <= 1
    /\ Len(taken[t]) <= 1
    /\ taken[t] # <<>> => work[t] # <<>> /\ taken[t][1] \in live

TakenOnce ==
  \A t, u \in Threads :
    taken[t] # <<>> /\ taken[u] # <<>> /\ taken[t][1] = taken[u][1] => t = u

(* The count of every description is the number of its handles, of which    *)
(* there are finitely many.                                                 *)
Counted ==
  \A n \in Nodes :
    /\ IsFiniteSet(Handles(n, live, handles, work))
    /\ strong[n] = References(n, live, handles, work)

(* A description has no handle exactly when it is destroyed or being so.    *)
Dying(n) == \E t \in Threads : taken[t] # <<>> /\ taken[t][1] = n

Reachable == \A n \in Nodes : strong[n] > 0 <=> n \in live /\ ~Dying(n)

ReleaseInv == TypeOK /\ OneList /\ TakenOnce /\ Counted /\ Reachable

--------------------------------------------------------------------------------
(* The handles of one thread's list, and those of all the other threads.    *)
ListOf(t, list, n) == {<<"listed", t, 1, k>> : k \in Positions(list, n)}

ListedByOthers(t, n, lists) ==
  UNION {UNION {{<<"listed", u, j, k>> : k \in Positions(lists[u][j], n)} :
                  j \in DOMAIN lists[u]} : u \in Threads \ {t}}

(* The handles that wait are those of one thread and those of the others.   *)
LEMMA ListedSplit ==
  ASSUME NEW lists, NEW t \in Threads, NEW n,
         NEW s, lists[t] = <<s>>
  PROVE  ListedHandles(n, lists) = ListedByOthers(t, n, lists) \cup ListOf(t, s, n)
<1> DEFINE By(u) == UNION {{<<"listed", u, j, k>> : k \in Positions(lists[u][j], n)} :
                             j \in DOMAIN lists[u]}
<1>1. By(t) = ListOf(t, s, n)
  <2>1. DOMAIN lists[t] = {1} /\ lists[t][1] = s
    OBVIOUS
  <2> QED BY <2>1 DEF ListOf
<1>2. ListedHandles(n, lists) = UNION {By(u) : u \in Threads}
  BY DEF ListedHandles
<1>3. ListedByOthers(t, n, lists) = UNION {By(u) : u \in Threads \ {t}}
  BY DEF ListedByOthers
<1> HIDE DEF By
<1> QED BY <1>1, <1>2, <1>3

(* A thread without a list has no handle waiting.                           *)
LEMMA ListedNone ==
  ASSUME NEW lists, NEW t \in Threads, NEW n, lists[t] = <<>>
  PROVE  ListedHandles(n, lists) = ListedByOthers(t, n, lists)
<1> DEFINE By(u) == UNION {{<<"listed", u, j, k>> : k \in Positions(lists[u][j], n)} :
                             j \in DOMAIN lists[u]}
<1>1. By(t) = {}
  <2>1. DOMAIN lists[t] = {}
    OBVIOUS
  <2> QED BY <2>1
<1>2. ListedHandles(n, lists) = UNION {By(u) : u \in Threads}
  BY DEF ListedHandles
<1>3. ListedByOthers(t, n, lists) = UNION {By(u) : u \in Threads \ {t}}
  BY DEF ListedByOthers
<1> HIDE DEF By
<1> QED BY <1>1, <1>2, <1>3

(* A thread leaves the lists of the others alone.                           *)
LEMMA ListedKept ==
  ASSUME NEW old, NEW new, NEW t \in Threads, NEW n,
         \A u \in Threads \ {t} : new[u] = old[u]
  PROVE  ListedByOthers(t, n, new) = ListedByOthers(t, n, old)
<1> DEFINE By(l, u) == UNION {{<<"listed", u, j, k>> : k \in Positions(l[u][j], n)} :
                                j \in DOMAIN l[u]}
<1>1. \A u \in Threads \ {t} : By(new, u) = By(old, u)
  OBVIOUS
<1>2. /\ ListedByOthers(t, n, new) = UNION {By(new, u) : u \in Threads \ {t}}
      /\ ListedByOthers(t, n, old) = UNION {By(old, u) : u \in Threads \ {t}}
  BY DEF ListedByOthers
<1> HIDE DEF By
<1> QED BY <1>1, <1>2

(* A thread that owns one handle more, and what that is for the handles.    *)
OwnsMore(few, many, t, n) ==
  /\ few \in [Threads -> [Nodes -> Nat]]
  /\ many \in [Threads -> [Nodes -> Nat]]
  /\ many[t][n] = few[t][n] + 1
  /\ \A u \in Threads, m \in Nodes : u # t \/ m # n => many[u][m] = few[u][m]

OneOwned(few, many, t, n) ==
  /\ OwnedHandles(n, many) = OwnedHandles(n, few) \cup {<<"owned", t, many[t][n], 0>>}
  /\ <<"owned", t, many[t][n], 0>> \notin OwnedHandles(n, few)
  /\ \A m \in Nodes \ {n} : OwnedHandles(m, many) = OwnedHandles(m, few)

(* A thread that owns one handle more adds that handle and no other.        *)
LEMMA OwnedMore ==
  ASSUME NEW few, NEW many, NEW t \in Threads, NEW n \in Nodes,
         OwnsMore(few, many, t, n)
  PROVE  OneOwned(few, many, t, n)
<1> USE DEF OwnsMore
<1> DEFINE By(o, u, m) == {<<"owned", u, i, 0>> : i \in 1..o[u][m]}
<1>1. \A o, m : OwnedHandles(m, o) = UNION {By(o, u, m) : u \in Threads}
  BY DEF OwnedHandles
<1>2. \A u \in Threads, m \in Nodes : u # t \/ m # n => By(many, u, m) = By(few, u, m)
  OBVIOUS
<1>3. By(many, t, n) = By(few, t, n) \cup {<<"owned", t, many[t][n], 0>>}
  <2>1. few[t][n] \in Nat
    OBVIOUS
  <2>2. 1..many[t][n] = (1..few[t][n]) \cup {many[t][n]}
    BY <2>1
  <2> QED BY <2>2
<1>4. <<"owned", t, many[t][n], 0>> \notin OwnedHandles(n, few)
  <2> SUFFICES ASSUME NEW u \in Threads, NEW i \in 1..few[u][n],
                      <<"owned", t, many[t][n], 0>> = <<"owned", u, i, 0>>
               PROVE  FALSE
    BY DEF OwnedHandles
  <2>1. few[t][n] \in Nat /\ u = t /\ i = few[t][n] + 1
    OBVIOUS
  <2> QED BY <2>1
<1> HIDE DEF By
<1>5. \A m \in Nodes \ {n} : OwnedHandles(m, many) = OwnedHandles(m, few)
  <2> SUFFICES ASSUME NEW m \in Nodes \ {n}
               PROVE  OwnedHandles(m, many) = OwnedHandles(m, few)
    OBVIOUS
  <2>1. {By(many, u, m) : u \in Threads} = {By(few, u, m) : u \in Threads}
    BY <1>2
  <2>2. /\ OwnedHandles(m, many) = UNION {By(many, u, m) : u \in Threads}
        /\ OwnedHandles(m, few) = UNION {By(few, u, m) : u \in Threads}
    BY <1>1
  <2> QED BY <2>1, <2>2
<1>6. OwnedHandles(n, many) = OwnedHandles(n, few) \cup {<<"owned", t, many[t][n], 0>>}
  <2>1. \A u \in Threads \ {t} : By(many, u, n) = By(few, u, n)
    BY <1>2
  <2>2. UNION {By(many, u, n) : u \in Threads}
          = (UNION {By(few, u, n) : u \in Threads}) \cup {<<"owned", t, many[t][n], 0>>}
    BY <2>1, <1>3
  <2>3. /\ OwnedHandles(n, many) = UNION {By(many, u, n) : u \in Threads}
        /\ OwnedHandles(n, few) = UNION {By(few, u, n) : u \in Threads}
    BY <1>1
  <2> QED BY <2>2, <2>3
<1> QED BY <1>4, <1>5, <1>6 DEF OneOwned

(* Handles of different kinds are different.                                *)
LEMMA Kinds ==
  ASSUME NEW n, NEW alive, NEW owned, NEW lists
  PROVE  /\ \A h \in OwnedHandles(n, owned) : h[1] = "owned"
         /\ \A h \in ListedHandles(n, lists) : h[1] = "listed"
         /\ \A h \in OperandHandles(n, alive) : h[1] = "operand"
<1>1. \A h \in OwnedHandles(n, owned) : h[1] = "owned"
  BY DEF OwnedHandles
<1>2. \A h \in ListedHandles(n, lists) : h[1] = "listed"
  BY DEF ListedHandles
<1>3. \A h \in OperandHandles(n, alive) : h[1] = "operand"
  BY DEF OperandHandles
<1> QED BY <1>1, <1>2, <1>3

(* A set with an element more, and one with an element moved.               *)
LEMMA OneMore ==
  ASSUME NEW S, IsFiniteSet(S), NEW x, x \notin S
  PROVE  /\ IsFiniteSet(S \cup {x})
         /\ Cardinality(S) \in Nat
         /\ Cardinality(S \cup {x}) = Cardinality(S) + 1
<1>1. Cardinality(S) \in Nat
  BY FS_CardinalityType
<1> QED BY <1>1, FS_AddElement

(* A set from which a part is taken keeps its size when as many new members *)
(* come in.                                                                 *)
LEMMA Moved ==
  ASSUME NEW S, NEW A, NEW B, IsFiniteSet(S), IsFiniteSet(B),
         A \subseteq S, B \cap S = {}, Cardinality(A) = Cardinality(B)
  PROVE  /\ IsFiniteSet((S \ A) \cup B)
         /\ Cardinality((S \ A) \cup B) = Cardinality(S)
<1> DEFINE rest == S \ A
<1>1. /\ IsFiniteSet(rest)
      /\ Cardinality(rest) = Cardinality(S) - Cardinality(S \cap A)
  BY FS_Difference
<1>2. S \cap A = A /\ rest \cap B = {}
  OBVIOUS
<1>3. /\ Cardinality(S) \in Nat
      /\ Cardinality(B) \in Nat
      /\ Cardinality(rest) \in Nat
  BY <1>1, FS_CardinalityType
<1>4. /\ IsFiniteSet(rest \cup B)
      /\ Cardinality(rest \cup B)
           = Cardinality(rest) + Cardinality(B) - Cardinality(rest \cap B)
  BY <1>1, FS_Union
<1>5. Cardinality(rest \cap B) = 0
  BY <1>2, FS_EmptySet
<1> HIDE DEF rest
<1>6. Cardinality(rest) = Cardinality(S) - Cardinality(B)
  BY <1>1, <1>2
<1>7. Cardinality(rest \cup B) = Cardinality(rest) + Cardinality(B) - 0
  BY <1>4, <1>5
<1>8. Cardinality(rest \cup B) = Cardinality(S)
  BY <1>3, <1>6, <1>7
<1> QED BY <1>4, <1>8 DEF rest

(* What a finite set covers is finite.                                      *)
LEMMA FiniteImage ==
  ASSUME NEW S, IsFiniteSet(S), NEW T, NEW f,
         \A x \in S : f[x] \in T,
         \A y \in T : \E x \in S : y = f[x]
  PROVE  IsFiniteSet(T)
<1> DEFINE g == [x \in S |-> f[x]]
<1>1. g \in Surjection(S, T)
  BY DEF Surjection
<1> HIDE DEF g
<1> QED BY <1>1, FS_Surjection

(* A handle exists only while the count is positive.                        *)
LEMMA InUse ==
  ASSUME TypeOK, Counted, NEW n \in Nodes
  PROVE  strong[n] > 0 <=> Handles(n, live, handles, work) # {}
<1> DEFINE H == Handles(n, live, handles, work)
<1>1. IsFiniteSet(H) /\ strong[n] = Cardinality(H)
  BY DEF Counted, References
<1> HIDE DEF H
<1>2. Cardinality(H) \in Nat
  BY <1>1, FS_CardinalityType
<1>3. Cardinality(H) = 0 <=> H = {}
  BY <1>1, FS_EmptySet
<1> QED BY <1>1, <1>2, <1>3 DEF H

--------------------------------------------------------------------------------
(* Initially, every handle is held.                                         *)
LEMMA FiniteInitially ==
  ASSUME NEW n \in Nodes
  PROVE  IsFiniteSet(Handles(n, Nodes, Held, NoLists))
<1> USE ReleaseAssumption
<1>1. IsFiniteSet(OwnedHandles(n, Held))
  <2> DEFINE By(t) == {<<"owned", t, i, 0>> : i \in 1..Held[t][n]}
  <2>1. ASSUME NEW t \in Threads PROVE IsFiniteSet(By(t))
    <3>1. Held[t][n] \in Nat
      OBVIOUS
    <3>2. IsFiniteSet(1..Held[t][n])
      BY <3>1, FS_Interval
    <3> DEFINE f == [i \in 1..Held[t][n] |-> <<"owned", t, i, 0>>]
    <3>3. /\ \A i \in 1..Held[t][n] : f[i] \in By(t)
          /\ \A h \in By(t) : \E i \in 1..Held[t][n] : h = f[i]
      OBVIOUS
    <3> HIDE DEF f, By
    <3> QED BY <3>2, <3>3, FiniteImage
  <2>2. IsFiniteSet({By(t) : t \in Threads})
    <3> DEFINE f == [t \in Threads |-> By(t)]
    <3>1. /\ \A t \in Threads : f[t] \in {By(u) : u \in Threads}
          /\ \A h \in {By(u) : u \in Threads} : \E t \in Threads : h = f[t]
      OBVIOUS
    <3> HIDE DEF f, By
    <3> QED BY <3>1, FiniteImage
  <2>3. OwnedHandles(n, Held) = UNION {By(t) : t \in Threads}
    BY DEF OwnedHandles
  <2> HIDE DEF By
  <2>4. \A S \in {By(t) : t \in Threads} : IsFiniteSet(S)
    BY <2>1
  <2> QED BY <2>2, <2>3, <2>4, FS_UNION
<1>2. ListedHandles(n, NoLists) = {}
  BY DEF ListedHandles, NoLists
<1>3. IsFiniteSet(OperandHandles(n, Nodes))
  <2> DEFINE By(m) == {<<"operand", m, k, 0>> : k \in Positions(Operands[m], n)}
  <2>1. ASSUME NEW m \in Nodes PROVE IsFiniteSet(By(m))
    <3>1. Operands[m] \in Seq(Nodes)
      OBVIOUS
    <3>2. IsFiniteSet(1..Len(Operands[m]))
      BY <3>1, FS_Interval
    <3>3. Positions(Operands[m], n) \subseteq 1..Len(Operands[m])
      BY <3>1 DEF Positions
    <3>4. IsFiniteSet(Positions(Operands[m], n))
      BY <3>2, <3>3, FS_Subset
    <3> DEFINE f == [k \in Positions(Operands[m], n) |-> <<"operand", m, k, 0>>]
    <3>5. /\ \A k \in Positions(Operands[m], n) : f[k] \in By(m)
          /\ \A h \in By(m) : \E k \in Positions(Operands[m], n) : h = f[k]
      OBVIOUS
    <3> HIDE DEF f, By
    <3> QED BY <3>4, <3>5, FiniteImage
  <2>2. IsFiniteSet({By(m) : m \in Nodes})
    <3> DEFINE f == [m \in Nodes |-> By(m)]
    <3>1. /\ \A m \in Nodes : f[m] \in {By(u) : u \in Nodes}
          /\ \A h \in {By(u) : u \in Nodes} : \E m \in Nodes : h = f[m]
      OBVIOUS
    <3> HIDE DEF f, By
    <3> QED BY <3>1, FiniteImage
  <2>3. OperandHandles(n, Nodes) = UNION {By(m) : m \in Nodes}
    BY DEF OperandHandles
  <2> HIDE DEF By
  <2>4. \A S \in {By(m) : m \in Nodes} : IsFiniteSet(S)
    BY <2>1
  <2> QED BY <2>2, <2>3, <2>4, FS_UNION
<1>4. Handles(n, Nodes, Held, NoLists) = OwnedHandles(n, Held) \cup OperandHandles(n, Nodes)
  BY <1>2 DEF Handles
<1> HIDE ReleaseAssumption
<1> QED BY <1>1, <1>3, <1>4, FS_Union

(* Before the first drop everything is live and every handle is counted.    *)
LEMMA InitRelease ==
  ASSUME Init
  PROVE  ReleaseInv
<1>1. /\ live = Nodes
      /\ handles = Held
      /\ work = NoLists
      /\ \A t \in Threads : work[t] = <<>> /\ taken[t] = <<>>
  BY DEF Init, NoLists
<1>2. ASSUME NEW n \in Nodes
      PROVE  /\ IsFiniteSet(Handles(n, live, handles, work))
             /\ strong[n] = References(n, live, handles, work)
             /\ strong[n] \in Nat
             /\ strong[n] > 0
  <2> DEFINE H == Handles(n, Nodes, Held, NoLists)
  <2>1. IsFiniteSet(H)
    BY FiniteInitially
  <2>2. strong[n] = Cardinality(H)
    BY DEF Init, References
  <2>3. H # {}
    BY HeldAssumption
  <2> HIDE DEF H
  <2>4. Cardinality(H) \in Nat /\ (Cardinality(H) = 0 <=> H = {})
    BY <2>1, FS_CardinalityType, FS_EmptySet
  <2> QED BY <1>1, <2>1, <2>2, <2>3, <2>4 DEF H, References
<1>3. TypeOK
  <2>1. strong \in [Nodes -> Nat]
    BY <1>2 DEF Init
  <2>2. /\ work \in [Threads -> Seq(Seq(Nodes))]
        /\ taken \in [Threads -> Seq(Nodes)]
    BY DEF Init, NoLists
  <2> QED BY <2>1, <2>2, <1>1, ReleaseAssumption DEF TypeOK
<1>4. OneList
  BY <1>1 DEF OneList
<1>5. TakenOnce
  BY <1>1 DEF TakenOnce
<1>6. Counted
  BY <1>2 DEF Counted
<1>7. Reachable
  BY <1>1, <1>2 DEF Reachable, Dying
<1> QED BY <1>3, <1>4, <1>5, <1>6, <1>7 DEF ReleaseInv

--------------------------------------------------------------------------------
(* What Counted says of the next state.                                     *)
LEMMA CountedNext ==
  ASSUME \A n \in Nodes :
           /\ IsFiniteSet(Handles(n, live', handles', work'))
           /\ strong'[n] = Cardinality(Handles(n, live', handles', work'))
  PROVE  Counted'
BY DEF Counted, References, Handles, OwnedHandles, ListedHandles, OperandHandles, Positions

(* A clone is a new handle on a description that has one.                   *)
LEMMA CloneRelease ==
  ASSUME ReleaseInv, NEW t \in Threads, NEW n \in Nodes, Clone(t, n)
  PROVE  ReleaseInv'
<1> USE DEF ReleaseInv
<1> DEFINE new == <<"owned", t, handles'[t][n], 0>>
<1>1. /\ handles' = [handles EXCEPT ![t][n] = @ + 1]
      /\ strong' = [strong EXCEPT ![n] = @ + 1]
      /\ live' = live /\ work' = work /\ taken' = taken
      /\ handles[t][n] \in Nat /\ handles[t][n] >= 1
  BY DEF Clone, TypeOK
<1>2. TypeOK'
  BY <1>1 DEF TypeOK
<1>3. /\ OwnedHandles(n, handles') = OwnedHandles(n, handles) \cup {new}
      /\ new \notin OwnedHandles(n, handles)
      /\ \A m \in Nodes \ {n} : OwnedHandles(m, handles') = OwnedHandles(m, handles)
  <2>1. OwnsMore(handles, handles', t, n)
    BY <1>1, <1>2 DEF TypeOK, OwnsMore
  <2>2. OneOwned(handles, handles', t, n)
    BY <2>1, OwnedMore
  <2> QED BY <2>2 DEF OneOwned
<1>4. new[1] = "owned"
  OBVIOUS
<1> HIDE DEF new
<1>5. /\ Handles(n, live', handles', work') = Handles(n, live, handles, work) \cup {new}
      /\ new \notin Handles(n, live, handles, work)
  <2>1. new \notin ListedHandles(n, work) /\ new \notin OperandHandles(n, live)
    BY <1>4, Kinds
  <2> QED BY <1>1, <1>3, <2>1 DEF Handles
<1>6. \A m \in Nodes \ {n} :
        Handles(m, live', handles', work') = Handles(m, live, handles, work)
  BY <1>1, <1>3 DEF Handles
<1>7. \A m \in Nodes : strong'[m] = IF m = n THEN strong[m] + 1 ELSE strong[m]
  BY <1>1 DEF TypeOK
<1>8. Counted'
  <2> SUFFICES ASSUME NEW m \in Nodes
               PROVE  /\ IsFiniteSet(Handles(m, live', handles', work'))
                      /\ strong'[m] = Cardinality(Handles(m, live', handles', work'))
    BY CountedNext
  <2>1. /\ IsFiniteSet(Handles(m, live, handles, work))
        /\ strong[m] = Cardinality(Handles(m, live, handles, work))
    BY DEF Counted, References
  <2>2. CASE m = n
    BY <1>5, <1>7, <2>1, <2>2, OneMore
  <2>3. CASE m # n
    BY <1>6, <1>7, <2>1, <2>3
  <2> QED BY <2>2, <2>3
<1>9. strong[n] > 0 /\ strong[n] \in Nat
  <2>1. <<"owned", t, 1, 0>> \in OwnedHandles(n, handles)
    <3>1. 1 \in 1..handles[t][n]
      BY <1>1
    <3> QED BY <3>1 DEF OwnedHandles
  <2>2. Handles(n, live, handles, work) # {}
    BY <2>1 DEF Handles
  <2> QED BY <2>2, InUse DEF TypeOK
<1>10. Reachable'
  <2>1. \A m \in Nodes : strong'[m] > 0 <=> strong[m] > 0
    BY <1>7, <1>9
  <2> QED BY <1>1, <2>1 DEF Reachable, Dying
<1>11. OneList' /\ TakenOnce'
  BY <1>1 DEF OneList, TakenOnce
<1> QED BY <1>2, <1>8, <1>10, <1>11

(* A drop moves a handle from its thread to the thread's list.              *)
LEMMA ReleaseRelease ==
  ASSUME ReleaseInv, NEW t \in Threads, NEW n \in Nodes, Release(t, n)
  PROVE  ReleaseInv'
<1> USE DEF ReleaseInv
<1> DEFINE old == <<"owned", t, handles[t][n], 0>>
           new == <<"listed", t, 1, 1>>
           H(m) == Handles(m, live, handles, work)
<1>1. /\ handles' = [handles EXCEPT ![t][n] = @ - 1]
      /\ strong' = strong /\ live' = live /\ taken' = taken
      /\ work' = [work EXCEPT ![t] = <<<<n>>>>]
      /\ work[t] = <<>>
      /\ handles[t][n] \in Nat /\ handles[t][n] > 0
  BY DEF Release, Idle, TypeOK
<1>2. handles' \in [Threads -> [Nodes -> Nat]]
  BY <1>1 DEF TypeOK
<1>3. /\ work' \in [Threads -> Seq(Seq(Nodes))]
      /\ work'[t] = <<<<n>>>>
      /\ \A u \in Threads \ {t} : work'[u] = work[u]
  <2>1. <<<<n>>>> \in Seq(Seq(Nodes))
    OBVIOUS
  <2>2. work \in [Threads -> Seq(Seq(Nodes))]
    BY DEF TypeOK
  <2> QED BY <1>1, <2>1, <2>2
<1>4. TypeOK'
  BY <1>1, <1>2, <1>3 DEF TypeOK
<1>5. /\ OwnedHandles(n, handles) = OwnedHandles(n, handles') \cup {old}
      /\ old \notin OwnedHandles(n, handles')
      /\ \A m \in Nodes \ {n} : OwnedHandles(m, handles) = OwnedHandles(m, handles')
  <2>1. OwnsMore(handles', handles, t, n)
    BY <1>1, <1>2 DEF TypeOK, OwnsMore
  <2>2. OneOwned(handles', handles, t, n)
    BY <2>1, OwnedMore
  <2> QED BY <2>2 DEF OneOwned
<1>6. \A m \in Nodes :
        ListedHandles(m, work') = ListedHandles(m, work) \cup ListOf(t, <<n>>, m)
  <2> SUFFICES ASSUME NEW m \in Nodes
               PROVE  ListedHandles(m, work') = ListedHandles(m, work) \cup ListOf(t, <<n>>, m)
    OBVIOUS
  <2>1. ListedHandles(m, work) = ListedByOthers(t, m, work)
    BY <1>1, ListedNone
  <2>2. ListedHandles(m, work') = ListedByOthers(t, m, work') \cup ListOf(t, <<n>>, m)
    BY <1>3, ListedSplit
  <2>3. ListedByOthers(t, m, work') = ListedByOthers(t, m, work)
    BY <1>3, ListedKept
  <2> QED BY <2>1, <2>2, <2>3
<1>7. /\ ListOf(t, <<n>>, n) = {new}
      /\ \A m \in Nodes \ {n} : ListOf(t, <<n>>, m) = {}
  <2>1. Positions(<<n>>, n) = {1} /\ \A m \in Nodes \ {n} : Positions(<<n>>, m) = {}
    BY DEF Positions
  <2> QED BY <2>1 DEF ListOf
<1>8. new \notin ListedHandles(n, work)
  <2>1. ListedHandles(n, work) = ListedByOthers(t, n, work)
    BY <1>1, ListedNone
  <2> QED BY <2>1 DEF ListedByOthers
<1>9. old[1] = "owned" /\ new[1] = "listed"
  OBVIOUS
<1> HIDE DEF old, new
<1>10. \A m \in Nodes \ {n} : Handles(m, live', handles', work') = H(m)
  BY <1>1, <1>5, <1>6, <1>7 DEF Handles
<1>11. Handles(n, live', handles', work') = (H(n) \ {old}) \cup {new}
  <2>1. old \notin ListedHandles(n, work) /\ old \notin OperandHandles(n, live)
    BY <1>9, Kinds
  <2>2. ListedHandles(n, work') = ListedHandles(n, work) \cup {new}
    BY <1>6, <1>7
  <2>3. OwnedHandles(n, handles') = OwnedHandles(n, handles) \ {old}
    BY <1>5
  <2>4. new # old
    BY <1>9
  <2> QED BY <1>1, <2>1, <2>2, <2>3, <2>4 DEF Handles
<1>12. {old} \subseteq H(n) /\ {new} \cap H(n) = {}
  <2>1. new \notin OwnedHandles(n, handles) /\ new \notin OperandHandles(n, live)
    BY <1>9, Kinds
  <2> QED BY <1>5, <1>8, <2>1 DEF Handles
<1>13. Counted'
  <2> SUFFICES ASSUME NEW m \in Nodes
               PROVE  /\ IsFiniteSet(Handles(m, live', handles', work'))
                      /\ strong'[m] = Cardinality(Handles(m, live', handles', work'))
    BY CountedNext
  <2>1. IsFiniteSet(H(m)) /\ strong[m] = Cardinality(H(m))
    BY DEF Counted, References
  <2> HIDE DEF H
  <2>2. CASE m = n
    <3>1. IsFiniteSet({new}) /\ Cardinality({old}) = Cardinality({new})
      BY FS_Singleton
    <3>2. /\ IsFiniteSet((H(n) \ {old}) \cup {new})
          /\ Cardinality((H(n) \ {old}) \cup {new}) = Cardinality(H(n))
      BY <1>12, <2>1, <2>2, <3>1, Moved
    <3> QED BY <1>1, <1>11, <2>1, <2>2, <3>2
  <2>3. CASE m # n
    BY <1>1, <1>10, <2>1, <2>3
  <2> QED BY <2>2, <2>3
<1>14. Reachable'
  BY <1>1 DEF Reachable, Dying
<1>15. TakenOnce'
  BY <1>1 DEF TakenOnce
<1>16. OneList'
  <2>1. Len(<<<<n>>>>) <= 1 /\ <<<<n>>>> # <<>>
    OBVIOUS
  <2>2. \A u \in Threads : Len(work'[u]) <= 1 /\ (work[u] # <<>> => work'[u] # <<>>)
    BY <1>1, <1>3, <2>1 DEF OneList
  <2> QED BY <1>1, <2>2 DEF OneList
<1> QED BY <1>4, <1>13, <1>14, <1>15, <1>16

(* The last of a list is at its end, and the rest is before it.             *)
LEMMA LastOf ==
  ASSUME NEW s \in Seq(Nodes), s # <<>>
  PROVE  /\ Len(s) \in Nat \ {0}
         /\ Last(s) \in Nodes
         /\ Front(s) \in Seq(Nodes)
         /\ \A m : Positions(Front(s), m) = Positions(s, m) \ {Len(s)}
         /\ Len(s) \in Positions(s, Last(s))
         /\ \A m : m # Last(s) => Len(s) \notin Positions(s, m)
<1>1. Len(s) \in Nat \ {0}
  OBVIOUS
<1>2. PICK k \in Nat : Len(s) = k + 1
  <2>1. Len(s) - 1 \in Nat /\ Len(s) = (Len(s) - 1) + 1
    BY <1>1
  <2> QED BY <2>1
<1>3. Front(s) = SubSeq(s, 1, k)
  <2>1. Len(s) - 1 = k
    BY <1>2
  <2> QED BY <2>1 DEF Front
<1>4. /\ SubSeq(s, 1, k) \in Seq(Nodes)
      /\ Len(SubSeq(s, 1, k)) = k
      /\ \A i \in 1..k : SubSeq(s, 1, k)[i] = s[i]
  BY <1>2
<1>5. \A m : Positions(SubSeq(s, 1, k), m) = {i \in 1..k : s[i] = m}
  BY <1>4 DEF Positions
<1>6. \A m : Positions(s, m) = {i \in 1..(k + 1) : s[i] = m}
  BY <1>2 DEF Positions
<1>7. Last(s) = s[k + 1] /\ s[k + 1] \in Nodes
  BY <1>2 DEF Last
<1>8. \A i : i \in 1..k <=> i \in 1..(k + 1) /\ i # k + 1
  OBVIOUS
<1>9. \A m : Positions(SubSeq(s, 1, k), m) = Positions(s, m) \ {k + 1}
  BY <1>5, <1>6, <1>8
<1> QED BY <1>1, <1>2, <1>3, <1>4, <1>6, <1>7, <1>9

(* A sequence of one element.                                               *)
LEMMA OneElement ==
  ASSUME NEW S, NEW s \in Seq(S), s # <<>>, Len(s) <= 1
  PROVE  /\ Len(s) = 1
         /\ s[1] \in S
         /\ s = <<s[1]>>
         /\ SubSeq(s, 1, 0) = <<>>
<1>1. Len(s) \in Nat
  OBVIOUS
<1>2. Len(s) # 0
  OBVIOUS
<1>3. Len(s) = 1
  BY <1>1, <1>2
<1>4. s[1] \in S
  BY <1>3
<1>5. s = <<s[1]>> /\ SubSeq(s, 1, 0) = <<>>
  BY <1>3
<1> QED BY <1>3, <1>4, <1>5

(* A thread that drops has one list.                                        *)
LEMMA TopList ==
  ASSUME TypeOK, OneList, NEW t \in Threads, work[t] # <<>>
  PROVE  /\ work[t] = <<Innermost(t)>>
         /\ Innermost(t) \in Seq(Nodes)
         /\ Front(work[t]) = <<>>
<1>1. work[t] \in Seq(Seq(Nodes)) /\ Len(work[t]) <= 1
  BY DEF TypeOK, OneList
<1>2. /\ Len(work[t]) = 1
      /\ work[t][1] \in Seq(Nodes)
      /\ work[t] = <<work[t][1]>>
      /\ SubSeq(work[t], 1, 0) = <<>>
  BY <1>1, OneElement
<1>3. Innermost(t) = work[t][1] /\ Front(work[t]) = SubSeq(work[t], 1, 0)
  BY <1>2 DEF Innermost, Last, Front
<1> QED BY <1>2, <1>3

(* The handles on lists when a thread replaces its list.                    *)
ReplacesList(old, new, t, before, after) ==
  /\ old[t] = <<before>>
  /\ new[t] = <<after>>
  /\ \A u \in Threads \ {t} : new[u] = old[u]

(* The handles in the lists are those of the other threads and those of     *)
(* this one's list, before and after.                                       *)
LEMMA ListedReplaced ==
  ASSUME NEW old, NEW new, NEW t \in Threads, NEW before, NEW after, NEW m,
         ReplacesList(old, new, t, before, after)
  PROVE  /\ ListedHandles(m, old) = ListedByOthers(t, m, old) \cup ListOf(t, before, m)
         /\ ListedHandles(m, new) = ListedByOthers(t, m, old) \cup ListOf(t, after, m)
         /\ \A k : <<"listed", t, 1, k>> \notin ListedByOthers(t, m, old)
<1> USE DEF ReplacesList
<1>1. ListedHandles(m, old) = ListedByOthers(t, m, old) \cup ListOf(t, before, m)
  BY ListedSplit
<1>2. ListedHandles(m, new) = ListedByOthers(t, m, new) \cup ListOf(t, after, m)
  BY ListedSplit
<1>3. ListedByOthers(t, m, new) = ListedByOthers(t, m, old)
  BY ListedKept
<1>4. \A k : <<"listed", t, 1, k>> \notin ListedByOthers(t, m, old)
  BY DEF ListedByOthers
<1> QED BY <1>1, <1>2, <1>3, <1>4

(* The last handle of the list goes, and with it, maybe, the description.   *)
LEMMA DecrementRelease ==
  ASSUME ReleaseInv, NEW t \in Threads, Decrement(t)
  PROVE  ReleaseInv'
<1> USE DEF ReleaseInv
<1> PICK s : s = Innermost(t)
  OBVIOUS
<1> PICK n : n = Last(s)
  OBVIOUS
<1> DEFINE gone == <<"listed", t, 1, Len(s)>>
           H(m) == Handles(m, live, handles, work)
<1>1. /\ work[t] # <<>> /\ taken[t] = <<>> /\ s # <<>>
      /\ work' = [work EXCEPT ![t] = Append(Front(work[t]), Front(s))]
      /\ strong' = [strong EXCEPT ![n] = @ - 1]
      /\ taken' = [taken EXCEPT ![t] = IF strong[n] = 1 THEN <<n>> ELSE <<>>]
      /\ live' = live /\ handles' = handles
  BY DEF Decrement, Draining
<1>2. work[t] = <<s>> /\ s \in Seq(Nodes) /\ Front(work[t]) = <<>>
  BY <1>1, TopList
<1>3. /\ Len(s) \in Nat \ {0}
      /\ n \in Nodes
      /\ Front(s) \in Seq(Nodes)
      /\ \A m : Positions(Front(s), m) = Positions(s, m) \ {Len(s)}
      /\ Len(s) \in Positions(s, n)
      /\ \A m : m # n => Len(s) \notin Positions(s, m)
  BY <1>1, <1>2, LastOf
<1>4. /\ work'[t] = <<Front(s)>>
      /\ \A u \in Threads \ {t} : work'[u] = work[u]
      /\ work' \in [Threads -> Seq(Seq(Nodes))]
  <2>1. work \in [Threads -> Seq(Seq(Nodes))]
    BY DEF TypeOK
  <2>2. Append(Front(work[t]), Front(s)) = <<Front(s)>>
    BY <1>2
  <2>3. <<Front(s)>> \in Seq(Seq(Nodes))
    BY <1>3
  <2> QED BY <1>1, <2>1, <2>2, <2>3
<1>a. ReplacesList(work, work', t, s, Front(s))
  BY <1>2, <1>4 DEF ReplacesList
<1>5. \A m \in Nodes : ListedHandles(m, work') = ListedHandles(m, work) \ {gone}
  <2> SUFFICES ASSUME NEW m \in Nodes
               PROVE  ListedHandles(m, work') = ListedHandles(m, work) \ {gone}
    OBVIOUS
  <2>1. /\ ListedHandles(m, work) = ListedByOthers(t, m, work) \cup ListOf(t, s, m)
        /\ ListedHandles(m, work') = ListedByOthers(t, m, work) \cup ListOf(t, Front(s), m)
        /\ gone \notin ListedByOthers(t, m, work)
    BY <1>a, ListedReplaced
  <2>2. ListOf(t, Front(s), m) = ListOf(t, s, m) \ {gone}
    BY <1>3 DEF ListOf
  <2> QED BY <2>1, <2>2
<1>6. gone \in ListedHandles(n, work)
  <2>1. gone \in ListOf(t, s, n)
    BY <1>3 DEF ListOf
  <2> QED BY <1>2, <2>1, ListedSplit
<1>7. \A m \in Nodes \ {n} : gone \notin ListedHandles(m, work)
  <2> SUFFICES ASSUME NEW m \in Nodes \ {n} PROVE gone \notin ListedHandles(m, work)
    OBVIOUS
  <2>1. /\ ListedHandles(m, work) = ListedByOthers(t, m, work) \cup ListOf(t, s, m)
        /\ gone \notin ListedByOthers(t, m, work)
    BY <1>a, ListedReplaced
  <2>2. gone \notin ListOf(t, s, m)
    BY <1>3 DEF ListOf
  <2> QED BY <2>1, <2>2
<1>8. gone[1] = "listed"
  OBVIOUS
<1> HIDE DEF gone
<1>9. \A m \in Nodes : Handles(m, live', handles', work') = H(m) \ {gone}
  <2>1. \A m \in Nodes : gone \notin OwnedHandles(m, handles)
                         /\ gone \notin OperandHandles(m, live)
    BY <1>8, Kinds
  <2> QED BY <1>1, <1>5, <2>1 DEF Handles
<1>10. gone \in H(n) /\ \A m \in Nodes \ {n} : gone \notin H(m)
  <2>1. \A m \in Nodes : gone \notin OwnedHandles(m, handles)
                         /\ gone \notin OperandHandles(m, live)
    BY <1>8, Kinds
  <2> QED BY <1>6, <1>7, <2>1 DEF Handles
<1>11. strong[n] \in Nat /\ strong[n] > 0
  <2>1. H(n) # {}
    BY <1>10
  <2> QED BY <1>3, <2>1, InUse DEF TypeOK
<1>12. \A m \in Nodes : strong'[m] = IF m = n THEN strong[m] - 1 ELSE strong[m]
  BY <1>1, <1>3 DEF TypeOK
<1>13. strong' \in [Nodes -> Nat]
  BY <1>1, <1>3, <1>11 DEF TypeOK
<1>14. /\ taken' \in [Threads -> Seq(Nodes)]
       /\ taken'[t] = IF strong[n] = 1 THEN <<n>> ELSE <<>>
       /\ \A u \in Threads \ {t} : taken'[u] = taken[u]
  BY <1>1, <1>3 DEF TypeOK
<1>15. TypeOK'
  BY <1>1, <1>4, <1>13, <1>14 DEF TypeOK
<1>16. n \in live /\ ~Dying(n)
  BY <1>3, <1>11 DEF Reachable
<1>17. OneList'
  <2>1. Len(work'[t]) <= 1 /\ work'[t] # <<>>
    BY <1>4
  <2>2. Len(taken'[t]) <= 1 /\ (taken'[t] # <<>> => taken'[t][1] \in live)
    BY <1>14, <1>16
  <2> QED BY <1>1, <1>4, <1>14, <2>1, <2>2 DEF OneList
<1>18. TakenOnce'
  <2>1. taken'[t] # <<>> => taken'[t][1] = n
    BY <1>14
  <2>2. \A u \in Threads : taken[u] # <<>> => taken[u][1] # n
    BY <1>16 DEF Dying
  <2> QED BY <1>14, <2>1, <2>2 DEF TakenOnce
<1>19. Counted'
  <2> SUFFICES ASSUME NEW m \in Nodes
               PROVE  /\ IsFiniteSet(Handles(m, live', handles', work'))
                      /\ strong'[m] = Cardinality(Handles(m, live', handles', work'))
    BY CountedNext
  <2>1. IsFiniteSet(H(m)) /\ strong[m] = Cardinality(H(m))
    BY DEF Counted, References
  <2>2. /\ IsFiniteSet(H(m) \ {gone})
        /\ Cardinality(H(m) \ {gone})
             = IF gone \in H(m) THEN Cardinality(H(m)) - 1 ELSE Cardinality(H(m))
    BY <2>1, FS_RemoveElement
  <2> HIDE DEF H
  <2> QED BY <1>9, <1>10, <1>12, <2>1, <2>2
<1>20. Reachable'
  <2> SUFFICES ASSUME NEW m \in Nodes
               PROVE  strong'[m] > 0 <=> m \in live /\ ~Dying(m)'
    BY <1>1 DEF Reachable
  <2>1. CASE m # n
    <3>1. Dying(m)' <=> Dying(m)
      BY <1>1, <1>14, <2>1 DEF Dying
    <3> QED BY <1>12, <2>1, <3>1 DEF Reachable
  <2>2. CASE m = n /\ strong[n] = 1
    <3>1. Dying(n)'
      BY <1>14, <2>2 DEF Dying
    <3> QED BY <1>12, <2>2, <3>1
  <2>3. CASE m = n /\ strong[n] # 1
    <3>1. ~Dying(n)'
      BY <1>14, <1>16, <2>3 DEF Dying
    <3> QED BY <1>11, <1>12, <1>16, <2>3, <3>1
  <2> QED BY <2>1, <2>2, <2>3
<1> QED BY <1>15, <1>17, <1>18, <1>19, <1>20

(* The handles that a description holds, and the places they are moved to   *)
(* when they are detached onto a list of given length.                      *)
OperandsOf(n, m) == {<<"operand", n, k, 0>> : k \in Positions(Operands[n], m)}
DetachedTo(t, len, n, m) ==
  {<<"listed", t, 1, len + k>> : k \in Positions(Operands[n], m)}

(* The places are as many as the handles.                                   *)
LEMMA AsManyDetached ==
  ASSUME NEW t, NEW len \in Nat, NEW n \in Nodes, NEW m \in Nodes,
         IsFiniteSet(OperandsOf(n, m))
  PROVE  /\ IsFiniteSet(DetachedTo(t, len, n, m))
         /\ Cardinality(OperandsOf(n, m)) = Cardinality(DetachedTo(t, len, n, m))
<1> DEFINE A == OperandsOf(n, m)
           B == DetachedTo(t, len, n, m)
           f == [h \in A |-> <<"listed", t, 1, len + h[3]>>]
<1>1. Positions(Operands[n], m) \subseteq Nat
  <2>1. Operands[n] \in Seq(Nodes)
    BY ReleaseAssumption
  <2> QED BY <2>1 DEF Positions
<1>2. \A h \in A : h[3] \in Positions(Operands[n], m) /\ h = <<"operand", n, h[3], 0>>
  BY DEF OperandsOf
<1>3. f \in [A -> B]
  BY <1>2 DEF DetachedTo
<1>4. \A g, h \in A : f[g] = f[h] => g = h
  <2> SUFFICES ASSUME NEW g \in A, NEW h \in A, f[g] = f[h] PROVE g = h
    OBVIOUS
  <2>1. len + g[3] = len + h[3]
    OBVIOUS
  <2>2. g[3] \in Nat /\ h[3] \in Nat
    BY <1>1, <1>2
  <2>3. g[3] = h[3]
    BY <2>1, <2>2
  <2> QED BY <1>2, <2>3
<1>5. \A b \in B : \E h \in A : f[h] = b
  <2> SUFFICES ASSUME NEW k \in Positions(Operands[n], m)
               PROVE  \E h \in A : f[h] = <<"listed", t, 1, len + k>>
    BY DEF DetachedTo
  <2>1. <<"operand", n, k, 0>> \in A
    BY DEF OperandsOf
  <2>2. f[<<"operand", n, k, 0>>] = <<"listed", t, 1, len + k>>
    BY <2>1
  <2> QED BY <2>1, <2>2
<1> HIDE DEF A, B, f
<1>6. f \in Bijection(A, B)
  BY <1>3, <1>4, <1>5 DEF Bijection, Injection, IsInjective, Surjection
<1>7. ExistsBijection(A, B)
  BY <1>6 DEF ExistsBijection
<1>8. IsFiniteSet(A)
  BY DEF A
<1>9. IsFiniteSet(B) /\ Cardinality(B) = Cardinality(A)
  BY <1>7, <1>8, FS_Bijection
<1> QED BY <1>9 DEF A, B

(* The handles on a list to which another is appended.                      *)
LEMMA PositionsOfBoth ==
  ASSUME NEW s \in Seq(Nodes), NEW ops \in Seq(Nodes)
  PROVE  /\ s \o ops \in Seq(Nodes)
         /\ \A m, k : k \in Positions(s \o ops, m)
              <=> k \in Positions(s, m)
                    \/ \E i \in Positions(ops, m) : k = Len(s) + i
         /\ \A m : \A i \in Positions(ops, m) : Len(s) + i \notin Positions(s, m)
<1>1. Len(s) \in Nat /\ Len(ops) \in Nat
  OBVIOUS
<1>2. /\ \A m : Positions(s, m) = {k \in 1..Len(s) : s[k] = m}
      /\ \A m : Positions(ops, m) = {k \in 1..Len(ops) : ops[k] = m}
  BY DEF Positions
<1>3. s \o ops \in Seq(Nodes)
  OBVIOUS
<1>4. /\ DOMAIN (s \o ops) = 1..(Len(s) + Len(ops))
      /\ \A k \in 1..Len(s) : (s \o ops)[k] = s[k]
      /\ \A k \in 1..(Len(s) + Len(ops)) : k > Len(s) => (s \o ops)[k] = ops[k - Len(s)]
  OBVIOUS
<1>5. \A m : Positions(s \o ops, m) = {k \in 1..(Len(s) + Len(ops)) : (s \o ops)[k] = m}
  BY <1>4 DEF Positions
<1> DEFINE j == s \o ops
<1> HIDE DEF j
<1>6. ASSUME NEW m, NEW k, k \in Positions(j, m)
      PROVE  k \in Positions(s, m) \/ \E i \in Positions(ops, m) : k = Len(s) + i
  <2>1. k \in 1..(Len(s) + Len(ops)) /\ j[k] = m
    BY <1>5, <1>6 DEF j
  <2>2. CASE k <= Len(s)
    <3>1. k \in 1..Len(s)
      BY <1>1, <2>1, <2>2
    <3> QED BY <1>2, <1>4, <2>1, <3>1 DEF j
  <2>3. CASE k > Len(s)
    <3>1. k - Len(s) \in 1..Len(ops) /\ k = Len(s) + (k - Len(s))
      BY <1>1, <2>1, <2>3
    <3>2. ops[k - Len(s)] = m
      BY <1>4, <2>1, <2>3 DEF j
    <3>3. k - Len(s) \in Positions(ops, m)
      BY <1>2, <3>1, <3>2
    <3> QED BY <3>1, <3>3
  <2> QED BY <1>1, <2>1, <2>2, <2>3
<1>7. ASSUME NEW m, NEW k \in Positions(s, m)
      PROVE  k \in Positions(j, m)
  <2>1. k \in 1..Len(s) /\ s[k] = m
    BY <1>2
  <2>2. k \in 1..(Len(s) + Len(ops))
    BY <1>1, <2>1
  <2>3. j[k] = m
    BY <1>4, <2>1 DEF j
  <2> QED BY <1>5, <2>2, <2>3 DEF j
<1>8. ASSUME NEW m, NEW i \in Positions(ops, m)
      PROVE  Len(s) + i \in Positions(j, m) /\ Len(s) + i \notin Positions(s, m)
  <2>1. i \in 1..Len(ops) /\ ops[i] = m
    BY <1>2
  <2>2. /\ Len(s) + i \in 1..(Len(s) + Len(ops))
        /\ Len(s) + i > Len(s)
        /\ (Len(s) + i) - Len(s) = i
        /\ Len(s) + i \notin 1..Len(s)
    BY <1>1, <2>1
  <2>3. j[Len(s) + i] = ops[(Len(s) + i) - Len(s)]
    BY <1>4, <2>2 DEF j
  <2>4. j[Len(s) + i] = m
    BY <2>1, <2>2, <2>3
  <2> QED BY <1>2, <1>5, <2>2, <2>4 DEF j
<1> QED BY <1>3, <1>6, <1>7, <1>8 DEF j

(* The operands of the description that a thread destroys move to its list. *)
LEMMA DestroyRelease ==
  ASSUME ReleaseInv, NEW t \in Threads, Destroy(t)
  PROVE  ReleaseInv'
<1> USE DEF ReleaseInv
<1> PICK s : s = Innermost(t)
  OBVIOUS
<1> PICK n : n = taken[t][1]
  OBVIOUS
<1> PICK ops : ops = Operands[n]
  OBVIOUS
<1> PICK len : len = Len(s)
  OBVIOUS
<1> DEFINE H(m) == Handles(m, live, handles, work)
           A(m) == OperandsOf(n, m)
           B(m) == DetachedTo(t, len, n, m)
<1>1. /\ taken[t] # <<>> /\ work[t] # <<>> /\ n \in live /\ n \in Nodes /\ Dying(n)
      /\ ops \in Seq(Nodes)
  BY ReleaseAssumption DEF Destroy, OneList, TypeOK, Dying
<1>2. /\ work[t] = <<s>> /\ s \in Seq(Nodes) /\ Front(work[t]) = <<>>
      /\ len \in Nat
  BY <1>1, TopList
<1>3. /\ live' = live \ {n}
      /\ taken' = [taken EXCEPT ![t] = <<>>]
      /\ strong' = strong /\ handles' = handles
      /\ work' = [work EXCEPT ![t] = <<s \o ops>>]
  <2>1. SubSeq(ops, Len(ops) + 1, Len(ops)) = <<>>
    <3>1. Len(ops) \in Nat
      BY <1>1
    <3> QED BY <1>1, <3>1
  <2>2. Append(Front(work[t]), s \o ops) = <<s \o ops>>
    <3>1. \A x : Append(<<>>, x) = <<x>>
      OBVIOUS
    <3> QED BY <1>2, <3>1
  <2> QED BY <2>1, <2>2 DEF Destroy, Detached
<1>4. /\ s \o ops \in Seq(Nodes)
      /\ \A m, k : k \in Positions(s \o ops, m)
           <=> k \in Positions(s, m) \/ \E i \in Positions(ops, m) : k = len + i
      /\ \A m : \A i \in Positions(ops, m) : len + i \notin Positions(s, m)
  BY <1>1, <1>2, PositionsOfBoth
<1> PICK both : both = s \o ops
  OBVIOUS
<1>5. /\ work'[t] = <<both>>
      /\ \A u \in Threads \ {t} : work'[u] = work[u]
      /\ work' \in [Threads -> Seq(Seq(Nodes))]
  <2>1. work \in [Threads -> Seq(Seq(Nodes))]
    BY DEF TypeOK
  <2>2. <<both>> \in Seq(Seq(Nodes))
    BY <1>4
  <2> QED BY <1>3, <2>1, <2>2
<1>6. ReplacesList(work, work', t, s, both)
  BY <1>2, <1>5 DEF ReplacesList
<1>7. \A m \in Nodes :
        /\ ListedHandles(m, work') = ListedHandles(m, work) \cup B(m)
        /\ ListedHandles(m, work) \cap B(m) = {}
  <2> SUFFICES ASSUME NEW m \in Nodes
               PROVE  /\ ListedHandles(m, work') = ListedHandles(m, work) \cup B(m)
                      /\ ListedHandles(m, work) \cap B(m) = {}
    OBVIOUS
  <2>1. /\ ListedHandles(m, work) = ListedByOthers(t, m, work) \cup ListOf(t, s, m)
        /\ ListedHandles(m, work') = ListedByOthers(t, m, work) \cup ListOf(t, both, m)
        /\ \A k : <<"listed", t, 1, k>> \notin ListedByOthers(t, m, work)
    BY <1>6, ListedReplaced
  <2>2. ListOf(t, both, m) = ListOf(t, s, m) \cup B(m)
    BY <1>4 DEF ListOf, DetachedTo
  <2>3. ListOf(t, s, m) \cap B(m) = {}
    BY <1>4 DEF ListOf, DetachedTo
  <2>4. ListedByOthers(t, m, work) \cap B(m) = {}
    BY <2>1 DEF DetachedTo
  <2> QED BY <2>1, <2>2, <2>3, <2>4
<1>8. \A m \in Nodes :
        /\ OperandHandles(m, live') = OperandHandles(m, live) \ A(m)
        /\ A(m) \subseteq OperandHandles(m, live)
  BY <1>1, <1>3 DEF OperandHandles, OperandsOf
<1>9. \A m \in Nodes : /\ \A h \in A(m) : h[1] = "operand"
                      /\ \A h \in B(m) : h[1] = "listed"
  BY DEF OperandsOf, DetachedTo
<1>10. \A m \in Nodes :
         /\ Handles(m, live', handles', work') = (H(m) \ A(m)) \cup B(m)
         /\ A(m) \subseteq H(m)
         /\ B(m) \cap H(m) = {}
  <2> SUFFICES ASSUME NEW m \in Nodes
               PROVE  /\ Handles(m, live', handles', work') = (H(m) \ A(m)) \cup B(m)
                      /\ A(m) \subseteq H(m)
                      /\ B(m) \cap H(m) = {}
    OBVIOUS
  <2> HIDE DEF A, B
  <2>1. /\ \A h \in OwnedHandles(m, handles) : h[1] = "owned"
        /\ \A h \in ListedHandles(m, work) : h[1] = "listed"
        /\ \A h \in OperandHandles(m, live) : h[1] = "operand"
    BY Kinds
  <2>2. /\ OwnedHandles(m, handles) \cap A(m) = {}
        /\ ListedHandles(m, work) \cap A(m) = {}
        /\ OwnedHandles(m, handles) \cap B(m) = {}
        /\ OperandHandles(m, live) \cap B(m) = {}
        /\ A(m) \cap B(m) = {}
    BY <1>9, <2>1
  <2>3. Handles(m, live', handles', work')
          = OwnedHandles(m, handles) \cup (ListedHandles(m, work) \cup B(m))
              \cup (OperandHandles(m, live) \ A(m))
    BY <1>3, <1>7, <1>8 DEF Handles
  <2>4. H(m) = OwnedHandles(m, handles) \cup ListedHandles(m, work)
                 \cup OperandHandles(m, live)
    BY DEF Handles
  <2>5. A(m) \subseteq OperandHandles(m, live) /\ ListedHandles(m, work) \cap B(m) = {}
    BY <1>7, <1>8
  <2> HIDE DEF H
  <2> QED BY <2>2, <2>3, <2>4, <2>5
<1>11. Counted'
  <2> SUFFICES ASSUME NEW m \in Nodes
               PROVE  /\ IsFiniteSet(Handles(m, live', handles', work'))
                      /\ strong'[m] = Cardinality(Handles(m, live', handles', work'))
    BY CountedNext
  <2>1. IsFiniteSet(H(m)) /\ strong[m] = Cardinality(H(m))
    BY DEF Counted, References
  <2> HIDE DEF H
  <2>2. IsFiniteSet(A(m))
    BY <1>10, <2>1, FS_Subset
  <2>3. IsFiniteSet(B(m)) /\ Cardinality(A(m)) = Cardinality(B(m))
    BY <1>1, <1>2, <2>2, AsManyDetached
  <2> HIDE DEF A, B
  <2>4. /\ IsFiniteSet((H(m) \ A(m)) \cup B(m))
        /\ Cardinality((H(m) \ A(m)) \cup B(m)) = Cardinality(H(m))
    BY <1>10, <2>1, <2>3, Moved
  <2> QED BY <1>3, <1>10, <2>1, <2>4
<1>12. /\ taken' \in [Threads -> Seq(Nodes)]
       /\ taken'[t] = <<>>
       /\ \A u \in Threads \ {t} : taken'[u] = taken[u]
  BY <1>3 DEF TypeOK
<1>13. \A u \in Threads \ {t} : taken[u] # <<>> => taken[u][1] # n
  BY <1>1 DEF TakenOnce
<1>14. TypeOK'
  BY <1>3, <1>5, <1>12 DEF TypeOK
<1>15. OneList'
  <2>1. Len(work'[t]) <= 1
    BY <1>5
  <2> QED BY <1>3, <1>5, <1>12, <1>13, <2>1 DEF OneList
<1>16. TakenOnce'
  BY <1>12 DEF TakenOnce
<1>17. Reachable'
  <2> SUFFICES ASSUME NEW m \in Nodes
               PROVE  strong[m] > 0 <=> m \in live \ {n} /\ ~Dying(m)'
    BY <1>3 DEF Reachable
  <2>1. CASE m # n
    <3>1. Dying(m)' <=> Dying(m)
      BY <1>12, <2>1 DEF Dying
    <3> QED BY <2>1, <3>1 DEF Reachable
  <2>2. CASE m = n
    BY <1>1, <2>2 DEF Reachable
  <2> QED BY <2>1, <2>2
<1> QED BY <1>11, <1>14, <1>15, <1>16, <1>17

(* An empty list holds no handle.                                           *)
LEMMA ReturnRelease ==
  ASSUME ReleaseInv, NEW t \in Threads, Return(t)
  PROVE  ReleaseInv'
<1> USE DEF ReleaseInv
<1>1. /\ work[t] # <<>> /\ taken[t] = <<>> /\ Innermost(t) = <<>>
      /\ work' = [work EXCEPT ![t] = Front(work[t])]
      /\ strong' = strong /\ live' = live /\ handles' = handles /\ taken' = taken
  BY DEF Return, Draining
<1>2. work[t] = <<<<>>>> /\ Front(work[t]) = <<>>
  BY <1>1, TopList
<1>3. /\ work'[t] = <<>>
      /\ \A u \in Threads \ {t} : work'[u] = work[u]
      /\ work' \in [Threads -> Seq(Seq(Nodes))]
  <2>1. work \in [Threads -> Seq(Seq(Nodes))]
    BY DEF TypeOK
  <2>2. <<>> \in Seq(Seq(Nodes))
    OBVIOUS
  <2> QED BY <1>1, <1>2, <2>1, <2>2
<1>4. \A m \in Nodes : ListedHandles(m, work') = ListedHandles(m, work)
  <2> SUFFICES ASSUME NEW m \in Nodes
               PROVE  ListedHandles(m, work') = ListedHandles(m, work)
    OBVIOUS
  <2>1. ListedHandles(m, work) = ListedByOthers(t, m, work) \cup ListOf(t, <<>>, m)
    BY <1>2, ListedSplit
  <2>2. ListOf(t, <<>>, m) = {}
    BY DEF ListOf, Positions
  <2>3. ListedHandles(m, work') = ListedByOthers(t, m, work')
    BY <1>3, ListedNone
  <2>4. ListedByOthers(t, m, work') = ListedByOthers(t, m, work)
    BY <1>3, ListedKept
  <2> QED BY <2>1, <2>2, <2>3, <2>4
<1>5. Counted'
  <2> SUFFICES ASSUME NEW m \in Nodes
               PROVE  /\ IsFiniteSet(Handles(m, live', handles', work'))
                      /\ strong'[m] = Cardinality(Handles(m, live', handles', work'))
    BY CountedNext
  <2>1. Handles(m, live', handles', work') = Handles(m, live, handles, work)
    BY <1>1, <1>4 DEF Handles
  <2> QED BY <1>1, <2>1 DEF Counted, References
<1>6. TypeOK'
  BY <1>1, <1>3 DEF TypeOK
<1>7. OneList'
  <2>1. Len(work'[t]) <= 1
    BY <1>3
  <2> QED BY <1>1, <1>3, <2>1 DEF OneList
<1>8. TakenOnce' /\ Reachable'
  BY <1>1 DEF TakenOnce, Reachable, Dying
<1> QED BY <1>5, <1>6, <1>7, <1>8

(* Each step of the release preserves the invariant.                        *)
LEMMA NextRelease ==
  ReleaseInv /\ [Next]_vars => ReleaseInv'
<1> SUFFICES ASSUME ReleaseInv, [Next]_vars PROVE ReleaseInv'
  OBVIOUS
<1>1. ASSUME NEW t \in Threads, Drop(t) PROVE ReleaseInv'
  BY <1>1, DecrementRelease, DestroyRelease, ReturnRelease DEF Drop
<1>2. ASSUME NEW t \in Threads, NEW n \in Nodes, Clone(t, n) \/ Release(t, n)
      PROVE  ReleaseInv'
  BY <1>2, CloneRelease, ReleaseRelease
<1>3. ASSUME UNCHANGED vars PROVE ReleaseInv'
  <2>1. Counted'
    BY <1>3 DEF vars, ReleaseInv, Counted, References, Handles
  <2>2. TypeOK' /\ OneList' /\ TakenOnce' /\ Reachable'
    BY <1>3 DEF vars, ReleaseInv, TypeOK, OneList, TakenOnce, Reachable, Dying
  <2> QED BY <2>1, <2>2 DEF ReleaseInv
<1> QED BY <1>1, <1>2, <1>3 DEF Next

(* However threads clone and drop the handles on shared expressions, each   *)
(* count is the number of handles and only what has none is destroyed       *)
(* (Arc::drain and Drop::drop of src/owned.rs).                             *)
THEOREM ReleaseCountsAreExact == Spec => []CountsAreExact
<1>1. ReleaseInv => CountsAreExact
  <2> SUFFICES ASSUME ReleaseInv, NEW n \in Nodes
               PROVE  /\ strong[n] = References(n, live, handles, work)
                      /\ strong[n] > 0
                           <=> n \in live \ {taken[t][1] : t \in {u \in Threads : taken[u] # <<>>}}
    BY DEF CountsAreExact
  <2>1. strong[n] = References(n, live, handles, work)
    BY DEF ReleaseInv, Counted
  <2>2. Dying(n) <=> n \in {taken[t][1] : t \in {u \in Threads : taken[u] # <<>>}}
    BY DEF Dying
  <2> QED BY <2>1, <2>2 DEF ReleaseInv, Reachable
<1> QED BY <1>1, InitRelease, NextRelease, PTL DEF Spec

(* A description is destroyed from the loop of the outermost drop, never    *)
(* from within the destructor of another one (Arc::drain of src/owned.rs).  *)
THEOREM DestructionNeverNests == Spec => []DestructionIsFlat
<1>1. ReleaseInv => DestructionIsFlat
  <2> SUFFICES ASSUME ReleaseInv, NEW t \in Threads, taken[t] # <<>>
               PROVE  Len(work[t]) = 1
    BY DEF DestructionIsFlat
  <2>1. work[t] \in Seq(Seq(Nodes)) /\ work[t] # <<>> /\ Len(work[t]) <= 1
    BY DEF ReleaseInv, OneList, TypeOK
  <2> QED BY <2>1, OneElement
<1> QED BY <1>1, InitRelease, NextRelease, PTL DEF Spec

(* The variables of the release hold what their descriptions say.           *)
THEOREM ReleaseTypes == Spec => []TypeOK
<1>1. ReleaseInv => TypeOK
  BY DEF ReleaseInv
<1> QED BY <1>1, InitRelease, NextRelease, PTL DEF Spec
================================================================================
