--------------------------- MODULE DenseStorageProofs --------------------------
(****************************************************************************)
(* Proofs about DenseStorage for any number of tasks, blocks and offsets    *)
(* and any window.                                                          *)
(*                                                                          *)
(* GuardInv is the inductive invariant: the queues are exactly the tasks    *)
(* that wait, each once; only operations that have not ended wait or hold;  *)
(* and one that is not a reader waits for the block it is to write, and     *)
(* holds nothing.  That nobody waits in a circle follows: of the blocks     *)
(* that are waited for take the least.  If the first in its queue cannot go *)
(* on, a reader has the block and waits itself, and for a lesser block.     *)
(*                                                                          *)
(* ReaderInv adds what a batch read has got so far: the blocks it has used, *)
(* those in its window and those to come follow one another.                *)
(****************************************************************************)
EXTENDS DenseStorage, SequenceTheorems, WellFoundedInduction, FiniteSetTheorems, TLAPS

(* Of two numbers, the one that is not greater is at most the other.        *)
LEMMA NotGreater ==
  ASSUME NEW x \in Nat, NEW y \in Nat, ~(y < x)
  PROVE  x <= y
OBVIOUS

(* A non-empty set of numbers has a least one.                              *)
LEMMA LeastOf ==
  ASSUME NEW S \in SUBSET Nat, S # {}
  PROVE  Least(S) \in S /\ \A c \in S : Least(S) <= c
<1> DEFINE R == OpToRel(<, Nat)
<1>1. IsWellFoundedOn(R, Nat)
  BY NatLessThanWellFounded
<1>2. \E x \in S : \A y \in S : ~(<<y, x>> \in R)
  <2> HIDE DEF R
  <2> QED BY <1>1, WFMin
<1>3. \A x, y \in S : ~(<<y, x>> \in R) => x <= y
  <2> SUFFICES ASSUME NEW x \in S, NEW y \in S, ~(<<y, x>> \in R) PROVE x <= y
    OBVIOUS
  <2>1. x \in Nat /\ y \in Nat /\ <<y, x>> \in Nat \X Nat
    OBVIOUS
  <2>2. ~(y < x)
    BY <2>1 DEF OpToRel
  <2> QED BY <2>1, <2>2, NotGreater
<1>4. \E x \in S : \A y \in S : x <= y
  BY <1>2, <1>3
<1> QED BY <1>4 DEF Least

(* Blocks are numbers, and a set of them has a least one.                   *)
LEMMA LeastBlock ==
  ASSUME NEW S \in SUBSET Blocks, S # {}
  PROVE  Least(S) \in S /\ \A c \in S : Least(S) <= c
<1>1. S \in SUBSET Nat
  BY DenseAssumption DEF Blocks
<1> QED BY <1>1, LeastOf

--------------------------------------------------------------------------------
(* Queues.                                                                  *)
Contains(q, s) == \E k \in DOMAIN q : q[k] = s
NoRepeats(q) == \A j, k \in DOMAIN q : q[j] = q[k] => j = k

(* A task that asks for a guard is last in the queue.                       *)
LEMMA AppendFacts ==
  ASSUME NEW q \in Seq(Tasks), NEW t \in Tasks, NoRepeats(q), ~Contains(q, t)
  PROVE  /\ Append(q, t) \in Seq(Tasks)
         /\ NoRepeats(Append(q, t))
         /\ \A s \in Tasks : Contains(Append(q, t), s) <=> (Contains(q, s) \/ s = t)
<1>1. /\ Append(q, t) \in Seq(Tasks)
      /\ DOMAIN Append(q, t) = 1..(Len(q) + 1)
      /\ \A k \in 1..Len(q) : Append(q, t)[k] = q[k]
      /\ Append(q, t)[Len(q) + 1] = t
  BY AppendProperties
<1>2. DOMAIN q = 1..Len(q) /\ Len(q) \in Nat
  BY LenProperties
<1>3. \A k \in 1..(Len(q) + 1) : k \in 1..Len(q) \/ k = Len(q) + 1
  BY <1>2
<1>4. 1..Len(q) \subseteq 1..(Len(q) + 1) /\ Len(q) + 1 \in 1..(Len(q) + 1)
  BY <1>2
<1>5. NoRepeats(Append(q, t))
  BY <1>1, <1>2, <1>3 DEF NoRepeats, Contains
<1>6. \A s \in Tasks : Contains(Append(q, t), s) <=> (Contains(q, s) \/ s = t)
  BY <1>1, <1>2, <1>3, <1>4 DEF Contains
<1> QED BY <1>1, <1>5, <1>6

(* A place in a queue, and the places behind it, when one place is left.    *)
LEMMA Positions ==
  ASSUME NEW n \in Nat, NEW at \in 1..n
  PROVE  /\ n - 1 \in Nat
         /\ \A k \in 1..(n - 1) : k \in 1..n /\ k + 1 \in 1..n
         /\ \A k \in 1..n : k < at => k \in 1..(n - 1)
         /\ \A k \in 1..n : k # at /\ ~(k < at) =>
              /\ k - 1 \in 1..(n - 1) /\ ~(k - 1 < at) /\ (k - 1) + 1 = k
OBVIOUS

(* A task that leaves a queue was in it once, and the others stay.          *)
LEMMA WithoutFacts ==
  ASSUME NEW q \in Seq(Tasks), NEW t \in Tasks, NoRepeats(q)
  PROVE  /\ Without(q, t) \in Seq(Tasks)
         /\ NoRepeats(Without(q, t))
         /\ \A s \in Tasks : Contains(Without(q, t), s) <=> (Contains(q, s) /\ s # t)
<1>1. CASE ~Contains(q, t)
  BY <1>1 DEF Without, Contains
<1>2. CASE Contains(q, t)
  <2> DEFINE n == Len(q)
             at == CHOOSE k \in DOMAIN q : q[k] = t
             w == [k \in 1..(n - 1) |-> IF k < at THEN q[k] ELSE q[k + 1]]
  <2>1. DOMAIN q = 1..n /\ n \in Nat /\ \A k \in 1..n : q[k] \in Tasks
    BY LenProperties, ElementOfSeq
  <2>2. at \in 1..n /\ q[at] = t
    BY <1>2, <2>1 DEF Contains
  <2>3. Without(q, t) = w
    BY <1>2 DEF Without, Contains
  <2> HIDE DEF at
  <2>4. n - 1 \in Nat /\ \A k \in 1..(n - 1) : k \in 1..n /\ k + 1 \in 1..n
    BY <2>1, <2>2, Positions
  <2>5. \A k \in 1..(n - 1) : w[k] \in Tasks
    BY <2>1, <2>4
  <2>6. w \in Seq(Tasks) /\ DOMAIN w = 1..(n - 1)
    BY <2>4, <2>5, SeqDef
  <2>7. NoRepeats(w)
    <3> SUFFICES ASSUME NEW j \in 1..(n - 1), NEW k \in 1..(n - 1), w[j] = w[k]
                 PROVE  j = k
      BY <2>6 DEF NoRepeats
    <3>1. \E x \in {j, j + 1}, y \in {k, k + 1} :
            /\ w[j] = q[x] /\ w[k] = q[y]
            /\ x = (IF j < at THEN j ELSE j + 1) /\ y = (IF k < at THEN k ELSE k + 1)
      OBVIOUS
    <3>2. (IF j < at THEN j ELSE j + 1) = (IF k < at THEN k ELSE k + 1)
      BY <2>1, <2>4, <3>1 DEF NoRepeats
    <3>3. j \in Nat /\ k \in Nat /\ at \in Nat
      BY <2>1, <2>2, <2>4
    <3> QED BY <3>2, <3>3
  <2>8. ASSUME NEW s \in Tasks
        PROVE  Contains(w, s) <=> (Contains(q, s) /\ s # t)
    <3>1. ASSUME Contains(w, s) PROVE Contains(q, s) /\ s # t
      <4>1. PICK k \in 1..(n - 1) : w[k] = s
        BY <2>6, <3>1 DEF Contains
      <4>2. k \in 1..n /\ k + 1 \in 1..n
        BY <2>4
      <4>3. CASE k < at
        <5>1. q[k] = s /\ k # at
          BY <2>2, <4>1, <4>2, <4>3
        <5> QED BY <2>1, <2>2, <4>2, <5>1 DEF Contains, NoRepeats
      <4>4. CASE ~(k < at)
        <5>1. q[k + 1] = s /\ k + 1 # at
          BY <2>1, <2>2, <4>1, <4>2, <4>4
        <5> QED BY <2>1, <2>2, <4>2, <5>1 DEF Contains, NoRepeats
      <4> QED BY <4>3, <4>4
    <3>2. ASSUME Contains(q, s), s # t PROVE Contains(w, s)
      <4>1. PICK k \in 1..n : q[k] = s
        BY <2>1, <3>2 DEF Contains
      <4>2. k # at
        BY <2>2, <3>2, <4>1
      <4>3. CASE k < at
        <5>1. k \in 1..(n - 1)
          BY <2>1, <2>2, <4>3, Positions
        <5>2. w[k] = s
          BY <4>1, <4>3, <5>1
        <5> QED BY <2>6, <5>1, <5>2 DEF Contains
      <4>4. CASE ~(k < at)
        <5>1. k - 1 \in 1..(n - 1) /\ ~(k - 1 < at) /\ (k - 1) + 1 = k
          BY <2>1, <2>2, <4>2, <4>4, Positions
        <5>2. w[k - 1] = s
          BY <4>1, <5>1
        <5> QED BY <2>6, <5>1, <5>2 DEF Contains
      <4> QED BY <4>3, <4>4
    <3> QED BY <3>1, <3>2
  <2> QED BY <2>3, <2>6, <2>7, <2>8
<1> QED BY <1>1, <1>2

--------------------------------------------------------------------------------
(* Types of jobs.                                                           *)
LEMMA JobType ==
  ASSUME job \in Jobs, NEW t \in Tasks
  PROVE  /\ IsReader(t) => job[t].wanted \in SUBSET Blocks
         /\ ~IsReader(t) => job[t].kind \in {"write", "fill"} /\ job[t].writes \in Seq(Writes)
<1>1. job \in [Tasks -> [kind : {"read"}, wanted : SUBSET Blocks]
                 \union [kind : {"write", "fill"}, writes : Seq(Writes)]]
  BY DenseAssumption
<1>2. \/ job[t] \in [kind : {"read"}, wanted : SUBSET Blocks]
      \/ job[t] \in [kind : {"write", "fill"}, writes : Seq(Writes)]
  BY <1>1
<1> QED BY <1>2 DEF IsReader

(* The state but for places and queues is well typed.                       *)
Typed ==
  /\ contents \in [Blocks -> [Offsets -> Values]]
  /\ payload \in Payloads
  /\ job \in Jobs
  /\ pc \in [Tasks -> {"running", "done", "failed", "dropped"}]
  /\ checked \in [Tasks -> BOOLEAN]
  /\ got \in [Tasks -> [Blocks -> [Offsets -> Values] \union {Unread}]]
  /\ written \in [Tasks -> Seq(Writes)]

(* The queues are the tasks that wait, each once.                           *)
Queued ==
  /\ place \in [Tasks -> [Blocks -> Places]]
  /\ queue \in [Blocks -> Seq(Tasks)]
  /\ \A b \in Blocks :
       /\ NoRepeats(queue[b])
       /\ \A t \in Tasks : Contains(queue[b], t) <=> place[t][b] = "queued"

Busy == {"asked", "queued", "held", "refused"}

(* Only running operations wait or hold, and writers wait for their block.  *)
Owned ==
  \A t \in Tasks, b \in Blocks : place[t][b] \in Busy =>
    /\ Running(t)
    /\ IsReader(t) \/ (place[t][b] = "queued" /\ Remaining(t) /\ b = Current(t).id)

GuardInv == Typed /\ Queued /\ Owned

(* The write that a task has reached names a block and a patch.             *)
LEMMA CurrentType ==
  ASSUME Typed, NEW t \in Tasks, ~IsReader(t), Remaining(t)
  PROVE  Current(t) \in Writes /\ Current(t).id \in Blocks /\ Current(t).patch \in Patches
<1>1. job[t].writes \in Seq(Writes) /\ written[t] \in Seq(Writes)
  BY JobType DEF Typed
<1>2. Len(written[t]) \in Nat /\ Len(job[t].writes) \in Nat
  BY <1>1, LenProperties
<1>3. Len(written[t]) + 1 \in 1..Len(job[t].writes)
  BY <1>2 DEF Remaining
<1>4. job[t].writes[Len(written[t]) + 1] \in Writes
  BY <1>1, <1>3, ElementOfSeq
<1> QED BY <1>4 DEF Current, Writes

--------------------------------------------------------------------------------
(* The ways in which places and queues change: a task asks for a guard,     *)
LEMMA EnqueueKeeps ==
  ASSUME Queued, NEW t \in Tasks, NEW b \in Blocks,
         place[t][b] # "queued", Enqueue(t, b)
  PROVE  /\ Queued'
         /\ \A u \in Tasks, c \in Blocks :
              place'[u][c] = IF u = t /\ c = b THEN "queued" ELSE place[u][c]
<1>1. /\ place' \in [Tasks -> [Blocks -> Places]]
      /\ \A u \in Tasks, c \in Blocks :
           place'[u][c] = IF u = t /\ c = b THEN "queued" ELSE place[u][c]
  BY DEF Enqueue, Queued, Places
<1>2. queue[b] \in Seq(Tasks) /\ NoRepeats(queue[b]) /\ ~Contains(queue[b], t)
  BY DEF Queued
<1>3. /\ Append(queue[b], t) \in Seq(Tasks)
      /\ NoRepeats(Append(queue[b], t))
      /\ \A s \in Tasks : Contains(Append(queue[b], t), s) <=> (Contains(queue[b], s) \/ s = t)
  BY <1>2, AppendFacts
<1>4. /\ queue' \in [Blocks -> Seq(Tasks)]
      /\ queue'[b] = Append(queue[b], t)
      /\ \A c \in Blocks \ {b} : queue'[c] = queue[c]
  BY <1>3 DEF Enqueue, Queued
<1>5. ASSUME NEW c \in Blocks
      PROVE  /\ NoRepeats(queue'[c])
             /\ \A u \in Tasks : Contains(queue'[c], u) <=> place'[u][c] = "queued"
  <2>1. CASE c = b
    BY <1>1, <1>3, <1>4, <2>1 DEF Queued
  <2>2. CASE c # b
    BY <1>1, <1>4, <2>2 DEF Queued
  <2> QED BY <2>1, <2>2
<1> QED BY <1>1, <1>4, <1>5 DEF Queued, NoRepeats, Contains

(* leaves a queue,                                                          *)
LEMMA LeaveKeeps ==
  ASSUME Queued, NEW t \in Tasks, NEW b \in Blocks, NEW next \in Places,
         next # "queued", Leave(t, b, next)
  PROVE  /\ Queued'
         /\ \A u \in Tasks, c \in Blocks :
              place'[u][c] = IF u = t /\ c = b THEN next ELSE place[u][c]
<1>1. /\ place' \in [Tasks -> [Blocks -> Places]]
      /\ \A u \in Tasks, c \in Blocks :
           place'[u][c] = IF u = t /\ c = b THEN next ELSE place[u][c]
  BY DEF Leave, Queued
<1>2. queue[b] \in Seq(Tasks) /\ NoRepeats(queue[b])
  BY DEF Queued
<1>3. /\ Without(queue[b], t) \in Seq(Tasks)
      /\ NoRepeats(Without(queue[b], t))
      /\ \A s \in Tasks : Contains(Without(queue[b], t), s) <=> (Contains(queue[b], s) /\ s # t)
  BY <1>2, WithoutFacts
<1>4. /\ queue' \in [Blocks -> Seq(Tasks)]
      /\ queue'[b] = Without(queue[b], t)
      /\ \A c \in Blocks \ {b} : queue'[c] = queue[c]
  BY <1>3 DEF Leave, Queued
<1>5. ASSUME NEW c \in Blocks
      PROVE  /\ NoRepeats(queue'[c])
             /\ \A u \in Tasks : Contains(queue'[c], u) <=> place'[u][c] = "queued"
  <2>1. CASE c = b
    BY <1>1, <1>3, <1>4, <2>1 DEF Queued
  <2>2. CASE c # b
    BY <1>1, <1>4, <2>2 DEF Queued
  <2> QED BY <2>1, <2>2
<1> QED BY <1>1, <1>4, <1>5 DEF Queued, NoRepeats, Contains

(* gives up all its guards and its places in queues,                        *)
LEMMA ReleaseKeeps ==
  ASSUME Queued, NEW t \in Tasks, Release(t)
  PROVE  /\ Queued'
         /\ \A u \in Tasks, c \in Blocks :
              /\ u # t => place'[u][c] = place[u][c]
              /\ u = t => place'[u][c] \notin Busy
<1>1. /\ place' \in [Tasks -> [Blocks -> Places]]
      /\ \A u \in Tasks, c \in Blocks : u # t => place'[u][c] = place[u][c]
      /\ \A c \in Blocks :
           place'[t][c] = IF place[t][c] = "used" THEN "used" ELSE "none"
  BY DEF Release, Queued, Places
<1>2. \A c \in Blocks : queue[c] \in Seq(Tasks) /\ NoRepeats(queue[c])
  BY DEF Queued
<1>3. \A c \in Blocks :
        /\ Without(queue[c], t) \in Seq(Tasks)
        /\ NoRepeats(Without(queue[c], t))
        /\ \A s \in Tasks : Contains(Without(queue[c], t), s) <=> (Contains(queue[c], s) /\ s # t)
  BY <1>2, WithoutFacts
<1>4. /\ queue' \in [Blocks -> Seq(Tasks)]
      /\ \A c \in Blocks : queue'[c] = Without(queue[c], t)
  BY <1>3 DEF Release
<1>5. ASSUME NEW c \in Blocks
      PROVE  /\ NoRepeats(queue'[c])
             /\ \A u \in Tasks : Contains(queue'[c], u) <=> place'[u][c] = "queued"
  <2>1. queue'[c] = Without(queue[c], t)
    BY <1>4
  <2>2. NoRepeats(queue'[c])
    BY <1>3, <2>1
  <2>3. ASSUME NEW u \in Tasks
        PROVE  Contains(queue'[c], u) <=> place'[u][c] = "queued"
    <3>1. Contains(queue'[c], u) <=> (Contains(queue[c], u) /\ u # t)
      BY <1>3, <2>1
    <3>2. Contains(queue[c], u) <=> place[u][c] = "queued"
      BY DEF Queued
    <3>3. CASE u = t
      BY <1>1, <3>1, <3>3
    <3>4. CASE u # t
      BY <1>1, <3>1, <3>2, <3>4
    <3> QED BY <3>3, <3>4
  <2> QED BY <2>2, <2>3
<1>6. Queued'
  BY <1>1, <1>4, <1>5 DEF Queued, NoRepeats, Contains
<1>7. \A c \in Blocks : place'[t][c] \notin Busy
  BY <1>1 DEF Busy
<1> QED BY <1>1, <1>6, <1>7

(* Task t's place at block b becomes next.                                  *)
Moved(t, b, next) ==
  place' = [place EXCEPT ![t][b] = next]

(* or changes a place without a queue.                                      *)
LEMMA PlaceKeeps ==
  ASSUME Queued, NEW t \in Tasks, NEW b \in Blocks, NEW next \in Places,
         next # "queued", place[t][b] # "queued", UNCHANGED queue, Moved(t, b, next)
  PROVE  /\ Queued'
         /\ \A u \in Tasks, c \in Blocks :
              place'[u][c] = IF u = t /\ c = b THEN next ELSE place[u][c]
<1>1. /\ place' \in [Tasks -> [Blocks -> Places]]
      /\ \A u \in Tasks, c \in Blocks :
           place'[u][c] = IF u = t /\ c = b THEN next ELSE place[u][c]
  BY DEF Queued, Moved
<1>2. \A c \in Blocks, u \in Tasks :
        Contains(queue[c], u) <=> place'[u][c] = "queued"
  BY <1>1 DEF Queued
<1> QED BY <1>1, <1>2 DEF Queued, NoRepeats, Contains

(* An operation that fails, or is dropped, gives up all it has.             *)
LEMMA EndKeeps ==
  ASSUME GuardInv, NEW t \in Tasks, Release(t),
         NEW end \in {"failed", "dropped"}, pc' = [pc EXCEPT ![t] = end],
         UNCHANGED <<contents, payload, job, checked, got, written>>
  PROVE  GuardInv'
<1>1. Typed'
  BY DEF GuardInv, Typed
<1>2. /\ Queued'
      /\ \A u \in Tasks, c \in Blocks :
           /\ u # t => place'[u][c] = place[u][c]
           /\ u = t => place'[u][c] \notin Busy
  BY ReleaseKeeps DEF GuardInv
<1>3. \A u \in Tasks : u # t => pc'[u] = pc[u]
  BY DEF GuardInv, Typed
<1>4. Owned'
  BY <1>2, <1>3 DEF GuardInv, Owned, Running, IsReader, Remaining, Current
<1> QED BY <1>1, <1>2, <1>4 DEF GuardInv

(* An operation that fails keeps the invariant.                             *)
LEMMA FailKeeps ==
  ASSUME GuardInv, NEW t \in Tasks, Fail(t)
  PROVE  GuardInv'
BY EndKeeps DEF Fail

--------------------------------------------------------------------------------
(* GuardInv holds initially.                                                *)
LEMMA InitGuard == Init => GuardInv
<1> SUFFICES ASSUME Init PROVE GuardInv
  OBVIOUS
<1>1. <<>> \in Seq(Writes) /\ <<>> \in Seq(Tasks)
  BY EmptySeq
<1>2. Typed
  BY <1>1, DenseAssumption DEF Init, Typed
<1>3. place \in [Tasks -> [Blocks -> Places]] /\ queue \in [Blocks -> Seq(Tasks)]
  BY <1>1 DEF Init, Places
<1>4. ASSUME NEW b \in Blocks
      PROVE  NoRepeats(queue[b]) /\ \A t \in Tasks : ~Contains(queue[b], t)
  <2>1. queue[b] = <<>>
    BY DEF Init
  <2>2. DOMAIN queue[b] = {}
    BY <2>1
  <2> QED BY <2>2 DEF NoRepeats, Contains
<1>5. \A t \in Tasks, b \in Blocks : place[t][b] = "none"
  BY DEF Init
<1>6. Queued
  BY <1>3, <1>4, <1>5 DEF Queued
<1>7. Owned
  BY <1>5 DEF Owned, Busy
<1> QED BY <1>2, <1>6, <1>7 DEF GuardInv

(* A reader that asks for a block.                                          *)
LEMMA BeginKeeps ==
  ASSUME GuardInv, NEW t \in Tasks, Begin(t)
  PROVE  GuardInv'
<1> DEFINE b == First(t, ToRead(t))
<1>1. ToRead(t) \in SUBSET Blocks /\ ToRead(t) # {}
  BY JobType DEF Begin, CanBegin, ToRead, GuardInv, Typed
<1>2. b \in ToRead(t)
  BY <1>1, LeastBlock DEF First
<1>3. b \in Blocks /\ place[t][b] = "none"
  BY <1>1, <1>2 DEF ToRead
<1>4. place' = [place EXCEPT ![t][b] = "asked"] /\ UNCHANGED queue
  BY DEF Begin
<1> HIDE DEF b
<1>5. /\ Queued'
      /\ \A u \in Tasks, c \in Blocks :
           place'[u][c] = IF u = t /\ c = b THEN "asked" ELSE place[u][c]
  <2>1. Queued /\ "asked" \in Places /\ place[t][b] # "queued"
    BY <1>3 DEF GuardInv, Places
  <2>2. Moved(t, b, "asked")
    BY <1>4 DEF Moved
  <2> QED BY <1>3, <1>4, <2>1, <2>2, PlaceKeeps
<1>6. Typed'
  BY DEF Begin, GuardInv, Typed
<1>7. Owned'
  BY <1>5 DEF Begin, GuardInv, Owned, Running, IsReader, Remaining, Current
<1> QED BY <1>5, <1>6, <1>7 DEF GuardInv

(* The file of a block is found, or is not.                                 *)
LEMMA LocateKeeps ==
  ASSUME GuardInv, NEW t \in Tasks, NEW b \in Blocks, Locate(t, b)
  PROVE  GuardInv'
<1>1. Typed'
  BY DEF Locate, GuardInv, Typed
<1>2. place[t][b] = "asked" /\ Running(t) /\ IsReader(t)
  BY DEF Locate
<1>3. \E next \in {"refused", "queued"} :
        /\ Queued'
        /\ \A u \in Tasks, c \in Blocks :
             place'[u][c] = IF u = t /\ c = b THEN next ELSE place[u][c]
  <2>1. CASE payload[b] = "missing"
    <3>1. place' = [place EXCEPT ![t][b] = "refused"] /\ UNCHANGED queue
      BY <2>1 DEF Locate
    <3>2. Queued /\ Places = {"none", "asked", "queued", "held", "refused", "used"}
      BY DEF GuardInv, Places
    <3>3. Moved(t, b, "refused")
      BY <3>1 DEF Moved
    <3> QED BY <1>2, <3>1, <3>2, <3>3, PlaceKeeps
  <2>2. CASE payload[b] # "missing"
    <3>1. Enqueue(t, b)
      BY <2>2 DEF Locate
    <3> QED BY <1>2, <3>1, EnqueueKeeps DEF GuardInv
  <2> QED BY <2>1, <2>2
<1>4. Owned'
  BY <1>2, <1>3 DEF Locate, GuardInv, Owned, Running, IsReader, Remaining, Current
<1> QED BY <1>1, <1>3, <1>4 DEF GuardInv

(* A guard is granted to a reader.                                          *)
LEMMA OpenKeeps ==
  ASSUME GuardInv, NEW t \in Tasks, NEW b \in Blocks, Open(t, b)
  PROVE  GuardInv'
<1>1. Typed'
  BY DEF Open, GuardInv, Typed
<1>2. Running(t) /\ IsReader(t)
  BY DEF Open
<1>3. \E next \in {"held", "refused"} :
        /\ Queued'
        /\ \A u \in Tasks, c \in Blocks :
             place'[u][c] = IF u = t /\ c = b THEN next ELSE place[u][c]
  <2>1. CASE Leave(t, b, "held")
    BY <2>1, LeaveKeeps DEF GuardInv, Places
  <2>2. CASE Leave(t, b, "refused")
    BY <2>2, LeaveKeeps DEF GuardInv, Places
  <2> QED BY <2>1, <2>2 DEF Open
<1>4. Owned'
  BY <1>2, <1>3 DEF Open, GuardInv, Owned, Running, IsReader, Remaining, Current
<1> QED BY <1>1, <1>3, <1>4 DEF GuardInv

(* A block is scattered, or its error returned.                             *)
LEMMA UseKeeps ==
  ASSUME GuardInv, NEW t \in Tasks, Use(t)
  PROVE  GuardInv'
<1>1. InFlight(t) \in SUBSET Blocks /\ InFlight(t) # {}
  BY DEF Use, InFlight
<1>2. PICK b \in NextResult(t) :
        \/ /\ place[t][b] = "held"
           /\ got' = [got EXCEPT ![t][b] = contents[b]]
           /\ place' = [place EXCEPT ![t][b] = "used"]
           /\ UNCHANGED <<contents, payload, job, pc, queue, checked, written>>
        \/ place[t][b] = "refused" /\ Fail(t)
  BY DEF Use
<1>3. b \in Blocks
  BY <1>1, <1>2, LeastBlock DEF NextResult, First
<1>4. CASE Fail(t)
  BY <1>4, FailKeeps
<1>5. CASE /\ place[t][b] = "held"
           /\ got' = [got EXCEPT ![t][b] = contents[b]]
           /\ place' = [place EXCEPT ![t][b] = "used"]
           /\ UNCHANGED <<contents, payload, job, pc, queue, checked, written>>
  <2>1. contents[b] \in [Offsets -> Values]
    BY <1>3 DEF GuardInv, Typed
  <2>2. got' \in [Tasks -> [Blocks -> [Offsets -> Values] \union {Unread}]]
    BY <1>3, <1>5, <2>1 DEF GuardInv, Typed
  <2>3. Typed'
    BY <1>5, <2>2 DEF GuardInv, Typed
  <2>4. /\ Queued'
        /\ \A u \in Tasks, c \in Blocks :
             place'[u][c] = IF u = t /\ c = b THEN "used" ELSE place[u][c]
    <3>1. Queued /\ "used" \in Places
      BY DEF GuardInv, Places
    <3>2. place[t][b] # "queued" /\ UNCHANGED queue /\ Moved(t, b, "used")
      BY <1>5 DEF Moved
    <3> QED BY <1>3, <3>1, <3>2, PlaceKeeps
  <2>5. Owned'
    BY <1>5, <2>4 DEF GuardInv, Owned, Busy, Running, IsReader, Remaining, Current
  <2> QED BY <2>3, <2>4, <2>5 DEF GuardInv
<1> QED BY <1>2, <1>4, <1>5

(* A writer asks for the block it is to write.                              *)
LEMMA AskKeeps ==
  ASSUME GuardInv, NEW t \in Tasks, Ask(t)
  PROVE  GuardInv'
<1>1. CASE Fail(t)
  BY <1>1, FailKeeps
<1>2. CASE /\ Enqueue(t, Current(t).id)
           /\ UNCHANGED <<contents, payload, job, pc, checked, got, written>>
  <2> DEFINE b == Current(t).id
  <2>1. b \in Blocks /\ Running(t) /\ Remaining(t)
    BY CurrentType DEF Ask, GuardInv
  <2>2. place[t][b] # "queued"
    BY <2>1 DEF Ask, InFlight
  <2>3. /\ Queued'
        /\ \A u \in Tasks, c \in Blocks :
             place'[u][c] = IF u = t /\ c = b THEN "queued" ELSE place[u][c]
    <3> HIDE DEF b
    <3>1. Enqueue(t, b)
      BY <1>2 DEF b
    <3> QED BY <2>1, <2>2, <3>1, EnqueueKeeps DEF GuardInv
  <2>4. Typed'
    BY <1>2 DEF GuardInv, Typed
  <2>5. Owned'
    BY <1>2, <2>1, <2>3 DEF GuardInv, Owned, Running, IsReader, Remaining, Current
  <2> QED BY <2>3, <2>4, <2>5 DEF GuardInv
<1> QED BY <1>1, <1>2 DEF Ask

(* Once its block is left, a writer waits for nothing.                      *)
LEMMA WriterLeaves ==
  ASSUME GuardInv, NEW t \in Tasks, ~IsReader(t), Remaining(t),
         Leave(t, Current(t).id, "none"), UNCHANGED <<job, pc>>,
         \A u \in Tasks : u # t => written'[u] = written[u]
  PROVE  Queued' /\ Owned'
<1> DEFINE b == Current(t).id
<1>1. b \in Blocks
  BY CurrentType DEF GuardInv
<1>2. /\ Queued'
      /\ \A u \in Tasks, c \in Blocks :
           place'[u][c] = IF u = t /\ c = b THEN "none" ELSE place[u][c]
  <2> HIDE DEF b
  <2>1. Leave(t, b, "none")
    BY DEF b
  <2> QED BY <1>1, <2>1, LeaveKeeps DEF GuardInv, Places
<1>3. \A c \in Blocks : place'[t][c] \notin Busy
  BY <1>2 DEF GuardInv, Owned, Busy
<1>4. \A u \in Tasks, c \in Blocks : u # t /\ place'[u][c] \in Busy =>
        /\ Running(u)'
        /\ IsReader(u)' \/ (place'[u][c] = "queued" /\ Remaining(u)' /\ c = Current(u)'.id)
  BY <1>2 DEF GuardInv, Owned, Running, IsReader, Remaining, Current
<1>5. Owned'
  BY <1>3, <1>4 DEF Owned, Busy
<1> QED BY <1>2, <1>5

(* fill has read the block.                                                 *)
LEMMA CheckKeeps ==
  ASSUME GuardInv, NEW t \in Tasks, Check(t)
  PROVE  GuardInv'
<1>1. CASE Fail(t)
  BY <1>1, FailKeeps
<1>2. CASE /\ Leave(t, Current(t).id, "none")
           /\ checked' = [checked EXCEPT ![t] = TRUE]
           /\ UNCHANGED <<contents, payload, job, pc, got, written>>
  <2>1. Typed'
    BY <1>2 DEF GuardInv, Typed
  <2>2. ~IsReader(t) /\ Remaining(t)
    BY DEF Check, IsReader
  <2> QED BY <1>2, <2>1, <2>2, WriterLeaves DEF GuardInv
<1> QED BY <1>1, <1>2 DEF Check

(* A block is written.                                                      *)
LEMMA ApplyKeeps ==
  ASSUME GuardInv, NEW t \in Tasks, Apply(t)
  PROVE  GuardInv'
<1>1. CASE Fail(t)
  BY <1>1, FailKeeps
<1>2. CASE /\ contents' = [contents EXCEPT ![Current(t).id] = Updated(@, Current(t).patch)]
           /\ written' = [written EXCEPT ![t] = Append(@, Current(t))]
           /\ Leave(t, Current(t).id, "none")
           /\ checked' = [checked EXCEPT ![t] = FALSE]
           /\ UNCHANGED <<payload, job, pc, got>>
  <2> DEFINE write == Current(t)
  <2>1. ~IsReader(t) /\ Remaining(t)
    BY DEF Apply
  <2>2. write \in Writes /\ write.id \in Blocks /\ write.patch \in Patches
    BY <2>1, CurrentType DEF GuardInv
  <2> HIDE DEF write
  <2>3. Updated(contents[write.id], write.patch) \in [Offsets -> Values]
    <3>1. PICK S \in SUBSET Offsets : write.patch \in [S -> Values]
      BY <2>2 DEF Patches
    <3>2. contents[write.id] \in [Offsets -> Values]
      BY <2>2 DEF GuardInv, Typed
    <3> QED BY <3>1, <3>2 DEF Updated
  <2>4. contents' \in [Blocks -> [Offsets -> Values]]
    BY <1>2, <2>2, <2>3 DEF GuardInv, Typed, write
  <2>5. Append(written[t], write) \in Seq(Writes)
    BY <2>2, AppendProperties DEF GuardInv, Typed
  <2>6. /\ written' \in [Tasks -> Seq(Writes)]
        /\ \A u \in Tasks : u # t => written'[u] = written[u]
    BY <1>2, <2>5 DEF GuardInv, Typed, write
  <2>7. checked' \in [Tasks -> BOOLEAN]
    BY <1>2 DEF GuardInv, Typed
  <2>8. Typed'
    BY <1>2, <2>4, <2>6, <2>7 DEF GuardInv, Typed
  <2>9. Queued' /\ Owned'
    BY <1>2, <2>1, <2>6, WriterLeaves
  <2> QED BY <2>8, <2>9 DEF GuardInv
<1> QED BY <1>1, <1>2 DEF Apply

(* An operation that returns has nothing left.                              *)
LEMMA ReturnKeeps ==
  ASSUME GuardInv, NEW t \in Tasks, Return(t)
  PROVE  GuardInv'
<1>1. \A c \in Blocks : place[t][c] \notin Busy
  BY DEF Return, Finished, InFlight, Busy, GuardInv, Owned
<1>2. Typed'
  BY DEF Return, GuardInv, Typed
<1>3. Queued'
  BY DEF Return, GuardInv, Queued, NoRepeats, Contains
<1>4. \A u \in Tasks : u # t => pc'[u] = pc[u]
  BY DEF Return, GuardInv, Typed
<1>5. Owned'
  BY <1>1, <1>4 DEF Return, GuardInv, Owned, Running, IsReader, Remaining, Current
<1> QED BY <1>2, <1>3, <1>5 DEF GuardInv

(* Every step keeps GuardInv.                                               *)
LEMMA StepGuard == GuardInv /\ [Next]_vars => GuardInv'
<1> SUFFICES ASSUME GuardInv, [Next]_vars PROVE GuardInv'
  OBVIOUS
<1>1. CASE UNCHANGED vars
  BY <1>1 DEF vars, GuardInv, Typed, Queued, Owned, NoRepeats, Contains,
              Running, IsReader, Remaining, Current
<1>2. CASE Next
  <2>1. PICK t \in Tasks :
          \/ Begin(t) \/ Use(t) \/ Ask(t) \/ Check(t) \/ Apply(t) \/ Return(t) \/ Drop(t)
          \/ \E b \in Blocks : Locate(t, b) \/ Open(t, b)
    BY <1>2 DEF Next
  <2>2. CASE Drop(t)
    BY <2>2, EndKeeps DEF Drop
  <2>3. CASE \E b \in Blocks : Locate(t, b) \/ Open(t, b)
    BY <2>3, LocateKeeps, OpenKeeps
  <2> QED
    BY <2>1, <2>2, <2>3, BeginKeeps, UseKeeps, AskKeeps, CheckKeeps, ApplyKeeps, ReturnKeeps
<1> QED BY <1>1, <1>2

(* Queues, places and operations agree at all times (GuardInv).             *)
THEOREM GuardsAreOwned == Spec => []GuardInv
<1>1. GuardInv /\ [Next]_vars => GuardInv'
  BY StepGuard
<1> QED BY InitGuard, <1>1, PTL DEF Spec

(* The state of dense storage has its types.                                *)
THEOREM TypeCorrect == Spec => []TypeOK
<1>1. GuardInv => TypeOK
  BY DEF GuardInv, Typed, Queued, TypeOK
<1> QED BY GuardsAreOwned, <1>1, PTL

--------------------------------------------------------------------------------
(* A running operation that cannot go on waits for the guard of a block:    *)
(* a reader for the first of its window.                                    *)
LEMMA StuckWaits ==
  ASSUME GuardInv, NEW t \in Tasks, Running(t), ~CanStep(t)
  PROVE  /\ \E b \in Blocks : place[t][b] = "queued"
         /\ IsReader(t) =>
              InFlight(t) # {} /\ place[t][Least(InFlight(t))] = "queued"
<1>1. ~Finished(t)
  BY DEF CanStep
<1>2. CASE IsReader(t)
  <2>1. InFlight(t) # {}
    <3> SUFFICES ASSUME InFlight(t) = {} PROVE FALSE
      OBVIOUS
    <3>1. ToRead(t) # {}
      BY <1>1, <1>2 DEF Finished
    <3>2. Cardinality(InFlight(t)) = 0
      BY FS_EmptySet
    <3>3. 0 < Buffer
      BY DenseAssumption
    <3>4. CanBegin(t)
      BY <3>1, <3>2, <3>3 DEF CanBegin
    <3> QED BY <1>2, <3>4 DEF CanStep
  <2> DEFINE b == Least(InFlight(t))
  <2>2. InFlight(t) \in SUBSET Blocks
    BY DEF InFlight
  <2>3. b \in InFlight(t)
    BY <2>1, <2>2, LeastBlock
  <2>4. b \in Blocks /\ place[t][b] \in {"asked", "queued", "held", "refused"}
    BY <2>3 DEF InFlight
  <2>5. b \in NextResult(t)
    BY DEF NextResult, First
  <2> HIDE DEF b
  <2>6. place[t][b] # "asked"
    BY <1>2, <2>4 DEF CanStep
  <2>7. place[t][b] \notin {"held", "refused"}
    BY <1>2, <2>1, <2>5 DEF CanStep
  <2>8. place[t][b] = "queued"
    BY <2>4, <2>6, <2>7
  <2> QED BY <2>1, <2>4, <2>8 DEF b
<1>3. CASE ~IsReader(t)
  <2>1. Remaining(t)
    BY <1>1, <1>3 DEF Finished
  <2>2. InFlight(t) # {}
    BY <1>3, <2>1 DEF CanStep
  <2>3. PICK b \in Blocks : place[t][b] \in Busy
    BY <2>2 DEF InFlight, Busy
  <2>4. place[t][b] = "queued"
    BY <1>3, <2>3 DEF GuardInv, Owned
  <2> QED BY <1>3, <2>4
<1> QED BY <1>2, <1>3

(* The first in the queue of a block can go on, unless a reader has it.     *)
LEMMA FirstIsAdmitted ==
  ASSUME GuardInv, NEW b \in Blocks, NEW t \in Tasks, place[t][b] = "queued",
         \A u \in Tasks : Running(u) => ~CanStep(u)
  PROVE  Readers(b) # {}
<1> SUFFICES ASSUME Readers(b) = {} PROVE FALSE
  OBVIOUS
<1> DEFINE h == queue[b][1]
<1>1. queue[b] \in Seq(Tasks) /\ Contains(queue[b], t)
  BY DEF GuardInv, Queued
<1>2. DOMAIN queue[b] = 1..Len(queue[b]) /\ Len(queue[b]) \in Nat
  BY <1>1, LenProperties
<1>3. 1 \in DOMAIN queue[b]
  BY <1>1, <1>2 DEF Contains
<1>4. h \in Tasks
  BY <1>1, <1>2, <1>3, ElementOfSeq
<1>5. place[h][b] = "queued"
  BY <1>3, <1>4 DEF GuardInv, Queued, Contains
<1> HIDE DEF h
<1>6. Running(h)
  BY <1>4, <1>5 DEF GuardInv, Owned, Busy
<1>7. Admits(h, b)
  <2>1. queue[b][1] = h
    BY DEF h
  <2>2. \A j \in 1..(1 - 1) : ~Exclusive(queue[b][j])
    OBVIOUS
  <2> QED BY <1>3, <1>5, <2>1, <2>2 DEF Admits
<1>8. CanStep(h)
  <2>1. CASE IsReader(h)
    BY <1>6, <1>7, <2>1 DEF CanStep
  <2>2. CASE ~IsReader(h)
    <3>1. Remaining(h) /\ b = Current(h).id
      BY <1>4, <1>5, <2>2 DEF GuardInv, Owned, Busy
    <3> QED BY <1>6, <1>7, <2>2, <3>1 DEF CanStep
  <2> QED BY <2>1, <2>2
<1> QED BY <1>4, <1>6, <1>8

(* A number is not both less than another and at least it.                  *)
LEMMA NotBoth ==
  ASSUME NEW x \in Nat, NEW y \in Nat, x <= y, y <= x
  PROVE  x = y
OBVIOUS

(* Operations on dense storage never wait for each other in a circle:       *)
(* every reader takes the blocks of its window in ascending order, and a    *)
(* writer waits for one block at a time (LogicalGroups, read_groups).       *)
THEOREM Unstuck == Spec => []NothingIsStuck
<1>1. GuardInv => NothingIsStuck
  <2> SUFFICES ASSUME GuardInv, NEW t \in Tasks, Running(t),
                      \A u \in Tasks : Running(u) => ~CanStep(u)
               PROVE  FALSE
    BY DEF NothingIsStuck, CanStep
  <2> DEFINE Awaited == {b \in Blocks : \E u \in Tasks : place[u][b] = "queued"}
             b == Least(Awaited)
  <2>1. Awaited # {} /\ Awaited \in SUBSET Blocks
    BY StuckWaits
  <2>2. b \in Awaited /\ \A c \in Awaited : b <= c
    BY <2>1, LeastBlock
  <2>3. PICK u \in Tasks : place[u][b] = "queued"
    BY <2>2
  <2>4. b \in Blocks
    BY <2>1, <2>2
  <2> HIDE DEF b
  <2>5. PICK r \in Tasks : place[r][b] = "held"
    BY <2>3, <2>4, FirstIsAdmitted DEF Readers
  <2>6. Running(r) /\ IsReader(r)
    BY <2>4, <2>5 DEF GuardInv, Owned, Busy
  <2> DEFINE c == Least(InFlight(r))
  <2>7. place[r][c] = "queued"
    BY <2>6, StuckWaits
  <2>8. InFlight(r) \in SUBSET Blocks /\ b \in InFlight(r)
    BY <2>4, <2>5 DEF InFlight
  <2>9. c \in InFlight(r) /\ c <= b
    BY <2>8, LeastBlock
  <2>10. c \in Awaited
    BY <2>7, <2>8, <2>9
  <2> HIDE DEF c
  <2>11. b <= c
    BY <2>2, <2>10
  <2>12. b \in Nat /\ c \in Nat
    BY <2>1, <2>4, <2>10, DenseAssumption DEF Blocks
  <2>13. b = c
    BY <2>9, <2>11, <2>12, NotBoth
  <2> QED BY <2>5, <2>7, <2>13
<1> QED BY GuardsAreOwned, <1>1, PTL

--------------------------------------------------------------------------------
(* What a reader has got: the blocks it has used are those of its answer,   *)
(* they come before the others it wants, and those in its window before     *)
(* those it has not asked for.                                              *)
Window(t) ==
  /\ \A b \in Blocks : place[t][b] = "used" <=> got[t][b] # Unread
  /\ \A b \in Blocks : place[t][b] # "none" => b \in job[t].wanted
  /\ \A b \in Blocks : place[t][b] \in {"held", "used"} => payload[b] = "sound"
  /\ \A b \in Blocks : place[t][b] = "refused" => payload[b] # "sound" \/ t \in Breakable
  /\ \A b, c \in job[t].wanted : place[t][b] = "used" /\ place[t][c] # "used" => b < c
  /\ \A b, c \in job[t].wanted : place[t][b] \in Busy /\ place[t][c] = "none" => b < c
  /\ pc[t] = "done" => \A b \in job[t].wanted : place[t][b] = "used"
  /\ pc[t] = "failed" /\ t \notin Breakable =>
       \E b \in job[t].wanted :
         /\ place[t][b] # "used" /\ payload[b] # "sound"
         /\ \A c \in job[t].wanted : place[t][c] # "used" => b <= c

ReaderInv == GuardInv /\ \A t \in Tasks : IsReader(t) => Window(t)

(* The steps of one task.                                                   *)
Step(t) ==
  \/ Begin(t) \/ Use(t) \/ Ask(t) \/ Check(t) \/ Apply(t) \/ Return(t) \/ Drop(t)
  \/ \E b \in Blocks : Locate(t, b) \/ Open(t, b)

(* A step of one task leaves the others where they were.                    *)
LEMMA OthersStay ==
  ASSUME GuardInv, NEW t \in Tasks, Step(t), NEW u \in Tasks, u # t
  PROVE  place'[u] = place[u] /\ got'[u] = got[u] /\ pc'[u] = pc[u]
<1>1. Release(t) => place'[u] = place[u]
  BY DEF Release, GuardInv, Queued
<1>2. \A b \in Blocks, next \in Places :
        Leave(t, b, next) \/ Enqueue(t, b) => place'[u] = place[u]
  BY DEF Leave, Enqueue, GuardInv, Queued
<1>3. Fail(t) => place'[u] = place[u] /\ got'[u] = got[u] /\ pc'[u] = pc[u]
  BY <1>1 DEF Fail, GuardInv, Typed
<1>4. CASE Begin(t)
  BY <1>4 DEF Begin, GuardInv, Queued
<1>5. CASE Use(t)
  <2>1. CASE Fail(t)
    BY <2>1, <1>3
  <2>2. CASE ~Fail(t)
    <3>1. PICK b \in NextResult(t) :
            /\ got' = [got EXCEPT ![t][b] = contents[b]]
            /\ place' = [place EXCEPT ![t][b] = "used"]
            /\ pc' = pc
      BY <1>5, <2>2 DEF Use
    <3> QED BY <3>1 DEF GuardInv, Queued, Typed
  <2> QED BY <2>1, <2>2
<1>6. CASE Ask(t)
  <2>1. CASE Fail(t)
    BY <2>1, <1>3
  <2>2. CASE ~Fail(t)
    BY <1>6, <2>2 DEF Ask, Enqueue, GuardInv, Queued
  <2> QED BY <2>1, <2>2
<1>7. CASE Check(t)
  <2>1. CASE Fail(t)
    BY <2>1, <1>3
  <2>2. CASE ~Fail(t)
    BY <1>7, <2>2 DEF Check, Leave, GuardInv, Queued
  <2> QED BY <2>1, <2>2
<1>8. CASE Apply(t)
  <2>1. CASE Fail(t)
    BY <2>1, <1>3
  <2>2. CASE ~Fail(t)
    BY <1>8, <2>2 DEF Apply, Leave, GuardInv, Queued
  <2> QED BY <2>1, <2>2
<1>9. CASE Return(t)
  BY <1>9 DEF Return, GuardInv, Typed
<1>10. CASE Drop(t)
  BY <1>1, <1>10 DEF Drop, GuardInv, Typed
<1>11. CASE \E b \in Blocks : Locate(t, b) \/ Open(t, b)
  <2>1. PICK b \in Blocks : Locate(t, b) \/ Open(t, b)
    BY <1>11
  <2>2. pc' = pc /\ got' = got
    BY <2>1 DEF Locate, Open
  <2>3. place'[u] = place[u]
    <3>1. CASE Locate(t, b)
      BY <3>1 DEF Locate, Enqueue, GuardInv, Queued
    <3>2. CASE Open(t, b)
      BY <3>2 DEF Open, Leave, GuardInv, Queued
    <3> QED BY <2>1, <3>1, <3>2
  <2> QED BY <2>2, <2>3
<1> QED BY <1>4, <1>5, <1>6, <1>7, <1>8, <1>9, <1>10, <1>11 DEF Step

(* Jobs and files do not change.                                            *)
LEMMA FilesStay ==
  ASSUME NEW t \in Tasks, Step(t)
  PROVE  job' = job /\ payload' = payload
<1>1. Fail(t) => job' = job /\ payload' = payload
  BY DEF Fail
<1> QED
  BY <1>1 DEF Step, Begin, Use, Ask, Check, Apply, Return, Drop, Locate, Open

(* The steps that change the place of one block of a reader.                *)
LEMMA PlaceKeepsWindow ==
  ASSUME NEW t \in Tasks, NEW b \in Blocks, IsReader(t), Window(t), GuardInv, Running(t),
         NEW next \in {"queued", "held", "refused"},
         place[t][b] \in {"asked", "queued"},
         \A c \in Blocks : place'[t][c] = IF c = b THEN next ELSE place[t][c],
         next = "held" => payload[b] = "sound",
         next = "refused" => payload[b] # "sound" \/ t \in Breakable,
         UNCHANGED <<got, job, pc, payload>>
  PROVE  Window(t)'
<1>1. job[t].wanted \in SUBSET Blocks
  BY JobType DEF GuardInv, Typed
<1>2. pc[t] = "running"
  BY DEF Running
<1>3. /\ \A c \in Blocks : place'[t][c] = "used" <=> place[t][c] = "used"
      /\ \A c \in Blocks : place'[t][c] = "none" <=> place[t][c] = "none"
      /\ \A c \in Blocks : place'[t][c] \in Busy <=> place[t][c] \in Busy
  BY DEF Busy
<1>4. \A c, d \in job[t].wanted : place'[t][c] = "used" /\ place'[t][d] # "used" => c < d
  BY <1>1, <1>3 DEF Window
<1>5. \A c, d \in job[t].wanted : place'[t][c] \in Busy /\ place'[t][d] = "none" => c < d
  BY <1>1, <1>3 DEF Window
<1>6. \A c \in Blocks :
        /\ place'[t][c] = "used" <=> got[t][c] # Unread
        /\ place'[t][c] # "none" => c \in job[t].wanted
  BY <1>3 DEF Window
<1>7. \A c \in Blocks : place'[t][c] \in {"held", "used"} => payload[c] = "sound"
  BY DEF Window
<1>8. \A c \in Blocks : place'[t][c] = "refused" => payload[c] # "sound" \/ t \in Breakable
  BY DEF Window
<1> QED BY <1>2, <1>4, <1>5, <1>6, <1>7, <1>8 DEF Window

(* The window takes the least block that has not been asked for.            *)
LEMMA BeginKeepsWindow ==
  ASSUME NEW t \in Tasks, IsReader(t), Window(t), GuardInv, Begin(t)
  PROVE  Window(t)'
<1> DEFINE b == First(t, ToRead(t))
<1>1. job[t].wanted \in SUBSET Blocks
  BY JobType DEF GuardInv, Typed
<1>2. ToRead(t) \in SUBSET Blocks /\ ToRead(t) # {}
  BY <1>1 DEF Begin, CanBegin, ToRead
<1>3. b \in ToRead(t) /\ \A c \in ToRead(t) : b <= c
  BY <1>2, LeastBlock DEF First
<1>4. b \in job[t].wanted /\ place[t][b] = "none"
  BY <1>3 DEF ToRead
<1>5. \A c \in job[t].wanted : place[t][c] = "none" => b <= c
  BY <1>3 DEF ToRead
<1>6. place' = [place EXCEPT ![t][b] = "asked"]
  BY DEF Begin
<1> HIDE DEF b
<1>7. \A c \in Blocks : place'[t][c] = IF c = b THEN "asked" ELSE place[t][c]
  BY <1>6 DEF GuardInv, Queued
<1>8. UNCHANGED <<got, job, pc, payload>> /\ pc[t] = "running"
  BY DEF Begin, Running
<1>9. \A c \in Blocks : place'[t][c] = "used" <=> place[t][c] = "used"
  BY <1>4, <1>7
<1>10. \A c, d \in job[t].wanted : place'[t][c] = "used" /\ place'[t][d] # "used" => c < d
  BY <1>1, <1>9 DEF Window
<1>11. ASSUME NEW c \in job[t].wanted, NEW d \in job[t].wanted,
              place'[t][c] \in Busy, place'[t][d] = "none"
       PROVE  c < d
  <2>1. c \in Nat /\ d \in Nat /\ c \in Blocks /\ d \in Blocks
    BY <1>1, DenseAssumption DEF Blocks
  <2>2. d # b /\ place[t][d] = "none"
    BY <1>7, <1>11, <2>1
  <2>3. CASE c = b
    BY <1>5, <2>1, <2>2, <2>3
  <2>4. CASE c # b
    <3>1. place[t][c] \in Busy
      BY <1>7, <1>11, <2>1, <2>4
    <3> QED BY <2>2, <3>1 DEF Window
  <2> QED BY <2>3, <2>4
<1>12. \A c \in Blocks :
         /\ place'[t][c] = "used" <=> got[t][c] # Unread
         /\ place'[t][c] # "none" => c \in job[t].wanted
         /\ place'[t][c] \in {"held", "used"} => payload[c] = "sound"
         /\ place'[t][c] = "refused" => payload[c] # "sound" \/ t \in Breakable
  BY <1>4, <1>7 DEF Window
<1> QED BY <1>8, <1>10, <1>11, <1>12 DEF Window

(* What the result of the first group depends on.                           *)
LEMMA FirstInWindow ==
  ASSUME NEW t \in Tasks, IsReader(t), Window(t), GuardInv,
         NEW b \in NextResult(t), InFlight(t) # {}
  PROVE  /\ b \in job[t].wanted /\ place[t][b] \in Busy
         /\ \A c \in job[t].wanted : place[t][c] # "used" => b <= c
<1>1. job[t].wanted \in SUBSET Blocks
  BY JobType DEF GuardInv, Typed
<1>2. InFlight(t) \in SUBSET Blocks
  BY DEF InFlight
<1>3. b \in InFlight(t) /\ \A c \in InFlight(t) : b <= c
  BY <1>2, LeastBlock DEF NextResult, First
<1>4. b \in Blocks /\ place[t][b] \in Busy
  BY <1>3 DEF InFlight, Busy
<1>5. b \in job[t].wanted
  BY <1>4 DEF Window, Busy
<1>6. ASSUME NEW c \in job[t].wanted, place[t][c] # "used" PROVE b <= c
  <2>1. c \in Blocks /\ b \in Nat /\ c \in Nat
    BY <1>1, <1>4, DenseAssumption DEF Blocks
  <2>2. place[t][c] \in Places
    BY <2>1 DEF GuardInv, Queued
  <2>3. CASE place[t][c] = "none"
    <3>1. b < c
      BY <1>4, <1>5, <2>3 DEF Window
    <3> QED BY <2>1, <3>1
  <2>4. CASE place[t][c] # "none"
    <3>1. c \in InFlight(t)
      BY <1>6, <2>1, <2>2, <2>4 DEF InFlight, Places
    <3> QED BY <1>3, <3>1
  <2> QED BY <2>3, <2>4
<1> QED BY <1>4, <1>5, <1>6

(* Of two numbers, one is less unless they are equal.                       *)
LEMMA LessUnlessEqual ==
  ASSUME NEW x \in Nat, NEW y \in Nat, x <= y, x # y
  PROVE  x < y
OBVIOUS

(* The first group is used, and only blocks behind it are left.             *)
LEMMA UseKeepsWindow ==
  ASSUME NEW t \in Tasks, IsReader(t), Window(t), GuardInv, Use(t)
  PROVE  Window(t)'
<1>1. PICK b \in NextResult(t) :
        \/ /\ place[t][b] = "held"
           /\ got' = [got EXCEPT ![t][b] = contents[b]]
           /\ place' = [place EXCEPT ![t][b] = "used"]
           /\ UNCHANGED <<contents, payload, job, pc, queue, checked, written>>
        \/ place[t][b] = "refused" /\ Fail(t)
  BY DEF Use
<1>2. /\ b \in job[t].wanted /\ place[t][b] \in Busy
      /\ \A c \in job[t].wanted : place[t][c] # "used" => b <= c
  BY FirstInWindow DEF Use
<1>3. job[t].wanted \in SUBSET Blocks /\ b \in Blocks
  BY <1>2, JobType DEF GuardInv, Typed
<1>4. \A c \in job[t].wanted : c \in Nat
  BY <1>3, DenseAssumption DEF Blocks
<1>5. CASE /\ place[t][b] = "held"
           /\ got' = [got EXCEPT ![t][b] = contents[b]]
           /\ place' = [place EXCEPT ![t][b] = "used"]
           /\ UNCHANGED <<contents, payload, job, pc, queue, checked, written>>
  <2>1. \A c \in Blocks : place'[t][c] = IF c = b THEN "used" ELSE place[t][c]
    BY <1>5 DEF GuardInv, Queued
  <2>2. \A c \in Blocks : got'[t][c] = IF c = b THEN contents[b] ELSE got[t][c]
    BY <1>5 DEF GuardInv, Typed
  <2>3. contents[b] # Unread
    BY <1>3, DenseAssumption DEF GuardInv, Typed
  <2>4. pc[t] = "running" /\ UNCHANGED <<payload, job, pc>>
    BY <1>5 DEF Use, Running
  <2>5. ASSUME NEW c \in job[t].wanted, NEW d \in job[t].wanted,
               place'[t][c] = "used", place'[t][d] # "used"
        PROVE  c < d
    <3>1. d # b /\ place[t][d] # "used"
      BY <1>3, <2>1, <2>5
    <3>2. CASE c = b
      BY <1>2, <1>4, <3>1, <3>2, LessUnlessEqual
    <3>3. CASE c # b
      <4>1. place[t][c] = "used"
        BY <1>3, <2>1, <2>5, <3>3
      <4> QED BY <3>1, <4>1 DEF Window
    <3> QED BY <3>2, <3>3
  <2>6. \A c, d \in job[t].wanted : place'[t][c] \in Busy /\ place'[t][d] = "none" => c < d
    BY <1>3, <2>1 DEF Window, Busy
  <2>7. \A c \in Blocks :
          /\ place'[t][c] = "used" <=> got'[t][c] # Unread
          /\ place'[t][c] # "none" => c \in job[t].wanted
    BY <1>2, <2>1, <2>2, <2>3 DEF Window
  <2>8. \A c \in Blocks : place'[t][c] \in {"held", "used"} => payload[c] = "sound"
    BY <1>3, <1>5, <2>1 DEF Window
  <2>9. \A c \in Blocks : place'[t][c] = "refused" => payload[c] # "sound" \/ t \in Breakable
    BY <2>1 DEF Window
  <2> QED BY <2>4, <2>5, <2>6, <2>7, <2>8, <2>9 DEF Window
<1>6. CASE place[t][b] = "refused" /\ Fail(t)
  <2>1. \A c \in Blocks : place'[t][c] = IF place[t][c] = "used" THEN "used" ELSE "none"
    BY <1>6 DEF Fail, Release, GuardInv, Queued
  <2>2. pc'[t] = "failed" /\ UNCHANGED <<payload, job, got>>
    BY <1>6 DEF Fail, GuardInv, Typed
  <2>3. payload[b] # "sound" \/ t \in Breakable
    BY <1>3, <1>6 DEF Window
  <2>4. place'[t][b] # "used"
    BY <1>3, <1>6, <2>1
  <2>5. \A c \in job[t].wanted : place'[t][c] # "used" => b <= c
    BY <1>2, <1>3, <2>1
  <2>6. \A c, d \in job[t].wanted : place'[t][c] = "used" /\ place'[t][d] # "used" => c < d
    BY <1>3, <2>1 DEF Window
  <2>7. \A c \in Blocks : place'[t][c] \notin Busy /\ place'[t][c] \notin {"held", "refused"}
    BY <2>1 DEF Busy
  <2>8. \A c \in Blocks :
          /\ place'[t][c] = "used" <=> got[t][c] # Unread
          /\ place'[t][c] # "none" => c \in job[t].wanted
          /\ place'[t][c] = "used" => payload[c] = "sound"
    BY <2>1 DEF Window
  <2> QED BY <1>2, <1>3, <2>2, <2>3, <2>4, <2>5, <2>6, <2>7, <2>8 DEF Window
<1> QED BY <1>1, <1>5, <1>6

(* A reader is dropped, or has read every block.                            *)
LEMMA EndKeepsWindow ==
  ASSUME NEW t \in Tasks, IsReader(t), Window(t), GuardInv, Drop(t) \/ Return(t)
  PROVE  Window(t)'
<1>1. job[t].wanted \in SUBSET Blocks
  BY JobType DEF GuardInv, Typed
<1>2. CASE Drop(t)
  <2>1. \A c \in Blocks : place'[t][c] = IF place[t][c] = "used" THEN "used" ELSE "none"
    BY <1>2 DEF Drop, Release, GuardInv, Queued
  <2>2. pc'[t] = "dropped" /\ UNCHANGED <<payload, job, got>>
    BY <1>2 DEF Drop, GuardInv, Typed
  <2>3. \A c, d \in job[t].wanted : place'[t][c] = "used" /\ place'[t][d] # "used" => c < d
    BY <1>1, <2>1 DEF Window
  <2>4. \A c \in Blocks : place'[t][c] \notin Busy /\ place'[t][c] \notin {"held", "refused"}
    BY <2>1 DEF Busy
  <2>5. \A c \in Blocks :
          /\ place'[t][c] = "used" <=> got[t][c] # Unread
          /\ place'[t][c] # "none" => c \in job[t].wanted
          /\ place'[t][c] = "used" => payload[c] = "sound"
    BY <2>1 DEF Window
  <2> QED BY <1>1, <2>2, <2>3, <2>4, <2>5 DEF Window
<1>3. CASE Return(t)
  <2>1. pc'[t] = "done" /\ UNCHANGED <<payload, job, got, place>>
    BY <1>3 DEF Return, GuardInv, Typed
  <2>2. \A c \in job[t].wanted : place[t][c] = "used"
    <3> SUFFICES ASSUME NEW c \in job[t].wanted, place[t][c] # "used" PROVE FALSE
      OBVIOUS
    <3>1. c \notin ToRead(t) /\ c \notin InFlight(t)
      BY <1>3 DEF Return, Finished
    <3>2. c \in Blocks /\ place[t][c] \in Places
      BY <1>1 DEF GuardInv, Queued
    <3> QED BY <3>1, <3>2 DEF ToRead, InFlight, Places
  <2> QED BY <2>1, <2>2 DEF Window
<1> QED BY <1>2, <1>3

(* The steps of a reader are those of batch reads.                          *)
LEMMA OwnWindow ==
  ASSUME NEW t \in Tasks, IsReader(t), Window(t), GuardInv, Step(t)
  PROVE  Window(t)'
<1>1. ~Ask(t) /\ ~Check(t) /\ ~Apply(t)
  BY DEF Ask, Check, Apply, IsReader
<1>2. CASE \E b \in Blocks : Locate(t, b) \/ Open(t, b)
  <2>1. PICK b \in Blocks : Locate(t, b) \/ Open(t, b)
    BY <1>2
  <2>2. UNCHANGED <<got, job, pc, payload>> /\ Running(t)
    BY <2>1 DEF Locate, Open
  <2>3. place[t][b] \in {"asked", "queued"}
    BY <2>1 DEF Locate, Open, Admits
  <2>4. \E next \in {"queued", "held", "refused"} :
          /\ place' = [place EXCEPT ![t][b] = next]
          /\ next = "held" => payload[b] = "sound"
          /\ next = "refused" => payload[b] # "sound" \/ t \in Breakable
    BY <2>1 DEF Locate, Open, Enqueue, Leave
  <2>5. PICK next \in {"queued", "held", "refused"} :
          /\ \A c \in Blocks : place'[t][c] = IF c = b THEN next ELSE place[t][c]
          /\ next = "held" => payload[b] = "sound"
          /\ next = "refused" => payload[b] # "sound" \/ t \in Breakable
    BY <2>4 DEF GuardInv, Queued
  <2> QED BY <2>2, <2>3, <2>5, PlaceKeepsWindow
<1> QED
  BY <1>1, <1>2, BeginKeepsWindow, UseKeepsWindow, EndKeepsWindow DEF Step

(* Windows hold initially,                                                  *)
LEMMA InitReader == Init => ReaderInv
<1> SUFFICES ASSUME Init PROVE ReaderInv
  OBVIOUS
<1>1. \A t \in Tasks, b \in Blocks : place[t][b] = "none" /\ got[t][b] = Unread
  BY DEF Init
<1>2. \A t \in Tasks : pc[t] = "running"
  BY DEF Init
<1>3. GuardInv
  BY InitGuard
<1>4. \A t \in Tasks : IsReader(t) => job[t].wanted \in SUBSET Blocks
  BY <1>3, JobType DEF GuardInv, Typed
<1> QED BY <1>1, <1>2, <1>3, <1>4 DEF ReaderInv, Window, Busy

(* and every step keeps them.                                               *)
LEMMA StepReader == ReaderInv /\ [Next]_vars => ReaderInv'
<1> SUFFICES ASSUME ReaderInv, [Next]_vars PROVE ReaderInv'
  OBVIOUS
<1>1. GuardInv'
  BY StepGuard DEF ReaderInv
<1>2. CASE UNCHANGED vars
  BY <1>1, <1>2 DEF vars, ReaderInv, Window, IsReader
<1>3. CASE Next
  <2>1. PICK t \in Tasks : Step(t)
    BY <1>3 DEF Next, Step
  <2>2. job' = job /\ payload' = payload
    BY <2>1, FilesStay
  <2>3. ASSUME NEW u \in Tasks, IsReader(u)' PROVE Window(u)'
    <3>1. IsReader(u) /\ Window(u)
      BY <2>2, <2>3 DEF IsReader, ReaderInv
    <3>2. CASE u = t
      BY <2>1, <3>1, <3>2, OwnWindow DEF ReaderInv
    <3>3. CASE u # t
      <4>1. place'[u] = place[u] /\ got'[u] = got[u] /\ pc'[u] = pc[u]
        BY <2>1, <3>3, OthersStay DEF ReaderInv
      <4> QED BY <2>2, <3>1, <4>1 DEF Window
    <3> QED BY <3>2, <3>3
  <2> QED BY <1>1, <2>3 DEF ReaderInv
<1> QED BY <1>2, <1>3

(* A batch read uses no block behind one it could not read, fails for the   *)
(* first such block and returns only with all blocks read (read_groups).    *)
THEOREM ErrorsAreOrdered == Spec => []ErrorsComeInOrder
<1>1. ReaderInv => ErrorsComeInOrder
  <2> SUFFICES ASSUME ReaderInv, NEW t \in Tasks, IsReader(t)
               PROVE  LET used == {b \in Blocks : got[t][b] # Unread}
                          rest == job[t].wanted \ used
                      IN /\ \A b \in used : payload[b] = "sound" /\ \A c \in rest : b < c
                         /\ pc[t] = "done" => rest = {}
                         /\ pc[t] = "failed" /\ t \notin Breakable =>
                              rest # {} /\ payload[Least(rest)] # "sound"
    BY DEF ErrorsComeInOrder
  <2> DEFINE used == {b \in Blocks : got[t][b] # Unread}
             rest == job[t].wanted \ used
  <2>1. Window(t) /\ job[t].wanted \in SUBSET Blocks
    BY JobType DEF ReaderInv, GuardInv, Typed
  <2>2. used = {b \in Blocks : place[t][b] = "used"}
    BY <2>1 DEF Window
  <2>3. used \subseteq job[t].wanted
    BY <2>1, <2>2 DEF Window
  <2>4. \A c \in job[t].wanted : c \in rest <=> place[t][c] # "used"
    BY <2>1, <2>2
  <2> HIDE DEF used
  <2>5. \A b \in used : payload[b] = "sound" /\ \A c \in rest : b < c
    BY <2>1, <2>2, <2>3, <2>4 DEF Window
  <2>6. pc[t] = "done" => rest = {}
    BY <2>1, <2>4 DEF Window
  <2>7. ASSUME pc[t] = "failed", t \notin Breakable
        PROVE  rest # {} /\ payload[Least(rest)] # "sound"
    <3>1. PICK b \in job[t].wanted :
            /\ place[t][b] # "used" /\ payload[b] # "sound"
            /\ \A c \in job[t].wanted : place[t][c] # "used" => b <= c
      BY <2>1, <2>7 DEF Window
    <3>2. b \in rest /\ \A c \in rest : b <= c
      BY <2>4, <3>1
    <3>3. rest \in SUBSET Blocks /\ rest # {}
      BY <2>1, <3>2
    <3> HIDE DEF rest
    <3> DEFINE least == Least(rest)
    <3>4. least \in rest /\ \A c \in rest : least <= c
      BY <3>3, LeastBlock
    <3> HIDE DEF least
    <3>5. least <= b /\ b <= least
      BY <3>2, <3>4
    <3>6. least \in Nat /\ b \in Nat
      BY <3>2, <3>3, <3>4, DenseAssumption DEF Blocks
    <3>7. least = b
      BY <3>5, <3>6, NotBoth
    <3> QED BY <3>1, <3>3, <3>7 DEF least
  <2> QED BY <2>5, <2>6, <2>7 DEF used
<1>2. ReaderInv /\ [Next]_vars => ReaderInv'
  BY StepReader
<1> QED BY InitReader, <1>1, <1>2, PTL DEF Spec

--------------------------------------------------------------------------------
(****************************************************************************)
(* Dense storage implements BlockContents, for any number of callers and    *)
(* blocks and any window: a block write takes effect when it is applied     *)
(* under the block's guard, and a block of a batch is read when it is       *)
(* scattered.  Every other step of DenseStorage leaves what the callers see *)
(* unchanged.                                                               *)
(****************************************************************************)

(* A call is a task and one block of its batch, or all of its writes.       *)
LEMMA CallFacts ==
  /\ \A c \in Calls : c[1] \in Tasks /\ (c[2] \in Blocks \/ c[2] = Whole)
  /\ \A t \in Tasks : <<t, Whole>> \in Calls
  /\ \A t \in Tasks, b \in Blocks : <<t, b>> \in Calls /\ b # Whole
BY DenseAssumption DEF Calls, Whole, Blocks

(* Initially nothing was written and nothing answered.                      *)
LEMMA InitImplements == Init => Contents!Init
<1> SUFFICES ASSUME Init PROVE Contents!Init
  OBVIOUS
<1>1. CallWritten = [c \in Calls |-> <<>>]
  BY CallFacts DEF Init, CallWritten
<1>2. CallAnswer = [c \in Calls |-> Unread]
  BY CallFacts DEF Init, CallAnswer
<1> QED BY <1>1, <1>2 DEF Contents!Init

(* Steps that touch neither values nor answers are not seen.                *)
LEMMA Unseen ==
  ASSUME UNCHANGED <<contents, job, written, got>>
  PROVE  UNCHANGED Contents!vars
BY DEF Contents!vars, CallJob, CallWritten, CallAnswer, IsReader

(* A write that is applied is the next one of its task's call.              *)
LEMMA ApplyImplements ==
  ASSUME ReaderInv, NEW t \in Tasks, ~IsReader(t), Remaining(t),
         contents' = [contents EXCEPT ![Current(t).id] = Updated(@, Current(t).patch)],
         written' = [written EXCEPT ![t] = Append(@, Current(t))],
         UNCHANGED <<job, got>>
  PROVE  Contents!Next
<1> DEFINE c == <<t, Whole>>
           write == Current(t)
<1>1. c \in Calls /\ c[1] = t /\ c[2] = Whole
  BY CallFacts
<1>2. job[t].kind \in {"write", "fill"} /\ job[t].writes \in Seq(Writes) /\ written \in [Tasks -> Seq(Writes)]
  BY JobType DEF ReaderInv, GuardInv, Typed
<1>3. /\ CallJob[c] = [kind |-> job[t].kind, writes |-> job[t].writes]
      /\ CallWritten[c] = written[t]
  BY <1>1 DEF CallJob, CallWritten
<1>4. /\ Len(written[t]) + 1 \in DOMAIN job[t].writes
      /\ write = job[t].writes[Len(written[t]) + 1]
  <2>1. Len(written[t]) \in Nat /\ Len(job[t].writes) \in Nat /\ DOMAIN job[t].writes = 1..Len(job[t].writes)
    BY <1>2, LenProperties
  <2> QED BY <2>1 DEF Remaining, Current
<1>5. write \in Contents!Asked(c)
  BY <1>2, <1>3, <1>4 DEF Contents!Asked
<1>6. CallWritten' = [CallWritten EXCEPT ![c] = Append(@, write)]
  <2>1. ASSUME NEW d \in Calls
        PROVE  CallWritten'[d] = IF d = c THEN Append(CallWritten[d], write) ELSE CallWritten[d]
    <3>1. d[1] \in Tasks /\ d = <<d[1], d[2]>>
      BY DEF Calls
    <3>2. CASE d[1] = t /\ d[2] = Whole
      BY <1>2, <1>3, <3>1, <3>2 DEF CallWritten
    <3>3. CASE ~(d[1] = t /\ d[2] = Whole)
      BY <1>2, <3>1, <3>3 DEF CallWritten
    <3> QED BY <3>2, <3>3
  <2>2. /\ CallWritten = [d \in Calls |-> CallWritten[d]]
        /\ CallWritten' = [d \in Calls |-> CallWritten'[d]]
    BY DEF CallWritten
  <2> HIDE DEF c, write
  <2> QED BY <1>1, <2>1, <2>2
<1>7. contents' = [contents EXCEPT ![write.id] = Contents!Overwritten(@, write.patch)]
  BY DEF Updated, Contents!Overwritten
<1>8. UNCHANGED <<CallJob, CallAnswer>>
  BY DEF CallJob, CallAnswer, IsReader
<1> HIDE DEF c, write
<1>9. Contents!Apply(c)
  BY <1>5, <1>6, <1>7, <1>8 DEF Contents!Apply
<1> QED BY <1>1, <1>9 DEF Contents!Next

(* A block that is scattered is the answer to the call that reads it.       *)
LEMMA UseImplements ==
  ASSUME ReaderInv, NEW t \in Tasks, IsReader(t), NEW b \in Blocks, place[t][b] = "held",
         got' = [got EXCEPT ![t][b] = contents[b]],
         UNCHANGED <<contents, job, written>>
  PROVE  Contents!Next
<1> DEFINE c == <<t, b>>
<1>1. c \in Calls /\ c[1] = t /\ c[2] = b /\ b # Whole
  BY CallFacts
<1>2. b \in job[t].wanted /\ got[t][b] = Unread
  BY DEF ReaderInv, Window
<1>3. /\ contents[b] # Unread
      /\ got \in [Tasks -> [Blocks -> [Offsets -> Values] \union {Unread}]]
  BY DenseAssumption DEF ReaderInv, GuardInv, Typed
<1>4. CallJob[c] = Reading({b})
  BY <1>1, <1>2 DEF CallJob
<1>5. CallJob[c].kind = "read" /\ CallJob[c].wanted = {b}
  BY <1>4 DEF Reading
<1>6. CallAnswer[c] = Unread
  BY <1>1, <1>2 DEF CallAnswer
<1>7. CallAnswer' = [CallAnswer EXCEPT ![c] = [x \in {b} |-> contents[x]]]
  <2>1. ASSUME NEW d \in Calls
        PROVE  CallAnswer'[d] = IF d = c THEN [x \in {b} |-> contents[x]] ELSE CallAnswer[d]
    <3>1. d[1] \in Tasks /\ d = <<d[1], d[2]>> /\ (d[2] \in Blocks \/ d[2] = Whole)
      BY CallFacts DEF Calls
    <3>2. CASE d[1] = t /\ d[2] = b
      <4>1. got'[t][b] = contents[b]
        BY <1>3
      <4>2. CallAnswer'[d] = [x \in {b} |-> got'[t][x]]
        BY <1>1, <1>3, <3>2, <4>1 DEF CallAnswer
      <4> QED BY <3>1, <3>2, <4>1, <4>2
    <3>3. CASE ~(d[1] = t /\ d[2] = b)
      <4>1. d # c
        BY <3>3
      <4>2. CASE d[2] = Whole
        BY <4>1, <4>2 DEF CallAnswer
      <4>3. CASE d[2] \in Blocks
        <5>1. got'[d[1]][d[2]] = got[d[1]][d[2]]
          BY <1>3, <3>1, <3>3, <4>3
        <5>2. [x \in {d[2]} |-> got'[d[1]][x]] = [x \in {d[2]} |-> got[d[1]][x]]
          BY <5>1
        <5> QED BY <4>1, <5>1, <5>2 DEF CallAnswer
      <4> QED BY <3>1, <4>2, <4>3
    <3> QED BY <3>2, <3>3
  <2> QED BY <1>1, <2>1 DEF CallAnswer
<1>8. UNCHANGED <<CallJob, CallWritten>>
  BY DEF CallJob, CallWritten, IsReader
<1> HIDE DEF c
<1>9. Contents!Answer(c)
  BY <1>5, <1>6, <1>7, <1>8 DEF Contents!Answer
<1> QED BY <1>1, <1>9 DEF Contents!Next

(* A step is one of these, or not seen.                                     *)
LEMMA StepImplements ==
  ASSUME ReaderInv, NEW t \in Tasks, Step(t)
  PROVE  Contents!Next \/ UNCHANGED Contents!vars
<1>1. Fail(t) => UNCHANGED Contents!vars
  BY Unseen DEF Fail
<1>2. CASE Use(t)
  <2>1. InFlight(t) \in SUBSET Blocks /\ InFlight(t) # {} /\ IsReader(t)
    BY <1>2 DEF Use, InFlight
  <2>2. NextResult(t) \subseteq Blocks
    BY <2>1, LeastBlock DEF NextResult, First
  <2>3. PICK b \in NextResult(t) :
          \/ /\ place[t][b] = "held"
             /\ got' = [got EXCEPT ![t][b] = contents[b]]
             /\ UNCHANGED <<contents, job, written>>
          \/ Fail(t)
    BY <1>2 DEF Use
  <2> QED BY <1>1, <2>1, <2>2, <2>3, UseImplements
<1>3. CASE Apply(t)
  <2>1. CASE Fail(t)
    BY <1>1, <2>1
  <2>2. CASE ~Fail(t)
    BY <1>3, <2>2, ApplyImplements DEF Apply
  <2> QED BY <2>1, <2>2
<1>4. CASE Begin(t) \/ Return(t) \/ Drop(t) \/ \E b \in Blocks : Locate(t, b) \/ Open(t, b)
  BY <1>4, Unseen DEF Begin, Return, Drop, Locate, Open
<1>5. CASE Ask(t) \/ Check(t)
  BY <1>1, <1>5, Unseen DEF Ask, Check
<1> QED BY <1>2, <1>3, <1>4, <1>5 DEF Step

(* The reader invariant holds of every behaviour.                           *)
LEMMA Reader == Spec => []ReaderInv
<1>1. ReaderInv /\ [Next]_vars => ReaderInv'
  BY StepReader
<1> QED BY InitReader, <1>1, PTL DEF Spec

(* Callers of dense storage see blocks that are written atomically, in      *)
(* order and once, and read at one instant each, whatever fails or is       *)
(* abandoned (replace, update, read_groups).                                *)
THEOREM Implements == Spec => ImplementsBlockContents
<1>1. ReaderInv /\ [Next]_vars => [Contents!Next]_(Contents!vars)
  <2> SUFFICES ASSUME ReaderInv, [Next]_vars
               PROVE  Contents!Next \/ UNCHANGED Contents!vars
    OBVIOUS
  <2>1. CASE UNCHANGED vars
    BY <2>1, Unseen DEF vars
  <2>2. CASE Next
    BY <2>2, StepImplements DEF Next, Step
  <2> QED BY <2>1, <2>2
<1> QED BY <1>1, InitImplements, Reader, PTL DEF Spec, ImplementsBlockContents, Contents!Spec
================================================================================
