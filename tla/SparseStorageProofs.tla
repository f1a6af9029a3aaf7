-------------------------- MODULE SparseStorageProofs --------------------------
(****************************************************************************)
(* Proofs about SparseStorage for any number of tasks, blocks and offsets.  *)
(*                                                                          *)
(* WriterInv is the inductive invariant: a task between the two halves of a *)
(* block write holds the guard alone, the row it read is still in the table *)
(* and was sound, and what it is about to store is sound.                   *)
(****************************************************************************)
EXTENDS SparseStorage, SequenceTheorems, WellFoundedInduction, FiniteSetTheorems, TLAPS

(* Of two IDs, the one that is not greater is at most the other.            *)
LEMMA NotGreater ==
  ASSUME NEW x \in Nat, NEW y \in Nat, ~(y < x)
  PROVE  x <= y
OBVIOUS

(* A non-empty set of IDs has a least one.                                  *)
LEMMA LeastOf ==
  ASSUME NEW S \in SUBSET Nat, S # {}
  PROVE  Least(S) \in S /\ \A c \in S : Least(S) <= c
<1> DEFINE R == OpToRel(<, Nat)
<1>1. IsWellFoundedOn(R, Nat)
  BY NatLessThanWellFounded
<1>2. \E x \in S : \A y \in S : ~(<<y, x>> \in R)
  <2> HIDE DEF R
  <2> QED BY <1>1, WFMin
<1>3. \A x, y \in S : ~(<<y, x>> \in R) => x <= y
  <2> SUFFICES ASSUME NEW x \in S, NEW y \in S, ~(<<y, x>> \in R) PROVE x <= y
    OBVIOUS
  <2>1. x \in Nat /\ y \in Nat /\ <<y, x>> \in Nat \X Nat
    OBVIOUS
  <2>2. ~(y < x)
    BY <2>1 DEF OpToRel
  <2> QED BY <2>1, <2>2, NotGreater
<1>4. \E x \in S : \A y \in S : x <= y
  BY <1>2, <1>3
<1> QED BY <1>4 DEF Least

(* The block that a scan or a range turns to next is one of the storage's.  *)
LEMMA LeastBlock ==
  ASSUME NEW S \in SUBSET Blocks, S # {}
  PROVE  Least(S) \in S
<1>1. S \in SUBSET Nat
  BY StorageAssumption DEF Blocks
<1> QED BY <1>1, LeastOf

(* Overwriting a block by a patch gives a block.                            *)
LEMMA OverwrittenType ==
  ASSUME NEW values \in Payloads, NEW patch \in Patches
  PROVE  Overwritten(values, patch) \in Payloads
<1>1. PICK S \in SUBSET Offsets : patch \in [S -> Values]
  BY DEF Patches
<1> QED BY <1>1 DEF Payloads, Overwritten

(* Compacting a block gives a row, and a sound one if its padding is zero.  *)
LEMMA CompactSound ==
  ASSUME NEW values \in Payloads, NEW b \in Blocks
  PROVE  /\ Compact(values) \in Rows
         /\ Padded(b, values) => Sound(b, Compact(values))
BY DEF Compact, Rows, Sound

--------------------------------------------------------------------------------
(* The write a task is about to make names a block and a patch.             *)
LEMMA HeadType ==
  ASSUME TypeOK, NEW t \in Tasks, todo[t] # <<>>
  PROVE  /\ Target(t) \in Blocks
         /\ Head(todo[t]).patch \in Patches
         /\ Tail(todo[t]) \in Seq(Writes)
         /\ Result(t) \in Payloads
<1>1. todo[t] \in Seq(Writes)
  BY DEF TypeOK
<1>2. Head(todo[t]) \in Writes /\ Tail(todo[t]) \in Seq(Writes)
  BY <1>1, HeadTailProperties
<1>3. Head(todo[t]).id \in Blocks /\ Head(todo[t]).patch \in Patches
  BY <1>2 DEF Writes
<1>4. ValuesOf(rows[Target(t)]) \in Payloads
  BY <1>3, StorageAssumption DEF Target, ValuesOf, TypeOK, Rows, Payloads, Zeros
<1> QED BY <1>2, <1>3, <1>4, OverwrittenType DEF Target, Result

WriterInv ==
  /\ TypeOK
  /\ \A t \in Tasks :
       /\ pc[t] \in {"updating", "storing"} => guard[t] = "write" /\ todo[t] # <<>>
       /\ guard[t] = "write" => \A u \in Tasks \ {t} : guard[u] = "none"
       /\ pc[t] = "storing" =>
            /\ ~Corrupt(Target(t))
            /\ Sound(Target(t), row[t])

(* It holds initially.                                                      *)
LEMMA InitWriter == Init => WriterInv
<1> SUFFICES ASSUME Init PROVE WriterInv
  OBVIOUS
<1>1. rows \in [Blocks -> Rows] /\ job \in [Tasks -> Jobs]
  BY StorageAssumption DEF Init
<1>2. ASSUME NEW t \in Tasks
      PROVE  /\ todo[t] \in Seq(Writes)
             /\ left[t] \in SUBSET Blocks
  <2>1. job[t] \in Jobs
    BY <1>1
  <2>2. job[t].kind \in {"write", "fill"} => job[t].writes \in Seq(Writes)
    BY <2>1, JobAssumption
  <2>3. <<>> \in Seq(Writes)
    BY EmptySeq
  <2>4. todo[t] \in Seq(Writes)
    BY <2>2, <2>3 DEF Init
  <2>5. job[t].kind = "read" => job[t].wanted \in SUBSET Blocks
    BY <2>1, JobAssumption
  <2>6. Initial(job[t]) \in SUBSET Blocks
    BY <2>5 DEF Initial
  <2> QED BY <2>4, <2>6 DEF Init
<1>3. todo \in [Tasks -> Seq(Writes)] /\ left \in [Tasks -> SUBSET Blocks]
  <2>1. todo = [t \in Tasks |-> todo[t]] /\ left = [t \in Tasks |-> left[t]]
    BY DEF Init
  <2> QED BY <1>2, <2>1
<1>4. TypeOK
  BY <1>1, <1>3 DEF Init, TypeOK, Places, Rows
<1> QED BY <1>4 DEF WriterInv, Init

(* A step that takes or gives back the guard, and a step that leaves what   *)
(* concerns writers alone.                                                  *)
LEMMA ReadersType ==
  ASSUME TypeOK, NEW t \in Tasks,
         \/ BeginCheck(t) \/ Check(t) \/ FinishWrites(t) \/ BeginRead(t) \/ EndRead(t)
         \/ BeginPage(t) \/ EndScan(t) \/ Break(t) \/ BeginUpdate(t)
  PROVE  TypeOK'
<1>1. /\ rows' = rows /\ job' = job /\ todo' = todo /\ row' = row
      /\ left' = left /\ span' = span /\ page' = page
  BY DEF BeginCheck, Check, FinishWrites, BeginRead, EndRead, BeginPage, EndScan, Break, BeginUpdate
<1>2. /\ guard' \in [Tasks -> {"none", "read", "write"}]
      /\ pc' \in [Tasks -> Places]
  BY DEF TypeOK, Acquire, Release, Places, BeginCheck, Check, FinishWrites, BeginRead, EndRead,
         BeginPage, EndScan, Break, BeginUpdate
<1> QED BY <1>1, <1>2 DEF TypeOK

(* Storing a row and moving to the next write.                              *)
LEMMA StoredType ==
  ASSUME TypeOK, NEW t \in Tasks, todo[t] # <<>>, Stored(t)
  PROVE  /\ rows' \in [Blocks -> Rows]
         /\ todo' \in [Tasks -> Seq(Writes)]
<1>1. Target(t) \in Blocks /\ Tail(todo[t]) \in Seq(Writes)
  BY HeadType
<1>2. row[t] \in Rows
  BY DEF TypeOK
<1> QED BY <1>1, <1>2 DEF Stored, TypeOK

(* Every step keeps the types.                                              *)
LEMMA NextType == WriterInv /\ [Next]_vars => TypeOK'
<1> SUFFICES ASSUME WriterInv, [Next]_vars PROVE TypeOK'
  OBVIOUS
<1> USE DEF WriterInv
<1>1. ASSUME NEW t \in Tasks, Compute(t) PROVE TypeOK'
  <2>1. Compact(Result(t)) \in Rows
    <3>1. pc[t] = "updating" /\ todo[t] # <<>>
      BY <1>1 DEF Compute
    <3>2. Target(t) \in Blocks /\ Result(t) \in Payloads
      BY <3>1, HeadType
    <3> QED BY <3>2, CompactSound
  <2> HIDE DEF WriterInv
  <2>2. /\ row \in [Tasks -> Rows] /\ pc \in [Tasks -> Places]
        /\ guard \in [Tasks -> {"none", "read", "write"}]
        /\ TypeOK
    BY DEF WriterInv, TypeOK
  <2>4. row' \in [Tasks -> Rows]
    BY <1>1, <2>1, <2>2 DEF Compute
  <2>5. /\ pc' \in [Tasks -> Places]
        /\ guard' \in [Tasks -> {"none", "read", "write"}]
    BY <1>1, <2>2 DEF Compute, Release, Places
  <2>3. /\ rows' = rows /\ job' = job /\ todo' = todo
        /\ left' = left /\ span' = span /\ page' = page
    BY <1>1 DEF Compute
  <2> QED BY <2>2, <2>3, <2>4, <2>5 DEF TypeOK
<1>2. ASSUME NEW t \in Tasks, Store(t) PROVE TypeOK'
  <2>1. rows' \in [Blocks -> Rows] /\ todo' \in [Tasks -> Seq(Writes)]
    BY <1>2, StoredType DEF Store
  <2>2. pc' \in [Tasks -> Places] /\ guard' \in [Tasks -> {"none", "read", "write"}]
    BY <1>2 DEF Store, TypeOK, Release, Places
  <2>3. job' = job /\ row' = row /\ left' = left /\ span' = span /\ page' = page
    BY <1>2 DEF Store
  <2> QED BY <2>1, <2>2, <2>3 DEF TypeOK
<1>3. ASSUME NEW t \in Tasks, OpenRange(t) PROVE TypeOK'
  BY <1>3 DEF OpenRange, TypeOK, Run
<1>4. ASSUME NEW t \in Tasks, ReadRow(t) PROVE TypeOK'
  <2> DEFINE b == Least(span[t] \intersect Occupied)
  <2>1. \/ span' = [span EXCEPT ![t] = {}]
        \/ span' = [span EXCEPT ![t] = {c \in @ : c > b}]
        \/ span' = span
    BY <1>4 DEF ReadRow
  <2> HIDE DEF b
  <2>5. {c \in span[t] : c > b} \in SUBSET Blocks /\ span \in [Tasks -> SUBSET Blocks]
    BY DEF TypeOK
  <2>6. \A S \in SUBSET Blocks : [span EXCEPT ![t] = S] \in [Tasks -> SUBSET Blocks]
    BY <2>5
  <2>2. span' \in [Tasks -> SUBSET Blocks]
    BY <2>1, <2>5, <2>6
  <2>3. \/ pc' = pc /\ guard' = guard
        \/ Release(t, "invalid")
    BY <1>4 DEF ReadRow
  <2>4. pc' \in [Tasks -> Places] /\ guard' \in [Tasks -> {"none", "read", "write"}]
    BY <2>3 DEF TypeOK, Release, Places
  <2> QED BY <1>4, <2>2, <2>4 DEF ReadRow, TypeOK
<1>5. ASSUME NEW t \in Tasks, ReadPage(t) PROVE TypeOK'
  <2> DEFINE keys == FirstKeys(left[t] \intersect Occupied)
  <2>1. keys \in SUBSET Blocks /\ Rest(t, keys) \in SUBSET Blocks
    BY DEF TypeOK, FirstKeys, Rest
  <2>2. page' = [page EXCEPT ![t] = keys] /\ left' = [left EXCEPT ![t] = Rest(t, keys)]
    BY <1>5 DEF ReadPage
  <2> HIDE DEF keys
  <2>3. page' \in [Tasks -> SUBSET Blocks] /\ left' \in [Tasks -> SUBSET Blocks]
    BY <2>1, <2>2 DEF TypeOK
  <2>4. pc' \in [Tasks -> Places] /\ guard' \in [Tasks -> {"none", "read", "write"}]
    BY <1>5 DEF ReadPage, TypeOK, Release, Places
  <2> QED BY <1>5, <2>3, <2>4 DEF ReadPage, TypeOK
<1>6. ASSUME NEW t \in Tasks, Deliver(t) PROVE TypeOK'
  <2> DEFINE b == Least(page[t])
             write == [id |-> b, patch |-> job[t].patch]
  <2>1. page[t] \in SUBSET Blocks /\ page[t] # {} /\ job[t] \in Jobs
    BY <1>6 DEF Deliver, TypeOK
  <2>2. b \in Blocks
    BY <2>1, LeastBlock
  <2>3. job[t].kind = "scan" /\ job[t].patch \in Patches
    BY <1>6, <2>1, JobAssumption DEF Deliver
  <2>4. write \in Writes
    BY <2>2, <2>3 DEF Writes
  <2> HIDE DEF write
  <2>5. <<write>> \in Seq(Writes) /\ <<>> \in Seq(Writes)
    BY <2>4, EmptySeq
  <2>6. todo' = [todo EXCEPT ![t] = IF DOMAIN job[t].patch = {} THEN <<>> ELSE <<write>>]
    BY <1>6 DEF Deliver, write
  <2>7. todo' \in [Tasks -> Seq(Writes)]
    BY <2>5, <2>6 DEF TypeOK
  <2>8. page' \in [Tasks -> SUBSET Blocks]
    BY <1>6 DEF Deliver, TypeOK
  <2>9. /\ rows' = rows /\ guard' = guard /\ job' = job /\ pc' = pc /\ row' = row
        /\ left' = left /\ span' = span
    BY <1>6 DEF Deliver
  <2> QED BY <2>7, <2>8, <2>9 DEF TypeOK
<1>7. ASSUME NEW t \in Tasks, BreakStore(t) PROVE TypeOK'
  <2>1. rows' \in [Blocks -> Rows] /\ todo' \in [Tasks -> Seq(Writes)]
    BY <1>7, StoredType DEF BreakStore, TypeOK
  <2>2. pc' \in [Tasks -> Places] /\ guard' \in [Tasks -> {"none", "read", "write"}]
    BY <1>7 DEF BreakStore, TypeOK, Places
  <2>3. job' = job /\ row' = row /\ left' = left /\ span' = span /\ page' = page
    BY <1>7 DEF BreakStore
  <2> QED BY <2>1, <2>2, <2>3 DEF TypeOK
<1>8. CASE UNCHANGED vars
  BY <1>8 DEF vars, local, history, TypeOK
<1> QED BY <1>1, <1>2, <1>3, <1>4, <1>5, <1>6, <1>7, <1>8, ReadersType DEF Next, Step

--------------------------------------------------------------------------------
(* A write ends by storing a sound row in the place of a sound row, if it   *)
(* stores any.                                                              *)
LEMMA StoredSound ==
  ASSUME WriterInv, NEW t \in Tasks, pc[t] = "storing",
         Stored(t) \/ UNCHANGED rows,
         NEW b \in Blocks, rows'[b] # rows[b]
  PROVE  Sound(b, rows[b]) /\ Sound(b, rows'[b])
<1>1. /\ ~Corrupt(Target(t)) /\ Sound(Target(t), row[t])
      /\ rows \in [Blocks -> Rows]
  BY DEF WriterInv, TypeOK
<1>2. rows' = [rows EXCEPT ![Target(t)] = row[t]]
  BY DEF Stored
<1>3. b = Target(t) /\ rows'[b] = row[t]
  BY <1>1, <1>2
<1> QED BY <1>1, <1>3 DEF Corrupt

(* The guard stays exclusive.                                               *)
LEMMA NextExclusive ==
  ASSUME WriterInv, Next, NEW t \in Tasks, guard'[t] = "write"
  PROVE  \A u \in Tasks \ {t} : guard'[u] = "none"
<1> USE DEF WriterInv, TypeOK
<1>1. ASSUME NEW v \in Tasks, BeginUpdate(v) PROVE \A u \in Tasks \ {t} : guard'[u] = "none"
  BY <1>1 DEF BeginUpdate, Acquire, CanWrite
<1>2. ASSUME NEW v \in Tasks, BeginCheck(v) \/ BeginRead(v) \/ BeginPage(v)
      PROVE  guard'[t] # "write"
  BY <1>2 DEF BeginCheck, BeginRead, BeginPage, Acquire, CanRead
<1>3. ASSUME NEW v \in Tasks,
             \/ Check(v) \/ Compute(v) \/ Store(v) \/ ReadRow(v) \/ EndRead(v) \/ ReadPage(v)
             \/ Break(v) \/ BreakStore(v)
      PROVE  \A u \in Tasks : guard'[u] \in {guard[u], "none"}
  BY <1>3 DEF Check, Compute, Store, ReadRow, EndRead, ReadPage, Break, BreakStore, Release
<1>4. ASSUME NEW v \in Tasks, FinishWrites(v) \/ OpenRange(v) \/ Deliver(v) \/ EndScan(v)
      PROVE  guard' = guard
  BY <1>4 DEF FinishWrites, OpenRange, Deliver, EndScan
<1>5. ASSUME \A u \in Tasks : guard'[u] \in {guard[u], "none"}
      PROVE  \A u \in Tasks \ {t} : guard'[u] = "none"
  BY <1>5
<1> QED BY <1>1, <1>2, <1>3, <1>4, <1>5 DEF Next, Step

(* A writer is what it claims to be between the halves of its write.        *)
WriterSound(t) ==
  /\ pc[t] \in {"updating", "storing"} => guard[t] = "write" /\ todo[t] # <<>>
  /\ pc[t] = "storing" => ~Corrupt(Target(t)) /\ Sound(Target(t), row[t])

(* Its own steps keep it so.                                                *)
LEMMA OwnStep ==
  ASSUME WriterInv, NEW t \in Tasks, Step(t) \/ Break(t) \/ BreakStore(t)
  PROVE  WriterSound(t)'
<1> USE DEF WriterInv, TypeOK
<1>1. CASE BeginUpdate(t)
  BY <1>1 DEF BeginUpdate, Acquire, WriterSound
<1>2. CASE Compute(t)
  <2>1. CASE ~Accepted(t)
    BY <1>2, <2>1 DEF Compute, Release, WriterSound
  <2>2. CASE Accepted(t)
    <3>1. pc[t] = "updating" /\ todo[t] # <<>> /\ guard[t] = "write"
      BY <1>2 DEF Compute
    <3>2. Target(t) \in Blocks /\ Result(t) \in Payloads
      BY <3>1, HeadType
    <3>3. Sound(Target(t), Compact(Result(t))) /\ ~Corrupt(Target(t))
      BY <2>2, <3>2, CompactSound DEF Accepted
    <3>4. /\ row'[t] = Compact(Result(t)) /\ pc'[t] = "storing"
          /\ rows' = rows /\ guard' = guard /\ todo' = todo
      BY <1>2, <2>2 DEF Compute
    <3> QED BY <3>1, <3>3, <3>4 DEF WriterSound, Target, Corrupt
  <2> QED BY <2>1, <2>2
<1>3. CASE ~BeginUpdate(t) /\ ~Compute(t)
  <2>1. pc'[t] \notin {"updating", "storing"}
    BY <1>3 DEF Step, BeginCheck, Check, Store, FinishWrites, BeginRead, OpenRange, ReadRow, EndRead,
                BeginPage, ReadPage, Deliver, EndScan, Break, BreakStore, Acquire, Release, Ended
  <2> QED BY <2>1 DEF WriterSound
<1> QED BY <1>1, <1>2, <1>3

(* So do the steps of others, which cannot store while it has the guard.    *)
LEMMA OthersStep ==
  ASSUME WriterInv, NEW t \in Tasks, NEW u \in Tasks \ {t}, Step(u) \/ Break(u) \/ BreakStore(u)
  PROVE  WriterSound(t)'
<1> USE DEF WriterInv, TypeOK
<1>1. CASE BreakStore(u)
  BY <1>1 DEF BreakStore, Ended, WriterSound
<1>2. CASE Store(u)
  <2>1. guard[t] = "none"
    BY <1>2 DEF Store
  <2>2. pc'[t] = pc[t] /\ pc[t] \notin {"updating", "storing"}
    BY <1>2, <2>1 DEF Store, Release
  <2> QED BY <2>2 DEF WriterSound
<1>3. CASE (Step(u) \/ Break(u)) /\ ~Store(u)
  <2>1. /\ pc'[t] = pc[t] /\ guard'[t] = guard[t] /\ rows' = rows
        /\ todo'[t] = todo[t] /\ row'[t] = row[t]
    BY <1>3 DEF Step, BeginCheck, Check, BeginUpdate, Compute, FinishWrites, BeginRead, OpenRange,
                ReadRow, EndRead, BeginPage, ReadPage, Deliver, EndScan, Break, Acquire, Release
  <2> QED BY <2>1 DEF WriterSound, Target, Corrupt
<1> QED BY <1>1, <1>2, <1>3

(* Every step keeps the invariant.                                          *)
LEMMA NextWriter == WriterInv /\ [Next]_vars => WriterInv'
<1> SUFFICES ASSUME WriterInv, [Next]_vars PROVE WriterInv'
  OBVIOUS
<1>1. TypeOK'
  BY NextType
<1>2. CASE Next
  <2>1. ASSUME NEW t \in Tasks
        PROVE  /\ WriterSound(t)'
               /\ guard'[t] = "write" => \A u \in Tasks \ {t} : guard'[u] = "none"
    BY <1>2, NextExclusive, OwnStep, OthersStep DEF Next
  <2> QED BY <1>1, <2>1 DEF WriterInv, WriterSound
<1>3. CASE UNCHANGED vars
  BY <1>3, <1>1 DEF WriterInv, vars, local, history, Target, Corrupt
<1> QED BY <1>2, <1>3

(* The invariant holds of every behaviour.                                  *)
LEMMA Writer == Spec => []WriterInv
<1> QED BY InitWriter, NextWriter, PTL DEF Spec

(* TypeOK: every table that load finds stays a table of typed blocks.       *)
THEOREM TypeCorrect == Spec => []TypeOK
<1>1. WriterInv => TypeOK
  BY DEF WriterInv
<1> QED BY <1>1, Writer, PTL

(* No operation, concurrent with any others, failing or abandoned at any    *)
(* point, overwrites a corrupt row or stores one.                           *)
THEOREM RowsStaySound == Spec => OnlySoundRowsChange
<1>1. WriterInv /\ [Next]_vars =>
        [\A b \in Blocks : rows'[b] # rows[b] => Sound(b, rows[b]) /\ Sound(b, rows'[b])]_vars
  <2> SUFFICES ASSUME WriterInv, Next, NEW b \in Blocks, rows'[b] # rows[b]
               PROVE  Sound(b, rows[b]) /\ Sound(b, rows'[b])
    OBVIOUS
  <2>1. ASSUME NEW t \in Tasks, Store(t) \/ BreakStore(t)
        PROVE  Sound(b, rows[b]) /\ Sound(b, rows'[b])
    BY <2>1, StoredSound DEF Store, BreakStore
  <2>2. ASSUME NEW t \in Tasks, Step(t) \/ Break(t), ~Store(t)
        PROVE  rows' = rows
    BY <2>2 DEF Step, BeginCheck, Check, BeginUpdate, Compute, FinishWrites, BeginRead, OpenRange,
                ReadRow, EndRead, BeginPage, ReadPage, Deliver, EndScan, Break
  <2> QED BY <2>1, <2>2 DEF Next
<1> QED BY <1>1, Writer, PTL DEF Spec, OnlySoundRowsChange

--------------------------------------------------------------------------------
(****************************************************************************)
(* Sparse storage implements BlockContents, for any number of callers and   *)
(* blocks: a block write takes effect when its row is stored, and a batch   *)
(* is read at the moment that its guard is released.  It refuses an         *)
(* operation for the operation's own blocks only, and its occupancy stream  *)
(* keeps up with the writes that are made between its pages.                *)
(*                                                                          *)
(* ViewInv adds to WriterInv what ties the callers' view to the steps: what *)
(* a writer has still to do, what the row it is about to store was computed *)
(* from, and what a reader that holds the guard has read so far.  ScanInv   *)
(* adds how what a scan has delivered, read ahead and left relates to the   *)
(* blocks that were occupied while it ran.                                  *)
(****************************************************************************)

(* The kinds of jobs.                                                       *)
LEMMA JobType ==
  ASSUME NEW j \in Jobs
  PROVE  /\ j.kind \in {"write", "fill", "read", "scan"}
         /\ j.kind \in {"write", "fill"} => j.writes \in Seq(Writes)
         /\ j.kind = "read" => j.wanted \in SUBSET Blocks /\ Initial(j) = j.wanted
         /\ j.kind = "scan" => j.patch \in Patches
<1>1. \/ j \in [kind : {"write", "fill"}, writes : Seq(Writes)]
      \/ j \in [kind : {"read"}, wanted : SUBSET Blocks]
      \/ j \in [kind : {"scan"}, lo : 0..BlockCount, hi : 0..BlockCount, patch : Patches]
  BY JobAssumption
<1> QED BY <1>1 DEF Initial

(* A compacted block reads as the block.                                    *)
LEMMA CompactValues ==
  ASSUME NEW values \in Payloads
  PROVE  ValuesOf(Compact(values)) = values
<1>1. values # Absent
  BY StorageAssumption
<1>2. CASE Nonzero(values)
  BY <1>1, <1>2 DEF ValuesOf, Compact
<1>3. CASE ~Nonzero(values)
  <2>1. values = Zeros
    BY <1>3 DEF Nonzero, Zeros, Payloads
  <2> QED BY <1>3, <2>1 DEF ValuesOf, Compact
<1> QED BY <1>2, <1>3

--------------------------------------------------------------------------------
(* What a writer has still to make is the end of what it was given.         *)
Pending(t) ==
  job[t].kind \in {"write", "fill"} =>
    /\ Len(todo[t]) <= Len(job[t].writes)
    /\ \A k \in 1..Len(todo[t]) : todo[t][k] = job[t].writes[Len(job[t].writes) - Len(todo[t]) + k]

(* A scan writes the block it delivered last, if any.                       *)
Visiting(t) ==
  job[t].kind = "scan" =>
    /\ out[t] \in Seq(Blocks)
    /\ todo[t] # <<>> =>
         /\ DOMAIN job[t].patch # {} /\ out[t] # <<>>
         /\ todo[t] = <<[id |-> out[t][Len(out[t])], patch |-> job[t].patch]>>

(* A batch holds what it has passed, and zeros where it has not been.       *)
Batch(t) ==
  job[t].kind = "read" =>
    /\ todo[t] = <<>>
    /\ left[t] \union span[t] \subseteq job[t].wanted
    /\ left[t] \intersect span[t] = {}
    /\ pc[t] \in {"idle", "reading", "done", "invalid", "broken"}
    /\ pc[t] = "idle" => left[t] = job[t].wanted /\ out[t] = [b \in job[t].wanted |-> Zeros]
    /\ pc[t] = "reading" =>
         /\ guard[t] = "read"
         /\ out[t] = [b \in job[t].wanted |->
                       IF b \in left[t] \union span[t] THEN Zeros ELSE ValuesOf(rows[b])]

(* Where a task is suits its job, and what is about to be stored was        *)
(* computed from the row that is still in the table.                        *)
Placed(t) ==
  /\ pc[t] = "reading" => job[t].kind = "read"
  /\ pc[t] = "paging" => job[t].kind = "scan"
  /\ pc[t] \in {"checking", "checked"} => todo[t] # <<>>
  /\ pc[t] = "storing" => row[t] = Compact(Result(t))

(* What a refused task was refused for is still there.                      *)
Refused(t) ==
  pc[t] = "invalid" =>
    \/ job[t].kind = "read" /\ \E b \in job[t].wanted : Corrupt(b)
    \/ /\ todo[t] # <<>>
       /\ \/ Corrupt(Target(t))
          \/ ~Padded(Target(t), Overwritten(Zeros, Head(todo[t]).patch))

Viewed(t) == Pending(t) /\ Visiting(t) /\ Batch(t) /\ Placed(t) /\ Refused(t)

ViewInv ==
  /\ WriterInv
  /\ out = [t \in Tasks |-> out[t]]
  /\ \A t \in Tasks : Viewed(t)

(* It holds initially.                                                      *)
LEMMA InitView == Init => ViewInv
<1> SUFFICES ASSUME Init PROVE ViewInv
  OBVIOUS
<1>1. WriterInv
  BY InitWriter
<1>2. ASSUME NEW t \in Tasks PROVE Viewed(t)
  <2>1. /\ job[t] \in Jobs /\ pc[t] = "idle" /\ left[t] = Initial(job[t]) /\ span[t] = {}
        /\ todo[t] = IF job[t].kind \in {"write", "fill"} THEN job[t].writes ELSE <<>>
        /\ out[t] = IF job[t].kind = "read" THEN [b \in job[t].wanted |-> Zeros] ELSE <<>>
    BY DEF Init
  <2>2. Pending(t)
    <3>1. SUFFICES ASSUME job[t].kind \in {"write", "fill"} PROVE Pending(t)
      BY DEF Pending
    <3>2. todo[t] = job[t].writes /\ job[t].writes \in Seq(Writes)
      BY <2>1, <3>1, JobType
    <3>3. Len(job[t].writes) \in Nat
      BY <3>2, LenProperties
    <3> QED BY <3>2, <3>3 DEF Pending
  <2>3. Visiting(t)
    BY <2>1, EmptySeq DEF Visiting
  <2>4. Batch(t)
    BY <2>1, JobType DEF Batch
  <2>5. Placed(t)
    BY <2>1 DEF Placed
  <2>6. Refused(t)
    BY <2>1 DEF Refused
  <2> QED BY <2>2, <2>3, <2>4, <2>5, <2>6 DEF Viewed
<1>3. out = [t \in Tasks |-> out[t]]
  BY DEF Init
<1> QED BY <1>1, <1>2, <1>3 DEF ViewInv

--------------------------------------------------------------------------------
(* A corrupt row stays: nothing replaces it.                                *)
LEMMA CorruptStays ==
  ASSUME WriterInv, Next, NEW b \in Blocks, Corrupt(b)
  PROVE  Corrupt(b)'
<1>1. ASSUME NEW t \in Tasks, Store(t) \/ BreakStore(t), rows'[b] # rows[b]
      PROVE  FALSE
  BY <1>1, StoredSound DEF Store, BreakStore, Corrupt
<1>2. ASSUME NEW t \in Tasks, Step(t) \/ Break(t), ~Store(t)
      PROVE  rows' = rows
  BY <1>2 DEF Step, BeginCheck, Check, BeginUpdate, Compute, FinishWrites, BeginRead, OpenRange,
              ReadRow, EndRead, BeginPage, ReadPage, Deliver, EndScan, Break
<1>3. rows'[b] = rows[b]
  BY <1>1, <1>2 DEF Next
<1> QED BY <1>3 DEF Corrupt

(* A task that another one passes by keeps its place and its data, unless   *)
(* the other one discards the storage.                                      *)
LEMMA OthersFrame ==
  ASSUME ViewInv, NEW t \in Tasks, NEW u \in Tasks \ {t}, Step(u) \/ Break(u) \/ BreakStore(u)
  PROVE  /\ job' = job /\ todo'[t] = todo[t] /\ row'[t] = row[t] /\ left'[t] = left[t]
         /\ span'[t] = span[t] /\ out'[t] = out[t] /\ out' = [v \in Tasks |-> out'[v]]
         /\ pc'[t] = pc[t] \/ pc'[t] = "broken"
<1>1. /\ todo \in [Tasks -> Seq(Writes)] /\ row \in [Tasks -> Rows] /\ left \in [Tasks -> SUBSET Blocks]
      /\ span \in [Tasks -> SUBSET Blocks] /\ pc \in [Tasks -> Places]
      /\ out = [v \in Tasks |-> out[v]]
  BY DEF ViewInv, WriterInv, TypeOK
<1>2. job' = job
  BY DEF Step, BeginCheck, Check, BeginUpdate, Compute, Store, FinishWrites, BeginRead, OpenRange,
         ReadRow, EndRead, BeginPage, ReadPage, Deliver, EndScan, Break, BreakStore
<1>3. todo'[t] = todo[t]
  BY <1>1 DEF Step, BeginCheck, Check, BeginUpdate, Compute, Store, FinishWrites, BeginRead, OpenRange,
         ReadRow, EndRead, BeginPage, ReadPage, Deliver, EndScan, Break, BreakStore, Stored
<1>4. row'[t] = row[t]
  BY <1>1 DEF Step, BeginCheck, Check, BeginUpdate, Compute, Store, FinishWrites, BeginRead, OpenRange,
         ReadRow, EndRead, BeginPage, ReadPage, Deliver, EndScan, Break, BreakStore
<1>5. left'[t] = left[t] /\ span'[t] = span[t]
  BY <1>1 DEF Step, BeginCheck, Check, BeginUpdate, Compute, Store, FinishWrites, BeginRead, OpenRange,
         ReadRow, EndRead, BeginPage, ReadPage, Deliver, EndScan, Break, BreakStore
<1>6. \/ out' = out
      \/ \E x : out' = [out EXCEPT ![u] = x]
  BY DEF Step, BeginCheck, Check, BeginUpdate, Compute, Store, FinishWrites, BeginRead, OpenRange,
         ReadRow, EndRead, BeginPage, ReadPage, Deliver, EndScan, Break, BreakStore
<1>7. out'[t] = out[t] /\ out' = [v \in Tasks |-> out'[v]]
  BY <1>1, <1>6
<1>8. pc'[t] = pc[t] \/ pc'[t] = "broken"
  BY <1>1 DEF Step, BeginCheck, Check, BeginUpdate, Compute, Store, FinishWrites, BeginRead, OpenRange,
         ReadRow, EndRead, BeginPage, ReadPage, Deliver, EndScan, Break, BreakStore, Acquire, Release
<1> QED BY <1>2, <1>3, <1>4, <1>5, <1>7, <1>8

(* ... and if it was reading, or about to store, so does the table.         *)
LEMMA OthersTable ==
  ASSUME ViewInv, NEW t \in Tasks, NEW u \in Tasks \ {t}, Step(u) \/ Break(u) \/ BreakStore(u),
         pc'[t] \in {"reading", "storing"}
  PROVE  rows' = rows /\ guard'[t] = guard[t] /\ pc'[t] = pc[t]
<1>1. /\ pc \in [Tasks -> Places] /\ guard \in [Tasks -> {"none", "read", "write"}]
      /\ pc'[t] = pc[t]
  BY OthersFrame DEF ViewInv, WriterInv, TypeOK
<1>2. guard[t] # "none"
  <2>1. Batch(t) /\ Placed(t) /\ job[t] \in Jobs
    BY DEF ViewInv, Viewed, WriterInv, TypeOK
  <2> QED BY <1>1, <2>1 DEF Batch, Placed, ViewInv, WriterInv
<1>3. pc[u] # "storing"
  BY <1>2 DEF ViewInv, WriterInv
<1> QED BY <1>1, <1>3 DEF Step, BeginCheck, Check, BeginUpdate, Compute, Store, FinishWrites, BeginRead,
             OpenRange, ReadRow, EndRead, BeginPage, ReadPage, Deliver, EndScan, Break, BreakStore,
             Acquire, Release

(* So the steps of others keep what is known of a task.                     *)
LEMMA OthersView ==
  ASSUME ViewInv, NEW t \in Tasks, NEW u \in Tasks \ {t}, Step(u) \/ Break(u) \/ BreakStore(u)
  PROVE  Viewed(t)'
<1>1. Viewed(t) /\ job[t] \in Jobs /\ WriterInv
  BY DEF ViewInv, WriterInv, TypeOK
<1>2. /\ job' = job /\ todo'[t] = todo[t] /\ row'[t] = row[t] /\ left'[t] = left[t]
      /\ span'[t] = span[t] /\ out'[t] = out[t]
      /\ pc'[t] = pc[t] \/ pc'[t] = "broken"
  BY OthersFrame
<1>3. pc'[t] \in {"reading", "storing"} => rows' = rows /\ guard'[t] = guard[t]
  BY OthersTable
<1>4. Pending(t)' /\ Visiting(t)'
  BY <1>1, <1>2 DEF Viewed, Pending, Visiting
<1>5. Batch(t)'
  BY <1>1, <1>2, <1>3 DEF Viewed, Batch
<1>6. Placed(t)'
  BY <1>1, <1>2, <1>3 DEF Viewed, Placed, Result, Target
<1>7. Refused(t)'
  <2> SUFFICES ASSUME pc'[t] = "invalid" PROVE Refused(t)'
    BY DEF Refused
  <2>1. pc[t] = "invalid" /\ Refused(t)
    BY <1>1, <1>2 DEF Viewed
  <2>2. \A b \in Blocks : Corrupt(b) => Corrupt(b)'
    BY <1>1, CorruptStays DEF Next
  <2>3. CASE job[t].kind = "read" /\ \E b \in job[t].wanted : Corrupt(b)
    <3>1. job[t].wanted \in SUBSET Blocks
      BY <1>1, <2>3, JobType
    <3> QED BY <1>2, <2>2, <2>3, <3>1 DEF Refused
  <2>4. CASE todo[t] # <<>> /\ (Corrupt(Target(t)) \/ ~Padded(Target(t), Overwritten(Zeros, Head(todo[t]).patch)))
    <3>1. Target(t) \in Blocks /\ Target(t)' = Target(t)
      BY <1>1, <1>2, <2>4, HeadType DEF WriterInv, Target
    <3>2. Corrupt(Target(t)) => Corrupt(Target(t))'
      BY <2>2, <3>1 DEF Corrupt
    <3> QED BY <1>2, <2>4, <3>1, <3>2 DEF Refused
  <2> QED BY <2>1, <2>3, <2>4 DEF Refused
<1> QED BY <1>4, <1>5, <1>6, <1>7 DEF Viewed
--------------------------------------------------------------------------------
(* Its own steps that touch neither the table nor the task's data.          *)
LEMMA QuietView ==
  ASSUME ViewInv, NEW t \in Tasks,
         \/ BeginCheck(t) \/ Check(t) \/ BeginUpdate(t) \/ FinishWrites(t) \/ BeginRead(t)
         \/ EndRead(t) \/ BeginPage(t) \/ EndScan(t) \/ Break(t)
  PROVE  Viewed(t)'
<1>1. /\ rows' = rows /\ job' = job /\ todo' = todo /\ row' = row /\ left' = left
      /\ span' = span /\ out' = out
  BY DEF BeginCheck, Check, FinishWrites, BeginRead, EndRead, BeginPage, EndScan, Break, BeginUpdate
<1>2. /\ Viewed(t) /\ pc \in [Tasks -> Places] /\ guard \in [Tasks -> {"none", "read", "write"}]
      /\ job[t] \in Jobs
  BY DEF ViewInv, WriterInv, TypeOK
<1>3. Pending(t)' /\ Visiting(t)'
  BY <1>1, <1>2 DEF Viewed, Pending, Visiting
<1>4. Batch(t)'
  <2> SUFFICES ASSUME job[t].kind = "read" PROVE Batch(t)'
    BY <1>1 DEF Batch
  <2>1. Batch(t) /\ todo[t] = <<>> /\ pc[t] \in {"idle", "reading", "done", "invalid", "broken"}
    BY <1>2 DEF Viewed, Batch
  <2>2. CASE BeginRead(t)
    <3>1. /\ pc'[t] = "reading" /\ guard'[t] = "read" /\ left[t] = job[t].wanted
          /\ out[t] = [b \in job[t].wanted |-> Zeros]
      BY <1>2, <2>1, <2>2 DEF BeginRead, Acquire, Batch
    <3>2. out[t] = [b \in job[t].wanted |->
                     IF b \in left[t] \union span[t] THEN Zeros ELSE ValuesOf(rows[b])]
      BY <3>1
    <3> QED BY <1>1, <2>1, <3>1, <3>2 DEF Batch, ValuesOf, Zeros
  <2>3. CASE EndRead(t) \/ Break(t)
    <3>1. pc'[t] \in {"done", "broken"}
      BY <1>2, <2>3 DEF EndRead, Break, Release
    <3> QED BY <1>1, <2>1, <3>1 DEF Batch
  <2> QED BY <2>1, <2>2, <2>3 DEF BeginCheck, Check, BeginUpdate, FinishWrites, BeginPage, EndScan, Drained
<1>5. Placed(t)'
  <2>1. /\ pc'[t] = "reading" => job[t].kind = "read"
        /\ pc'[t] = "paging" => job[t].kind = "scan"
        /\ pc'[t] \in {"checking", "checked"} => todo[t] # <<>>
        /\ pc'[t] # "storing"
    BY <1>2 DEF Viewed, Placed, BeginCheck, Check, FinishWrites, BeginRead, EndRead, BeginPage, EndScan,
                Break, BeginUpdate, Acquire, Release, Drained
  <2> QED BY <1>1, <2>1 DEF Placed
<1>6. Refused(t)'
  <2> SUFFICES ASSUME pc'[t] = "invalid" PROVE Refused(t)'
    BY DEF Refused
  <2>1. Corrupt(Target(t)) /\ todo[t] # <<>>
    BY <1>2 DEF Viewed, Placed, BeginCheck, Check, FinishWrites, BeginRead, EndRead, BeginPage, EndScan,
                Break, BeginUpdate, Acquire, Release
  <2> QED BY <1>1, <2>1 DEF Refused, Corrupt, Target
<1> QED BY <1>3, <1>4, <1>5, <1>6 DEF Viewed

(* Padding that a write makes nonzero is named by the write.                *)
LEMMA OwnPadding ==
  ASSUME TypeOK, NEW t \in Tasks, todo[t] # <<>>, ~Accepted(t)
  PROVE  \/ Corrupt(Target(t))
         \/ ~Padded(Target(t), Overwritten(Zeros, Head(todo[t]).patch))
<1>1. SUFFICES ASSUME ~Corrupt(Target(t)), ~Padded(Target(t), Result(t))
               PROVE  ~Padded(Target(t), Overwritten(Zeros, Head(todo[t]).patch))
  BY DEF Accepted
<1>2. Padded(Target(t), ValuesOf(rows[Target(t)]))
  BY <1>1 DEF Corrupt, Sound, ValuesOf, Padded, Zeros
<1>3. PICK o \in Offsets \ Valid[Target(t)] : Result(t)[o] # Zero
  BY <1>1 DEF Padded
<1>4. o \in DOMAIN Head(todo[t]).patch /\ Head(todo[t]).patch[o] # Zero
  BY <1>2, <1>3 DEF Result, Overwritten, Padded
<1> QED BY <1>3, <1>4 DEF Padded, Overwritten

(* Computing a row.                                                         *)
LEMMA ComputeView ==
  ASSUME ViewInv, NEW t \in Tasks, Compute(t)
  PROVE  Viewed(t)'
<1>1. /\ rows' = rows /\ job' = job /\ todo' = todo /\ left' = left
      /\ span' = span /\ out' = out
  BY DEF Compute
<1>2. /\ Viewed(t) /\ TypeOK /\ job[t] \in Jobs /\ pc[t] = "updating" /\ todo[t] # <<>>
  BY DEF ViewInv, WriterInv, TypeOK, Compute
<1>3. job[t].kind # "read"
  BY <1>2 DEF Viewed, Batch
<1>4. Pending(t)' /\ Visiting(t)' /\ Batch(t)'
  BY <1>1, <1>2, <1>3 DEF Viewed, Pending, Visiting, Batch
<1>5. CASE Accepted(t)
  <2>1. row'[t] = Compact(Result(t)) /\ pc'[t] = "storing"
    BY <1>2, <1>5 DEF Compute, TypeOK
  <2>2. Placed(t)' /\ Refused(t)'
    BY <1>1, <2>1 DEF Placed, Refused, Result, Target
  <2> QED BY <1>4, <2>2 DEF Viewed
<1>6. CASE ~Accepted(t)
  <2>1. pc'[t] = "invalid"
    BY <1>2, <1>6 DEF Compute, Release, TypeOK
  <2>2. Placed(t)'
    BY <2>1 DEF Placed
  <2>3. Refused(t)'
    BY <1>1, <1>2, <1>6, OwnPadding DEF Refused, Corrupt, Target
  <2> QED BY <1>4, <2>2, <2>3 DEF Viewed
<1> QED BY <1>5, <1>6

(* Storing a row: what is left to make is the rest of what was left.        *)
LEMMA StoredView ==
  ASSUME ViewInv, NEW t \in Tasks, pc[t] = "storing", Stored(t),
         job' = job, out' = out, pc'[t] \in {"idle", "broken"}
  PROVE  Viewed(t)'
<1>1. /\ Viewed(t) /\ TypeOK /\ job[t] \in Jobs /\ todo[t] # <<>> /\ todo[t] \in Seq(Writes)
  BY DEF ViewInv, WriterInv, TypeOK
<1>2. todo'[t] = Tail(todo[t])
  BY <1>1 DEF Stored, TypeOK
<1>3. /\ Len(todo[t]) \in Nat \ {0} /\ Len(Tail(todo[t])) = Len(todo[t]) - 1
      /\ \A k \in 1..(Len(todo[t]) - 1) : Tail(todo[t])[k] = todo[t][k + 1]
  BY <1>1, HeadTailProperties, EmptySeq, LenProperties
<1>4. Pending(t)'
  <2> SUFFICES ASSUME job[t].kind \in {"write", "fill"} PROVE Pending(t)'
    BY DEF Pending
  <2>1. /\ Len(todo[t]) <= Len(job[t].writes)
        /\ \A k \in 1..Len(todo[t]) : todo[t][k] = job[t].writes[Len(job[t].writes) - Len(todo[t]) + k]
        /\ Len(job[t].writes) \in Nat
    BY <1>1, JobType, LenProperties DEF Viewed, Pending
  <2>2. ASSUME NEW k \in 1..(Len(todo[t]) - 1)
        PROVE  Tail(todo[t])[k] = job[t].writes[Len(job[t].writes) - (Len(todo[t]) - 1) + k]
    <3>1. k + 1 \in 1..Len(todo[t])
      BY <1>3
    <3>2. \A x, y, z \in Int : x - y + (z + 1) = x - (y - 1) + z
      OBVIOUS
    <3>3. Len(job[t].writes) - Len(todo[t]) + (k + 1) = Len(job[t].writes) - (Len(todo[t]) - 1) + k
      <4>1. Len(job[t].writes) \in Int /\ Len(todo[t]) \in Int /\ k \in Int
        BY <1>3, <2>1
      <4> QED BY ONLY <3>2, <4>1
    <3> QED BY <1>3, <2>1, <3>1, <3>3
  <2>3. Len(todo[t]) - 1 <= Len(job[t].writes)
    BY <1>3, <2>1
  <2> QED BY <1>2, <1>3, <2>2, <2>3 DEF Pending
<1>5. Visiting(t)'
  <2> SUFFICES ASSUME job[t].kind = "scan" PROVE Visiting(t)'
    BY DEF Visiting
  <2>1. /\ out[t] \in Seq(Blocks)
        /\ todo[t] = <<[id |-> out[t][Len(out[t])], patch |-> job[t].patch]>>
    BY <1>1 DEF Viewed, Visiting
  <2>2. Len(Tail(todo[t])) = 0 /\ Tail(todo[t]) \in Seq(Writes)
    BY <1>1, <1>3, <2>1, HeadTailProperties
  <2>3. Tail(todo[t]) = <<>>
    BY <2>2, EmptySeq
  <2> QED BY <1>2, <2>1, <2>3 DEF Visiting
<1>6. Batch(t)'
  BY <1>1 DEF Viewed, Batch
<1>7. Placed(t)' /\ Refused(t)'
  BY DEF Placed, Refused
<1> QED BY <1>4, <1>5, <1>6, <1>7 DEF Viewed

(* Opening the next range moves it out of what is left.                     *)
LEMMA OpenView ==
  ASSUME ViewInv, NEW t \in Tasks, OpenRange(t)
  PROVE  Viewed(t)'
<1>1. /\ rows' = rows /\ job' = job /\ todo' = todo /\ out' = out /\ pc' = pc /\ guard' = guard
      /\ row' = row
  BY DEF OpenRange
<1>2. /\ Viewed(t) /\ TypeOK /\ pc[t] = "reading" /\ span[t] = {}
  BY DEF ViewInv, WriterInv, OpenRange
<1>3. /\ span'[t] = Run(left[t]) /\ left'[t] = left[t] \ Run(left[t]) /\ Run(left[t]) \subseteq left[t]
  BY <1>2 DEF OpenRange, TypeOK, Run
<1>4. left'[t] \union span'[t] = left[t] \union span[t] /\ left'[t] \intersect span'[t] = {}
  BY <1>2, <1>3
<1>5. Pending(t)' /\ Visiting(t)' /\ Placed(t)' /\ Refused(t)'
  BY <1>1, <1>2 DEF Viewed, Pending, Visiting, Placed, Refused
<1>6. Batch(t)'
  <2>1. Batch(t)
    BY <1>2 DEF Viewed
  <2>2. \A b : b \in left'[t] \union span'[t] <=> b \in left[t] \union span[t]
    BY <1>4
  <2> QED BY <1>1, <1>2, <1>4, <2>1, <2>2 DEF Batch, ValuesOf, Zeros
<1> QED BY <1>5, <1>6 DEF Viewed

(* Reading a row: the blocks that are skipped have none.                    *)
LEMMA ReadView ==
  ASSUME ViewInv, NEW t \in Tasks, ReadRow(t)
  PROVE  Viewed(t)'
<1> DEFINE present == span[t] \intersect Occupied
           b == Least(present)
<1>1. /\ rows' = rows /\ job' = job /\ todo' = todo /\ left' = left /\ row' = row
  BY DEF ReadRow
<1>2. /\ Viewed(t) /\ TypeOK /\ job[t] \in Jobs /\ pc[t] = "reading" /\ job[t].kind = "read"
      /\ out = [v \in Tasks |-> out[v]]
  BY DEF ViewInv, Viewed, Placed, WriterInv, TypeOK, ReadRow
<1>3. /\ todo[t] = <<>> /\ left[t] \union span[t] \subseteq job[t].wanted /\ job[t].wanted \subseteq Blocks
      /\ left[t] \intersect span[t] = {} /\ guard[t] = "read"
      /\ out[t] = [c \in job[t].wanted |->
                    IF c \in left[t] \union span[t] THEN Zeros ELSE ValuesOf(rows[c])]
  BY <1>2, JobType DEF Viewed, Batch
<1>4. Pending(t)' /\ Visiting(t)'
  BY <1>1, <1>2 DEF Pending, Visiting
<1>5. CASE present = {}
  <2>1. /\ span' = [span EXCEPT ![t] = {}] /\ guard' = guard /\ pc' = pc /\ out' = out
    BY <1>5, LeastBlock DEF ReadRow
  <2>2. span'[t] = {}
    BY <1>2, <2>1 DEF TypeOK
  <2>3. \A c \in span[t] : ValuesOf(rows[c]) = Zeros
    BY <1>3, <1>5 DEF Occupied, ValuesOf
  <2>4. out[t] = [c \in job[t].wanted |->
                   IF c \in left[t] \union {} THEN Zeros ELSE ValuesOf(rows[c])]
    BY <1>3, <2>3
  <2>5. Batch(t)'
    BY <1>1, <1>2, <1>3, <2>1, <2>2, <2>4 DEF Batch, ValuesOf, Zeros
  <2>6. Placed(t)' /\ Refused(t)'
    BY <1>1, <1>2, <2>1 DEF Placed, Refused
  <2> QED BY <1>4, <2>5, <2>6 DEF Viewed
<1>6. CASE present # {} /\ ~Corrupt(b)
  <2>1. b \in span[t] /\ b \in Blocks /\ rows[b] # Absent /\ b \in Nat
    <3>1. present \in SUBSET Blocks /\ \A c \in present : c \in span[t] /\ rows[c] # Absent
      BY DEF Occupied
    <3>2. b \in present
      BY <1>6, <3>1, LeastBlock
    <3>3. b \in span[t] /\ b \in Blocks /\ rows[b] # Absent
      BY <3>1, <3>2
    <3> QED BY <3>3, StorageAssumption DEF Blocks
  <2>2. /\ out' = [out EXCEPT ![t][b] = rows[b]] /\ span' = [span EXCEPT ![t] = {c \in @ : c > b}]
        /\ guard' = guard /\ pc' = pc
    BY <1>6 DEF ReadRow
  <2>3. span'[t] = {c \in span[t] : c > b}
    BY <1>2, <2>2 DEF TypeOK
  <2>4. \A c \in span[t] : ~(c > b) => c = b \/ ValuesOf(rows[c]) = Zeros
    <3> SUFFICES ASSUME NEW c \in span[t], ~(c > b), c # b PROVE ValuesOf(rows[c]) = Zeros
      OBVIOUS
    <3>1. c \in Blocks /\ c \in Nat
      BY <1>3, StorageAssumption DEF Blocks
    <3>2. c < b
      BY <2>1, <3>1
    <3>3. present \in SUBSET Nat
      BY StorageAssumption DEF Occupied, Blocks
    <3>4. \A d \in present : b <= d
      BY <1>6, <3>3, LeastOf
    <3>5. c \notin present
      BY <2>1, <3>1, <3>2, <3>4
    <3> QED BY <3>1, <3>5 DEF Occupied, ValuesOf
  <2>5. out'[t] = [c \in job[t].wanted |->
                    IF c \in left[t] \union span'[t] THEN Zeros ELSE ValuesOf(rows[c])]
    <3>1. out'[t] = [out[t] EXCEPT ![b] = rows[b]]
      BY <1>2, <2>2
    <3> DEFINE after == [c \in job[t].wanted |->
                          IF c \in left[t] \union span'[t] THEN Zeros ELSE ValuesOf(rows[c])]
    <3>2. ASSUME NEW c \in job[t].wanted PROVE out'[t][c] = after[c]
      <4>1. CASE c = b
        <5>1. b \notin left[t] \union span'[t]
          BY <1>3, <2>1, <2>3
        <5> QED BY <1>3, <2>1, <3>1, <4>1, <5>1 DEF ValuesOf
      <4>2. CASE c # b
        <5>1. out'[t][c] = out[t][c]
          BY <1>3, <3>1, <4>2
        <5>2. CASE c \in span[t]
          BY <1>3, <2>3, <2>4, <4>2, <5>1, <5>2
        <5>3. CASE c \notin span[t]
          BY <1>3, <2>3, <5>1, <5>3
        <5> QED BY <5>2, <5>3
      <4> QED BY <4>1, <4>2
    <3>3. out'[t] = [c \in job[t].wanted |-> out'[t][c]]
      BY <1>3, <3>1
    <3> HIDE DEF b
    <3> QED BY <3>2, <3>3
  <2>6. span'[t] \subseteq span[t]
    BY <2>3
  <2> HIDE DEF b, present
  <2>7. Batch(t)'
    BY <1>1, <1>2, <1>3, <2>2, <2>5, <2>6 DEF Batch, ValuesOf, Zeros
  <2>8. Placed(t)' /\ Refused(t)'
    BY <1>1, <1>2, <2>2 DEF Placed, Refused
  <2> QED BY <1>4, <2>7, <2>8 DEF Viewed
<1>7. CASE present # {} /\ Corrupt(b)
  <2>1. b \in span[t]
    BY <1>3, <1>7, LeastBlock DEF Occupied
  <2>2. Release(t, "invalid") /\ UNCHANGED <<span, out>>
    BY <1>7 DEF ReadRow
  <2>3. pc'[t] = "invalid"
    BY <1>2, <2>2 DEF Release, TypeOK
  <2>4. \E c \in job[t].wanted : Corrupt(c)'
    <3>1. \E c \in job[t].wanted : Corrupt(c)
      BY <1>3, <1>7, <2>1
    <3> QED BY <1>1, <3>1 DEF Corrupt
  <2> HIDE DEF b
  <2>5. Batch(t)'
    BY <1>1, <1>3, <2>2, <2>3 DEF Batch
  <2>6. Placed(t)' /\ Refused(t)'
    BY <1>1, <1>2, <2>3, <2>4 DEF Placed, Refused, Corrupt
  <2> QED BY <1>4, <2>5, <2>6 DEF Viewed
<1> QED BY <1>5, <1>6, <1>7

(* Reading a page of the index, and delivering a key of it.                 *)
LEMMA PageView ==
  ASSUME ViewInv, NEW t \in Tasks, ReadPage(t)
  PROVE  Viewed(t)'
<1>1. rows' = rows /\ job' = job /\ todo' = todo /\ out' = out /\ row' = row
  BY DEF ReadPage
<1>2. /\ Viewed(t) /\ TypeOK /\ pc[t] = "paging" /\ job[t].kind = "scan"
  BY DEF ViewInv, Viewed, Placed, WriterInv, ReadPage
<1>3. pc'[t] \in {"done", "idle"}
  BY <1>2 DEF ReadPage, Release, TypeOK
<1> QED BY <1>1, <1>2, <1>3 DEF Viewed, Pending, Visiting, Batch, Placed, Refused

(* A block that is delivered leaves what the callers see as it was.         *)
LEMMA DeliverView ==
  ASSUME ViewInv, NEW t \in Tasks, Deliver(t)
  PROVE  Viewed(t)'
<1> DEFINE b == Least(page[t])
<1>1. rows' = rows /\ job' = job /\ pc' = pc /\ row' = row
  BY DEF Deliver
<1>2. /\ Viewed(t) /\ TypeOK /\ pc[t] = "idle" /\ job[t].kind = "scan"
      /\ out[t] \in Seq(Blocks) /\ out = [v \in Tasks |-> out[v]] /\ page[t] # {}
  BY DEF ViewInv, Viewed, Visiting, WriterInv, Deliver
<1>3. b \in Blocks
  BY <1>2, LeastBlock DEF TypeOK
<1>4. out'[t] = Append(out[t], b)
  BY <1>2 DEF Deliver
<1>5. todo'[t] = IF DOMAIN job[t].patch = {} THEN <<>> ELSE <<[id |-> b, patch |-> job[t].patch]>>
  BY <1>2 DEF Deliver, TypeOK
<1>6. /\ out'[t] \in Seq(Blocks) /\ out'[t] # <<>> /\ out'[t][Len(out'[t])] = b
  BY <1>2, <1>3, <1>4, AppendProperties, LenProperties
<1> HIDE DEF b
<1>7. Visiting(t)'
  BY <1>1, <1>2, <1>5, <1>6 DEF Visiting
<1> QED BY <1>1, <1>2, <1>7 DEF Viewed, Pending, Batch, Placed, Refused

(* Every step keeps the invariant.                                          *)
LEMMA NextView == ViewInv /\ [Next]_vars => ViewInv'
<1> SUFFICES ASSUME ViewInv, [Next]_vars PROVE ViewInv'
  OBVIOUS
<1>1. WriterInv'
  BY NextWriter DEF ViewInv
<1>2. CASE UNCHANGED vars
  <2>1. \A t \in Tasks : Viewed(t)'
    BY <1>2 DEF ViewInv, Viewed, Pending, Visiting, Batch, Placed, Refused, vars, local, history,
                Result, Target, Corrupt
  <2> QED BY <1>1, <1>2, <2>1 DEF ViewInv, vars, local
<1>3. ASSUME NEW u \in Tasks, Step(u) \/ Break(u) \/ BreakStore(u)
      PROVE  ViewInv'
  <2>1. ASSUME NEW t \in Tasks \ {u} PROVE Viewed(t)'
    BY <1>3, <2>1, OthersView
  <2>2. Viewed(u)'
    <3>1. CASE Store(u)
      <4>1. pc'[u] = "idle"
        BY <3>1 DEF Store, Release, ViewInv, WriterInv, TypeOK
      <4> QED BY <3>1, <4>1, StoredView DEF Store
    <3>2. CASE BreakStore(u)
      <4>1. pc'[u] = "broken" /\ pc[u] = "storing" /\ job' = job /\ row' = row /\ left' = left
            /\ span' = span /\ out' = out
        BY <3>2 DEF BreakStore, Ended
      <4>2. CASE Stored(u)
        BY <4>1, <4>2, StoredView
      <4>3. CASE ~Stored(u)
        <5>1. rows' = rows /\ todo' = todo /\ Viewed(u)
          BY <3>2, <4>3 DEF BreakStore, ViewInv
        <5> QED BY <4>1, <5>1 DEF Viewed, Pending, Visiting, Batch, Placed, Refused
      <4> QED BY <4>2, <4>3
    <3> QED BY <1>3, <3>1, <3>2, QuietView, ComputeView, OpenView, ReadView, PageView, DeliverView DEF Step
  <2>3. out' = [t \in Tasks |-> out'[t]]
    <3>1. out = [t \in Tasks |-> out[t]]
      BY DEF ViewInv
    <3>2. \/ out' = out
          \/ \E x : out' = [out EXCEPT ![u] = x]
      BY <1>3 DEF Step, BeginCheck, Check, BeginUpdate, Compute, Store, FinishWrites, BeginRead, OpenRange,
         ReadRow, EndRead, BeginPage, ReadPage, Deliver, EndScan, Break, BreakStore
    <3> QED BY <3>1, <3>2
  <2> QED BY <1>1, <2>1, <2>2, <2>3 DEF ViewInv
<1> QED BY <1>2, <1>3 DEF Next

(* It holds of every behaviour.                                             *)
LEMMA View == Spec => []ViewInv
<1> QED BY InitView, NextView, PTL DEF Spec

(* RefusedForOwnBlocks, whatever the tables, the callers and their number:  *)
(* an operation is refused only for what it asked for, and that is still    *)
(* wrong when the caller looks (row_values, update_block, validate_block).  *)
THEOREM RefusalsAreOwn == Spec => []RefusedForOwnBlocks
<1>1. ViewInv => RefusedForOwnBlocks
  BY DEF ViewInv, Viewed, Refused, RefusedForOwnBlocks
<1> QED BY <1>1, View, PTL

--------------------------------------------------------------------------------
(* What is made of a job, by its kind.                                      *)
LEMMA MadeOfRead == \A j, rest, delivered : j.kind = "read" => Made(j, rest, delivered) = <<>>
BY DEF Made

(* Nothing is made of a scan that writes nothing.                           *)
LEMMA MadeOfIdleScan ==
  \A j, rest, delivered :
    j.kind = "scan" /\ DOMAIN j.patch = {} => Made(j, rest, delivered) = <<>>
BY DEF Made

(* A prefix of a sequence and the next element.                             *)
LEMMA PrefixGrows ==
  ASSUME NEW S, NEW s \in Seq(S), NEW n \in Nat, n < Len(s)
  PROVE  /\ Len(SubSeq(s, 1, n)) = n
         /\ SubSeq(s, 1, n + 1) = Append(SubSeq(s, 1, n), s[n + 1])
<1>1. Len(s) \in Nat /\ n + 1 \in 1..Len(s) /\ 1 \in 1..Len(s) /\ n \in Int /\ n + 1 \in 1..Len(s)
  BY LenProperties
<1>2. \A k \in 1..n : s[k] \in S
  BY <1>1, ElementOfSeq
<1>3. SubSeq(s, 1, n) \in Seq(S) /\ Len(SubSeq(s, 1, n)) = IF 1 <= n THEN n - 1 + 1 ELSE 0
  BY <1>1, <1>2, SubSeqProperties
<1>4. s[n + 1] \in S
  BY <1>1, ElementOfSeq
<1>5. SubSeq(s, 1, n + 1) = SubSeq(s, 1, (n + 1) - 1) \o <<s[n + 1]>>
  BY <1>1, SubSeqRecursiveSecond
<1>6. (n + 1) - 1 = n
  BY <1>1
<1> QED BY <1>3, <1>4, <1>5, <1>6, AppendIsConcat

(* A table of the first n numbers and the next one.                         *)
LEMMA TableGrows ==
  ASSUME NEW S, NEW n \in Nat, NEW f, \A k \in 1..(n + 1) : f[k] \in S
  PROVE  /\ Len([k \in 1..n |-> f[k]]) = n
         /\ [k \in 1..(n + 1) |-> f[k]] = Append([k \in 1..n |-> f[k]], f[n + 1])
<1> DEFINE short == [k \in 1..n |-> f[k]]
           long == [k \in 1..(n + 1) |-> f[k]]
<1>1. short \in [1..n -> S] /\ long \in [1..(n + 1) -> S]
  OBVIOUS
<1>2. short \in Seq(S) /\ Len(short) = n /\ long \in Seq(S) /\ Len(long) = n + 1
  BY <1>1
<1>3. f[n + 1] \in S
  OBVIOUS
<1>4. /\ Append(short, f[n + 1]) \in Seq(S) /\ Len(Append(short, f[n + 1])) = n + 1
      /\ \A k \in 1..n : Append(short, f[n + 1])[k] = short[k]
      /\ Append(short, f[n + 1])[n + 1] = f[n + 1]
  <2> HIDE DEF short
  <2> QED BY <1>2, <1>3, AppendProperties
<1>5. \A k \in 1..(n + 1) : long[k] = Append(short, f[n + 1])[k]
  <2> SUFFICES ASSUME NEW k \in 1..(n + 1) PROVE f[k] = Append(short, f[n + 1])[k]
    OBVIOUS
  <2>1. CASE k = n + 1
    BY <1>4, <2>1
  <2>2. CASE k # n + 1
    <3>1. k \in 1..n
      BY <2>2
    <3>2. short[k] = f[k]
      BY <3>1
    <3> QED BY <1>4, <3>1, <3>2
  <2> QED BY <2>1, <2>2
<1>6. long = Append(short, f[n + 1])
  <2> HIDE DEF short, long
  <2> QED BY <1>2, <1>4, <1>5, SeqEqual
<1> QED BY <1>2, <1>6

(* The row that is about to be stored belongs to the next write that the    *)
(* task was asked for.                                                      *)
LEMMA MadeGrows ==
  ASSUME ViewInv, NEW t \in Tasks, pc[t] = "storing"
  PROVE  /\ Head(todo[t]) \in Contents!Asked(t)
         /\ Made(job[t], Tail(todo[t]), out[t])
              = Append(Made(job[t], todo[t], out[t]), Head(todo[t]))
<1> DEFINE rest == todo[t]
           write == Head(rest)
<1>1. /\ Viewed(t) /\ job[t] \in Jobs /\ rest # <<>> /\ rest \in Seq(Writes)
  BY DEF ViewInv, WriterInv, TypeOK
<1>2. /\ Len(rest) \in Nat \ {0} /\ Len(Tail(rest)) = Len(rest) - 1 /\ write \in Writes
      /\ write = rest[1]
  BY <1>1, HeadTailProperties, EmptySeq
<1>3. VisibleWrites[t] = Made(job[t], rest, out[t])
  BY DEF VisibleWrites
<1>4. job[t].kind # "read" /\ job[t].kind \in {"write", "fill", "read", "scan"}
  BY <1>1, JobType DEF Viewed, Batch
<1>5. CASE job[t].kind \in {"write", "fill"}
  <2> DEFINE ws == job[t].writes
             n == Len(ws) - Len(rest)
  <2>1. ws \in Seq(Writes) /\ Len(ws) \in Nat /\ Len(rest) <= Len(ws)
    BY <1>1, <1>5, JobType, LenProperties DEF Viewed, Pending
  <2>2. n \in Nat /\ n < Len(ws) /\ Len(ws) - Len(Tail(rest)) = n + 1
    <3>1. \A x \in Nat, y \in Nat \ {0} : y <= x => x - y \in Nat /\ x - y < x /\ x - (y - 1) = (x - y) + 1
      OBVIOUS
    <3> QED BY ONLY <1>2, <2>1, <3>1
  <2>3. write = ws[n + 1]
    <3>1. 1 \in 1..Len(rest)
      BY <1>2
    <3> QED BY <1>1, <1>2, <1>5, <3>1 DEF Viewed, Pending
  <2>4. /\ Made(job[t], rest, out[t]) = SubSeq(ws, 1, n)
        /\ Made(job[t], Tail(rest), out[t]) = SubSeq(ws, 1, n + 1)
    <3>1. Made(job[t], Tail(rest), out[t]) = SubSeq(ws, 1, Len(ws) - Len(Tail(rest)))
      BY <1>5 DEF Made
    <3>2. Made(job[t], rest, out[t]) = SubSeq(ws, 1, n)
      BY <1>5 DEF Made
    <3> HIDE DEF n
    <3> QED BY <2>2, <3>1, <3>2
  <2> HIDE DEF n
  <2>5. Len(SubSeq(ws, 1, n)) = n /\ SubSeq(ws, 1, n + 1) = Append(SubSeq(ws, 1, n), ws[n + 1])
    BY <2>1, <2>2, PrefixGrows
  <2>6. n + 1 \in DOMAIN ws
    BY <2>1, <2>2, LenProperties
  <2>7. Contents!Asked(t) = {ws[k] : k \in DOMAIN ws \intersect {Len(VisibleWrites[t]) + 1}}
    BY <1>5 DEF Contents!Asked
  <2>8. ws[n + 1] \in Contents!Asked(t)
    BY <1>3, <2>4, <2>5, <2>6, <2>7
  <2> QED BY <2>3, <2>4, <2>5, <2>8
<1>6. CASE job[t].kind = "scan"
  <2> DEFINE n == Len(out[t]) - 1
             f == [k \in 1..(n + 1) |-> [id |-> out[t][k], patch |-> job[t].patch]]
  <2>1. /\ DOMAIN job[t].patch # {} /\ out[t] # <<>> /\ out[t] \in Seq(Blocks)
        /\ rest = <<[id |-> out[t][Len(out[t])], patch |-> job[t].patch]>>
        /\ job[t].patch \in Patches
    BY <1>1, <1>6, JobType DEF Viewed, Visiting
  <2>2. n \in Nat /\ Len(out[t]) - Len(rest) = n /\ Len(out[t]) - Len(Tail(rest)) = n + 1
        /\ n + 1 = Len(out[t])
    BY <1>2, <2>1, EmptySeq
  <2>3. \A k \in 1..(n + 1) : f[k] \in Writes
    BY <2>1, <2>2, ElementOfSeq DEF Writes
  <2>4. write = f[n + 1]
    BY <1>2, <2>1, <2>2
  <2>5. /\ Made(job[t], rest, out[t]) = [k \in 1..n |-> [id |-> out[t][k], patch |-> job[t].patch]]
        /\ Made(job[t], Tail(rest), out[t])
             = [k \in 1..(n + 1) |-> [id |-> out[t][k], patch |-> job[t].patch]]
    <3>1. /\ Made(job[t], rest, out[t])
               = [k \in 1..(Len(out[t]) - Len(rest)) |-> [id |-> out[t][k], patch |-> job[t].patch]]
          /\ Made(job[t], Tail(rest), out[t])
               = [k \in 1..(Len(out[t]) - Len(Tail(rest))) |->
                   [id |-> out[t][k], patch |-> job[t].patch]]
      BY <1>6, <2>1 DEF Made
    <3> QED BY ONLY <2>2, <3>1
  <2>6. /\ [k \in 1..n |-> [id |-> out[t][k], patch |-> job[t].patch]] = [k \in 1..n |-> f[k]]
        /\ [k \in 1..(n + 1) |-> [id |-> out[t][k], patch |-> job[t].patch]]
             = [k \in 1..(n + 1) |-> f[k]]
    BY <2>2
  <2> HIDE DEF f, n
  <2>7. [k \in 1..(n + 1) |-> f[k]] = Append([k \in 1..n |-> f[k]], f[n + 1])
    BY <2>2, <2>3, TableGrows
  <2>8. Contents!Asked(t) = [id : Blocks, patch : {job[t].patch}]
    BY <1>6 DEF Contents!Asked
  <2>9. write \in Contents!Asked(t)
    <3>1. write = [id |-> out[t][Len(out[t])], patch |-> job[t].patch]
      BY <1>2, <2>1
    <3>2. write.id \in Blocks
      BY <1>2 DEF Writes
    <3> QED BY <2>8, <3>1, <3>2
  <2> QED BY <2>4, <2>5, <2>6, <2>7, <2>9
<1> QED BY <1>4, <1>5, <1>6

(* Storing it is the write.                                                 *)
LEMMA StoreImplements ==
  ASSUME ViewInv, NEW t \in Tasks, pc[t] = "storing", Stored(t), job' = job, out' = out,
         VisibleAnswer' = VisibleAnswer
  PROVE  Contents!Apply(t)
<1> DEFINE write == Head(todo[t])
<1>1. /\ Viewed(t) /\ TypeOK /\ todo[t] # <<>> /\ row[t] = Compact(Result(t))
  BY DEF ViewInv, WriterInv, Viewed, Placed
<1>2. write.id = Target(t) /\ Target(t) \in Blocks /\ Result(t) \in Payloads
  BY <1>1, HeadType DEF Target
<1>3. /\ rows' = [rows EXCEPT ![Target(t)] = row[t]]
      /\ todo' = [todo EXCEPT ![t] = Tail(@)]
  BY DEF Stored
<1>4. VisibleWrites' = [VisibleWrites EXCEPT ![t] = Append(@, write)]
  <2>1. ASSUME NEW u \in Tasks
        PROVE  VisibleWrites'[u] = IF u = t THEN Append(VisibleWrites[t], write) ELSE VisibleWrites[u]
    <3>1. /\ VisibleWrites[u] = Made(job[u], todo[u], out[u])
          /\ VisibleWrites'[u] = Made(job[u], todo'[u], out[u])
      BY DEF VisibleWrites
    <3>2. CASE u = t
      <4>1. todo'[u] = Tail(todo[t])
        BY <1>1, <1>3, <3>2 DEF TypeOK
      <4> QED BY <3>1, <3>2, <4>1, MadeGrows
    <3>3. CASE u # t
      <4>1. todo'[u] = todo[u]
        BY <1>1, <1>3, <3>3 DEF TypeOK
      <4> QED BY <3>1, <3>3, <4>1
    <3> QED BY <3>2, <3>3
  <2> HIDE DEF write
  <2> QED BY <2>1 DEF VisibleWrites
<1>5. VisibleContents' = [VisibleContents EXCEPT ![write.id] = Contents!Overwritten(@, write.patch)]
  <2>1. ValuesOf(row[t]) = Contents!Overwritten(ValuesOf(rows[Target(t)]), write.patch)
    BY <1>1, <1>2, CompactValues DEF Result, Overwritten, Contents!Overwritten
  <2>2. ASSUME NEW b \in Blocks
        PROVE  VisibleContents'[b] = IF b = Target(t)
                                     THEN Contents!Overwritten(VisibleContents[b], write.patch)
                                     ELSE VisibleContents[b]
    <3>1. VisibleContents[b] = ValuesOf(rows[b]) /\ VisibleContents'[b] = ValuesOf(rows'[b])
      BY DEF VisibleContents, ValuesOf, Zeros
    <3>2. rows'[b] = IF b = Target(t) THEN row[t] ELSE rows[b]
      BY <1>1, <1>3 DEF TypeOK
    <3> QED BY <2>1, <3>1, <3>2
  <2> HIDE DEF write
  <2> QED BY <1>2, <2>2 DEF VisibleContents
<1>6. write \in Contents!Asked(t)
  BY MadeGrows
<1> HIDE DEF write
<1> QED BY <1>4, <1>5, <1>6 DEF Contents!Apply

(* Nothing else that a task does changes what was written.                  *)
LEMMA KeepsWritten ==
  ASSUME ViewInv, NEW u \in Tasks, Step(u) \/ Break(u) \/ BreakStore(u), todo' = todo \/ Deliver(u)
  PROVE  VisibleWrites' = VisibleWrites
<1> SUFFICES ASSUME NEW t \in Tasks
             PROVE  Made(job'[t], todo'[t], out'[t]) = Made(job[t], todo[t], out[t])
  BY DEF VisibleWrites
<1>1. CASE t # u
  <2>1. job'[t] = job[t] /\ todo'[t] = todo[t] /\ out'[t] = out[t]
    BY <1>1, OthersFrame
  <2> QED BY <2>1
<1>2. CASE t = u /\ ReadRow(u)
  <2>1. job[t].kind = "read" /\ job' = job
    BY <1>2 DEF ReadRow, ViewInv, Viewed, Placed
  <2> QED BY <2>1, MadeOfRead
<1>3. CASE t = u /\ Deliver(u)
  <2> DEFINE b == Least(page[t])
  <2>1. /\ job' = job /\ job[t].kind = "scan" /\ todo[t] = <<>> /\ out[t] \in Seq(Blocks)
        /\ out = [v \in Tasks |-> out[v]] /\ page[t] # {} /\ TypeOK
    BY <1>3 DEF Deliver, ViewInv, Viewed, Visiting, WriterInv
  <2>2. CASE DOMAIN job[t].patch = {}
    BY <2>1, <2>2, MadeOfIdleScan
  <2>3. CASE DOMAIN job[t].patch # {}
    <3>1. b \in Blocks
      BY <2>1, LeastBlock DEF TypeOK
    <3>2. out'[t] = Append(out[t], b) /\ todo'[t] = <<[id |-> b, patch |-> job[t].patch]>>
      BY <1>3, <2>1, <2>3 DEF Deliver, TypeOK
    <3> HIDE DEF b
    <3>3. /\ Len(out[t]) \in Nat /\ Len(out'[t]) = Len(out[t]) + 1
          /\ Len(todo'[t]) = 1 /\ Len(todo[t]) = 0
          /\ \A k \in 1..Len(out[t]) : out'[t][k] = out[t][k]
      BY <2>1, <3>1, <3>2, AppendProperties, LenProperties
    <3>4. Len(out'[t]) - Len(todo'[t]) = Len(out[t]) - Len(todo[t])
      BY <3>3
    <3>5. [k \in 1..(Len(out'[t]) - Len(todo'[t])) |-> [id |-> out'[t][k], patch |-> job[t].patch]]
            = [k \in 1..(Len(out[t]) - Len(todo[t])) |-> [id |-> out[t][k], patch |-> job[t].patch]]
      BY <3>3, <3>4
    <3> QED BY <2>1, <2>3, <3>5 DEF Made
  <2> QED BY <2>2, <2>3
<1>4. CASE t = u /\ ~ReadRow(u) /\ ~Deliver(u)
  <2>1. todo' = todo /\ out' = out /\ job' = job
    BY <1>4 DEF Step, BeginCheck, Check, BeginUpdate, Compute, Store, FinishWrites, BeginRead, OpenRange,
         EndRead, BeginPage, ReadPage, EndScan, Break, BreakStore
  <2> QED BY <2>1
<1> QED BY <1>1, <1>2, <1>3, <1>4

(* A batch is answered when it ends, with the table of that moment.         *)
LEMMA EndImplements ==
  ASSUME ViewInv, NEW t \in Tasks, EndRead(t)
  PROVE  Contents!Answer(t)
<1>1. /\ pc[t] = "reading" /\ span[t] = {} /\ left[t] = {} /\ rows' = rows /\ job' = job
      /\ todo' = todo /\ out' = out /\ pc' = [pc EXCEPT ![t] = "done"]
  BY DEF EndRead, Release
<1>2. Viewed(t) /\ TypeOK /\ job[t] \in Jobs /\ job[t].kind = "read"
  BY <1>1 DEF ViewInv, Viewed, Placed, WriterInv, TypeOK
<1>3. job[t].wanted \in SUBSET Blocks
  BY <1>2, JobType
<1>4. out[t] = [b \in job[t].wanted |-> VisibleContents[b]]
  <2>1. out[t] = [b \in job[t].wanted |->
                   IF b \in left[t] \union span[t] THEN Zeros ELSE ValuesOf(rows[b])]
    BY <1>1, <1>2 DEF Viewed, Batch
  <2>2. \A b \in job[t].wanted : VisibleContents[b] = ValuesOf(rows[b]) /\ b \notin left[t] \union span[t]
    BY <1>1, <1>3 DEF VisibleContents
  <2> QED BY <2>1, <2>2
<1>5. VisibleAnswer[t] = Unread
  BY <1>1 DEF VisibleAnswer
<1>6. VisibleAnswer' = [VisibleAnswer EXCEPT ![t] = [b \in job[t].wanted |-> VisibleContents[b]]]
  <2>1. ASSUME NEW u \in Tasks
        PROVE  VisibleAnswer'[u] = IF u = t THEN out[t] ELSE VisibleAnswer[u]
    <3>1. pc'[u] = IF u = t THEN "done" ELSE pc[u]
      BY <1>1, <1>2 DEF TypeOK
    <3> QED BY <1>1, <1>2, <3>1 DEF VisibleAnswer
  <2> QED BY <1>4, <2>1 DEF VisibleAnswer
<1>7. UNCHANGED <<VisibleContents, VisibleWrites>>
  BY <1>1 DEF VisibleContents, VisibleWrites, ValuesOf, Zeros
<1> QED BY <1>1, <1>2, <1>5, <1>6, <1>7 DEF Contents!Answer

(* Nothing but the end of a batch answers anybody.                          *)
LEMMA KeepsAnswers ==
  ASSUME ViewInv, NEW u \in Tasks, Step(u) \/ Break(u) \/ BreakStore(u), ~EndRead(u)
  PROVE  VisibleAnswer' = VisibleAnswer
<1> SUFFICES ASSUME NEW t \in Tasks
             PROVE  /\ job' = job
                    /\ job[t].kind = "read" => (pc'[t] = "done" <=> pc[t] = "done")
                    /\ job[t].kind = "read" /\ pc[t] = "done" => out'[t] = out[t]
  BY DEF VisibleAnswer
<1>1. /\ pc \in [Tasks -> Places] /\ out = [v \in Tasks |-> out[v]] /\ Viewed(t)
  BY DEF ViewInv, WriterInv, TypeOK
<1>2. CASE t # u
  <2>1. job' = job /\ out'[t] = out[t]
    BY <1>2, OthersFrame
  <2>2. pc'[t] = "done" <=> pc[t] = "done"
    BY <1>1, <1>2 DEF Step, BeginCheck, Check, BeginUpdate, Compute, Store, FinishWrites, BeginRead, OpenRange,
         ReadRow, EndRead, BeginPage, ReadPage, Deliver, EndScan, Break, BreakStore, Acquire, Release, Ended
  <2> QED BY <2>1, <2>2
<1>3. CASE t = u
  <2>1. job' = job
    BY DEF Step, BeginCheck, Check, BeginUpdate, Compute, Store, FinishWrites, BeginRead, OpenRange,
         ReadRow, EndRead, BeginPage, ReadPage, Deliver, EndScan, Break, BreakStore
  <2> SUFFICES ASSUME job[t].kind = "read" PROVE pc'[t] # "done" /\ pc[t] # "done"
    BY <2>1
  <2>2. ~FinishWrites(t) /\ ~EndScan(t) /\ ~ReadPage(t)
    BY <1>1 DEF FinishWrites, EndScan, ReadPage, Drained, Viewed, Placed
  <2>3. pc[t] # "done"
    BY <1>3, <2>2 DEF Step, BeginCheck, Check, BeginUpdate, Compute, Store, BeginRead, OpenRange,
         ReadRow, BeginPage, Deliver, Break, BreakStore, Drained, Ended
  <2>4. pc'[t] \in {"checking", "invalid", "checked", "updating", "storing", "idle", "reading", "paging",
                    "broken", pc[t]}
    BY <1>1, <1>3, <2>2 DEF Step, BeginCheck, Check, BeginUpdate, Compute, Store, BeginRead, OpenRange,
         ReadRow, BeginPage, Deliver, Break, BreakStore, Acquire, Release, Ended
  <2> QED BY <2>3, <2>4
<1> QED BY <1>2, <1>3

(* A step is a write, an answer, or not seen.                               *)
LEMMA StepImplements ==
  ASSUME ViewInv, NEW u \in Tasks, Step(u) \/ Break(u) \/ BreakStore(u)
  PROVE  Contents!Next \/ UNCHANGED Contents!vars
<1>1. CASE EndRead(u)
  BY <1>1, EndImplements DEF Contents!Next
<1>2. CASE Store(u)
  <2>1. ~EndRead(u) /\ pc[u] = "storing" /\ Stored(u) /\ job' = job /\ out' = out
    BY <1>2 DEF Store, EndRead
  <2>2. VisibleAnswer' = VisibleAnswer
    BY <2>1, KeepsAnswers
  <2> QED BY <2>1, <2>2, StoreImplements DEF Contents!Next
<1>3. CASE BreakStore(u)
  <2>1. ~EndRead(u) /\ pc[u] = "storing" /\ job' = job /\ out' = out
    BY <1>3 DEF BreakStore, EndRead
  <2>2. VisibleAnswer' = VisibleAnswer
    BY <2>1, KeepsAnswers
  <2>3. CASE Stored(u)
    BY <2>1, <2>2, <2>3, StoreImplements DEF Contents!Next
  <2>4. CASE ~Stored(u)
    <3>1. rows' = rows /\ todo' = todo
      BY <1>3, <2>4 DEF BreakStore
    <3> QED BY <2>1, <2>2, <3>1 DEF Contents!vars, VisibleContents, VisibleWrites, ValuesOf, Zeros
  <2> QED BY <2>3, <2>4
<1>4. CASE ~EndRead(u) /\ ~Store(u) /\ ~BreakStore(u)
  <2>1. VisibleAnswer' = VisibleAnswer
    BY <1>4, KeepsAnswers
  <2>2. /\ rows' = rows /\ job' = job
        /\ todo' = todo \/ Deliver(u)
    BY <1>4 DEF Step, BeginCheck, Check, BeginUpdate, Compute, FinishWrites, BeginRead, OpenRange,
         ReadRow, BeginPage, ReadPage, EndScan, Break, Deliver
  <2>3. VisibleWrites' = VisibleWrites
    BY <2>2, KeepsWritten
  <2> QED BY <2>1, <2>2, <2>3 DEF Contents!vars, VisibleContents, ValuesOf, Zeros
<1> QED BY <1>1, <1>2, <1>3, <1>4

(* Initially nothing was written and nothing answered.                      *)
LEMMA InitImplements == Init => Contents!Init
<1> SUFFICES ASSUME Init PROVE Contents!Init
  OBVIOUS
<1>1. VisibleAnswer = [t \in Tasks |-> Unread]
  BY DEF Init, VisibleAnswer
<1>2. ASSUME NEW t \in Tasks PROVE Made(job[t], todo[t], out[t]) = <<>>
  <2>1. job[t] \in Jobs /\ todo[t] = (IF job[t].kind \in {"write", "fill"} THEN job[t].writes ELSE <<>>)
    BY DEF Init
  <2>2. CASE job[t].kind = "read"
    BY <2>2, MadeOfRead
  <2>3. CASE job[t].kind = "scan"
    <3>1. out[t] = <<>> /\ todo[t] = <<>>
      BY <2>1, <2>3 DEF Init
    <3>2. CASE DOMAIN job[t].patch = {}
      BY <2>3, <3>2, MadeOfIdleScan
    <3>3. CASE DOMAIN job[t].patch # {}
      <4>1. Made(job[t], todo[t], out[t])
              = [k \in 1..(Len(out[t]) - Len(todo[t])) |-> [id |-> out[t][k], patch |-> job[t].patch]]
        BY <2>3, <3>3 DEF Made
      <4>2. Len(out[t]) - Len(todo[t]) = 0
        BY <3>1
      <4>3. Made(job[t], todo[t], out[t])
              = [k \in 1..0 |-> [id |-> out[t][k], patch |-> job[t].patch]]
        BY <4>1, <4>2
      <4> QED BY <4>3
    <3> QED BY <3>2, <3>3
  <2>4. CASE job[t].kind \in {"write", "fill"}
    <3>1. job[t].writes \in Seq(Writes) /\ todo[t] = job[t].writes /\ Len(job[t].writes) \in Nat
      BY <2>1, <2>4, JobType, LenProperties
    <3>2. Made(job[t], todo[t], out[t]) = SubSeq(job[t].writes, 1, Len(job[t].writes) - Len(todo[t]))
      BY <2>4 DEF Made
    <3>3. Len(job[t].writes) - Len(todo[t]) = 0
      BY <3>1
    <3>4. SubSeq(job[t].writes, 1, 0) = <<>>
      BY SubSeqEmpty
    <3> QED BY <3>2, <3>3, <3>4
  <2> QED BY <2>1, <2>2, <2>3, <2>4, JobType
<1>3. VisibleWrites = [t \in Tasks |-> <<>>]
  BY <1>2 DEF VisibleWrites
<1> QED BY <1>1, <1>3 DEF Contents!Init

(* Callers of sparse storage see block writes that are atomic, in order and *)
(* made once, and batches read at one instant, whatever is interleaved,     *)
(* fails or is abandoned (update_block, replace, read_groups, and the scan  *)
(* whose consumer writes).                                                  *)
THEOREM Implements == Spec => ImplementsBlockContents
<1>1. ViewInv /\ [Next]_vars => [Contents!Next]_(Contents!vars)
  <2> SUFFICES ASSUME ViewInv, [Next]_vars
               PROVE  Contents!Next \/ UNCHANGED Contents!vars
    OBVIOUS
  <2>1. CASE UNCHANGED vars
    BY <2>1 DEF vars, local, Contents!vars, VisibleContents, VisibleWrites, VisibleAnswer, ValuesOf, Zeros
  <2>2. CASE Next
    BY <2>2, StepImplements DEF Next
  <2> QED BY <2>1, <2>2
<1> QED BY <1>1, InitImplements, View, PTL DEF Spec, ImplementsBlockContents, Contents!Spec

--------------------------------------------------------------------------------
(* The keys of a page are a beginning of the keys that are left.            *)
LEMMA FirstOfKeys ==
  ASSUME NEW S \in SUBSET Blocks
  PROVE  /\ FirstKeys(S) \subseteq S
         /\ S # {} => FirstKeys(S) # {}
         /\ \A k \in FirstKeys(S), b \in S : b <= k => b \in FirstKeys(S)
<1>1. Blocks \in SUBSET Nat /\ IsFiniteSet(Blocks)
  BY StorageAssumption, FS_Interval DEF Blocks
<1>2. \A T \in SUBSET Blocks : IsFiniteSet(T)
  BY <1>1, FS_Subset
<1>3. S # {} => FirstKeys(S) # {}
  <2> SUFFICES ASSUME S # {} PROVE Least(S) \in FirstKeys(S)
    OBVIOUS
  <2>1. Least(S) \in S /\ \A c \in S : Least(S) <= c
    BY <1>1, LeastOf
  <2>2. {c \in S : c < Least(S)} = {}
    <3>1. \A c \in S : c \in Nat /\ Least(S) \in Nat
      BY <1>1, <2>1
    <3> HIDE DEF Least
    <3> QED BY <2>1, <3>1
  <2>3. Cardinality({c \in S : c < Least(S)}) = 0
    BY <2>2, FS_EmptySet
  <2> QED BY <2>1, <2>3, StorageAssumption DEF FirstKeys
<1>4. ASSUME NEW k \in FirstKeys(S), NEW b \in S, b <= k
      PROVE  b \in FirstKeys(S)
  <2> DEFINE below(c) == {d \in S : d < c}
  <2>1. k \in S /\ k \in Nat /\ b \in Nat /\ Cardinality(below(k)) < PageSize
    BY <1>1 DEF FirstKeys
  <2>2. below(b) \subseteq below(k)
    <3>1. \A d \in S : d \in Nat
      BY <1>1
    <3>2. \A x, y, z \in Nat : x < y /\ y <= z => x < z
      OBVIOUS
    <3>3. \A d \in S : d < b => d < k
      BY <1>4, <2>1, <3>1, <3>2
    <3> QED BY <3>3
  <2>3. IsFiniteSet(below(k)) /\ IsFiniteSet(below(b))
    BY <1>2
  <2>4. /\ Cardinality(below(b)) <= Cardinality(below(k))
        /\ Cardinality(below(b)) \in Nat /\ Cardinality(below(k)) \in Nat
    <3> HIDE DEF below
    <3> QED BY <2>2, <2>3, FS_Subset, FS_CardinalityType
  <2>5. Cardinality(below(b)) < PageSize
    <3> HIDE DEF below
    <3> QED BY <2>1, <2>4, StorageAssumption
  <2> QED BY <2>5 DEF FirstKeys
<1> QED BY <1>3, <1>4 DEF FirstKeys

(* What was occupied all along is occupied, and so is met.                  *)
Marked(t) ==
  /\ kept[t] \subseteq Occupied
  /\ Occupied \subseteq met[t]

Delivered(t) == {out[t][k] : k \in DOMAIN out[t]}

(* A page is read when the last one has been delivered.                     *)
Paging(t) == pc[t] = "paging" => page[t] = {}

(* What was delivered, what was read ahead and what is left follow each     *)
(* other, and nothing that was occupied all along falls between them.       *)
Scanned(t) ==
  job[t].kind = "scan" =>
    /\ \A i, k \in DOMAIN out[t] : i < k => out[t][i] < out[t][k]
    /\ Delivered(t) \union page[t] \union left[t] \subseteq Initial(job[t])
    /\ \A a \in Delivered(t), b \in page[t] \union left[t] : a < b
    /\ \A a \in page[t], b \in left[t] : a < b
    /\ Delivered(t) \union page[t] \subseteq met[t]
    /\ kept[t] \intersect Initial(job[t]) \subseteq Delivered(t) \union page[t] \union left[t]
    /\ pc[t] = "done" => kept[t] \intersect Initial(job[t]) \subseteq Delivered(t)

ScanInv ==
  /\ ViewInv
  /\ kept \in [Tasks -> SUBSET Blocks] /\ met \in [Tasks -> SUBSET Blocks]
  /\ \A t \in Tasks : Marked(t) /\ Paging(t) /\ Scanned(t)

(* It holds initially.                                                      *)
LEMMA InitScan == Init => ScanInv
<1> SUFFICES ASSUME Init PROVE ScanInv
  OBVIOUS
<1>1. kept = [t \in Tasks |-> Occupied] /\ met = [t \in Tasks |-> Occupied] /\ Occupied \in SUBSET Blocks
  BY DEF Init, Occupied
<1>2. ASSUME NEW t \in Tasks PROVE Marked(t) /\ Paging(t) /\ Scanned(t)
  <2>1. Marked(t) /\ Paging(t)
    BY <1>1 DEF Marked, Paging, Init
  <2> SUFFICES ASSUME job[t].kind = "scan" PROVE Scanned(t)
    BY <2>1 DEF Scanned
  <2>2. out[t] = <<>> /\ page[t] = {} /\ left[t] = Initial(job[t]) /\ pc[t] = "idle"
    BY DEF Init
  <2>3. Delivered(t) = {}
    BY <2>2 DEF Delivered
  <2> QED BY <2>2, <2>3 DEF Scanned
<1> QED BY <1>1, <1>2, InitView DEF ScanInv

(* A row that is stored marks its block, or takes its mark away.            *)
LEMMA StoredMarks ==
  ASSUME ScanInv, NEW u \in Tasks, pc[u] = "storing", Stored(u)
  PROVE  /\ kept' \in [Tasks -> SUBSET Blocks] /\ met' \in [Tasks -> SUBSET Blocks]
         /\ \A t \in Tasks : Marked(t)' /\ kept'[t] \subseteq kept[t] /\ met[t] \subseteq met'[t]
<1> DEFINE b == Target(u)
<1>1. TypeOK /\ todo[u] # <<>> /\ kept \in [Tasks -> SUBSET Blocks] /\ met \in [Tasks -> SUBSET Blocks]
  BY DEF ScanInv, ViewInv, WriterInv
<1>2. b \in Blocks
  BY <1>1, HeadType
<1>3. /\ rows' = [rows EXCEPT ![b] = row[u]]
      /\ kept' = [t \in Tasks |-> IF row[u] = Absent THEN kept[t] \ {b} ELSE kept[t]]
      /\ met' = [t \in Tasks |-> IF row[u] = Absent THEN met[t] ELSE met[t] \union {b}]
  BY DEF Stored
<1> HIDE DEF b
<1>4. Occupied' = IF row[u] = Absent THEN Occupied \ {b} ELSE Occupied \union {b}
  BY <1>1, <1>2, <1>3 DEF Occupied, TypeOK
<1>5. /\ kept' \in [Tasks -> SUBSET Blocks] /\ met' \in [Tasks -> SUBSET Blocks]
  BY <1>1, <1>2, <1>3
<1>6. ASSUME NEW t \in Tasks
      PROVE  Marked(t)' /\ kept'[t] \subseteq kept[t] /\ met[t] \subseteq met'[t]
  <2>1. Marked(t)
    BY DEF ScanInv
  <2> QED BY <1>1, <1>3, <1>4, <2>1 DEF Marked
<1> QED BY <1>5, <1>6

(* Every step keeps the marks; only the beginning of a scan sets them anew. *)
LEMMA NextMarks ==
  ASSUME ScanInv, NEW u \in Tasks, Step(u) \/ Break(u) \/ BreakStore(u)
  PROVE  /\ kept' \in [Tasks -> SUBSET Blocks] /\ met' \in [Tasks -> SUBSET Blocks]
         /\ \A t \in Tasks :
              /\ Marked(t)'
              /\ \/ kept'[t] \subseteq kept[t] /\ met[t] \subseteq met'[t]
                 \/ t = u /\ BeginPage(t) /\ left[t] = Initial(job[t])
<1>1. ASSUME UNCHANGED <<rows, kept, met>>
      PROVE  /\ kept' \in [Tasks -> SUBSET Blocks] /\ met' \in [Tasks -> SUBSET Blocks]
             /\ \A t \in Tasks : Marked(t)' /\ kept'[t] \subseteq kept[t] /\ met[t] \subseteq met'[t]
  BY <1>1 DEF ScanInv, Marked, Occupied
<1>2. CASE Store(u) \/ BreakStore(u)
  <2>1. pc[u] = "storing" /\ (Stored(u) \/ UNCHANGED <<rows, kept, met>>)
    BY <1>2 DEF Store, BreakStore, history
  <2> QED BY <1>1, <2>1, StoredMarks
<1>3. CASE BeginPage(u)
  <2>1. /\ rows' = rows
        /\ \/ /\ left[u] = Initial(job[u])
              /\ kept' = [kept EXCEPT ![u] = Occupied] /\ met' = [met EXCEPT ![u] = Occupied]
           \/ UNCHANGED <<kept, met>>
    BY <1>3 DEF BeginPage, history
  <2>2. CASE UNCHANGED <<kept, met>>
    BY <1>1, <2>1, <2>2
  <2>3. CASE left[u] = Initial(job[u]) /\ kept' = [kept EXCEPT ![u] = Occupied] /\ met' = [met EXCEPT ![u] = Occupied]
    <3>1. Occupied' = Occupied /\ Occupied \in SUBSET Blocks
      BY <2>1 DEF Occupied
    <3>2. kept \in [Tasks -> SUBSET Blocks] /\ met \in [Tasks -> SUBSET Blocks]
      BY DEF ScanInv
    <3>3. ASSUME NEW t \in Tasks
          PROVE  /\ Marked(t)'
                 /\ t # u => kept'[t] = kept[t] /\ met'[t] = met[t]
      <4>1. Marked(t)
        BY DEF ScanInv
      <4> QED BY <2>3, <3>1, <3>2, <4>1 DEF Marked
    <3>4. kept' \in [Tasks -> SUBSET Blocks] /\ met' \in [Tasks -> SUBSET Blocks]
      BY <2>3, <3>1, <3>2
    <3> QED BY <1>3, <2>3, <3>3, <3>4
  <2> QED BY <2>1, <2>2, <2>3
<1>4. CASE ~Store(u) /\ ~BreakStore(u) /\ ~BeginPage(u)
  <2>1. UNCHANGED <<rows, kept, met>>
    BY <1>4 DEF Step, BeginCheck, Check, BeginUpdate, Compute, FinishWrites, BeginRead, OpenRange,
                ReadRow, EndRead, ReadPage, Deliver, EndScan, Break, history
  <2> QED BY <1>1, <2>1
<1> QED BY <1>2, <1>3, <1>4

(* The steps of others, and the task's own that only leave marks behind.    *)
LEMMA ScanFrame ==
  ASSUME ScanInv, NEW t \in Tasks,
         kept'[t] \subseteq kept[t], met[t] \subseteq met'[t],
         job' = job, out'[t] = out[t], page'[t] = page[t], left'[t] = left[t],
         job[t].kind = "scan" /\ pc'[t] = "done" => pc[t] = "done"
  PROVE  Scanned(t)'
<1>1. Scanned(t)
  BY DEF ScanInv
<1>2. Delivered(t)' = Delivered(t) /\ Initial(job[t])' = Initial(job[t])
  <2>1. job'[t] = job[t]
    OBVIOUS
  <2> QED BY <2>1 DEF Delivered
<1> SUFFICES ASSUME job[t].kind = "scan" PROVE Scanned(t)'
  BY DEF Scanned
<1>3. /\ Delivered(t) \union page[t] \subseteq met'[t]
      /\ kept'[t] \intersect Initial(job[t]) \subseteq Delivered(t) \union page[t] \union left[t]
      /\ pc'[t] = "done" => kept'[t] \intersect Initial(job[t]) \subseteq Delivered(t)
  BY <1>1 DEF Scanned
<1> QED BY <1>1, <1>2, <1>3 DEF Scanned

(* A scan that begins its first page has delivered nothing.                 *)
LEMMA BeginScan ==
  ASSUME ScanInv, NEW t \in Tasks, BeginPage(t), left[t] = Initial(job[t]), Marked(t)'
  PROVE  Scanned(t)'
<1>1. /\ job' = job /\ out' = out /\ page' = page /\ left' = left /\ rows' = rows
      /\ page[t] = {} /\ job[t].kind = "scan" /\ left[t] # {}
      /\ kept' = [kept EXCEPT ![t] = Occupied]
  BY DEF BeginPage, Drained
<1>2. pc'[t] = "paging" /\ left[t] \in SUBSET Nat
  BY StorageAssumption DEF BeginPage, Acquire, ScanInv, ViewInv, WriterInv, TypeOK, Blocks
<1>3. Scanned(t)
  BY DEF ScanInv
<1>4. Delivered(t) = {}
  <2>1. SUFFICES ASSUME NEW a \in Delivered(t) PROVE FALSE
    OBVIOUS
  <2>2. a \in left[t] /\ a < a
    BY <1>1, <1>3 DEF Scanned
  <2> QED BY <1>2, <2>2
<1>5. Delivered(t)' = {} /\ Initial(job[t])' = Initial(job[t])
  BY <1>1, <1>4 DEF Delivered
<1> QED BY <1>1, <1>2, <1>3, <1>5 DEF Scanned

(* A page moves keys from what is left to what was read ahead; what is left *)
(* before the last of them was not occupied.                                *)
LEMMA PageScan ==
  ASSUME ScanInv, NEW t \in Tasks, ReadPage(t), kept'[t] \subseteq kept[t], met[t] \subseteq met'[t]
  PROVE  Scanned(t)'
<1> DEFINE keys == FirstKeys(left[t] \intersect Occupied)
           rest == Rest(t, keys)
<1>1. /\ job' = job /\ out' = out /\ pc[t] = "paging"
      /\ page' = [page EXCEPT ![t] = keys] /\ left' = [left EXCEPT ![t] = rest]
      /\ Release(t, IF keys = {} THEN "done" ELSE "idle")
  BY DEF ReadPage
<1>2. /\ Scanned(t) /\ Marked(t) /\ TypeOK /\ job[t].kind = "scan" /\ left[t] \in SUBSET Blocks
      /\ Blocks \subseteq Nat
  BY <1>1, StorageAssumption DEF ScanInv, ViewInv, Viewed, Placed, WriterInv, TypeOK, Blocks
<1>3. page'[t] = keys /\ left'[t] = rest
  BY <1>1, <1>2 DEF TypeOK
<1>4. /\ keys \subseteq left[t] \intersect Occupied
      /\ left[t] \intersect Occupied # {} => keys # {}
      /\ \A k \in keys, b \in left[t] \intersect Occupied : b <= k => b \in keys
  BY <1>2, FirstOfKeys
<1>5. /\ rest \subseteq left[t]
      /\ \A k \in keys, b \in rest : k < b
      /\ left[t] \intersect Occupied \subseteq keys \union rest
  <2> HIDE DEF keys
  <2>1. rest \subseteq left[t] /\ \A k \in keys, b \in rest : b > k
    BY DEF Rest
  <2>2. \A k \in keys, b \in rest : k < b
    BY <1>2, <1>4, <2>1
  <2>3. ASSUME NEW b \in left[t] \intersect Occupied, b \notin rest PROVE b \in keys
    <3>1. PICK k \in keys : ~(b > k)
      BY <2>3 DEF Rest
    <3>2. b <= k
      <4>1. b \in Nat /\ k \in Nat
        BY <1>2, <1>4
      <4> QED BY ONLY <3>1, <4>1
    <3> QED BY <1>4, <3>2
  <2> QED BY <2>1, <2>2, <2>3
<1>7. Delivered(t)' = Delivered(t) /\ Initial(job[t])' = Initial(job[t])
  BY <1>1 DEF Delivered
<1>8. page[t] = {}
  BY <1>1 DEF ScanInv, Paging
<1>9. pc'[t] = "done" => keys = {}
  BY <1>1, <1>2 DEF Release, TypeOK
<1> HIDE DEF keys, rest
<1>10. /\ Delivered(t) \union keys \union rest \subseteq Initial(job[t])
       /\ \A a \in Delivered(t), b \in keys \union rest : a < b
       /\ Delivered(t) \union keys \subseteq met'[t]
  BY <1>2, <1>4, <1>5 DEF Scanned, Marked
<1>11. kept'[t] \intersect Initial(job[t]) \subseteq Delivered(t) \union keys \union rest
  BY <1>2, <1>5, <1>8 DEF Scanned, Marked
<1>12. pc'[t] = "done" => kept'[t] \intersect Initial(job[t]) \subseteq Delivered(t)
  BY <1>2, <1>4, <1>8, <1>9 DEF Scanned, Marked
<1>13. \A i, k \in DOMAIN out'[t] : i < k => out'[t][i] < out'[t][k]
  BY <1>1, <1>2 DEF Scanned
<1> QED BY <1>1, <1>3, <1>5, <1>7, <1>10, <1>11, <1>12, <1>13 DEF Scanned

(* A key that is delivered follows those that were, and comes before the    *)
(* rest of its page.                                                        *)
LEMMA DeliverScan ==
  ASSUME ScanInv, NEW t \in Tasks, Deliver(t), kept'[t] \subseteq kept[t], met[t] \subseteq met'[t]
  PROVE  Scanned(t)'
<1> DEFINE b == Least(page[t])
<1>1. /\ job' = job /\ left' = left /\ pc' = pc /\ page' = [page EXCEPT ![t] = @ \ {b}]
      /\ out' = [out EXCEPT ![t] = Append(@, b)]
      /\ pc[t] = "idle" /\ job[t].kind = "scan" /\ page[t] # {}
  BY DEF Deliver
<1>2. /\ Scanned(t) /\ TypeOK /\ out[t] \in Seq(Blocks) /\ out = [v \in Tasks |-> out[v]]
      /\ page[t] \in SUBSET Nat /\ page[t] \in SUBSET Blocks
      /\ Blocks \subseteq Nat
  BY <1>1, StorageAssumption DEF ScanInv, ViewInv, Viewed, Visiting, WriterInv, TypeOK, Blocks
<1>3. b \in page[t] /\ \A c \in page[t] : b <= c
  BY <1>1, <1>2, LeastOf
<1> HIDE DEF b
<1>4. page'[t] = page[t] \ {b} /\ out'[t] = Append(out[t], b)
  BY <1>1, <1>2 DEF TypeOK
<1>5. /\ Len(out[t]) \in Nat /\ DOMAIN out[t] = 1..Len(out[t])
      /\ out'[t] \in Seq(Blocks) /\ DOMAIN out'[t] = 1..(Len(out[t]) + 1)
      /\ \A i \in 1..Len(out[t]) : out'[t][i] = out[t][i]
      /\ out'[t][Len(out[t]) + 1] = b
  <2>1. b \in Blocks
    BY <1>2, <1>3
  <2>2. /\ out'[t] \in Seq(Blocks) /\ Len(out'[t]) = Len(out[t]) + 1
        /\ \A i \in 1..Len(out[t]) : out'[t][i] = out[t][i]
        /\ out'[t][Len(out[t]) + 1] = b
    BY <1>2, <1>4, <2>1, AppendProperties
  <2> QED BY <1>2, <2>2, LenProperties
<1>6. Delivered(t)' = Delivered(t) \union {b}
  <2>1. \A i \in DOMAIN out'[t] : i \in DOMAIN out[t] \/ i = Len(out[t]) + 1
    BY <1>5
  <2>2. \A i \in DOMAIN out[t] : i \in DOMAIN out'[t]
    BY <1>5
  <2>3. Len(out[t]) + 1 \in DOMAIN out'[t]
    BY <1>5
  <2>4. Delivered(t)' = {out'[t][i] : i \in DOMAIN out'[t]}
    BY DEF Delivered
  <2> QED BY <1>5, <2>1, <2>2, <2>3, <2>4 DEF Delivered
<1>7. \A i, k \in DOMAIN out'[t] : i < k => out'[t][i] < out'[t][k]
  <2> SUFFICES ASSUME NEW i \in DOMAIN out'[t], NEW k \in DOMAIN out'[t], i < k
               PROVE  out'[t][i] < out'[t][k]
    OBVIOUS
  <2>1. i \in DOMAIN out[t] /\ out'[t][i] = out[t][i] /\ out[t][i] \in Delivered(t)
    BY <1>5 DEF Delivered
  <2>2. CASE k \in DOMAIN out[t]
    BY <1>1, <1>2, <1>5, <2>1, <2>2 DEF Scanned
  <2>3. CASE k \notin DOMAIN out[t]
    <3>1. k = Len(out[t]) + 1
      BY <1>5, <2>3
    <3> QED BY <1>1, <1>2, <1>3, <1>5, <2>1, <3>1 DEF Scanned
  <2> QED BY <2>2, <2>3
<1>8. \A c \in page[t] \ {b} : b < c
  <2> SUFFICES ASSUME NEW c \in page[t] \ {b} PROVE b < c
    OBVIOUS
  <2>1. c \in Nat /\ b \in Nat /\ b <= c /\ b # c
    BY <1>2, <1>3
  <2> QED BY ONLY <2>1
<1>9. \A a \in Delivered(t) \union {b}, c \in (page[t] \ {b}) \union left[t] : a < c
  BY <1>1, <1>2, <1>3, <1>8 DEF Scanned
<1>10. Initial(job[t])' = Initial(job[t])
  BY <1>1
<1>11. /\ (Delivered(t) \union {b}) \union (page[t] \ {b}) = Delivered(t) \union page[t]
  BY <1>3
<1>12. /\ \A a \in page[t] \ {b}, c \in left[t] : a < c
       /\ Delivered(t) \union page[t] \subseteq met'[t]
       /\ Delivered(t) \union page[t] \union left[t] \subseteq Initial(job[t])
       /\ kept'[t] \intersect Initial(job[t]) \subseteq Delivered(t) \union page[t] \union left[t]
  BY <1>1, <1>2 DEF Scanned
<1> QED BY <1>1, <1>4, <1>6, <1>7, <1>9, <1>10, <1>11, <1>12 DEF Scanned

(* Every step keeps the invariant.                                          *)
LEMMA NextScan == ScanInv /\ [Next]_vars => ScanInv'
<1> SUFFICES ASSUME ScanInv, [Next]_vars PROVE ScanInv'
  OBVIOUS
<1>1. ViewInv'
  BY NextView DEF ScanInv
<1>2. CASE UNCHANGED vars
  <2>1. UNCHANGED <<rows, job, pc, left, page, out, kept, met>>
    BY <1>2 DEF vars, local, history
  <2>2. ASSUME NEW t \in Tasks PROVE Marked(t)' /\ Paging(t)' /\ Scanned(t)'
    <3>1. Marked(t)' /\ Paging(t)'
      BY <2>1 DEF ScanInv, Marked, Paging, Occupied
    <3> QED BY <2>1, <3>1, ScanFrame
  <2> QED BY <1>1, <2>1, <2>2 DEF ScanInv
<1>3. ASSUME NEW u \in Tasks, Step(u) \/ Break(u) \/ BreakStore(u)
      PROVE  ScanInv'
  <2>1. /\ kept' \in [Tasks -> SUBSET Blocks] /\ met' \in [Tasks -> SUBSET Blocks]
        /\ \A t \in Tasks :
             /\ Marked(t)'
             /\ \/ kept'[t] \subseteq kept[t] /\ met[t] \subseteq met'[t]
                \/ t = u /\ BeginPage(t) /\ left[t] = Initial(job[t])
    BY <1>3, NextMarks
  <2>2. TypeOK /\ ViewInv /\ out = [v \in Tasks |-> out[v]]
    BY DEF ScanInv, ViewInv, WriterInv
  <2>3. ASSUME NEW t \in Tasks \ {u} PROVE Paging(t)' /\ Scanned(t)'
    <3>1. /\ job' = job /\ left'[t] = left[t] /\ out'[t] = out[t]
          /\ pc'[t] = pc[t] \/ pc'[t] = "broken"
      BY <1>3, <2>2, OthersFrame
    <3>2. page'[t] = page[t]
      BY <1>3, <2>2 DEF Step, BeginCheck, Check, BeginUpdate, Compute, Store, FinishWrites, BeginRead, OpenRange,
         ReadRow, EndRead, BeginPage, ReadPage, Deliver, EndScan, Break, BreakStore, TypeOK
    <3>3. Paging(t)'
      BY <3>1, <3>2 DEF Paging, ScanInv
    <3> QED BY <2>1, <3>1, <3>2, <3>3, ScanFrame
  <2>4. Paging(u)' /\ Scanned(u)'
    <3>1. Paging(u) /\ Scanned(u) /\ Viewed(u) /\ pc \in [Tasks -> Places]
      BY <2>2 DEF ScanInv, ViewInv, TypeOK
    <3>2. CASE BeginPage(u)
      <4>1. /\ page'[u] = {} /\ UNCHANGED <<job, out, page, left>> /\ pc'[u] = "paging"
        BY <3>1, <3>2 DEF BeginPage, Drained, Acquire
      <4>2. Scanned(u)'
        BY <2>1, <3>2, <4>1, BeginScan, ScanFrame
      <4> QED BY <4>1, <4>2 DEF Paging
    <3>3. CASE ReadPage(u)
      <4>1. pc'[u] # "paging" /\ ~BeginPage(u)
        BY <3>1, <3>3 DEF ReadPage, BeginPage, Drained, Release
      <4> QED BY <2>1, <3>3, <4>1, PageScan DEF Paging
    <3>4. CASE Deliver(u)
      <4>1. pc'[u] # "paging" /\ ~BeginPage(u)
        BY <3>4 DEF Deliver, BeginPage, Drained
      <4> QED BY <2>1, <3>4, <4>1, DeliverScan DEF Paging
    <3>5. CASE EndScan(u)
      <4>1. UNCHANGED <<job, out, page, left, kept, met>> /\ page[u] = {} /\ left[u] = {} /\ pc'[u] = "done"
        BY <3>1, <3>5 DEF EndScan, Drained, history
      <4>2. Delivered(u)' = Delivered(u)
        BY <4>1 DEF Delivered
      <4>3. Scanned(u)'
        BY <3>1, <4>1, <4>2 DEF Scanned
      <4> QED BY <4>1, <4>3 DEF Paging
    <3>6. CASE OpenRange(u) \/ ReadRow(u)
      <4>1. job[u].kind = "read" /\ job' = job /\ page' = page /\ pc[u] = "reading"
            /\ (pc'[u] = pc[u] \/ pc'[u] = "invalid")
        BY <3>1, <3>6 DEF OpenRange, ReadRow, Viewed, Placed, Release
      <4> QED BY <4>1 DEF Paging, Scanned
    <3>7. CASE ~BeginPage(u) /\ ~ReadPage(u) /\ ~Deliver(u) /\ ~EndScan(u) /\ ~OpenRange(u) /\ ~ReadRow(u)
      <4>1. UNCHANGED <<job, out, page, left>>
        BY <1>3, <3>7 DEF Step, BeginCheck, Check, BeginUpdate, Compute, Store, FinishWrites, BeginRead,
           EndRead, Break, BreakStore
      <4>2. pc'[u] \in {"checking", "invalid", "checked", "updating", "storing", "idle", "done",
                        "reading", "broken"}
        BY <1>3, <3>1, <3>7 DEF Step, BeginCheck, Check, BeginUpdate, Compute, Store, FinishWrites, BeginRead,
           EndRead, Break, BreakStore, Acquire, Release, Ended
      <4>3. pc'[u] = "done" => job[u].kind # "scan"
        BY <1>3, <3>1, <3>7 DEF Step, BeginCheck, Check, BeginUpdate, Compute, Store, FinishWrites, BeginRead,
           EndRead, Break, BreakStore, Acquire, Release, Ended, Viewed, Placed
      <4>4. Paging(u)'
        BY <4>2 DEF Paging
      <4> QED BY <2>1, <3>7, <4>1, <4>3, <4>4, ScanFrame
    <3> QED BY <3>2, <3>3, <3>4, <3>5, <3>6, <3>7
  <2> QED BY <1>1, <2>1, <2>3, <2>4 DEF ScanInv
<1> QED BY <1>2, <1>3 DEF Next

(* ScansAreExact for any table, page size and number of callers that write  *)
(* between the pages of the stream (occupied_page, occupied_blocks).        *)
THEOREM ScansKeepUp == Spec => []ScansAreExact
<1>1. ScanInv => ScansAreExact
  BY DEF ScanInv, Scanned, Delivered, ScansAreExact
<1> QED BY <1>1, InitScan, NextScan, PTL DEF Spec
================================================================================
