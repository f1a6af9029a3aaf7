----------------------------- MODULE SparseStorage -----------------------------
(****************************************************************************)
(* Published sparse storage under concurrent callers: one native table of   *)
(* dense logical blocks (src/tensor/sparse_storage.rs) behind one read and  *)
(* write guard, and the bulk operations of src/tensor.rs that are loops of  *)
(* guarded block operations: write_values, fill and the occupancy stream.   *)
(*                                                                          *)
(* The table keeps a row per occupied block.  Tensor::load validates every  *)
(* row, but what native writers of the same directory do afterwards is out  *)
(* of its reach ("validation is not a transaction snapshot"), so operations *)
(* validate again what they read: a row may be corrupt, all zero or not     *)
(* zero in the padding of an edge block.  Blocks, offsets and values are    *)
(* small sets; the table and its guard are b_table's, modelled from how     *)
(* they are used.                                                           *)
(****************************************************************************)
EXTENDS Naturals, Sequences, FiniteSets

CONSTANTS
  Tasks,      \* callers that share the storage, one operation each
  Jobs,       \* the operations a task may ask for: see Writing, Filling...
  BlockCount, \* StorageGeometry::block_count
  Offsets,    \* positions of a physical block
  Valid,      \* Valid[b]: the positions of block b that are not padding
  Values,     \* tensor elements
  Zero,       \* TensorElement::ZERO
  Loaded,     \* the tables that the operations may find
  PageSize,   \* SPARSE_INDEX_PAGE_ENTRIES
  Breakable,  \* tasks whose I/O may fail or whose future may be dropped
  Absent,     \* no row
  Unread      \* no batch was returned

Blocks == 0..(BlockCount - 1)
Payloads == [Offsets -> Values]
Rows == Payloads \union {Absent}
Patches == UNION {[S -> Values] : S \in SUBSET Offsets}
Writes == [id : Blocks, patch : Patches]

(* write_value, write_values, replace_logical_block: block writes in order. *)
Writing(writes) == [kind |-> "write", writes |-> writes]
(* read_batch: the blocks that the planned groups of a batch touch.         *)
Reading(wanted) == [kind |-> "read", wanted |-> wanted]
(* occupied_blocks(lo..hi), whose consumer writes patch to each block that  *)
(* is delivered, if patch names anything.                                   *)
Scanning(lo, hi, patch) == [kind |-> "scan", lo |-> lo, hi |-> hi, patch |-> patch]
(* fill: every block, in order.                                             *)
Filling(value) ==
  [kind |-> "fill",
   writes |-> [k \in 1..BlockCount |->
     [id |-> k - 1,
      patch |-> [o \in Offsets |-> IF o \in Valid[k - 1] THEN value ELSE Zero]]]]

ASSUME StorageAssumption ==
  /\ BlockCount \in Nat \ {0}
  /\ Valid \in [Blocks -> SUBSET Offsets]
  /\ Zero \in Values
  /\ PageSize \in Nat \ {0}
  /\ Absent \notin Payloads
  /\ Loaded \subseteq [Blocks -> Rows]

ASSUME JobAssumption ==
  Jobs \subseteq
    [kind : {"write", "fill"}, writes : Seq(Writes)]
      \union [kind : {"read"}, wanted : SUBSET Blocks]
      \union [kind : {"scan"}, lo : 0..BlockCount, hi : 0..BlockCount, patch : Patches]

--------------------------------------------------------------------------------
VARIABLES
  rows,    \* the table: a row or Absent for every block
  guard,   \* guard[t]: the guard t holds on the table
  job,     \* job[t]: what t was asked to do
  pc,      \* pc[t]: where t is: see Places
  todo,    \* todo[t]: the block writes t has still to make
  row,     \* row[t]: what t is about to store
  left,    \* left[t]: the block IDs t has still to read or scan
  span,    \* span[t]: what is left of the native range t has open
  page,    \* page[t]: the index keys read ahead and not yet delivered
  out,     \* out[t]: values read, or IDs delivered
  kept,    \* history: the blocks occupied ever since t began its scan
  met      \* history: the blocks occupied at some moment of t's scan

local == <<pc, todo, row, left, span, page, out>>
history == <<kept, met>>
vars == <<rows, guard, job, local, history>>

Places == {"idle", "checking", "checked", "updating", "storing", "reading", "paging",
           "done", "invalid", "broken"}
Ended == {"done", "invalid", "broken"}

Occupied == {b \in Blocks : rows[b] # Absent}

Zeros == [o \in Offsets |-> Zero]
Nonzero(values) == \E o \in Offsets : values[o] # Zero
(* validate_block: the padding of an edge block is zero.                    *)
Padded(b, values) == \A o \in Offsets \ Valid[b] : values[o] = Zero

(* row_values: a stored row is not empty and its padding is zero.           *)
Sound(b, r) == r # Absent => Nonzero(r) /\ Padded(b, r)
Corrupt(b) == ~Sound(b, rows[b])

(* A missing row reads as zeros.                                            *)
ValuesOf(r) == IF r = Absent THEN Zeros ELSE r

(* The blocks an operation reads or scans.                                  *)
Initial(j) ==
  CASE j.kind = "read" -> j.wanted
    [] j.kind = "scan" -> {b \in Blocks : j.lo <= b /\ b < j.hi}
    [] OTHER -> {}

Init ==
  /\ rows \in Loaded
  /\ job \in [Tasks -> Jobs]
  /\ guard = [t \in Tasks |-> "none"]
  /\ pc = [t \in Tasks |-> "idle"]
  /\ todo = [t \in Tasks |->
       IF job[t].kind \in {"write", "fill"} THEN job[t].writes ELSE <<>>]
  /\ row = [t \in Tasks |-> Absent]
  /\ left = [t \in Tasks |-> Initial(job[t])]
  /\ span = [t \in Tasks |-> {}]
  /\ page = [t \in Tasks |-> {}]
  /\ out = [t \in Tasks |->
       IF job[t].kind = "read" THEN [b \in job[t].wanted |-> Zeros] ELSE <<>>]
  /\ kept = [t \in Tasks |-> Occupied]
  /\ met = [t \in Tasks |-> Occupied]

--------------------------------------------------------------------------------
(* The table's guard: any number of readers or one writer.                  *)
CanRead == \A u \in Tasks : guard[u] # "write"

(* Faulty: writers exclude nothing but writers.                             *)
CanWriteAmongReaders == CanRead
CanWrite == \A u \in Tasks : guard[u] = "none"

Acquire(t, mode, place) ==
  /\ IF mode = "read" THEN CanRead ELSE CanWrite
  /\ guard' = [guard EXCEPT ![t] = mode]
  /\ pc' = [pc EXCEPT ![t] = place]

Release(t, place) ==
  /\ guard' = [guard EXCEPT ![t] = "none"]
  /\ pc' = [pc EXCEPT ![t] = place]

Overwritten(values, patch) ==
  [o \in Offsets |-> IF o \in DOMAIN patch THEN patch[o] ELSE values[o]]

(* An all-zero block has no row.                                            *)
Compact(values) == IF Nonzero(values) THEN values ELSE Absent

Target(t) == Head(todo[t]).id
Result(t) == Overwritten(ValuesOf(rows[Target(t)]), Head(todo[t]).patch)

(* Faulty: the row that is replaced is not validated.                       *)
AcceptedUnread(t) == Padded(Target(t), Result(t))

Accepted(t) == ~Corrupt(Target(t)) /\ Padded(Target(t), Result(t))

Least(S) == CHOOSE b \in S : \A c \in S : b <= c

(* fill reads each block under a guard of its own before it replaces it.    *)
BeginCheck(t) ==
  /\ pc[t] = "idle" /\ job[t].kind = "fill" /\ todo[t] # <<>>
  /\ Acquire(t, "read", "checking")
  /\ UNCHANGED <<rows, job, todo, row, left, span, page, out, history>>

Check(t) ==
  /\ pc[t] = "checking"
  /\ Release(t, IF Corrupt(Target(t)) THEN "invalid" ELSE "checked")
  /\ UNCHANGED <<rows, job, todo, row, left, span, page, out, history>>

BeginUpdate(t) ==
  /\ todo[t] # <<>>
  /\ pc[t] = IF job[t].kind = "fill" THEN "checked" ELSE "idle"
  /\ Acquire(t, "write", "updating")
  /\ UNCHANGED <<rows, job, todo, row, left, span, page, out, history>>

(* try_update reads the row and calls the closure with it.                  *)
Compute(t) ==
  /\ pc[t] = "updating"
  /\ \/ /\ Accepted(t)
        /\ row' = [row EXCEPT ![t] = Compact(Result(t))]
        /\ pc' = [pc EXCEPT ![t] = "storing"]
        /\ UNCHANGED guard
     \/ /\ ~Accepted(t)
        /\ Release(t, "invalid")
        /\ UNCHANGED row
  /\ UNCHANGED <<rows, job, todo, left, span, page, out, history>>

Stored(t) ==
  LET b == Target(t)
  IN /\ rows' = [rows EXCEPT ![b] = row[t]]
     /\ todo' = [todo EXCEPT ![t] = Tail(@)]
     /\ kept' = [u \in Tasks |-> IF row[t] = Absent THEN kept[u] \ {b} ELSE kept[u]]
     /\ met' = [u \in Tasks |-> IF row[t] = Absent THEN met[u] ELSE met[u] \union {b}]

(* ... and then upserts or removes the row, still under the guard.          *)
Store(t) ==
  /\ pc[t] = "storing"
  /\ Stored(t)
  /\ Release(t, "idle")
  /\ UNCHANGED <<job, row, left, span, page, out>>

(* The loop over the planned writes ends.                                   *)
FinishWrites(t) ==
  /\ pc[t] = "idle" /\ job[t].kind \in {"write", "fill"} /\ todo[t] = <<>>
  /\ pc' = [pc EXCEPT ![t] = "done"]
  /\ UNCHANGED <<rows, guard, job, todo, row, left, span, page, out, history>>

--------------------------------------------------------------------------------
(* read_groups: one guard over every group of the batch.                    *)
BeginRead(t) ==
  /\ pc[t] = "idle" /\ job[t].kind = "read"
  /\ Acquire(t, "read", "reading")
  /\ UNCHANGED <<rows, job, todo, row, left, span, page, out, history>>

(* Faulty: a range reaches over the gaps of the request.                    *)
RunOverGaps(S) == {b \in Blocks : \E a, c \in S : a <= b /\ b <= c}

(* The consecutive IDs at the front of S.                                   *)
Run(S) == {b \in S : Least(S)..b \subseteq S}

OpenRange(t) ==
  /\ pc[t] = "reading" /\ span[t] = {} /\ left[t] # {}
  /\ span' = [span EXCEPT ![t] = Run(left[t])]
  /\ left' = [left EXCEPT ![t] = @ \ Run(@)]
  /\ UNCHANGED <<rows, guard, job, pc, todo, row, page, out, history>>

(* The next row of the open range; an absent block has none.                *)
ReadRow(t) ==
  /\ pc[t] = "reading" /\ span[t] # {}
  /\ LET present == span[t] \intersect Occupied
         b == Least(present)
     IN \/ /\ present = {}
           /\ span' = [span EXCEPT ![t] = {}]
           /\ UNCHANGED <<guard, pc, out>>
        \/ /\ present # {} /\ ~Corrupt(b)
           /\ out' = [out EXCEPT ![t][b] = rows[b]]
           /\ span' = [span EXCEPT ![t] = {c \in @ : c > b}]
           /\ UNCHANGED <<guard, pc>>
        \/ /\ present # {} /\ Corrupt(b)
           /\ Release(t, "invalid")
           /\ UNCHANGED <<span, out>>
  /\ UNCHANGED <<rows, job, todo, row, left, page, history>>

EndRead(t) ==
  /\ pc[t] = "reading" /\ span[t] = {} /\ left[t] = {}
  /\ Release(t, "done")
  /\ UNCHANGED <<rows, job, todo, row, left, span, page, out, history>>

--------------------------------------------------------------------------------
(* The stream asks for a page once its consumer has taken the last one.     *)
Drained(t) ==
  pc[t] = "idle" /\ job[t].kind = "scan" /\ page[t] = {} /\ todo[t] = <<>>

(* An empty range needs no guard.                                           *)
EndScan(t) ==
  /\ Drained(t) /\ left[t] = {}
  /\ pc' = [pc EXCEPT ![t] = "done"]
  /\ UNCHANGED <<rows, guard, job, todo, row, left, span, page, out, history>>

BeginPage(t) ==
  /\ Drained(t) /\ left[t] # {}
  /\ Acquire(t, "read", "paging")
  /\ IF left[t] = Initial(job[t])
     THEN /\ kept' = [kept EXCEPT ![t] = Occupied]
          /\ met' = [met EXCEPT ![t] = Occupied]
     ELSE UNCHANGED history
  /\ UNCHANGED <<rows, job, todo, row, left, span, page, out>>

FirstKeys(S) == {b \in S : Cardinality({c \in S : c < b}) < PageSize}

(* Faulty: the extra key that was inspected is taken for delivered.         *)
RestInspected(t, keys) ==
  LET more == {b \in left[t] : \A k \in keys : b > k}
  IN more \ FirstKeys(more \intersect Occupied)

(* The stream resumes at last + 1.                                          *)
Rest(t, keys) == {b \in left[t] : \A k \in keys : b > k}

(* Faulty: the guard is kept while the page is delivered.                   *)
ReadPageHeld(t) ==
  /\ pc[t] = "paging"
  /\ LET keys == FirstKeys(left[t] \intersect Occupied)
     IN /\ page' = [page EXCEPT ![t] = keys]
        /\ left' = [left EXCEPT ![t] = Rest(t, keys)]
        /\ pc' = [pc EXCEPT ![t] = IF keys = {} THEN "done" ELSE "idle"]
  /\ UNCHANGED <<rows, guard, job, todo, row, span, out, history>>

(* occupied_page; a page without keys ends the stream.                      *)
ReadPage(t) ==
  /\ pc[t] = "paging"
  /\ LET keys == FirstKeys(left[t] \intersect Occupied)
     IN /\ page' = [page EXCEPT ![t] = keys]
        /\ left' = [left EXCEPT ![t] = Rest(t, keys)]
        /\ Release(t, IF keys = {} THEN "done" ELSE "idle")
  /\ UNCHANGED <<rows, job, todo, row, span, out, history>>

(* The consumer takes a key; it may write that block before the next one.   *)
Deliver(t) ==
  /\ pc[t] = "idle" /\ job[t].kind = "scan" /\ page[t] # {} /\ todo[t] = <<>>
  /\ LET b == Least(page[t])
     IN /\ page' = [page EXCEPT ![t] = @ \ {b}]
        /\ out' = [out EXCEPT ![t] = Append(@, b)]
        /\ todo' = [todo EXCEPT ![t] =
             IF DOMAIN job[t].patch = {} THEN <<>>
             ELSE <<[id |-> b, patch |-> job[t].patch]>>]
  /\ UNCHANGED <<rows, guard, job, pc, row, left, span, history>>

--------------------------------------------------------------------------------
(* I/O fails or the future is dropped before anything is stored.            *)
Break(t) ==
  /\ t \in Breakable
  /\ pc[t] \notin Ended \union {"storing"}
  /\ Release(t, "broken")
  /\ UNCHANGED <<rows, job, todo, row, left, span, page, out, history>>

(* A mutation ends half way: the row may have been stored, and the caller   *)
(* discards every handle to the storage, which ends all operations.         *)
BreakStore(t) ==
  /\ t \in Breakable
  /\ pc[t] = "storing"
  /\ Stored(t) \/ UNCHANGED <<rows, todo, history>>
  /\ pc' = [u \in Tasks |-> IF pc[u] \in Ended THEN pc[u] ELSE "broken"]
  /\ guard' = [u \in Tasks |-> "none"]
  /\ UNCHANGED <<job, row, left, span, page, out>>

Step(t) ==
  \/ BeginCheck(t) \/ Check(t) \/ BeginUpdate(t) \/ Compute(t) \/ Store(t)
  \/ FinishWrites(t)
  \/ BeginRead(t) \/ OpenRange(t) \/ ReadRow(t) \/ EndRead(t)
  \/ BeginPage(t) \/ ReadPage(t) \/ Deliver(t) \/ EndScan(t)

Next == \E t \in Tasks : Step(t) \/ Break(t) \/ BreakStore(t)

Spec == Init /\ [][Next]_vars

(* The executor polls every task and storage I/O completes; nothing is      *)
(* assumed of the order in which the guard is granted.                      *)
FairSpec == Spec /\ \A t \in Tasks : WF_vars(Step(t))

--------------------------------------------------------------------------------
(* The table holds typed blocks and every task is at one of its places.     *)
TypeOK ==
  /\ rows \in [Blocks -> Rows]
  /\ guard \in [Tasks -> {"none", "read", "write"}]
  /\ job \in [Tasks -> Jobs]
  /\ pc \in [Tasks -> Places]
  /\ todo \in [Tasks -> Seq(Writes)]
  /\ row \in [Tasks -> Rows]
  /\ left \in [Tasks -> SUBSET Blocks]
  /\ span \in [Tasks -> SUBSET Blocks]
  /\ page \in [Tasks -> SUBSET Blocks]

(* A table write replaces a sound row, or none, by a sound row, or none:    *)
(* update_block and replace validate the row they read under the guard and  *)
(* the block they store, so a corrupt row is never overwritten or produced. *)
OnlySoundRowsChange ==
  [][\A b \in Blocks : rows'[b] # rows[b] => Sound(b, rows[b]) /\ Sound(b, rows'[b])]_vars

(* An operation is refused only for a block it asked for: a batch does not  *)
(* consume corrupt rows between its groups, a scan does not read payloads,  *)
(* a write blames its own block or its own nonzero padding.                 *)
RefusedForOwnBlocks ==
  \A t \in Tasks : pc[t] = "invalid" =>
    \/ job[t].kind = "read" /\ \E b \in job[t].wanted : Corrupt(b)
    \/ /\ todo[t] # <<>>
       /\ \/ Corrupt(Target(t))
          \/ ~Padded(Target(t), Overwritten(Zeros, Head(todo[t]).patch))

(* The occupancy stream delivers IDs of its range in ascending order, none  *)
(* that was never occupied while it ran, and by its end every one that was  *)
(* occupied all along, whatever was written between its pages.              *)
ScansAreExact ==
  \A t \in Tasks : job[t].kind = "scan" =>
    LET delivered == {out[t][k] : k \in DOMAIN out[t]}
    IN /\ \A i, k \in DOMAIN out[t] : i < k => out[t][i] < out[t][k]
       /\ delivered \subseteq met[t] \intersect Initial(job[t])
       /\ pc[t] = "done" => kept[t] \intersect Initial(job[t]) \subseteq delivered

(* Every operation ends: none waits for the guard while it holds it, not    *)
(* even one that writes what a scan delivers while the scan is open.        *)
EveryOperationEnds == \A t \in Tasks : <>(pc[t] \in Ended)

(* What the storage shows its callers of a state.                           *)
VisibleContents == [b \in Blocks |-> ValuesOf(rows[b])]
(* Of a job of which rest is to be made and delivered was scanned.          *)
Made(j, rest, delivered) ==
  CASE j.kind = "read" -> <<>>
    [] j.kind = "scan" ->
         IF DOMAIN j.patch = {} THEN <<>>
         ELSE [k \in 1..(Len(delivered) - Len(rest)) |->
                [id |-> delivered[k], patch |-> j.patch]]
    [] OTHER -> SubSeq(j.writes, 1, Len(j.writes) - Len(rest))
VisibleWrites == [t \in Tasks |-> Made(job[t], todo[t], out[t])]
VisibleAnswer ==
  [t \in Tasks |-> IF job[t].kind = "read" /\ pc[t] = "done" THEN out[t] ELSE Unread]

Contents ==
  INSTANCE BlockContents WITH
    contents <- VisibleContents, written <- VisibleWrites, answer <- VisibleAnswer

(* Concurrent block writes and batch reads behave as if each happened in    *)
(* one step: no update is lost, none is applied twice or out of order, and  *)
(* no batch mixes two moments.                                              *)
ImplementsBlockContents == Contents!Spec
================================================================================
