--------------------------- MODULE TensorConstruction --------------------------
(****************************************************************************)
(* Construction of an unpublished tensor from a stream: from_values,        *)
(* from_sparse_elements and copy_from of src/tensor.rs, and the two         *)
(* Construction owners of src/tensor/dense_storage.rs and                   *)
(* src/tensor/sparse_storage.rs.  Input arrives in bounded batches that     *)
(* split blocks anywhere; metadata, without which storage cannot be         *)
(* opened, is created last.                                                 *)
(*                                                                          *)
(* A coordinate is its row-major place.  The source may yield anything its  *)
(* contract leaves open: any values, entries out of order, too many or too  *)
(* few, coordinates twice.                                                  *)
(****************************************************************************)
EXTENDS Geometry, FiniteSets

CONSTANTS
  Inputs,    \* records of a kind of construction, a shape and a block shape
  Values,    \* tensor elements
  Zero,      \* TensorElement::ZERO
  Batch,     \* MAX_BATCH_ELEMENTS
  Missing,   \* no row or file for a block
  NoBlock,   \* no block is being assembled
  NotGiven   \* the source has not given a value

ASSUME ConstructionAssumption ==
  /\ \A i \in Inputs :
       /\ i.kind \in {"elements", "values", "copy"}
       /\ i.shape \in Seq(Nat \ {0}) /\ i.block \in Seq(Nat \ {0})
       /\ Len(i.block) = Len(i.shape)
       /\ Missing \notin [0..(Product(i.block) - 1) -> Values]
  /\ Zero \in Values
  /\ Batch \in Nat \ {0}
  /\ NoBlock \notin Nat
  /\ NotGiven \notin Values

VARIABLES
  input,     \* the kind of construction and the tensor's geometry
  phase,     \* "collect", "stage", "finish", "publish", "done" or "failed"
  batch,     \* the entries collected or still to stage, numbered by their turn
  eof,       \* whether the source has ended
  previous,  \* one more than the last place given, for ordered entries
  received,  \* values received
  current,   \* the block being assembled from contiguous input
  store,     \* the table's rows or the block files
  metadata,  \* whether the metadata file exists
  given,     \* history: the value last given for each place
  repeated   \* history: whether some place was given twice

vars == <<input, phase, batch, eof, previous, received, current, store, metadata, given, repeated>>

Expected == Product(input.shape)
Places == 0..(Expected - 1)
Blocks == 0..(BlockCount(input.shape, input.block) - 1)
Offsets == 0..(Product(input.block) - 1)

Id(p) == BlockId(input.shape, input.block, CoordAt(input.shape, p))
Position(p) == Offset(input.block, CoordAt(input.shape, p))

Sparse == input.kind = "elements"
Streams == Sparse /\ Contiguous(input.shape, input.block)

Latest(entries) == CHOOSE e \in entries : \A f \in entries : f.turn <= e.turn
EntriesAt(entries, p) == {e \in entries : e.at = p}

Zeros == [o \in Offsets |-> Zero]
Nonzero(block) == \E o \in DOMAIN block : block[o] # Zero

Init ==
  /\ input \in Inputs
  /\ phase = "collect"
  /\ batch = {}
  /\ eof = FALSE
  /\ previous = 0
  /\ received = 0
  /\ current = [id |-> NoBlock, block |-> Zeros]
  /\ store = [b \in Blocks |-> Missing]
  /\ metadata = FALSE
  /\ given = [p \in Places |-> NotGiven]
  /\ repeated = FALSE

--------------------------------------------------------------------------------
Fail ==
  /\ phase' = "failed"
  /\ UNCHANGED <<input, batch, eof, previous, received, current, store, metadata, given, repeated>>

Collects(kind) == phase = "collect" /\ ~eof /\ input.kind = kind /\ Cardinality(batch) < Batch

Take(p, v) ==
  /\ batch' = batch \union {[turn |-> received + 1, at |-> p, value |-> v]}
  /\ given' = [given EXCEPT ![p] = v]
  /\ previous' = p + 1
  /\ received' = received + 1
  /\ UNCHANGED <<input, phase, eof, current, store, metadata, repeated>>

(* construction::sparse: entries are ordered and unique.                    *)
TakeElement ==
  Collects("elements") /\ \E p \in Places, v \in Values : p >= previous /\ Take(p, v)
RefuseElement ==
  Collects("elements") /\ (\E p \in Places : p < previous) /\ Fail

(* from_values: the next value in row-major order.                          *)
TakeValue ==
  Collects("values") /\ received < Expected /\ \E v \in Values : Take(received, v)
RefuseValue ==
  Collects("values") /\ received >= Expected /\ Fail

(* copy_from: the reader yields whole blocks of coordinates and values.     *)
TakeBlock ==
  /\ Collects("copy")
  /\ \E n \in 1..Batch :
       /\ received + n <= Expected
       /\ \E at \in [1..n -> Places], value \in [1..n -> Values] :
            batch' = {[turn |-> received + k, at |-> at[k], value |-> value[k]] : k \in 1..n}
       /\ received' = received + n
  /\ given' = [p \in Places |-> IF EntriesAt(batch', p) = {} THEN given[p]
                               ELSE Latest(EntriesAt(batch', p)).value]
  /\ repeated' = (repeated \/ \E e \in batch' : \/ given[e.at] # NotGiven
                                                \/ EntriesAt(batch', e.at) # {e})
  /\ phase' = "stage"
  /\ UNCHANGED <<input, eof, previous, current, store, metadata>>

(* ... and is refused a block of unequal lengths or more than its shape.    *)
RefuseBlock == Collects("copy") /\ Fail

BatchFull ==
  /\ phase = "collect" /\ Cardinality(batch) = Batch
  /\ phase' = "stage"
  /\ UNCHANGED <<input, batch, eof, previous, received, current, store, metadata, given, repeated>>

SourceEnds ==
  /\ phase = "collect" /\ ~eof
  /\ eof' = TRUE
  /\ phase' = IF batch = {} THEN "finish" ELSE "stage"
  /\ UNCHANGED <<input, batch, previous, received, current, store, metadata, given, repeated>>

--------------------------------------------------------------------------------
(* Assembling contiguous input: an entry of another block completes the     *)
(* one at hand, which is appended unless it is all zero.                    *)
StageElement ==
  /\ phase = "stage" /\ Streams
  /\ \E entry \in batch :
       /\ \A e \in batch : entry.turn <= e.turn
       /\ LET id == Id(entry.at)
              turns == current.id \notin {NoBlock, id}
              block == IF turns THEN Zeros ELSE current.block
          IN /\ current' = [id |-> id,
                            block |-> [block EXCEPT ![Position(entry.at)] = entry.value]]
             /\ store' = IF turns /\ Nonzero(current.block)
                         THEN [store EXCEPT ![current.id] = current.block]
                         ELSE store
       /\ batch' = batch \ {entry}
  /\ UNCHANGED <<input, phase, eof, previous, received, metadata, given, repeated>>

(* Any other batch is grouped by block, and one block after the other read, *)
(* updated in input order and written back.                                 *)
Updated(block, entries) ==
  [o \in Offsets |->
    LET here == {e \in entries : Position(e.at) = o}
    IN IF here = {} THEN block[o] ELSE Latest(here).value]

StageGroup ==
  /\ phase = "stage" /\ ~Streams
  /\ \E id \in {Id(e.at) : e \in batch} :
       /\ \A e \in batch : id <= Id(e.at)
       /\ LET mine == {e \in batch : Id(e.at) = id}
              new == Updated(IF store[id] = Missing THEN Zeros ELSE store[id], mine)
          IN /\ store' = [store EXCEPT ![id] = IF Sparse /\ ~Nonzero(new) THEN Missing ELSE new]
             /\ batch' = batch \ mine
  /\ UNCHANGED <<input, phase, eof, previous, received, current, metadata, given, repeated>>

(* Faulty: the block at hand is written at the end of each batch.           *)
EndStageFlushing ==
  /\ phase = "stage" /\ batch = {}
  /\ phase' = IF eof THEN "finish" ELSE "collect"
  /\ store' = IF current.id # NoBlock /\ Nonzero(current.block)
              THEN [store EXCEPT ![current.id] = current.block]
              ELSE store
  /\ UNCHANGED <<input, batch, eof, previous, received, current, metadata, given, repeated>>

EndStage ==
  /\ phase = "stage" /\ batch = {}
  /\ phase' = IF eof THEN "finish" ELSE "collect"
  /\ UNCHANGED <<input, batch, eof, previous, received, current, store, metadata, given, repeated>>

--------------------------------------------------------------------------------
(* from_values and copy_from insist on one value per element.               *)
RefuseTooFew ==
  /\ phase = "finish" /\ ~Sparse /\ received # Expected
  /\ Fail

(* Faulty: the last block is forgotten.                                     *)
FinishUnflushed ==
  /\ phase = "finish"
  /\ Sparse \/ received = Expected
  /\ phase' = "publish"
  /\ UNCHANGED <<input, batch, eof, previous, received, current, store, metadata, given, repeated>>

(* The block at hand is the last row.                                       *)
Finish ==
  /\ phase = "finish"
  /\ Sparse \/ received = Expected
  /\ phase' = "publish"
  /\ store' = IF current.id # NoBlock /\ Nonzero(current.block)
              THEN [store EXCEPT ![current.id] = current.block]
              ELSE store
  /\ UNCHANGED <<input, batch, eof, previous, received, current, metadata, given, repeated>>

Publish ==
  /\ phase = "publish"
  /\ metadata' = TRUE
  /\ phase' = "done"
  /\ UNCHANGED <<input, batch, eof, previous, received, current, store, given, repeated>>

(* The source fails, I/O fails or the constructor is dropped.  Creating the *)
(* metadata file may have taken effect by then.                             *)
Break ==
  /\ phase \notin {"done", "failed"}
  /\ phase' = "failed"
  /\ metadata' \in IF phase = "publish" THEN BOOLEAN ELSE {metadata}
  /\ UNCHANGED <<input, batch, eof, previous, received, current, store, given, repeated>>

Next ==
  \/ TakeElement \/ RefuseElement \/ TakeValue \/ RefuseValue \/ TakeBlock \/ RefuseBlock
  \/ BatchFull \/ SourceEnds
  \/ StageElement \/ StageGroup \/ EndStage
  \/ RefuseTooFew \/ Finish \/ Publish \/ Break

Spec == Init /\ [][Next]_vars

--------------------------------------------------------------------------------
TypeOK ==
  /\ input \in Inputs
  /\ phase \in {"collect", "stage", "finish", "publish", "done", "failed"}
  /\ batch \subseteq [turn : Nat, at : Places, value : Values]
  /\ eof \in BOOLEAN /\ metadata \in BOOLEAN /\ repeated \in BOOLEAN
  /\ previous \in Nat /\ received \in Nat
  /\ current \in [id : Blocks \union {NoBlock}, block : [Offsets -> Values]]
  /\ store \in [Blocks -> [Offsets -> Values] \union {Missing}]
  /\ given \in [Places -> Values \union {NotGiven}]

ValueAt(p) == IF store[Id(p)] = Missing THEN Zero ELSE store[Id(p)][Position(p)]
Padding(b) == Offsets \ {Position(p) : p \in {q \in Places : Id(q) = b}}

(* Storage that can be opened is whole, even if its constructor was dropped *)
(* while it published: the value last given for a place is there, every     *)
(* other place and all padding is zero, a sparse tensor has no empty row,   *)
(* and a dense one has all its blocks and was given all its values.  Only a *)
(* reader that repeats coordinates, which its contract forbids, can make up *)
(* the count of a dense copy that leaves some out.                          *)
LoadableIsWhole ==
  metadata =>
    /\ \A p \in Places : ValueAt(p) = IF given[p] = NotGiven THEN Zero ELSE given[p]
    /\ \A b \in Blocks : store[b] # Missing => \A o \in Padding(b) : store[b][o] = Zero
    /\ Sparse => \A b \in Blocks : store[b] # Missing => Nonzero(store[b])
    /\ ~Sparse /\ ~repeated =>
         /\ \A b \in Blocks : store[b] # Missing
         /\ \A p \in Places : given[p] # NotGiven

(* Streamed rows only ever extend the table: native ingestion is ordered,   *)
(* and no block is written before it is complete.                           *)
RowsAreAppended ==
  [][Streams => \A b \in Blocks : store'[b] # store[b] =>
       /\ store[b] = Missing
       /\ \A c \in Blocks : store[c] # Missing => c < b]_vars
================================================================================
