# A formal model of fensor

fensor keeps dense and sparse tensors in blocks on a filesystem (`freqfs` files and
`b_table` tables), composes lazy expressions over them, and evaluates an expression one
bounded batch at a time. This directory holds TLA+ modules of its core, the TLC
configurations that check them on small instances, and theorems with TLAPS proofs.
Paths below are relative to the repository.

## 1. Inventory

| Component | State it keeps | Operations | Interacts with |
|---|---|---|---|
| **Evaluation driver** `src/expression/driver.rs`, `src/expression.rs` | a stack of frames, a one-place slot of the requested child, a poll budget | `Driver::poll`, `drop`, `Context::batch`, `evaluate_batch` | every operation's `build` runs as a frame; leaves await storage |
| **Sparse storage** `src/tensor/sparse_storage.rs` | one table of rows, a row per occupied block, behind a read and write guard | `read_batch`, `update_block`, `replace_block`, occupancy pages, `load`, `sync` | bulk operations of `src/tensor.rs`; leaves; `b_table` |
| **Dense storage** `src/tensor/dense_storage.rs` | one file per block, each behind its own guard | buffered reads, block updates and replacement, `sync` | as above; `freqfs` |
| **Tensor construction** `src/tensor/construction.rs`, `src/tensor.rs` | the batch at hand, the block being assembled, what is stored, metadata | `from_values`, `from_sparse_elements`, `copy_from` | both storages; an arbitrary stream of input |
| **Tensor lifecycle** `src/tensor.rs`, `src/metadata.rs` | files in the cache, on the filesystem and on the medium; the table's root in memory | `create`, `load`, `validate`, `sync`, `sync_all`, drop | both storages, `freqfs`, crashes |
| **Geometry** `src/schema.rs`, `src/storage.rs` | none: shapes to blocks, offsets and bounds; the block cursor's coordinate | `block_shape`, `block_position`, `block_bounds`, `BlockCursor` | everything that addresses a block |
| **Expressions' ownership** `src/owned.rs` | shared descriptions with strong counts | clone, `Drop`, `Drain` | all operations, on any thread |
| **Request discovery** `src/storage.rs`, `src/expression/traversal.rs`, `src/slice.rs` | cursors over occupied blocks, pending rectangles, merged leaf streams | `slice_requests`, `ordered_requests`, `walk`, `merge` | occupancy streams; the driver's batches |
| **Batch requests** `src/request.rs` | none | linear, rectangle, run and explicit requests | operations and leaves |
| **Read planning** `src/storage_read.rs` | none | `block_position`, splitting of affine runs | leaf reads |
| **Coordinate maps** `src/mapping.rs`, `src/view.rs` | none | slice, transpose, broadcast, reshape, `supports_write_through` | views, leaf reads, writes |
| **Reductions** `src/reduce.rs` | an accumulator per group | packing of groups, `accumulate`, `accumulate_zeros`, terminals | asks its operand once per chunk |
| **Matrix products** `src/matmul.rs`, `src/matrix.rs` | an accumulator per rectangle | `plan_request`, contraction steps, scattering, diagonals | asks two operands per chunk |
| **Fourier views** `src/fft.rs` | none between batches | packing of whole axis groups | asks one operand per pack |
| **Elementwise operations** `src/unary.rs`, `src/binary.rs`, `src/selection.rs`, `src/owned.rs` | none | construction, which may refuse; layout and implicit zero; `sparse_elements` | operands in a fixed order; request discovery |
| **Scalar operations** `src/scalar.rs` | none | operations with one value | unary operations |
| **Payload encoding** `src/metadata.rs`, `src/sparse.rs` | none | encode, decode, collate keys | storages |

What is hard about them:

* *A driver that is polled by somebody else.* Frames ask for operands through a slot, answers
  come through channels, only the top frame is polled, and the whole may be dropped at any
  poll. Misrouted answers, lost wake-ups, a limit that is off by one and a release in the wrong
  order are hard to provoke in a test.
* *One table, many callers.* Bulk operations are loops of guarded block operations. What is
  atomic is a block, not the loop; what is read under one guard is used under another; an
  occupancy stream holds no guard between its pages.
* *Input that is cut anywhere.* Construction receives batches that split blocks anywhere and may
  fail or be dropped anywhere; partial storage must not be loadable.
* *Four places for one file.* The cache, the filesystem and the medium each have their version, and the
  root of a sparse table a fourth, in memory. A sync goes through them file by file, writes go on
  meanwhile, and a crash takes what is in the first places away.
* *What is absent has a value.* A sparse expression is evaluated at the places its operands name, and
  elsewhere is taken to be an implicit zero, whose sign later operations can tell.
* *Arithmetic at the edge of the grid.* Blocks that overhang the shape have padding, and cursors
  move incrementally.
* *Drop as an algorithm.* Expressions are graphs shared by threads and destroyed without recursion.

`PROJECT.json` lists each hazard at its line together with the properties that would catch it.

What makes each component correct:

| Component | It is correct when |
|---|---|
| driver | it reads the leaves in operand order and delivers exactly their combination or an error; children are released before parents; frames stay within the limit and only what exceeds it is refused; one poll is bounded; it ends |
| sparse storage | every block operation is atomic; a batch read sees one instant; corrupt rows are never changed nor hidden by a neighbour's request; a scan delivers every block occupied throughout, once, in order |
| dense storage | the same per block, but a batch is not one instant |
| construction | what can be opened is whole and equals what was given; streamed rows arrive in key order |
| lifecycle | what a sync wrote undisturbed is what is reopened, after a process crash and, for `sync_all`, a power loss; no file goes back behind a completed sync; what was synced once is never again refused for a missing file |
| geometry | coordinates map to distinct places; the cursor names the valid offsets once and in order |
| ownership | counts are exact, nothing is destroyed early or leaks, no destruction nests in another |
| discovery and requests | each selected position is requested once, batches are bounded, the union is ordered |
| maps, reads | each transform composes; write-through is offered for injective maps only; runs agree with `block_position` |
| elementwise operations | the stream has every element that is not zero, once and in order, and what no candidate names is the implicit zero |
| reductions, products, Fourier | the accumulated value equals the definition over the whole group, implicit zeros included; requests fit a batch |

## 2. Modules

| Module | Models | Role |
|---|---|---|
| `EvaluationDriver` | `src/expression/driver.rs`, `evaluate_batch` | detailed state machine |
| `InOrderEvaluation` | what the driver promises to its caller | abstract specification |
| `MCEvaluationDriver` | two expressions of a kind, one of them too high for the limit | TLC |
| `EvaluationDriverProofs` | its invariants for every expression; its refinement of `InOrderEvaluation` | TLAPS |
| `SparseStorage` | published sparse storage and its bulk operations | detailed state machine |
| `BlockContents` | a store of blocks with atomic block operations and reads | abstract specification, instantiated by both storages |
| `MCSparseStorage`, `SparseStorageProofs` | its instance; its invariants; its scans, refusals and refinement of `BlockContents` | TLC, TLAPS |
| `DenseStorage`, `MCDenseStorage`, `DenseStorageProofs` | published dense storage: a guard per file, windows of guards | detailed state machine, TLC, TLAPS |
| `TensorLifecycle`, `MCTensorLifecycle`, `TensorLifecycleProofs` | the files of a tensor of either layout from creation through syncs and crashes to load | state machine, TLC, TLAPS |
| `Geometry` | the arithmetic of blocks: operators only | used by the modules below; TLAPS in `GeometryProofs` |
| `BlockCursor` | the odometer of `src/storage.rs` over any geometry | operators over `ReadPlan`, checked in `MCReadPlan` |
| `TensorConstruction`, `MCTensorConstruction` | the three constructors and both `Construction` owners | state machine, TLC; TLAPS in `GeometryProofs` |
| `GeometryProofs` | `Geometry` for every shape and block shape, and over it the constructions and the views of any tensor | TLAPS |
| `ExpressionRelease`, `MCExpressionRelease`, `ExpressionReleaseProofs` | `Drop` and `Drain` of shared expressions | state machine, TLC, TLAPS |
| `SparseRequests`, `MCSparseRequests` | discovery of the requests of one leaf, over `Geometry` | state machine, TLC |
| `CandidateUnion` | the walk over operands and the union of the leaves' streams | state machine |
| `SparseExpressions`, `MCSparseExpressions`, `SparseExpressionsProofs` | elementwise expressions over `CandidateUnion`: construction, implicit zeros, the stream of nonzero elements; the walk, the union and the stream for any expression | state machine that composes it, TLC, TLAPS |
| `CoordinateMap` | `src/mapping.rs`, `src/view.rs`: views on views, with what they mean beside what is computed | state machine, over `Geometry`; TLAPS in `GeometryProofs` |
| `ReadPlan`, `MCReadPlan` | requests, progressions, splitting and joining of runs: operators on the views of `CoordinateMap` | TLC |
| `MatrixPlans` | the planners of `src/matmul.rs` and the requests of a whole tensor: operators over `ReadPlan` | used by `ComputedViews` |
| `ComputedViews`, `MCComputedViews` | reading views of matrix products, Fourier transforms and diagonals, over `CoordinateMap` and `MatrixPlans` | state machine, TLC |
| `Reduction`, `MCReduction`, `ReductionProofs` | `src/reduce.rs`: packed and streamed groups, implicit zeros, `all` and `any` | state machine, TLC, theorems |

### EvaluationDriver

A node is what it does to the driver: `Calls[n]`, the operands it awaits in order (an operation
over chunks awaits the same operand several times), whether it may await I/O and whether it may
fail. A batch is the sequence of leaves it combines, so an answer that is misrouted, repeated or
out of order is a different batch. `frames` is `Driver.frames` with the root first, `slot` the
shared one-place slot, `receive` the root's channel, `budget` Tokio's cooperative budget (external).

| Code | Actions |
|---|---|
| the executor polls the task | `Poll` |
| one turn of the driver's loop: pay, adopt the slot's frame, poll the top frame | `Iterate`: `AwaitIo`, `Request` (`Context::batch`), `Succeed`, `Fail`, `Propagate`, `StayBlocked`, each with its adoption; `RefuseFrame` (the limit), `RefuseMemory` (the stack cannot grow), `Deliver` |
| the budget is exhausted | `Yield` |
| I/O answers | `CompleteIo` |
| the task is dropped, or has ended | `Cancel`, then `Drop`: `ReleaseSlot`, `ReleaseFrame` from child to parent, `Released` |

What the driver has read is what its frames hold, from the root to the top (`Held`), together with a reply that is on its
way to the caller; `EvaluatesInOrder` maps this to `InOrderEvaluation`, whose batch grows by one leaf at a time.

A spurious poll is included: `Poll` does not require that the task was woken. The root is a variable, any
member of `Roots`: one driver evaluates expressions of every shape.

`Partial` and `Height` are the in-order traversal and the height of the expression, given as
constants whose defining equations are assumptions of the module. They stand for recursive
definitions, which the proofs could not use. Not modelled: poisoning of the slot's mutex, which
requires a panic while it is held.

### SparseStorage

`rows` maps a block to a payload or to nothing, `guard` each caller to what it holds. Each caller runs
one job through the same guarded steps as the code:

| Code | Actions |
|---|---|
| `update_block`, `replace_block`, the loop of `write_values` | `BeginUpdate` (write guard), `Compute` (read, validate, patch), `Store` (upsert or remove, release), `FinishWrites` |
| `fill`, which reads each block before it replaces it | `BeginCheck`, `Check`, then as above |
| `read_batch` | `BeginRead` (one read guard), `OpenRange`, `ReadRow` for each row of a range, `EndRead` |
| `occupied_blocks` | `BeginPage`, `ReadPage` (keys, then the guard is dropped), `Deliver` (the consumer may write the block it is given), `EndScan` |
| failed I/O, a dropped future | `Break`; `BreakStore` half way through a mutation |

After `BreakStore` the code forbids further use of every handle to the storage (`src/tensor.rs:841`),
so it ends all jobs; the row may or may not have been stored.

Loaded rows may be corrupt (all zero, or not zero in the padding): `load` validates what it finds,
but native writers of the same directory may act afterwards, which is why the operations validate
again. Corruption of keys is not modelled. The table and its guard are `b_table`'s, external.

### DenseStorage

A guard for each file, with its queue: freqfs's guards are granted in the order of the requests, readers
together (external). `place[t][b]` is how far a task is with a block.

| Code | Actions |
|---|---|
| `read_batch`, `buffered` over the groups | `Begin` (the window takes another group), `Locate` (the file is looked up), `Open` (guard and length), `Use` (the first group is scattered and its guard dropped, or its error returned), `Return` |
| `update`, `replace`, the loop of `write_values` | `Ask`, `Apply` (read, patch and write under one guard, which is not kept across an await) |
| `fill` | `Ask`, `Check` (a read guard of its own), `Ask`, `Apply` |
| failed I/O, a dropped future | a branch of `Open`, `Check`, `Apply`; `Drop` |

Groups come from a `BTreeMap`, so every batch takes its windows in ascending order of blocks; that is
what `NothingIsStuck` rests on, and a writer holds or awaits one guard at a time. The window is
`num_cpus`, here the constant `Buffer`. As a batch is not one instant, `ImplementsBlockContents` maps each of
its blocks to a read of its own in `BlockContents`. Files that are missing or of another length are found, not
created: their state does not change. A failed load of freqfs's cache is one outcome of `Open`.

### TensorLifecycle

A file is in three places, `cached` (freqfs's cache), `disk` (the filesystem) and `safe` (the medium); the root
of a sparse table is a fourth, `root`, in the table's own memory. What a file holds is the number of
the write that gave it, so an older version is a lesser number. The files of data are `Data`: blocks of dense storage, or
nodes of the table. The nodes are always the same ones: `b_table` splits and joins nodes, which creates and deletes
files, and that is left out.

| Code | Actions |
|---|---|
| `create`: zero blocks one by one, or an empty table, and metadata last | `InitializeBlock`, `CreateTable`, `PublishMetadata` |
| a bulk operation writes a block | `Write`: a node of the table and sometimes its root |
| `sync`, `sync_all`: stages in order, each of which writes its files in any order | `BeginSync`, `PublishRoot`, `SaveFile`, `EndStage`, `BreakSync` |
| freqfs spills a file, the machine makes files durable | `Spill`, `WriteBack` |
| drop, the end of the process, the end of the machine | `Close`, `Crash`, `PowerLoss` |
| `load` and `validate` | `Load` |

The histories are the states a storage has been in (`past`), what a synchronization began with (`mark`) and
whether it was left alone (`quiet`), and what completed ones promise: `kept` and `floor` for `sync`, `secured` and `base` for
`sync_all`. The files of a table that was dropped without a sync may be of different states. Strict load reads and
validates them as they are, and may refuse such a mixture or take it for a table that never was; which of the two depends on the
contents, and the model has both: `Load` of complete files either opens them or is not taken. A mixture that was taken
is an open tensor like any other, which is written, synced, crashed and loaded again. So `SyncedIsKept` and `SecuredIsDurable` promise
a whole state, and only of what was synced without a write meanwhile. Of everything else, mixtures included, there is a promise file by file:
`FilesNeverGoBack` (no file is older than when the last completed sync began, and no table opens under an older root) and
`SyncedStaysLoadable` (what was synced once is not refused for a missing file, which a tensor that was loaded in part would be).
That an opened table is in a state it has been in is not promised, because the code does not.

### Geometry, BlockCursor

`Geometry` translates grid, strides, position, bounds and chosen block shapes as operators.
`BlockCursor` is `advance` as the code does it: the coordinate and the offset are both moved, and
neither is computed from the other.

### TensorConstruction

A coordinate is its row-major place. The source may give values in any order, too many, too few,
or twice. The batch is a set of entries, each with the number of its turn, as the code goes through it in order. `TakeElement`, `TakeValue`, `TakeBlock` and their refusals collect, `StageElement` and
`StageGroup` are the two ways to stage a batch, `Finish` writes the last block, `Publish` creates the
metadata and `Break` ends construction anywhere; `current` is the block being assembled from contiguous input. The shapes that creation chooses are always contiguous
(`ChosenBlocks`), so the code's other branch, a read and an upsert per entry, is reached only
through `unpublished_with_geometry`, which the crate's tests use; it is modelled as well. A reader
handed to `copy_from` must give each coordinate once (`src/tensor.rs`, its documentation). One that does not
may fill the count with a block missing, and `LoadableIsWhole` says what remains true of what it leaves:
what is stored was given, and padding is zero. A constructor that is dropped while the metadata
file is being created may leave that file: the storage is whole by then.

### ExpressionRelease

Handles on shared descriptions with Arc's count (external), threads that clone (`Clone`) and drop
(`Release`). A drop works through a list: `Decrement` releases the next handle, and the last handle on
a description detaches its operands onto the list before the description is destroyed (`Destroy`);
destroying it drops whatever it still holds as a nested drop, whose list `Return` ends.

### SparseRequests

One leaf's requests. `TakeKey` takes the next occupied block from the occupancy stream, maps its region
to the view (`ViewBounds`) and clips the selection to it (`Clipped`, with the code's rounding and
saturation); `Pack` adds a rectangle to the request, `Carry` keeps the one that does not fit,
`Emit` delivers. `EmitDirect` is the other path, which requests everything: dense storage, small
selections and views whose order the index cannot give (`IndexedInOrder`). The occupancy stream
is `SparseStorage`'s; here it delivers any set of blocks, in order, and may fail. A block holds
no more than a request does, as in the code, where both limits are 4096.

### CandidateUnion

`Follow`, `RefuseSource`, `Select` and `Branch` are `selection`, by which a reduction finds what it has to read: from operation to
operation as long as each has one operand, to a leaf, whose requests it takes as they are stored (`native`), or to an operation with
several, which are walked. `Visit`, `RefuseWalk` and `EndWalk` are the iterative `walk`, for `ordered` (collect every leaf) and for
`preferred` (stop at the first that answers). `NextPosition`, `NextRequest` and `EndStream` are
`merge`'s adapter of one stream, `Deliver`, `Emit` and `End` its union; a single stream is forwarded. What a
leaf's stream delivers is assumed in `CandidateAssumption`, and it is what `SparseRequests` guarantees
as `RequestsAreExact` and `OrderedRequestsAscend`. `try_union` is the `collate` crate's, external. Not modelled: the
adapters' share of the cooperative budget, which only delays them.

### SparseExpressions

An expression is a graph of nodes: tensors and other computed views, which have elements of their own, elementwise
operations, selections, and owned expressions that are held as they are, made dense, or seen through a
mapping. `Construct` and `RefuseConstruction` are the constructors, operands first, with `WouldDensify`; `SparseNodes`, `ImplicitZeros` and `Answering` are
`layout`, `implicit_zero` and `ordered_step`. `Discover` is any step of `CandidateUnion` over what `Described` makes of
the expression; `Evaluate` and `FailEvaluation` evaluate one request and leave out zeros, as `sparse_elements` does, or keep
them, as a reduction does, which takes what no candidate names to be implicit zeros. Zero has two
signs, and the kernels are a table (`SmallKernel`) in which `angle`, `add` and `mul` tell them apart. What the leaves'
requests cover is assumed (`ExpressionAssumption`, `Expressible`), as `SparseRequests` guarantees it. `SparseFrom`, `ZeroOf` and `ValueAt` are what
one node makes of its operands, for layout, implicit zero and value, and `SparseNodes`, `ImplicitZeros` and `Evaluated` the recursions over them. Operands
are constructed before the operation that owns them and never change, so that expressions are acyclic (`Acyclic`).

### CoordinateMap, ReadPlan

The state of `CoordinateMap` is a map as the code has it (`map`: offset, an `AxisContrib` per axis, shape) and,
as a history, what it means (`meaning`): the place in the base tensor of every coordinate, obtained by
following the transforms one by one. `Reshape`, `BroadcastTo`, `Slice`, `Transpose`, `Flip`, `Squeeze` and `Unsqueeze`
compute the next map from the last as `src/mapping.rs` does, gather windows included, and send the
meaning along by the definition of the transform alone. A slice takes one axis at a time and keeps the
others whole; slices on several axes are sequences of these. Rank zero is included.

`ReadPlan` has operators only: the coordinates of a request, its progressions (`Progressions`), a view's request
mapped to the base (`Mapped`), and the plan of a request over blocks (`Split`, `Pushed`, `Plan`). `ReadsAreExact` compares
both ways to a plan with the meaning of the view. An axis of a rectangle is the sequence of its indices; the
code's three representations of it (whole, stepped, listed) are the same sequence.

### MatrixPlans, ComputedViews

`MatrixPlans` has the three planners, `PlanTiles` (any mapping), `CartesianPlans` and `LinearPlans` (the product itself),
with `ContractionStep`, `OperandRequest`, `LinearRequests` and `TiledRequests`. `ComputedViews` lets `CoordinateMap` make a view of a
computed tensor (`Transform`) and then reads it (`Begin`), by one request of any kind or as a whole: `Take` plans a request,
`AskLeft`, `AskRight` and `Scatter` are the loop of `matmul`'s `build`, `Compute` that of `fft` and of a diagonal, `Deliver` ends a batch, and `Fail` may
happen at each request. Values are symbols: an element of a product is the sequence of the pairs
of coordinates that were multiplied, an element of a spectrum is the row that was transformed and the frequency. So a term that
is lost, repeated, out of order, or taken from another row is a different value. The backend's product and transform of batches that it is given are
external.

### Reduction

A partial result is the bag of the values it has taken in, so a value that is lost or taken twice is seen
whatever the operation. `TakeGroup` starts a group, `PackGroup` and `ReadPack` are the path of small groups,
`AccumulateBatch`, `StartZeros`, `AccumulateZeros` and `FinishGroup` the path of large ones and of terminals,
`TestBatch` and `Undecided` are `all` and `any`. What a source selects is a constant: any disjoint sets of positions that cover
what is not zero, as `SparseRequests` and `SparseExpressions` deliver them. Any batch may fail. Not modelled:
the operations' arithmetic, and the empty tensor, which no schema admits.

## 3. Runs

| Run | Instance and bounds | What it shows |
|---|---|---|
| `driver` | `where(c, neg a, sum a)`, the sum asking twice, which just fits, and an addition above it, which is one frame too high and ends a leaf before it; limit 4, budget 3; memory may run out | every interleaving of polls, I/O, failures, exhaustion and cancellation evaluates in operand order (refinement), keeps one chain of calls, loses no wake-up, releases children first, and ends; what fits is never refused, what does not never gives a value |
| `sparse_storage` | two callers, every pair of nine jobs, four blocks of two values, an edge block, absent, sound and corrupt rows, one caller breakable, pages of one key | all jobs together behave as atomic block operations; scans are exact; a request is refused for its own blocks only; no writer waits for its own reader |
| `construction` | five inputs, batches of two, geometries with edges, contiguous and interleaved | what can be opened is whole; ordered entries reach ordered blocks; rows are only appended |
| `release` | `where(c, neg x, c)`, two threads with overlapping handles, at most two handles each | counts are exact, destruction is flat, every drop ends |
| `sparse_requests` | two tensors, six views (whole, transposed, a row, every second column), ranges, steps and indices on each axis, block shapes that are runs and that are not, any blocks occupied; requests of four | requests are bounded, name each wanted position once, and ascend where order is promised |
| `sparse_expressions` | 24 expressions over three sparse tensors, a dense one and a computed view, among them a walk and a chain a visit longer than the limit of seven; six places, zeros of either sign; streams that overlap, are empty or fail; requests of two | leaves are found in operand order; the union ascends, is complete, and an error surfaces; the stream has every nonzero element, and what nothing names is the implicit zero |
| `dense_storage` | four tasks over three files with windows of two: two readers with two writers between them, two readers with a fill and a writer; files that are short or missing; one task breakable | nobody waits in a circle; errors come in block order; blocks are atomic |
| `reduction` | batches of three; groups of one and two in requests of up to five, groups of four and five streamed by any covering candidates; a failing batch | every position counts once, implicit zeros included; `all` and `any` stop at the first batch that decides |
| `read_plan` | every shape of one or two axes up to 3 and of three axes up to 2, under every block shape up to one more; up to three transforms of rank up to four (`MaxRank`) over three tensors with edge blocks, every kind of request | addressing is injective, and the cursor's walk agrees with it; maps compose, write-through is safe, summaries cover the view, plans are exact |
| `lifecycle` | either layout, two files of data (`Count`), two writes (`MaxWrites`); any number of syncs, crashes and restarts | what was synced is what is reopened, also after a power loss where `sync_all` promises it; no file goes back behind a sync, and nothing synced is refused for a missing file |
| `computed_views` | products of 7x6 and 2x3x5, transforms of six rows of 8, a diagonal; tiles of 5 (`TileSide`), batches of 25 (`MaxBatch`); up to two transforms; every kind of request, or the whole view | each element is computed from its own rows and columns, or group, with each term once and in order; requests fit; rectangles waste at most half, or under two thirds if made of a span |
| `matrix_area` | the same | a violation: see Findings |

Why these are enough. The driver's expression nests an operation under an operation, shares a leaf
and repeats a call, which is every way two frames can relate; the budget is smaller than the number
of polls so that it runs out in every position. The jobs overlap in every combination that the guard
distinguishes (a read, a write, a scan page; one block or several), and the scan covers the empty
range, since `lo = hi` is possible. A cursor has a last, a middle and a first axis at rank three. A
batch of two cuts blocks of two both at and inside their boundary. The graph to release has a
shared, a repeated and an exclusive operand. A write before a sync, one during it and a crash after it
need two writes, and a file that is written with one that is not two files. A product of 7x6 has
two tiles on either axis and edges of two and of one, its contraction of 7 takes two steps of five, spans of nine
and 25 cross rows and tiles, and six transforms of 8 fill two packs of three. Selections of six positions and more do not fit a
request of four, so rectangles are carried over, chunked, and end batches exactly; leaf streams
overlap within requests and across their boundaries. A circle of readers needs a window of two, two blocks and
a writer queued between them, and the run has three blocks and two writers. Three transforms are a table
of a table reversed, a slice of a reversed window, a reshape of what was flipped twice, and the like. A
group of five leaves up to five implicit zeros, whose number has one, two or three bits. Requests, groups and batches
are shorter than the code's 4096, and compare with the limit of the instance as the code's do with its own.

Each property of each run is matched with a plausible mistake in the code, an operator beside the
original whose comment starts with `Faulty`, under which TLC finds the property violated.

`CHECK_DEADLOCK FALSE` is set in every run but `lifecycle`, since evaluations, constructions, cursors and jobs end.
That a job cannot get stuck is checked as `EveryOperationEnds`, `Finishes`, `EveryDropEnds` and `NothingIsStuck`.
In the lifecycle a crash is always possible, so that nothing is to be disabled there.

The type invariants of the driver, the storages, the lifecycle, the release and construction are theorems and are not run again.

### Findings

`matrix_area` checks what `src/DESIGN.md` (matrix planning) and the comment of `MAX_RECTANGLE_AMPLIFICATION` say of all
rectangles: at most twice what is wanted is computed. `plan_rectangles` compares areas; `linear_plans` makes one rectangle of all that
a span touches in a tile and does not. A span over the end of a row, a whole row and the start of
the next computes nearly three rows for little more than one. The result is right, and `WorkIsBounded` has the bound that holds, less than three.

### Fairness

* Driver: `Driver::poll` and `drop` run to their end once called; an executor polls a task that
  was woken; I/O answers or fails. Weak fairness of these three, and nothing else: nobody has to poll a
  task that was not woken, to fail or to cancel.
* Sparse storage: weak fairness of each caller's own steps. The executor polls every task and I/O
  completes. Nothing is assumed of the order in which the guard is granted: with finitely many
  jobs it is free for good after the others have ended. No caller has to break off.
* Release: each thread finishes the drop it is in. Nobody is obliged to drop a handle.

## 4. Theorems

| Theorem | Says, for every value of the constants |
|---|---|
| `EvaluationDriverProofs!TypeCorrect` | the type invariant |
| `CallsAreOneChain` | stack, slot and channels are one chain of calls; the slot is never found taken |
| `ValuesAreComplete` | a value delivered is the complete in-order combination, and no result is ever missing |
| `LimitIsExact` | the stack stays within the frame limit, an expression that is higher gives no value, and only such an expression is refused |
| `FramesGoFromTheTop` | a frame is destroyed before its caller and after all it has called, on return as on cancellation |
| `PollsAreBounded` | at most `Budget` polls of frames per poll of the task |
| `NoWakeupIsLost` | a suspended driver has been told to poll again or has I/O in progress |
| `EvaluationDriverProofs!Implements` | the driver implements `InOrderEvaluation` |
| `SparseStorageProofs!TypeCorrect` | the type invariant |
| `RowsStaySound` | rows are only replaced by sound ones, and corrupt rows never |
| `SparseStorageProofs!Implements` | sparse storage implements `BlockContents`: atomic block writes in order and once, a batch read at one instant |
| `RefusalsAreOwn` | an operation is refused only for blocks and padding of its own |
| `ScansKeepUp` | a scan ascends and misses no block that was occupied while it ran |
| `DenseStorageProofs!TypeCorrect` | the type invariant |
| `Unstuck` | some operation on dense storage can go on as long as one has not ended |
| `ErrorsAreOrdered` | a batch read fails for the first block it cannot read, and returns only with all |
| `DenseStorageProofs!Implements` | dense storage implements `BlockContents`, each block of a batch being read at an instant of its own |
| `TensorLifecycleProofs!TypeCorrect` | the type invariant |
| `SyncKeeps` | what a sync wrote undisturbed survives drops, spills, crashes and interrupted synchronizations |
| `SyncAllSecures` | what a `sync_all` wrote undisturbed survives the machine as well |
| `SyncIsALowerBound` | no crash brings back a file older than the last completed sync began with, and no table opens under an older root |
| `SyncedLoads` | what was synced once, written meanwhile or not, is not refused for a missing file after any crash |
| `ReleaseTypes` | the type invariant |
| `ReleaseCountsAreExact` | for any graph and threads, the counts are the handles there are; nothing is destroyed early and nothing leaks |
| `DestructionNeverNests` | a description is destroyed from the outermost loop only |
| `LinearOfAt`, `AtOfLinear` | coordinates and row-major places determine each other, for every shape |
| `BlocksDisjoint`, `BlocksInhabited` | no two coordinates share an element of a block, and no block of the grid is empty, for every shape and block shape |
| `ContiguousInOrder` | row-major input never returns to a block of a contiguous block shape |
| `ChosenBlocks` | the block shape that is chosen for any tensor has its axes, fits the capacity, covers nothing of the sparse axes, and is contiguous |
| `MetInOrder` | the two for the tensors of views: `ContiguousMeansOrdered` |
| `ConstructionTypes` | the type invariant |
| `Loadable` | what can be opened is whole, for every geometry, input and batch size, broken off anywhere |
| `Appended` | streamed rows only ever extend the table |
| `Composed` | for every tensor and any stack of transforms, a view's map sends each coordinate where the transforms, one after the other, send it |
| `WrittenOnce` | a view that is written through has no element twice, and one taken for the base tensor is the identity |
| `Summarised` | a view's interval of blocks holds all its elements, and a storage slice names its base coordinates exactly, for every block shape |
| `ReductionTypes` | the type invariant |
| `Reduced` | each result takes in every position of its group exactly once, implicit zeros included, for any candidates that cover what is not zero |
| `BooleansStop` | `all` and `any` answer from the first batch that decides, and otherwise only when every value was looked at |
| `Walked` | the iterative walk finds the leaves in operand order, or the leftmost one with a preference, for every acyclic expression, and visits no more than the limit |
| `Exact` | the stream of an expression has each element that is no zero, once and in order; none is missing because no operand's requests name it; what no candidate names is the implicit zero, down to its sign |
| `United` | the union of any leaves' streams ascends, comes once, leaves nothing out below what was delivered, and ends well only with everything and no error of a leaf |

Assumptions are the named `ASSUME`s of the modules (`GraphAssumption`, `BoundAssumption`,
`PartialAssumption`, `HeightAssumption`; `StorageAssumption`, `JobAssumption`; `DenseAssumption`;
`LifecycleAssumption`; `ReleaseAssumption`, `HeldAssumption`; `ConstructionAssumption`; `InputAssumption`;
`MapAssumption`; `CandidateAssumption`, `ExpressionAssumption`), which TLC evaluates on the instances.

*Driver.* `OneChain` is not inductive: that the frame above is the operand its parent awaits must
come with what each frame has already received, with the slot as a frame to be, and with the phase
in which a reply is on its way. `ChainInv` adds these. It speaks of the stack together with the slot,
so that a request, an adoption, a reply and a drop are each one of four facts about chains
(`ChainPush`, `ChainReplace`, `ChainPop`, `ChainReply`), and the lemmas about actions cite those. That
values are complete follows from the chain and `PartialAssumption`; the limit (`LimitInv`) follows from the chain
and `HeightAssumption`, as each frame of a chain is lower than its parent. `PaidInv` adds that
polls and the remaining budget add up.

*Driver, refinement.* What the frames hold is the recursive function `Held`. That it exists, that it is a sequence and
that it depends only on the frames below (`HeldExists`, `HeldFacts`, `HeldCommon`) is shown by a least counterexample.
`ChainInv` implies that it is a prefix of the leaves of the root, followed by those of the top frame (`StackBegins`). A frame that
goes on, asks or takes an answer leaves it the same (`TopGoesOn`); a reply moves it to the frame below and adds a
leaf if a leaf replies (`ReplyMoves`, `SucceedReads`); an error empties it for good (`ErrorAbandons`).

*Sparse storage.* That a row is only replaced by a sound one, and only if it was sound, is a property
of a step, but it depends on what the writer read two steps before under a guard it still holds.
`WriterInv` says that a writer past its read is the only holder, that what it read is still what the
table holds, and that what it will store is sound. `OwnStep` shows it for the caller that moves,
`OthersStep` for those that do not. The refinement needs `ViewInv` on top: what a writer has still to do is the end of what it
was given, what is about to be stored was computed from the row in the table, and what a reader has
read is what the table holds as long as it has the guard. Scans need `ScanInv`: what was delivered comes before what
was read ahead, and that before what is left, and nothing occupied all along falls between them, although no guard is
held between pages.

*Dense storage.* `GuardInv` says that the queues are exactly the tasks that wait, each once, that only
operations which have not ended wait or hold, and that a writer waits for the block it is to write and
holds nothing. `Unstuck` then takes the least block that somebody waits for: if the first in its queue
cannot go on, a reader holds the block, and being unable to go on itself it waits for the first of its
window, which is a lesser block. `ErrorsAreOrdered` needs `ReaderInv`: the blocks a batch has used come before those
of its window, and these before those it has not asked for. The same invariant is enough for the refinement. That a
task with a step takes it is fairness and not part of the theorem.

*Lifecycle.* The invariant has a part for each hazard. `CreatingInv`: nothing is promised while files are being made, and metadata
comes last. `OpenInv`: an open tensor has its files. `OrderInv`: no file is newer on the medium than on the filesystem, nor there than in the
cache, nor a root's file than the root of an open table, which is what carries `floor` from one place to the next. `KeptInv`
and `SecuredInv`: what was promised is in the places it was promised for. `StageInv`, `QuietInv` and `FloorInv`: what a
synchronization in progress has done by its stage, with and without writes meanwhile; the promise made at its end
follows from them. `WholeInv`: it began with a tensor that lacked nothing, so files that are not older lack nothing either
(`NewerIsComplete`).

*Release.* `ReleaseInv` says that a thread has at most one list, that no two threads destroy the same description, that
every count is the number of its handles, and that a description has none exactly when it is destroyed or about to be. The handles are
named one by one (`Handles`): those that threads own, those that live descriptions hold, and those in the lists. A step moves handles from one of
these sets to another or removes one, so that each case comes down to disjoint finite sets of the same size (`Moved`, `ListedReplaced`).
That the last handle's thread is alone with the description it detaches is `TakenOnce`, and follows from the count being
exact: nobody else can have a handle of it.

*Geometry.* `Product` and `Total` are recursive functions, which the proofs meet through their defining equation
(`Recursion`, `ProductsOf`, `TotalsOf`, by a least counterexample). A place is read axis by axis, `H[j] = H[j - 1] * g[j] + d[j]`
(`Horner`), which gives the bound (`HornerBelow`), uniqueness (`HornerDiffer`) and the inverse (`Decoded`). The block and the offset of a
coordinate are the places of its quotients and of its remainders (`BlockOf`); `BlocksDisjoint` follows. For `ContiguousInOrder` the
first axis that a block spans splits the place and the block's ID in the same way (`ContiguousBlocks`), and both are ordered. For
`ChosenBlocks`, what is left of the capacity is followed from the last axis up (`GreedyFacts`): the block of the axes so far times what
is left is within the capacity, and an axis that is not taken whole leaves one, so that no axis before it is spanned (`GreedyChosen`).

*Construction.* What the metadata promises says nothing of a construction in progress, and its invariant has to. `Merged` is the heart of
`ConstructionInv`: at any time, what a reader would find if the batch were staged and the block at hand written now is
what was given. `Numbered` and `Ascending` say in which order entries are pending, `BlocksAscend` that nothing still to come
belongs before the block at hand and all rows do, which needs `ContiguousInOrder` and is what makes writing a block once enough; `ZeroPadded`, `NoEmptyRow`,
`BlocksKept` and `Counted` are the rest of wholeness, and `Staged` says what each phase has left behind. That a full count leaves out no place
is that a set of as many places as there are is all of them, and that every block has a place is `BlocksInhabited`.

*Views.* `MapsCompose` is inductive once it is said what a map is (`IsMap`: a table's window stays inside the table), but `WritesReachOneElement` is not: that a map has steps only
says nothing of the meaning that was composed on the way to it, through axes that were broadcast, gathered or removed. `ViewInv` (of `GeometryProofs`)
says for every view, written through or not, that two coordinates with the same meaning agree on all axes that still have a step. `Became` reduces a transform to
two obligations: the new map's offset at a coordinate is the old map's at the coordinate it comes from, and coordinates that come
from such as agree on the old steps agree on the new ones. `Selected` and `Spread` settle the first for all transforms that take
axes, in any order, leave axes out with one index each, or add axes that contribute nothing, since a total may be taken in any order
(`Reordered`). What remains is each axis by itself: `SlicedAt`, `SlicedIn`, `SlicedOf`, `FlippedAxis`, and the windows of tables in `GatherSliceFacts`
and `FlippedFacts`. Only `Reshape` needs the strides, and with them `LinearOfAt` and `AtOfLinear`.

*Summaries of views.* Nothing is known of a map's offset and steps that says its places are in the tensor; that its meaning is (`ViewInv`) does, and both
summaries need it. Between the least and the greatest place in reach, the quotient by a stride is monotone, and its remainder by the dimension lies in the span, which is why
a span that wraps must be the whole axis (`SpanHolds`); from there, coordinates that are ordered axis by axis have ordered blocks
(`BlocksOrdered`), whatever the block shape. For a storage slice, `Matched` says what the greedy choice has by then: a base axis of its own for
each axis, of which the step is a multiple of the stride and stays below the dimension. Since no axis carries into another, the sum of a coordinate's
contributions is the row-major place of the coordinate that the slice names, and a place has one coordinate (`SliceExact`). Which of the
possible base axes is chosen does not matter.

*Reduction.* `ResultsAreExact` says nothing of a group in progress. `Streaming` says that its partial result is the bag of what its
batches named so far, and that what remains is the number of the other positions, which is why a batch can never be larger than
what remains. `Doubling` says that the partial result and the count's worth of doubled zeros together are the bag of the whole group, at
every bit of the count (`Halves`, `TwiceAsMuch`). `StartZeros` is the step between the two: the positions no batch named are
zeros, and there are as many as remain (`HavingApart`, `HavingAlike`). `InStep` relates the cursor, the pack and the results;
`Testing` is the same for `all` and `any`, with `BatchOf` for the division of positions into batches. That batches are disjoint and cover what is not zero is assumed
of the source here (`InputAssumption`); it is what `RequestsAreExact` (TLC) and `Exact` say of what discovery finds.

*Union.* `UnionIsExact` says what was delivered, and its invariant has to say what was not. `Accounted` does, for each stream by itself: every
place of it is delivered or left, in its head, its request or its rest (`Left`), and what is left comes after everything
that was delivered, whichever stream delivered it. Because a stream that has not ended offers a head, the least head is at most
all that is left of any stream, which keeps `Accounted` when it is delivered (`StreamDelivers`), and this is where the union would be
wrong if it did not wait for all heads. `InOrder` says that what is left of a stream ascends, `Merging` puts the streams
together, and `Selecting` is the same for the one stream that a reduction takes as it is stored. `Walking` is needed to tell
the two apart: a selection that has branched at an operation finds at least two leaves. What was delivered is
`FlattenSeq`, a recursive function, of which `FlattenAppend` is all that is used (by a least counterexample again). That a leaf's stream ascends and is bounded is
assumed (`CandidateAssumption`); it is what `RequestsAreExact` and `OrderedRequestsAscend` say, which TLC checks.

*Walk.* `WalkFollowsOperands` compares an iteration with a recursion. That an acyclic expression has the recursive function `Leaves` is
`AcyclicRecursion`: a recursive function is a `CHOOSE`, whose equation holds only if some function satisfies it, and the lemma
builds one from a node whose operands all have values (`AcyclicInduction`). `WalkInv` then says that the leaves in operand order are
those seen so far, those of the node looked at, and those of the pending operands, the last pushed first (`Progress`). A
visit replaces a node by its operands, pushed backwards, and leaves this concatenation as it was; a walk of `selection` from operation to operation
has passed over no leaf. That the walk reaches `NodeLimit` visits without an end is refused by the code and by the invariant (`visited`).

*Stream of an expression.* Two claims meet. The first is about the expression alone: a node that was constructed, and whose element at a
place differs from its implicit zero, is *open* there, and an open node has an operand that is open, down to a leaf whose requests name
the place (`OpenOperand`, `OpenLeaf`, `OpenNamed`). It needs that no operation was constructed that would densify (`ConstructInv`): if all
operands are at their implicit zero, an operation is at its own, which is why zero has to be carried with its sign. The second is about
the run: `ElementInv` says that the elements are those of the requests read so far without the zeros (`PickedAll`), `PhaseInv` that a request is
evaluated before the next is asked for, and both rest on `UnionInv` and `WalkInv`, which say that the requests name each place of each leaf
once. `StreamExact` puts the two together.

Checked by TLC only:

* liveness (`Finishes`, `EveryOperationEnds`, `EveryDropEnds`), which is outside the reach of the installed provers;
* the block cursor (`WalksValidOffsets`): its walk is compared with a selection from all coordinates, which is induction over data;
* requests (`RequestsAreExact`, `OrderedRequestsAscend`), plans (`ReadsAreExact`) and computed views
  (`ReadsComputeExactly`, `WorkIsBounded`).

## 5. What is not modelled

* Kernels, element types and the numerical backend: no state, no order of their own. Operations with a scalar
  (`src/scalar.rs`) are unary operations whose kernel holds the scalar.
* Encoding, decoding and collation: sequential conversions that the tests enumerate. Rows are corrupt by their payload and not by
  their key.
* Overflow checks of `checked_product` and of allocation sizes (an allocation that fails is modelled
  where it changes control, in `RefuseMemory`).
* The share of the cooperative budget that the union's adapters take, which only delays them.
* Poisoning of the driver's mutex, which needs a panic while the slot is locked.
* Logging, error texts, range validation and the public traits (`src/traits.rs`): declarations without state.
* `freqfs`, `b_table`, `Arc`, `collate` and Tokio, beyond the way they are used here. They are marked external.

## 6. Plan

Every component with state of its own is modelled. What is left, in this order:

1. The bounds and the order of requests (`RequestsAreExact`, `OrderedRequestsAscend`), on which the union and reductions rest.
2. An evaluation stream that composes request discovery with `InOrderEvaluation`: one evaluation per request, in
   order, over storage that others write.
