------------------------------ MODULE DenseStorage -----------------------------
(****************************************************************************)
(* Published dense storage under concurrent callers: a file for every       *)
(* logical block, each behind a read and write guard of its own             *)
(* (src/tensor/dense_storage.rs), and the bulk operations of src/tensor.rs  *)
(* that are loops of guarded block operations.                              *)
(*                                                                          *)
(* A batch read opens a window of blocks at once and keeps the guard of     *)
(* every block it got until the blocks before it were used.  Several        *)
(* readers therefore hold guards while they wait for others, and a queued   *)
(* writer makes later readers of its block wait.                            *)
(*                                                                          *)
(* The files and their guards are freqfs's: a guard is granted in the order *)
(* of the requests, to readers together, and a load may fail.  A writer     *)
(* does not await while it has its guard, so its turn is one step.  The     *)
(* plan of a write names only offsets of the block.                         *)
(****************************************************************************)
EXTENDS Naturals, Sequences, FiniteSets

CONSTANTS
  Tasks,       \* callers that share the storage, one operation each
  Jobs,        \* the jobs that the tasks may have: functions of the tasks
  BlockCount,  \* the number of logical blocks
  Offsets,     \* positions of a block
  Values,      \* tensor elements
  Loaded,      \* the contents that operations may find
  Payloads,    \* the states of the files that operations may find
  Buffer,      \* num_cpus::get().max(1), the window of a batch read
  Breakable,   \* tasks whose I/O may fail or whose future may be dropped
  Unread       \* no value was returned

Blocks == 0..(BlockCount - 1)
Patches == UNION {[S -> Values] : S \in SUBSET Offsets}
Writes == [id : Blocks, patch : Patches]

(* read_batch: the blocks of the planned groups.                            *)
Reading(wanted) == [kind |-> "read", wanted |-> wanted]
(* write_value, write_values, replace_logical_block: block writes in order. *)
Writing(writes) == [kind |-> "write", writes |-> writes]
(* fill: every block, read and validated before it is replaced.             *)
Filling(value) ==
  [kind |-> "fill",
   writes |-> [k \in 1..BlockCount |->
     [id |-> k - 1, patch |-> [o \in Offsets |-> value]]]]

(* A file is sound, of another length than the block's, or missing.         *)
ASSUME DenseAssumption ==
  /\ BlockCount \in Nat \ {0}
  /\ Buffer \in Nat \ {0}
  /\ Payloads \subseteq [Blocks -> {"sound", "short", "missing"}]
  /\ Loaded \subseteq [Blocks -> [Offsets -> Values]]
  /\ Unread \notin [Offsets -> Values]
  /\ Jobs \subseteq
       [Tasks -> [kind : {"read"}, wanted : SUBSET Blocks]
                   \union [kind : {"write", "fill"}, writes : Seq(Writes)]]

VARIABLES
  contents,  \* contents[b]: the values of block b
  payload,   \* payload[b]: the state of the file of block b
  job,       \* job[t]: what t was asked to do
  pc,        \* pc[t]: "running", "done", "failed" or "dropped"
  place,     \* place[t][b]: how far t is with block b: see Places
  queue,     \* queue[b]: the tasks that wait for the guard of b, in order
  checked,   \* checked[t]: fill has validated the block it will replace
  got,       \* got[t][b]: the values of b that t scattered, or Unread
  written    \* history: the writes of t that have taken effect

vars == <<contents, payload, job, pc, place, queue, checked, got, written>>

(* A block of a read is asked for, waited for, held or refused, and used.   *)
Places == {"none", "asked", "queued", "held", "refused", "used"}

Running(t) == pc[t] = "running"
IsReader(t) == job[t].kind = "read"

(* The blocks that a task has yet to ask for.                               *)
ToRead(t) == {b \in job[t].wanted : place[t][b] = "none"}
InFlight(t) == {b \in Blocks : place[t][b] \in {"asked", "queued", "held", "refused"}}

Readers(b) == {t \in Tasks : place[t][b] = "held"}
Least(S) == CHOOSE b \in S : \A c \in S : b <= c

Init ==
  /\ contents \in Loaded
  /\ payload \in Payloads
  /\ job \in Jobs
  /\ pc = [t \in Tasks |-> "running"]
  /\ place = [t \in Tasks |-> [b \in Blocks |-> "none"]]
  /\ queue = [b \in Blocks |-> <<>>]
  /\ checked = [t \in Tasks |-> FALSE]
  /\ got = [t \in Tasks |-> [b \in Blocks |-> Unread]]
  /\ written = [t \in Tasks |-> <<>>]

--------------------------------------------------------------------------------
(* The guards.                                                              *)
Exclusive(t) == job[t].kind = "write" \/ (job[t].kind = "fill" /\ checked[t])

(* The guard of b is free for t, and nobody waits for it before t who would *)
(* exclude t.                                                               *)
Admits(t, b) ==
  /\ place[t][b] = "queued"
  /\ \E k \in DOMAIN queue[b] :
       /\ queue[b][k] = t
       /\ IF Exclusive(t) THEN k = 1 /\ Readers(b) = {}
          ELSE \A j \in 1..(k - 1) : ~Exclusive(queue[b][j])

Without(q, t) ==
  IF \E k \in DOMAIN q : q[k] = t
  THEN LET at == CHOOSE k \in DOMAIN q : q[k] = t
       IN [k \in 1..(Len(q) - 1) |-> IF k < at THEN q[k] ELSE q[k + 1]]
  ELSE q

Enqueue(t, b) ==
  /\ queue' = [queue EXCEPT ![b] = Append(@, t)]
  /\ place' = [place EXCEPT ![t][b] = "queued"]

Leave(t, b, next) ==
  /\ queue' = [queue EXCEPT ![b] = Without(@, t)]
  /\ place' = [place EXCEPT ![t][b] = next]

(* A future that ends drops its guards and its places in the queues.        *)
Release(t) ==
  /\ queue' = [b \in Blocks |-> Without(queue[b], t)]
  /\ place' = [place EXCEPT ![t] =
       [b \in Blocks |-> IF place[t][b] = "used" THEN "used" ELSE "none"]]

Fail(t) ==
  /\ pc' = [pc EXCEPT ![t] = "failed"]
  /\ Release(t)
  /\ UNCHANGED <<contents, payload, job, checked, got, written>>

--------------------------------------------------------------------------------
(* read_groups: buffered over the groups in the order of their blocks.      *)
CanBegin(t) == ToRead(t) # {} /\ Cardinality(InFlight(t)) < Buffer

(* Faulty: groups keep the order of the request, which one task reverses.   *)
FirstRequested(t, S) ==
  IF t = CHOOSE u \in Tasks : TRUE THEN CHOOSE b \in S : \A c \in S : b >= c ELSE Least(S)

(* LogicalGroups is a BTreeMap: groups are in the order of their blocks.    *)
First(t, S) == Least(S)

(* The window's next future is polled for the first time.                   *)
Begin(t) ==
  /\ Running(t) /\ IsReader(t) /\ CanBegin(t)
  /\ place' = [place EXCEPT ![t][First(t, ToRead(t))] = "asked"]
  /\ UNCHANGED <<contents, payload, job, pc, queue, checked, got, written>>

(* read: the file is looked up under the directory's guard, which may have  *)
(* to be awaited; the futures of a window go on from there in any order.    *)
Locate(t, b) ==
  /\ Running(t) /\ IsReader(t) /\ place[t][b] = "asked"
  /\ IF payload[b] = "missing"
     THEN place' = [place EXCEPT ![t][b] = "refused"] /\ UNCHANGED queue
     ELSE Enqueue(t, b)
  /\ UNCHANGED <<contents, payload, job, pc, checked, got, written>>

(* into_read resolves, and the length is validated under the guard.         *)
Open(t, b) ==
  /\ Running(t) /\ IsReader(t) /\ Admits(t, b)
  /\ \/ payload[b] = "sound" /\ Leave(t, b, "held")
     \/ (payload[b] = "short" \/ t \in Breakable) /\ Leave(t, b, "refused")
  /\ UNCHANGED <<contents, payload, job, pc, checked, got, written>>

(* Faulty: whatever is there is used first, as buffer_unordered would.      *)
AnyResult(t) == {b \in InFlight(t) : place[t][b] \in {"held", "refused"}}

(* buffered: the results in the order of their groups.                      *)
NextResult(t) == {First(t, InFlight(t))}

(* try_next: the window is filled, then the first group, if it is there,    *)
(* is scattered and its guard dropped, or its error returned.               *)
Use(t) ==
  /\ Running(t) /\ IsReader(t) /\ InFlight(t) # {} /\ ~CanBegin(t)
  /\ \E b \in NextResult(t) :
       \/ /\ place[t][b] = "held"
          /\ got' = [got EXCEPT ![t][b] = contents[b]]
          /\ place' = [place EXCEPT ![t][b] = "used"]
          /\ UNCHANGED <<contents, payload, job, pc, queue, checked, written>>
       \/ place[t][b] = "refused" /\ Fail(t)

--------------------------------------------------------------------------------
(* replace, update, and fill over read and replace.                         *)
Remaining(t) == Len(written[t]) < Len(job[t].writes)
Current(t) == job[t].writes[Len(written[t]) + 1]

Ask(t) ==
  /\ Running(t) /\ ~IsReader(t) /\ Remaining(t)
  /\ InFlight(t) = {}
  /\ IF payload[Current(t).id] = "missing" THEN Fail(t)
     ELSE /\ Enqueue(t, Current(t).id)
          /\ UNCHANGED <<contents, payload, job, pc, checked, got, written>>

(* fill reads the block first; the copy it takes is overwritten.            *)
Check(t) ==
  /\ Running(t) /\ job[t].kind = "fill" /\ ~checked[t] /\ Remaining(t)
  /\ Admits(t, Current(t).id)
  /\ \/ /\ payload[Current(t).id] = "sound"
        /\ Leave(t, Current(t).id, "none")
        /\ checked' = [checked EXCEPT ![t] = TRUE]
        /\ UNCHANGED <<contents, payload, job, pc, got, written>>
     \/ (payload[Current(t).id] = "short" \/ t \in Breakable) /\ Fail(t)

(* Faulty: only the positions that are written are kept.                    *)
Shortened(values, patch) == patch

(* apply_block_updates: the other positions keep their values.              *)
Updated(values, patch) ==
  [o \in Offsets |-> IF o \in DOMAIN patch THEN patch[o] ELSE values[o]]

Apply(t) ==
  /\ Running(t) /\ ~IsReader(t) /\ Exclusive(t) /\ Remaining(t)
  /\ Admits(t, Current(t).id)
  /\ \/ /\ payload[Current(t).id] = "sound"
        /\ contents' = [contents EXCEPT ![Current(t).id] = Updated(@, Current(t).patch)]
        /\ written' = [written EXCEPT ![t] = Append(@, Current(t))]
        /\ Leave(t, Current(t).id, "none")
        /\ checked' = [checked EXCEPT ![t] = FALSE]
        /\ UNCHANGED <<payload, job, pc, got>>
     \/ (payload[Current(t).id] = "short" \/ t \in Breakable) /\ Fail(t)

--------------------------------------------------------------------------------
Finished(t) ==
  IF IsReader(t) THEN ToRead(t) = {} /\ InFlight(t) = {} ELSE ~Remaining(t)

Return(t) ==
  /\ Running(t) /\ Finished(t)
  /\ pc' = [pc EXCEPT ![t] = "done"]
  /\ UNCHANGED <<contents, payload, job, place, queue, checked, got, written>>

(* The caller drops the future.                                             *)
Drop(t) ==
  /\ Running(t) /\ t \in Breakable
  /\ pc' = [pc EXCEPT ![t] = "dropped"]
  /\ Release(t)
  /\ UNCHANGED <<contents, payload, job, checked, got, written>>

Next ==
  \E t \in Tasks :
    \/ Begin(t) \/ Use(t) \/ Ask(t) \/ Check(t) \/ Apply(t) \/ Return(t) \/ Drop(t)
    \/ \E b \in Blocks : Locate(t, b) \/ Open(t, b)

Spec == Init /\ [][Next]_vars

--------------------------------------------------------------------------------
(* Types.                                                                   *)
TypeOK ==
  /\ contents \in [Blocks -> [Offsets -> Values]]
  /\ payload \in Payloads
  /\ job \in Jobs
  /\ pc \in [Tasks -> {"running", "done", "failed", "dropped"}]
  /\ place \in [Tasks -> [Blocks -> Places]]
  /\ queue \in [Blocks -> Seq(Tasks)]
  /\ checked \in [Tasks -> BOOLEAN]
  /\ got \in [Tasks -> [Blocks -> [Offsets -> Values] \union {Unread}]]
  /\ written \in [Tasks -> Seq(Writes)]

(* A task that can go on without anybody's help.                            *)
CanStep(t) ==
  /\ Running(t)
  /\ \/ Finished(t)
     \/ /\ IsReader(t)
        /\ \/ CanBegin(t)
           \/ \E b \in Blocks : place[t][b] = "asked" \/ Admits(t, b)
           \/ InFlight(t) # {} /\ \E b \in NextResult(t) : place[t][b] \in {"held", "refused"}
     \/ /\ ~IsReader(t) /\ Remaining(t)
        /\ InFlight(t) = {} \/ Admits(t, Current(t).id)

(* Readers that keep guards while they wait for others, and writers in      *)
(* between, never wait for each other in a circle: some operation that has  *)
(* not ended can go on (read_groups' buffered window over LogicalGroups).   *)
NothingIsStuck == (\E t \in Tasks : Running(t)) => \E t \in Tasks : CanStep(t)

(* However the loads of a window come in, a batch read behaves as one that  *)
(* reads block after block: it uses none beyond a block it could not read,  *)
(* fails for the first such block, and returns only with all blocks read    *)
(* ("later lookup failures stay behind the earlier payload validation",     *)
(* tests/unit/tensor/dense_storage/tests.rs).                               *)
ErrorsComeInOrder ==
  \A t \in Tasks : IsReader(t) =>
    LET used == {b \in Blocks : got[t][b] # Unread}
        rest == job[t].wanted \ used
    IN /\ \A b \in used : payload[b] = "sound" /\ \A c \in rest : b < c
       /\ pc[t] = "done" => rest = {}
       /\ pc[t] = "failed" /\ t \notin Breakable =>
            rest # {} /\ payload[Least(rest)] # "sound"

--------------------------------------------------------------------------------
(* To a caller, every block of a batch is a read of its own.                *)
Whole == BlockCount
Calls == Tasks \X (Blocks \union {Whole})

CallJob ==
  [c \in Calls |->
    IF ~IsReader(c[1])
    THEN [kind |-> job[c[1]].kind, writes |-> IF c[2] = Whole THEN job[c[1]].writes ELSE <<>>]
    ELSE Reading({c[2]} \intersect job[c[1]].wanted)]
CallWritten == [c \in Calls |-> IF c[2] = Whole THEN written[c[1]] ELSE <<>>]
CallAnswer ==
  [c \in Calls |->
    IF c[2] = Whole \/ got[c[1]][c[2]] = Unread THEN Unread ELSE [b \in {c[2]} |-> got[c[1]][b]]]

Contents ==
  INSTANCE BlockContents
    WITH Tasks <- Calls, job <- CallJob, written <- CallWritten, answer <- CallAnswer

(* Block writes are atomic, keep the positions they do not name, and happen *)
(* in order and once; each block of a batch is read at one instant, the     *)
(* batch as a whole is not (replace, update, read_groups).                  *)
ImplementsBlockContents == Contents!Spec
================================================================================
