---------------------------- MODULE TensorLifecycle ----------------------------
(****************************************************************************)
(* A tensor's life on its filesystem: create, sync, sync_all, drop, crash   *)
(* and load of src/tensor.rs over the block files of dense storage and the  *)
(* table of sparse storage.  A file lives in three places: the cache, the   *)
(* filesystem it is written to by a sync or a spill, and the medium that    *)
(* survives the machine.  The root of a sparse table lives in a fourth, the *)
(* table's own memory, and reaches its file by Tensor::sync alone.          *)
(*                                                                          *)
(* The contents of a file are the number of the write that gave it them.    *)
(* The nodes of a table are always the same ones: that b_table splits and   *)
(* joins nodes, which creates and deletes files, is left out.               *)
(****************************************************************************)
EXTENDS Naturals

CONSTANTS
  Count,     \* the block files of dense storage, or the nodes of the table
  Root,      \* the file of the table's root
  Meta,      \* the metadata file
  MaxWrites  \* bound: writes in one behaviour

Data == 0..(Count - 1)
Files == Data \union {Root, Meta}

ASSUME LifecycleAssumption ==
  /\ Count \in Nat \ {0}
  /\ Root \notin Nat /\ Meta \notin Nat /\ Root # Meta
  /\ MaxWrites \in Nat

Absent == 0   \* no file
First == 1    \* its contents on creation
Versions == 0..(MaxWrites + 1)

VARIABLES
  layout,  \* "dense" or "sparse"
  handle,  \* "creating", "open" or "closed"
  made,    \* data files created
  root,    \* the root in the table's memory
  cached,  \* the files as the cache sees them
  disk,    \* the files as the filesystem has them
  safe,    \* the files as they survive the machine
  stage,   \* what the synchronization in progress does, "idle" if none
  all,     \* whether it is sync_all
  todo,    \* the files it has still to write in this stage
  clock,   \* the last write
  past,    \* history: the states that open storage has been in
  mark,    \* history: the state when the synchronization began
  quiet,   \* history: whether nothing was written since
  kept,    \* history: the state of the last sync, if nothing was written since
  secured, \* history: the same for sync_all
  floor,   \* history: what the last completed sync began with
  base     \* history: the same for sync_all

stores == <<cached, disk, safe>>
syncing == <<stage, all, todo>>
history == <<past, mark, quiet, kept, secured, floor, base>>
vars == <<layout, handle, made, root, stores, syncing, clock, history>>

(* What files hold of a tensor's values, and what the open tensor does.     *)
StateIn(store) == [f \in Data \union {Root} |-> store[f]]
Now == [StateIn(cached) EXCEPT ![Root] = root]

Nothing == [f \in Data \union {Root} |-> Absent]

(* create begins in an empty directory.                                     *)
Init ==
  /\ layout \in {"dense", "sparse"}
  /\ handle = "creating"
  /\ made = 0
  /\ root = Absent
  /\ cached = [f \in Files |-> Absent]
  /\ disk = cached
  /\ safe = cached
  /\ stage = "idle"
  /\ all = FALSE
  /\ todo = {}
  /\ clock = First
  /\ past = {}
  /\ mark = Nothing
  /\ quiet = FALSE
  /\ kept = {}
  /\ secured = {}
  /\ floor = Nothing
  /\ base = Nothing

--------------------------------------------------------------------------------
(* Dense storage creates one file of zeros after the other.                 *)
InitializeBlock ==
  /\ layout = "dense"
  /\ handle = "creating"
  /\ made < Count
  /\ cached' = [cached EXCEPT ![made] = First]
  /\ made' = made + 1
  /\ UNCHANGED <<layout, handle, root, disk, safe, syncing, clock, history>>

(* b_table creates an empty table, with or without a file for its root.     *)
CreateTable ==
  /\ layout = "sparse"
  /\ handle = "creating"
  /\ made < Count
  /\ \E file \in {Absent, First} :
       cached' = [f \in Files |-> IF f \in Data THEN First
                                  ELSE IF f = Root THEN file ELSE cached[f]]
  /\ made' = Count
  /\ root' = First
  /\ UNCHANGED <<layout, handle, disk, safe, syncing, clock, history>>

(* Metadata is created when the storage is complete.                        *)
PublishMetadata ==
  /\ handle = "creating"
  /\ made = Count
  /\ cached' = [cached EXCEPT ![Meta] = First]
  /\ handle' = "open"
  /\ past' = {Now}
  /\ UNCHANGED <<layout, made, root, disk, safe, syncing, clock, mark, quiet, kept,
                 secured, floor, base>>

(* A write of one block changes its file; in a table, a node and sometimes  *)
(* the root.                                                                *)
Write ==
  /\ handle = "open"
  /\ clock <= MaxWrites
  /\ clock' = clock + 1
  /\ \E d \in Data : cached' = [cached EXCEPT ![d] = clock']
  /\ root' \in IF layout = "sparse" THEN {root, clock'} ELSE {root}
  /\ past' = past \union {Now'}
  /\ quiet' = FALSE
  /\ kept' = {}
  /\ secured' = {}
  /\ UNCHANGED <<layout, handle, made, disk, safe, syncing, mark, floor, base>>

--------------------------------------------------------------------------------
(* Faulty: the table's files are written, its root is not put into them.    *)
FirstOfDirectories == IF layout = "dense" THEN "blocks" ELSE "table"

(* The stages of DenseStorage::sync and SparseStorage::sync, in order, then *)
(* that of sync_all, and the files that each writes.                        *)
FirstStage == IF layout = "dense" THEN "blocks" ELSE "publish"

NextStage(s) ==
  CASE s = "publish" -> "table"
    [] s = "table" -> "metadata"
    [] s \in {"blocks", "metadata"} -> IF all THEN "directory" ELSE "idle"
    [] OTHER -> "idle"

FilesOf(s) ==
  CASE s = "blocks" -> Data \union {Meta}
    [] s = "table" -> Data \union {Root}
    [] s = "metadata" -> {Meta}
    [] s = "directory" -> Files
    [] OTHER -> {}

Enter(s) ==
  /\ stage' = s
  /\ todo' = FilesOf(s)

(* Faulty: sync_all synchronizes the directory only.                        *)
BeginAtDirectory ==
  /\ handle = "open"
  /\ stage = "idle"
  /\ all' \in BOOLEAN
  /\ Enter(IF all' THEN "directory" ELSE FirstStage)
  /\ mark' = Now
  /\ quiet' = TRUE
  /\ UNCHANGED <<layout, handle, made, root, stores, clock, past, kept, secured, floor, base>>

(* Tensor::sync or sync_all is called on an open tensor, which others may   *)
(* still write.                                                             *)
BeginSync ==
  /\ handle = "open"
  /\ stage = "idle"
  /\ all' \in BOOLEAN
  /\ Enter(FirstStage)
  /\ mark' = Now
  /\ quiet' = TRUE
  /\ UNCHANGED <<layout, handle, made, root, stores, clock, past, kept, secured, floor, base>>

(* The table puts its root into the root's file.                            *)
PublishRoot ==
  /\ stage = "publish"
  /\ cached' = [cached EXCEPT ![Root] = root]
  /\ Enter(NextStage(stage))
  /\ UNCHANGED <<layout, handle, made, root, disk, safe, all, clock, history>>

(* Faulty: a file that is already there is not written again.               *)
SavedIfNew(f) == IF disk[f] = Absent THEN cached[f] ELSE disk[f]

(* What the filesystem has of a file once it is written.                    *)
Saved(f) == cached[f]

(* A file is written, and for sync_all's last stage made durable.           *)
SaveFile ==
  \E f \in todo :
    /\ disk' = [disk EXCEPT ![f] = Saved(f)]
    /\ safe' = IF stage = "directory" THEN [safe EXCEPT ![f] = Saved(f)] ELSE safe
    /\ todo' = todo \ {f}
    /\ UNCHANGED <<layout, handle, made, root, cached, stage, all, clock, history>>

(* A stage that has written its files ends, and the synchronization with    *)
(* its last stage.                                                          *)
EndStage ==
  /\ stage \notin {"idle", "publish"}
  /\ todo = {}
  /\ Enter(NextStage(stage))
  /\ IF NextStage(stage) = "idle"
     THEN /\ floor' = mark
          /\ kept' = IF quiet THEN {mark} ELSE kept
          /\ base' = IF all THEN mark ELSE base
          /\ secured' = IF all /\ quiet THEN {mark} ELSE secured
     ELSE UNCHANGED <<kept, secured, floor, base>>
  /\ UNCHANGED <<layout, handle, made, root, stores, all, clock, past, mark, quiet>>

(* A synchronization fails or its future is dropped.                        *)
BreakSync ==
  /\ stage # "idle"
  /\ Enter("idle")
  /\ UNCHANGED <<layout, handle, made, root, stores, all, clock, history>>

--------------------------------------------------------------------------------
(* The cache writes a file back when it needs the room; the machine makes   *)
(* written files durable when it likes.                                     *)
Spill ==
  \E f \in Files :
    /\ disk' = [disk EXCEPT ![f] = cached[f]]
    /\ UNCHANGED <<layout, handle, made, root, cached, safe, syncing, clock, history>>

WriteBack ==
  \E f \in Files :
    /\ safe' = [safe EXCEPT ![f] = disk[f]]
    /\ UNCHANGED <<layout, handle, made, root, cached, disk, syncing, clock, history>>

(* The last handle is dropped, or the constructor's future.                 *)
Close ==
  /\ handle # "closed"
  /\ stage = "idle"
  /\ handle' = "closed"
  /\ UNCHANGED <<layout, made, root, stores, syncing, clock, history>>

(* The process ends anywhere: the cache is lost.                            *)
Crash ==
  /\ handle' = "closed"
  /\ cached' = disk
  /\ Enter("idle")
  /\ UNCHANGED <<layout, made, root, disk, safe, all, clock, history>>

(* The machine stops anywhere: only what is durable remains.                *)
PowerLoss ==
  /\ handle' = "closed"
  /\ cached' = safe
  /\ disk' = safe
  /\ Enter("idle")
  /\ kept' = secured
  /\ floor' = base
  /\ UNCHANGED <<layout, made, root, safe, all, clock, past, mark, quiet, secured, base>>

(* Nothing that strict loading requires is missing.                         *)
Complete(store) ==
  /\ store[Meta] # Absent
  /\ \A d \in Data : store[d] # Absent
  /\ layout = "sparse" => store[Root] # Absent

(* Faulty: only the metadata is read.                                       *)
Undamaged(store) == store[Meta] # Absent

(* Strict loading of the files that the cache sees; the caller keeps others *)
(* from writing them.  Dense blocks are files of their own.  A table whose  *)
(* files are of different states may fail validation or be taken for a      *)
(* table it never was, which is then a tensor like any other.  Which of the *)
(* two is not modelled; what validation refuses stays as it is.             *)
Accepts(store) == Complete(store)

Load ==
  /\ handle = "closed"
  /\ Accepts(cached)
  /\ root' = cached[Root]
  /\ handle' = "open"
  /\ UNCHANGED <<layout, made, stores, syncing, clock, mark, quiet, kept, secured, floor, base>>
  /\ past' = past \union {Now'}

Sync == BeginSync \/ PublishRoot \/ SaveFile \/ EndStage \/ BreakSync
Environment == Spill \/ WriteBack \/ Close \/ Crash \/ PowerLoss

Next ==
  InitializeBlock \/ CreateTable \/ PublishMetadata \/ Write \/ Sync \/ Environment \/ Load

Spec == Init /\ [][Next]_vars

--------------------------------------------------------------------------------
(* Every variable holds a value of its kind.                                *)
States == [Data \union {Root} -> Versions]
Contents == [Files -> Versions]

TypeOK ==
  /\ layout \in {"dense", "sparse"}
  /\ handle \in {"creating", "open", "closed"}
  /\ made \in 0..Count
  /\ root \in Versions
  /\ {cached, disk, safe} \subseteq Contents
  /\ stage \in {"idle", "publish", "blocks", "table", "metadata", "directory"}
  /\ all \in BOOLEAN
  /\ todo \subseteq Files
  /\ clock \in First..(MaxWrites + 1)
  /\ {mark, floor, base} \subseteq States
  /\ past \subseteq States /\ kept \subseteq States /\ secured \subseteq States
  /\ quiet \in BOOLEAN

(* Whoever reopens files in state s, by whatever way, gets s: a table that  *)
(* was open in that state is valid.                                         *)
Gives(store, s) ==
  /\ Complete(store)
  /\ StateIn(store) = s
  /\ layout = "sparse" => s \in past

(* What a sync wrote without a write in between, and nothing has changed    *)
(* since, is what is reopened after the handles are dropped and after the   *)
(* process crashes, however often and wherever.                             *)
SyncedIsKept ==
  \A s \in kept : Gives(cached, s) /\ Gives(disk, s)

(* What a sync_all wrote so is also reopened after the machine stops.       *)
SecuredIsDurable ==
  \A s \in secured : Gives(cached, s) /\ Gives(disk, s) /\ Gives(safe, s)

(* A completed sync, with writes in between or not, is a lower bound: no    *)
(* crash brings back a file older than the one it began with, also where    *)
(* strict loading takes files of different states for a table.              *)
FilesNeverGoBack ==
  /\ \A f \in Data \union {Root} :
       /\ floor[f] <= disk[f] /\ floor[f] <= cached[f]
       /\ base[f] <= safe[f]
  /\ handle = "open" => floor[Root] <= root

(* A tensor that was synchronized once, with writes in between or not, is   *)
(* never again refused for a missing file, whatever is spilled, interrupted *)
(* or lost later; one that was created or loaded in part would pass its     *)
(* gaps on.                                                                 *)
SyncedStaysLoadable ==
  /\ floor # Nothing => Complete(cached) /\ Complete(disk)
  /\ base # Nothing => Complete(safe)
================================================================================
