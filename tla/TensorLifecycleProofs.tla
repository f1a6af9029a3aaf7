-------------------------- MODULE TensorLifecycleProofs ------------------------
(****************************************************************************)
(* What a sync and a sync_all promise, for any number of files and writes   *)
(* and any sequence of crashes and of loads, of whatever was left: proofs   *)
(* about TensorLifecycle.                                                   *)
(****************************************************************************)
EXTENDS TensorLifecycle, TLAPS

Parts == Data \union {Root}

(* The files are different ones.                                            *)
LEMMA FileFacts ==
  /\ Parts \subseteq Files /\ Data \subseteq Files /\ Data \subseteq Parts
  /\ Root \in Files /\ Meta \in Files /\ Root \in Parts
  /\ Root \notin Data /\ Meta \notin Parts /\ Root # Meta
  /\ \A f \in Files : f \in Data \/ f = Root \/ f = Meta
BY LifecycleAssumption DEF Parts, Files, Data

(* What the files of a store, and an open tensor, hold.                     *)
LEMMA StateFacts ==
  ASSUME NEW store \in Contents
  PROVE  /\ StateIn(store) \in States
         /\ \A f \in Parts : StateIn(store)[f] = store[f]
BY FileFacts DEF StateIn, States, Contents, Parts

(* Versions are numbers.                                                    *)
LEMMA Numbers ==
  /\ \A store \in Contents : \A f \in Files : store[f] \in Nat
  /\ \A s \in States : \A f \in Parts : s[f] \in Nat
  /\ Versions \subseteq Nat /\ Absent \in Nat
BY LifecycleAssumption DEF Contents, States, Versions, Parts, Absent

(* A store that holds the files of a state is in that state.                *)
LEMMA StateIs ==
  ASSUME NEW store \in Contents, NEW s \in States, \A f \in Parts : store[f] = s[f]
  PROVE  StateIn(store) = s
BY DEF StateIn, States, Parts

(* The state of a store with another root has the blocks of the store.      *)
LEMMA WithRoot ==
  ASSUME NEW store \in Contents, NEW r \in Versions,
         NEW s, s = [StateIn(store) EXCEPT ![Root] = r]
  PROVE  /\ s \in States
         /\ \A d \in Data : s[d] = store[d]
         /\ s[Root] = r
BY StateFacts, FileFacts DEF States, Parts

(* What the tensor holds now is the cached blocks under the root in memory. *)
LEMMA NowFacts ==
  ASSUME TypeOK
  PROVE  /\ Now \in States
         /\ \A d \in Data : Now[d] = cached[d]
         /\ Now[Root] = root
BY WithRoot DEF TypeOK, Now

(* States that agree on every file are the same.                            *)
LEMMA SameState ==
  ASSUME NEW s \in States, NEW t \in States, s[Root] = t[Root],
         \A d \in Data : s[d] = t[d]
  PROVE  s = t
BY FileFacts DEF States, Parts

--------------------------------------------------------------------------------
(* While a tensor is created nothing was promised, and it has no file that  *)
(* a later write made.                                                      *)
CreatingInv ==
  handle = "creating" =>
    /\ kept = {} /\ secured = {} /\ floor = Nothing /\ base = Nothing
    /\ stage = "idle" /\ clock = First
    /\ \A d \in 0..(made - 1) : cached[d] = First
    /\ layout = "sparse" /\ made = Count => root # Absent
    /\ layout = "sparse" /\ made < Count => cached[Root] = Absent

(* An open tensor has its files, and the state of an open table is one that *)
(* it was open in.                                                          *)
OpenInv ==
  /\ handle = "open" =>
       /\ \A f \in Data \union {Meta} : cached[f] # Absent
       /\ layout = "sparse" => root # Absent /\ Now \in past
  /\ layout = "dense" =>
       root = Absent /\ cached[Root] = Absent /\ disk[Root] = Absent /\ safe[Root] = Absent

(* Files are never newer further on their way, nor a root's file than the   *)
(* root in the memory of a tensor that is open.                             *)
OrderInv ==
  /\ \A f \in Files : safe[f] <= disk[f] /\ disk[f] <= cached[f] /\ cached[f] <= clock
  /\ root <= clock
  /\ handle # "closed" => cached[Root] <= root

(* What was kept is in the cache, on the filesystem and in the open tensor. *)
KeptInv ==
  \A s \in kept :
    /\ cached[Meta] # Absent /\ disk[Meta] # Absent
    /\ \A d \in Data : s[d] # Absent
    /\ layout = "sparse" => s \in past /\ s[Root] # Absent
    /\ \A f \in Parts : cached[f] = s[f] /\ disk[f] = s[f]
    /\ handle = "open" => root = s[Root]

SecuredInv ==
  \A s \in secured :
    /\ s \in kept
    /\ safe[Meta] # Absent
    /\ \A f \in Parts : safe[f] = s[f]

(* The files that the synchronization in progress has written, and made     *)
(* durable.                                                                 *)
Written ==
  CASE stage = "directory" -> Files
    [] stage = "metadata" -> Files \ todo
    [] OTHER -> FilesOf(stage) \ todo
Hardened == IF stage = "directory" THEN Files \ todo ELSE {}

StageInv ==
  /\ todo \subseteq FilesOf(stage)
  /\ stage # "idle" => handle = "open"
  /\ stage = "blocks" => layout = "dense"
  /\ stage \in {"publish", "table", "metadata"} => layout = "sparse"
  /\ stage = "directory" => all

(* What a synchronization without a write has done so far is done.          *)
QuietInv ==
  stage # "idle" /\ quiet =>
    /\ \A d \in Data : mark[d] = cached[d]
    /\ mark[Root] = root
    /\ layout = "sparse" => mark \in past
    /\ layout = "sparse" /\ stage # "publish" => cached[Root] = root
    /\ \A f \in Written : disk[f] = cached[f]
    /\ \A f \in Hardened : safe[f] = cached[f]

(* With writes, what it has done is not older than its beginning.           *)
FloorInv ==
  /\ \A f \in Parts : floor[f] <= disk[f] /\ base[f] <= safe[f]
  /\ stage # "idle" =>
       /\ \A d \in Data : mark[d] <= cached[d]
       /\ mark[Root] <= root
       /\ stage # "publish" => mark[Root] <= cached[Root]
       /\ \A f \in Parts \intersect Written : mark[f] <= disk[f]
       /\ \A f \in Parts \intersect Hardened : mark[f] <= safe[f]

(* A synchronization begins with a tensor that lacks nothing, and what has  *)
(* been synchronized has its metadata.                                      *)
Whole(s) ==
  /\ \A d \in Data : s[d] # Absent
  /\ layout = "sparse" => s[Root] # Absent

WholeInv ==
  /\ floor # Nothing => Whole(floor) /\ disk[Meta] # Absent
  /\ base # Nothing => Whole(base) /\ safe[Meta] # Absent
  /\ stage # "idle" =>
       /\ Whole(mark)
       /\ Meta \in Written => disk[Meta] # Absent
       /\ Meta \in Hardened => safe[Meta] # Absent

IInv ==
  /\ TypeOK
  /\ CreatingInv
  /\ OpenInv
  /\ OrderInv
  /\ KeptInv
  /\ SecuredInv
  /\ StageInv
  /\ QuietInv
  /\ FloorInv
  /\ WholeInv

(* The invariant holds before the tensor is created.                        *)
LEMMA InitInv == Init => IInv
<1> SUFFICES ASSUME Init PROVE IInv
  OBVIOUS
<1>1. /\ Nothing \in States /\ \A f \in Parts : Nothing[f] = Absent
      /\ Absent \in Versions /\ First \in First..(MaxWrites + 1) /\ 0 \in 0..Count
  BY LifecycleAssumption DEF Nothing, States, Versions, Absent, First, Parts
<1>2. cached \in Contents /\ disk = cached /\ safe = cached /\ \A f \in Files : cached[f] = Absent
  BY <1>1 DEF Init, Contents
<1>3. TypeOK
  BY <1>1, <1>2 DEF Init, TypeOK, Contents, States
<1>4. OrderInv
  BY <1>2, FileFacts DEF Init, OrderInv, Absent, First
<1>5. CreatingInv
  <2>1. 0..(made - 1) = {} /\ made # Count
    BY LifecycleAssumption DEF Init
  <2> QED BY <1>2, <2>1, FileFacts DEF Init, CreatingInv
<1>6. OpenInv
  BY <1>2, FileFacts DEF Init, OpenInv
<1>7. KeptInv /\ SecuredInv /\ QuietInv
  BY DEF Init, KeptInv, SecuredInv, QuietInv
<1>8. StageInv
  BY DEF Init, StageInv
<1>9. FloorInv /\ WholeInv
  BY <1>1, <1>2, FileFacts DEF Init, FloorInv, WholeInv, Absent
<1> QED BY <1>3, <1>4, <1>5, <1>6, <1>7, <1>8, <1>9 DEF IInv

--------------------------------------------------------------------------------
(* What the actions leave alone.                                            *)
LEMMA Unchanged ==
  ASSUME IInv, UNCHANGED vars
  PROVE  IInv'
BY DEF IInv, vars, stores, syncing, history, TypeOK, CreatingInv, OpenInv, OrderInv,
       KeptInv, SecuredInv, StageInv, QuietInv, FloorInv, WholeInv, Whole, Written, Hardened, FilesOf,
       Now, StateIn

(* Creation.                                                                *)
LEMMA InitializeBlockInv ==
  ASSUME IInv, InitializeBlock
  PROVE  IInv'
<1> USE DEF IInv, stores, syncing, history
<1>1. /\ made \in Data /\ made \in Files /\ made' \in 0..Count
      /\ made # Root /\ made # Meta /\ First \in Versions
  BY LifecycleAssumption DEF InitializeBlock, TypeOK, Data, Files, Versions, First
<1>2. /\ cached' \in Contents
      /\ cached'[made] = First
      /\ \A f \in Files : f # made => cached'[f] = cached[f]
  BY <1>1 DEF InitializeBlock, TypeOK, Contents
<1>3. /\ handle = "creating" /\ stage = "idle" /\ kept = {} /\ secured = {}
      /\ floor = Nothing /\ base = Nothing /\ clock = First /\ layout = "dense"
  BY DEF InitializeBlock, CreatingInv
<1>4. TypeOK'
  BY <1>1, <1>2 DEF InitializeBlock, TypeOK
<1>5. CreatingInv'
  <2>1. \A d \in 0..(made' - 1) : d = made \/ (d \in 0..(made - 1) /\ d \in Files)
    BY LifecycleAssumption, <1>1 DEF InitializeBlock, TypeOK, Data, Files
  <2> QED BY <1>1, <1>2, <1>3, <2>1, FileFacts DEF InitializeBlock, CreatingInv
<1>6. OpenInv'
  BY <1>1, <1>2, <1>3, FileFacts DEF InitializeBlock, OpenInv
<1>7. OrderInv'
  BY <1>1, <1>2, <1>3, FileFacts, Numbers DEF InitializeBlock, OrderInv, TypeOK, First
<1>8. KeptInv' /\ SecuredInv' /\ StageInv' /\ QuietInv'
  BY <1>3 DEF InitializeBlock, KeptInv, SecuredInv, StageInv, QuietInv, FilesOf
<1>9. FloorInv' /\ WholeInv'
  BY <1>3 DEF InitializeBlock, FloorInv, WholeInv
<1> QED BY <1>4, <1>5, <1>6, <1>7, <1>8, <1>9

(* The creation of the table keeps the invariant.                           *)
LEMMA CreateTableInv ==
  ASSUME IInv, CreateTable
  PROVE  IInv'
<1> USE DEF IInv, stores, syncing, history
<1>1. /\ First \in Versions /\ Absent \in Versions /\ Count \in 0..Count
      /\ 0..(Count - 1) = Data
  BY LifecycleAssumption DEF Versions, First, Absent, Data
<1>2. /\ cached' \in Contents
      /\ \A d \in Data : cached'[d] = First
      /\ cached'[Root] \in {Absent, First}
      /\ cached'[Meta] = cached[Meta]
  BY <1>1, FileFacts DEF CreateTable, TypeOK, Contents
<1>3. /\ handle = "creating" /\ stage = "idle" /\ kept = {} /\ secured = {}
      /\ floor = Nothing /\ base = Nothing /\ clock = First /\ layout = "sparse"
      /\ cached[Root] = Absent
  BY DEF CreateTable, CreatingInv
<1>4. TypeOK'
  BY <1>1, <1>2 DEF CreateTable, TypeOK
<1>5. CreatingInv'
  BY <1>1, <1>2, <1>3 DEF CreateTable, CreatingInv, First, Absent
<1>6. OpenInv'
  BY <1>3 DEF CreateTable, OpenInv
<1>7. OrderInv'
  <2>1. /\ \A f \in Files : /\ cached[f] \in Nat /\ disk[f] \in Nat /\ safe[f] \in Nat
                            /\ safe[f] <= disk[f] /\ disk[f] <= cached[f] /\ cached[f] <= First
        /\ disk[Root] = Absent /\ safe[Root] = Absent
    BY <1>3, Numbers, FileFacts DEF OrderInv, TypeOK, Absent, First
  <2>2. \A f \in Files : cached[f] <= cached'[f] /\ cached'[f] <= First
    BY <1>2, <1>3, <2>1, FileFacts DEF Absent, First
  <2> QED BY <1>2, <1>3, <2>1, <2>2, FileFacts DEF CreateTable, OrderInv, Absent, First
<1>8. KeptInv' /\ SecuredInv' /\ StageInv' /\ QuietInv'
  BY <1>3 DEF CreateTable, KeptInv, SecuredInv, StageInv, QuietInv, FilesOf
<1>9. FloorInv' /\ WholeInv'
  BY <1>3 DEF CreateTable, FloorInv, WholeInv
<1> QED BY <1>4, <1>5, <1>6, <1>7, <1>8, <1>9

(* The creation of the metadata keeps the invariant.                        *)
LEMMA PublishMetadataInv ==
  ASSUME IInv, PublishMetadata
  PROVE  IInv'
<1> USE DEF IInv, stores, syncing, history
<1>1. First \in Versions /\ 0..(made - 1) = Data /\ First # Absent
  BY LifecycleAssumption DEF Versions, First, Absent, Data, PublishMetadata
<1>2. /\ cached' \in Contents /\ cached'[Meta] = First
      /\ \A f \in Parts : cached'[f] = cached[f]
  BY <1>1, FileFacts DEF PublishMetadata, TypeOK, Contents
<1>3. /\ handle = "creating" /\ stage = "idle" /\ kept = {} /\ secured = {}
      /\ floor = Nothing /\ base = Nothing
      /\ layout = "sparse" => root # Absent
      /\ \A d \in Data : cached[d] = First
  BY <1>1 DEF PublishMetadata, CreatingInv
<1>4. Now \in States /\ Now' = Now
  BY <1>2, NowFacts DEF PublishMetadata, Now, StateIn, Parts
<1>5. TypeOK'
  BY <1>2, <1>4 DEF PublishMetadata, TypeOK
<1>6. CreatingInv'
  BY DEF PublishMetadata, CreatingInv
<1>7. OpenInv'
  BY <1>1, <1>2, <1>3, <1>4, FileFacts DEF PublishMetadata, OpenInv
<1>8. OrderInv'
  <2>1. cached[Meta] \in Nat /\ disk[Meta] \in Nat /\ clock = First
    BY Numbers, FileFacts DEF PublishMetadata, CreatingInv, TypeOK
  <2>2. cached[Meta] <= First /\ disk[Meta] <= First
    BY <2>1, FileFacts DEF OrderInv, First
  <2> QED BY <1>2, <1>3, <2>1, <2>2, FileFacts DEF PublishMetadata, OrderInv, Parts, First
<1>9. KeptInv' /\ SecuredInv' /\ StageInv' /\ QuietInv'
  BY <1>3 DEF PublishMetadata, KeptInv, SecuredInv, StageInv, QuietInv, FilesOf
<1>10. FloorInv' /\ WholeInv'
  BY <1>3 DEF PublishMetadata, FloorInv, WholeInv
<1> QED BY <1>5, <1>6, <1>7, <1>8, <1>9, <1>10

(* A write promises nothing and makes its block newer.                      *)
LEMMA WriteInv ==
  ASSUME IInv, Write
  PROVE  IInv'
<1> USE DEF IInv, stores, syncing, history
<1>1. /\ clock' = clock + 1 /\ clock \in Nat /\ clock' \in First..(MaxWrites + 1)
      /\ clock' \in Versions /\ clock' # Absent
  BY LifecycleAssumption DEF Write, TypeOK, Versions, First, Absent
<1>2. PICK d \in Data : cached' = [cached EXCEPT ![d] = clock']
  BY DEF Write
<1>3. /\ cached' \in Contents /\ cached'[d] = clock' /\ d # Root /\ d # Meta
      /\ \A f \in Files : f # d => cached'[f] = cached[f]
  BY <1>1, <1>2, FileFacts DEF TypeOK, Contents
<1>4. /\ root' \in Versions
      /\ layout = "sparse" => root' # Absent
      /\ layout = "dense" => root' = root
  BY <1>1 DEF Write, TypeOK, OpenInv
<1>5. Now' \in States
  BY <1>3, <1>4, WithRoot DEF Now
<1>6. TypeOK'
  BY <1>1, <1>3, <1>4, <1>5 DEF Write, TypeOK
<1>7. CreatingInv'
  BY DEF Write, CreatingInv
<1>8. OpenInv'
  BY <1>1, <1>3, <1>4, FileFacts DEF Write, OpenInv
<1>9. OrderInv'
  <2>1. \A f \in Files : /\ cached[f] \in Nat /\ disk[f] \in Nat /\ cached[f] <= clock
                         /\ cached'[f] = cached[f] \/ cached'[f] = clock'
    BY <1>1, <1>3, Numbers, FileFacts DEF OrderInv, TypeOK
  <2>2. root \in Nat /\ root <= clock /\ (root' = root \/ root' = clock')
    BY Numbers DEF Write, OrderInv, TypeOK
  <2>3. /\ disk' = disk /\ safe' = safe /\ cached'[Root] = cached[Root]
        /\ cached[Root] \in Nat /\ cached[Root] <= root
    BY <1>3, <2>1, FileFacts DEF Write, OrderInv
  <2>4. \A f \in Files : disk[f] <= cached'[f] /\ cached'[f] <= clock'
    BY <1>1, <2>1 DEF OrderInv
  <2>5. root' <= clock' /\ cached'[Root] <= root'
    BY <1>1, <2>1, <2>2, <2>3, FileFacts
  <2> QED BY <2>3, <2>4, <2>5 DEF OrderInv
<1>10. KeptInv' /\ SecuredInv' /\ QuietInv'
  BY DEF Write, KeptInv, SecuredInv, QuietInv
<1>11. StageInv'
  BY DEF Write, StageInv, FilesOf
<1>12. Written' = Written /\ Hardened' = Hardened
  BY DEF Write, Written, Hardened, FilesOf
<1>13. FloorInv'
  <2>1. \A e \in Data : cached[e] <= cached'[e]
    BY <1>1, <1>3, FileFacts, Numbers DEF OrderInv, TypeOK
  <2>2. /\ \A e \in Data : mark[e] \in Nat /\ cached[e] \in Nat /\ cached'[e] \in Nat
        /\ mark[Root] \in Nat /\ root \in Nat /\ root' \in Nat /\ root <= root'
        /\ cached'[Root] = cached[Root]
    BY <1>1, <1>3, <1>4, FileFacts, Numbers DEF Write, OrderInv, TypeOK
  <2> QED BY <1>12, <2>1, <2>2 DEF Write, FloorInv
<1>14. WholeInv'
  BY <1>12 DEF Write, WholeInv, Whole
<1> QED BY <1>6, <1>7, <1>8, <1>9, <1>10, <1>11, <1>13, <1>14

--------------------------------------------------------------------------------
(* The files of each stage, and the stage after it.                         *)
LEMMA StageFiles ==
  /\ FilesOf("idle") = {} /\ FilesOf("publish") = {}
  /\ FilesOf("blocks") = Data \union {Meta} /\ FilesOf("table") = Parts
  /\ FilesOf("metadata") = {Meta} /\ FilesOf("directory") = Files
  /\ FilesOf("metadata") \subseteq Files /\ FilesOf("blocks") \subseteq Files
  /\ NextStage("publish") = "table" /\ NextStage("table") = "metadata"
  /\ \A s \in {"blocks", "metadata"} : NextStage(s) = IF all THEN "directory" ELSE "idle"
  /\ NextStage("directory") = "idle"
BY FileFacts DEF FilesOf, NextStage, Parts

(* A synchronization begins with the tensor as it is.                       *)
LEMMA BeginSyncInv ==
  ASSUME IInv, BeginSync
  PROVE  IInv'
<1> USE DEF IInv, stores, history
<1>1. /\ handle = "open" /\ stage = "idle" /\ mark' = Now /\ quiet' = TRUE /\ all' \in BOOLEAN
      /\ stage' = FirstStage /\ todo' = FilesOf(FirstStage) /\ todo' \subseteq Files
      /\ UNCHANGED <<layout, handle, made, root, stores, clock, past, kept, secured, floor, base>>
  BY StageFiles, FileFacts DEF BeginSync, Enter, FirstStage
<1>2. /\ Now \in States /\ Now[Root] = root
      /\ \A d \in Data : Now[d] = cached[d]
  BY NowFacts
<1>3. /\ layout = "dense" => stage' = "blocks"
      /\ layout = "sparse" => stage' = "publish"
      /\ stage' \in {"blocks", "publish"}
  BY <1>1 DEF FirstStage, TypeOK
<1>4. Written' = {} /\ Hardened' = {}
  BY <1>1, <1>3 DEF Written, Hardened, FilesOf
<1>5. TypeOK'
  BY <1>1, <1>2, <1>3 DEF TypeOK
<1>6. CreatingInv' /\ OpenInv' /\ OrderInv' /\ KeptInv' /\ SecuredInv'
  <2>1. Now' = Now
    BY <1>1 DEF Now, StateIn
  <2> QED BY <1>1, <2>1 DEF CreatingInv, OpenInv, OrderInv, KeptInv, SecuredInv
<1>7. StageInv'
  <2>1. todo' \subseteq FilesOf(stage')
    BY <1>1
  <2>2. stage' # "directory" /\ handle' = "open" /\ layout' = layout
    BY <1>1, <1>3
  <2>3. layout = "dense" \/ layout = "sparse"
    BY DEF TypeOK
  <2> QED BY <1>3, <2>1, <2>2, <2>3 DEF StageInv
<1>8. QuietInv'
  BY <1>1, <1>2, <1>3, <1>4 DEF QuietInv, OpenInv
<1>9. FloorInv'
  <2>1. /\ \A d \in Data : cached[d] \in Nat
        /\ root \in Nat
        /\ layout = "dense" => root = cached[Root]
    BY FileFacts, Numbers DEF TypeOK, OpenInv
  <2>2. stage' # "publish" => mark'[Root] <= cached[Root]
    BY <1>1, <1>2, <1>3, <2>1 DEF TypeOK
  <2> QED BY <1>1, <1>2, <1>4, <2>1, <2>2 DEF FloorInv
<1>10. WholeInv'
  BY <1>1, <1>2, <1>4 DEF WholeInv, Whole, OpenInv
<1> QED BY <1>5, <1>6, <1>7, <1>8, <1>9, <1>10

(* A sync that puts the root into its file keeps the invariant.             *)
LEMMA PublishRootInv ==
  ASSUME IInv, PublishRoot
  PROVE  IInv'
<1> USE DEF IInv, stores, history
<1>1. /\ handle = "open" /\ layout = "sparse" /\ stage' = "table" /\ todo' = Parts
      /\ cached' = [cached EXCEPT ![Root] = root]
      /\ UNCHANGED <<layout, handle, made, root, disk, safe, all, clock, history>>
  BY StageFiles DEF PublishRoot, Enter, StageInv
<1>2. /\ cached' \in Contents /\ cached'[Root] = root
      /\ \A f \in Files : f # Root => cached'[f] = cached[f]
  BY <1>1, FileFacts DEF TypeOK, Contents
<1>3. Written' = {} /\ Hardened' = {}
  BY <1>1, StageFiles DEF Written, Hardened, FilesOf, Parts
<1>4. Now' = Now
  <2>1. Now' \in States /\ Now'[Root] = root /\ \A d \in Data : Now'[d] = cached[d]
    <3>1. root' \in Versions /\ Now' = [StateIn(cached') EXCEPT ![Root] = root']
      BY <1>1 DEF Now, TypeOK
    <3>2. Now' \in States /\ Now'[Root] = root' /\ \A d \in Data : Now'[d] = cached'[d]
      BY <1>2, <3>1, StateFacts, FileFacts DEF States, Parts
    <3> QED BY <1>1, <1>2, <3>2, FileFacts
  <2> QED BY <2>1, NowFacts, SameState
<1>5. TypeOK'
  BY <1>1, <1>2, FileFacts DEF TypeOK
<1>6. CreatingInv' /\ SecuredInv'
  BY <1>1, <1>2, FileFacts DEF CreatingInv, SecuredInv
<1>7. OpenInv'
  BY <1>1, <1>2, <1>4, FileFacts DEF OpenInv
<1>8. KeptInv'
  BY <1>1, <1>2, FileFacts DEF KeptInv
<1>9. StageInv'
  BY <1>1, StageFiles DEF StageInv
<1>10. QuietInv'
  BY <1>1, <1>2, <1>3, FileFacts DEF QuietInv, PublishRoot
<1>11. FloorInv'
  BY <1>1, <1>2, <1>3, FileFacts DEF FloorInv, PublishRoot
<1>12. OrderInv'
  <2>1. /\ cached[Root] \in Nat /\ disk[Root] \in Nat /\ root \in Nat /\ clock \in Nat
        /\ cached[Root] <= root /\ root <= clock
    BY <1>1, FileFacts, Numbers DEF OrderInv, TypeOK, First
  <2> QED BY <1>1, <1>2, <2>1, FileFacts DEF OrderInv
<1>13. WholeInv'
  BY <1>1, <1>3 DEF WholeInv, Whole, PublishRoot
<1> QED BY <1>5, <1>6, <1>7, <1>8, <1>9, <1>10, <1>11, <1>12, <1>13

(* A file is written: it is on the filesystem as it is in the cache.        *)
LEMMA SaveFileInv ==
  ASSUME IInv, SaveFile
  PROVE  IInv'
<1> USE DEF IInv, stores, history
<1>1. PICK f \in todo :
        /\ disk' = [disk EXCEPT ![f] = cached[f]]
        /\ safe' = IF stage = "directory" THEN [safe EXCEPT ![f] = cached[f]] ELSE safe
        /\ todo' = todo \ {f}
        /\ UNCHANGED <<layout, handle, made, root, cached, stage, all, clock, history>>
  BY DEF SaveFile, Saved
<1>2. /\ f \in Files /\ stage # "idle" /\ handle = "open" /\ f \in FilesOf(stage)
  BY <1>1, StageFiles DEF TypeOK, StageInv
<1>3. /\ disk' \in Contents /\ disk'[f] = cached[f]
      /\ \A g \in Files : g # f => disk'[g] = disk[g]
  BY <1>1, <1>2 DEF TypeOK, Contents
<1>4. /\ safe' \in Contents
      /\ \A g \in Files : safe'[g] = safe[g] \/ (g = f /\ safe'[g] = cached[g])
      /\ stage = "directory" => safe'[f] = cached[f]
  BY <1>1, <1>2 DEF TypeOK, Contents
<1>5. Written' \subseteq Written \union {f} /\ Hardened' \subseteq Hardened \union {f}
  BY <1>1 DEF Written, Hardened, FilesOf
<1>6. /\ Written \subseteq Files /\ Hardened \subseteq Files
      /\ Hardened' # {} => stage = "directory"
  BY <1>1, StageFiles, FileFacts DEF Written, Hardened, TypeOK, FilesOf
<1>7. Now' = Now
  BY <1>1 DEF Now, StateIn
<1>8. TypeOK'
  BY <1>1, <1>3, <1>4 DEF TypeOK
<1>9. CreatingInv' /\ StageInv'
  BY <1>1, <1>2 DEF CreatingInv, StageInv, FilesOf
<1>10. OpenInv'
  BY <1>1, <1>2, <1>3, <1>4, <1>7, FileFacts DEF OpenInv
<1>11. OrderInv'
  <2>1. \A g \in Files : cached[g] \in Nat /\ disk[g] \in Nat /\ safe[g] \in Nat
    BY Numbers DEF TypeOK
  <2> QED BY <1>1, <1>3, <1>4, <2>1, FileFacts DEF OrderInv
<1>12. KeptInv'
  BY <1>1, <1>3, FileFacts DEF KeptInv
<1>13. SecuredInv'
  BY <1>1, <1>4, FileFacts DEF SecuredInv, KeptInv
<1>14. QuietInv'
  BY <1>1, <1>3, <1>4, <1>5, <1>6 DEF QuietInv
<1>15. FloorInv'
  <2>1. \A g \in Parts : disk[g] <= disk'[g] /\ safe[g] <= safe'[g]
    BY <1>3, <1>4, FileFacts, Numbers DEF OrderInv, TypeOK
  <2>2. \A g \in Parts : /\ base[g] \in Nat /\ mark[g] \in Nat /\ floor[g] \in Nat
                         /\ disk[g] \in Nat /\ disk'[g] \in Nat
                         /\ safe[g] \in Nat /\ safe'[g] \in Nat
    BY <1>3, <1>4, FileFacts, Numbers DEF TypeOK
  <2>3. f \in Parts => mark[f] <= cached[f]
    BY <1>1, <1>2, StageFiles DEF FloorInv, Parts
  <2>4. \A g \in Parts \intersect Written' : mark[g] <= disk'[g]
    BY <1>2, <1>3, <1>5, <2>1, <2>2, <2>3 DEF FloorInv
  <2>5. \A g \in Parts \intersect Hardened' : mark[g] <= safe'[g]
    BY <1>2, <1>4, <1>5, <1>6, <2>1, <2>2, <2>3 DEF FloorInv
  <2> QED BY <1>1, <2>1, <2>2, <2>3, <2>4, <2>5 DEF FloorInv
<1>16. WholeInv'
  <2>1. /\ cached[Meta] # Absent
        /\ disk[Meta] # Absent => disk'[Meta] # Absent
        /\ safe[Meta] # Absent => safe'[Meta] # Absent
        /\ Meta \in Written' => Meta \in Written \/ disk'[Meta] # Absent
        /\ Meta \in Hardened' => Meta \in Hardened \/ safe'[Meta] # Absent
    BY <1>2, <1>3, <1>4, <1>5, <1>6, FileFacts DEF OpenInv
  <2> QED BY <1>1, <1>2, <2>1 DEF WholeInv, Whole
<1> QED BY <1>8, <1>9, <1>10, <1>11, <1>12, <1>13, <1>14, <1>15, <1>16

(* A stage ends; the last one makes a promise if nothing was written.       *)
LEMMA EndStageInv ==
  ASSUME IInv, EndStage
  PROVE  IInv'
<1> USE DEF IInv, stores, history
<1> DEFINE next == NextStage(stage)
<1>1. /\ stage # "idle" /\ stage # "publish" /\ todo = {} /\ handle = "open"
      /\ stage' = next /\ todo' = FilesOf(next)
      /\ UNCHANGED <<layout, handle, made, root, stores, all, clock, past, mark, quiet>>
  BY DEF EndStage, Enter, StageInv
<1>2. /\ stage \in {"blocks", "table", "metadata", "directory"}
      /\ stage = "table" => next = "metadata"
      /\ stage \in {"blocks", "metadata"} => next = IF all THEN "directory" ELSE "idle"
      /\ stage = "directory" => next = "idle" /\ all
      /\ next \in {"metadata", "directory", "idle"}
      /\ FilesOf(next) \subseteq Files
  BY <1>1, StageFiles DEF TypeOK, StageInv
<1>3. /\ stage = "blocks" => Written = Data \union {Meta}
      /\ stage = "table" => Written = Parts
      /\ stage \in {"metadata", "directory"} => Written = Files
      /\ stage = "directory" => Hardened = Files
  BY <1>1, StageFiles DEF Written, Hardened
<1>4. /\ next = "metadata" => Written' \subseteq Parts
      /\ next = "directory" => Written' = Files
      /\ Hardened' = {}
  BY <1>1, <1>2, StageFiles, FileFacts DEF Written, Hardened
<1>5. Now' = Now
  BY <1>1 DEF Now, StateIn
<1>6. quiet /\ next = "idle" =>
        /\ cached[Meta] # Absent /\ disk[Meta] # Absent
        /\ \A d \in Data : mark[d] # Absent
        /\ layout = "sparse" => mark \in past /\ mark[Root] # Absent
        /\ \A f \in Parts : cached[f] = mark[f] /\ disk[f] = mark[f]
        /\ root = mark[Root]
        /\ all => safe[Meta] # Absent /\ \A f \in Parts : safe[f] = mark[f]
  <2> SUFFICES ASSUME quiet, next = "idle"
               PROVE  /\ cached[Meta] # Absent /\ disk[Meta] # Absent
                      /\ \A d \in Data : mark[d] # Absent
                      /\ layout = "sparse" => mark \in past /\ mark[Root] # Absent
                      /\ \A f \in Parts : cached[f] = mark[f] /\ disk[f] = mark[f]
                      /\ root = mark[Root]
                      /\ all => safe[Meta] # Absent /\ \A f \in Parts : safe[f] = mark[f]
    OBVIOUS
  <2>1. /\ \A d \in Data : mark[d] = cached[d] /\ cached[d] # Absent
        /\ cached[Meta] # Absent /\ root = mark[Root]
        /\ layout = "sparse" => mark \in past /\ root # Absent /\ cached[Root] = root
        /\ \A f \in Written : disk[f] = cached[f]
        /\ \A f \in Hardened : safe[f] = cached[f]
    BY <1>1 DEF QuietInv, OpenInv
  <2>2. /\ stage \in {"blocks", "metadata", "directory"}
        /\ Data \union {Meta} \subseteq Written
        /\ layout = "sparse" => Root \in Written
    BY <1>2, <1>3, FileFacts DEF StageInv
  <2>3. \A f \in Parts : cached[f] = mark[f]
    <3>1. layout = "dense" => cached[Root] = root
      BY DEF OpenInv
    <3> QED BY <2>1, <3>1 DEF Parts, TypeOK
  <2>4. \A f \in Parts : disk[f] = cached[f]
    <3>1. layout = "dense" => cached[Root] = disk[Root]
      BY DEF OpenInv
    <3> QED BY <2>1, <2>2, <3>1 DEF Parts, TypeOK
  <2>5. all => stage = "directory"
    BY <1>2, <2>2
  <2>6. all => safe[Meta] # Absent /\ \A f \in Parts : safe[f] = cached[f]
    BY <1>3, <2>1, <2>5, FileFacts
  <2> QED BY <2>1, <2>2, <2>3, <2>4, <2>6, FileFacts
<1>7. next = "idle" =>
        /\ \A f \in Parts : mark[f] <= disk[f] /\ (all => mark[f] <= safe[f])
        /\ Whole(mark) /\ disk[Meta] # Absent /\ (all => safe[Meta] # Absent)
  <2> SUFFICES ASSUME next = "idle"
               PROVE  /\ \A f \in Parts : mark[f] <= disk[f] /\ (all => mark[f] <= safe[f])
                      /\ Whole(mark) /\ disk[Meta] # Absent /\ (all => safe[Meta] # Absent)
    OBVIOUS
  <2>1. /\ Data \union {Meta} \subseteq Written
        /\ layout = "sparse" => Root \in Written
        /\ all => Hardened = Files
    BY <1>1, <1>2, <1>3, FileFacts DEF StageInv
  <2>2. layout = "dense" => mark[Root] <= disk[Root]
    BY <1>1 DEF FloorInv, OpenInv
  <2>3. layout = "dense" \/ layout = "sparse"
    BY DEF TypeOK
  <2>4. \A f \in Parts : mark[f] <= disk[f]
    BY <1>1, <2>1, <2>2, <2>3 DEF FloorInv, Parts
  <2>5. all => \A f \in Parts : mark[f] <= safe[f]
    BY <1>1, <2>1, FileFacts DEF FloorInv
  <2>6. Whole(mark) /\ disk[Meta] # Absent /\ (all => safe[Meta] # Absent)
    BY <1>1, <2>1, FileFacts DEF WholeInv
  <2> QED BY <2>4, <2>5, <2>6
<1>8. /\ kept' = IF next = "idle" /\ quiet THEN {mark} ELSE kept
      /\ secured' = IF next = "idle" /\ all /\ quiet THEN {mark} ELSE secured
      /\ floor' = IF next = "idle" THEN mark ELSE floor
      /\ base' = IF next = "idle" /\ all THEN mark ELSE base
  BY DEF EndStage
<1>9. TypeOK'
  BY <1>1, <1>2, <1>8 DEF TypeOK
<1>10. CreatingInv' /\ OpenInv' /\ OrderInv'
  BY <1>1, <1>5 DEF CreatingInv, OpenInv, OrderInv
<1>11. KeptInv'
  BY <1>1, <1>6, <1>8 DEF KeptInv
<1>12. SecuredInv'
  <2>1. \A s \in secured : next = "idle" /\ quiet => s = mark
    <3> TAKE s \in secured
    <3>1. s \in kept /\ s \in States /\ mark \in States
      BY DEF SecuredInv, TypeOK
    <3>2. \A f \in Parts : cached[f] = s[f]
      BY <3>1 DEF KeptInv
    <3> QED BY <1>6, <3>1, <3>2 DEF States, Parts
  <2> QED BY <1>1, <1>6, <1>8, <2>1 DEF SecuredInv
<1>13. StageInv'
  BY <1>1, <1>2 DEF StageInv, TypeOK
<1>14. QuietInv'
  <2> SUFFICES ASSUME stage' # "idle", quiet'
               PROVE  QuietInv'
    BY DEF QuietInv
  <2>1. /\ \A d \in Data : mark[d] = cached[d]
        /\ mark[Root] = root
        /\ layout = "sparse" => mark \in past /\ cached[Root] = root
        /\ \A f \in Written : disk[f] = cached[f]
    BY <1>1 DEF QuietInv
  <2>2. layout = "dense" => disk[Root] = cached[Root]
    BY DEF OpenInv
  <2>3. Written' \subseteq Written \union (IF layout = "dense" THEN {Root} ELSE {})
    BY <1>1, <1>2, <1>3, <1>4, FileFacts DEF StageInv, TypeOK
  <2>4. \A f \in Written' : disk[f] = cached[f]
    BY <2>1, <2>2, <2>3
  <2> QED BY <1>1, <1>4, <2>1, <2>4 DEF QuietInv
<1>15. FloorInv'
  <2>1. next # "idle" => \A f \in Parts \intersect Written' : mark[f] <= disk[f]
    <3>1. layout = "dense" => mark[Root] <= disk[Root]
      BY <1>1 DEF FloorInv, OpenInv
    <3>2. next # "idle" => Written' \subseteq Written \union (IF layout = "dense" THEN {Root} ELSE {})
      BY <1>1, <1>2, <1>3, <1>4, FileFacts DEF StageInv, TypeOK
    <3> QED BY <1>1, <3>1, <3>2 DEF FloorInv
  <2>2. stage' # "publish"
    BY <1>1, <1>2
  <2> QED BY <1>1, <1>4, <1>7, <1>8, <2>1, <2>2 DEF FloorInv
<1>16. WholeInv'
  <2>1. next = "directory" => Meta \in Written
    BY <1>1, <1>2, <1>3, FileFacts
  <2>2. Meta \in Written' => next = "directory"
    BY <1>1, <1>2, <1>4, StageFiles, FileFacts DEF Written
  <2> QED BY <1>1, <1>4, <1>7, <1>8, <2>1, <2>2 DEF WholeInv, Whole
<1> QED BY <1>9, <1>10, <1>11, <1>12, <1>13, <1>14, <1>15, <1>16

(* Giving up promises nothing.                                              *)
LEMMA BreakSyncInv ==
  ASSUME IInv, BreakSync
  PROVE  IInv'
<1> USE DEF IInv, stores, history
<1>1. /\ stage' = "idle" /\ todo' = {} /\ handle = "open"
      /\ UNCHANGED <<layout, handle, made, root, stores, all, clock, history>>
  BY StageFiles DEF BreakSync, Enter, StageInv
<1>2. Now' = Now
  BY <1>1 DEF Now, StateIn
<1>3. TypeOK'
  BY <1>1 DEF TypeOK
<1>4. CreatingInv' /\ OpenInv' /\ OrderInv' /\ KeptInv' /\ SecuredInv'
  BY <1>1, <1>2 DEF CreatingInv, OpenInv, OrderInv, KeptInv, SecuredInv
<1>5. StageInv' /\ QuietInv' /\ FloorInv' /\ WholeInv'
  BY <1>1, StageFiles DEF StageInv, QuietInv, FloorInv, WholeInv, Whole
<1> QED BY <1>3, <1>4, <1>5

--------------------------------------------------------------------------------
(* The environment.                                                         *)
LEMMA SpillInv ==
  ASSUME IInv, Spill
  PROVE  IInv'
<1> USE DEF IInv, stores, syncing, history
<1>1. PICK f \in Files :
        /\ disk' = [disk EXCEPT ![f] = cached[f]]
        /\ UNCHANGED <<layout, handle, made, root, cached, safe, syncing, clock, history>>
  BY DEF Spill
<1>2. /\ disk' \in Contents
      /\ \A g \in Files : disk'[g] = disk[g] \/ disk'[g] = cached[g]
      /\ \A g \in Files : disk[g] = cached[g] => disk'[g] = cached[g]
  BY <1>1 DEF TypeOK, Contents
<1>3. Now' = Now /\ Written' = Written /\ Hardened' = Hardened
  BY <1>1 DEF Now, StateIn, Written, Hardened, FilesOf
<1>4. Written \subseteq Files
  BY StageFiles, FileFacts DEF Written, TypeOK, FilesOf
<1>5. TypeOK'
  BY <1>1, <1>2 DEF TypeOK
<1>6. CreatingInv' /\ StageInv' /\ SecuredInv'
  BY <1>1 DEF CreatingInv, StageInv, SecuredInv, FilesOf
<1>7. OpenInv'
  BY <1>1, <1>2, <1>3, FileFacts DEF OpenInv
<1>8. \A g \in Files : disk[g] <= disk'[g] /\ safe[g] <= disk'[g] /\ disk'[g] <= cached[g]
  BY <1>2, Numbers DEF OrderInv, TypeOK
<1>9. OrderInv'
  BY <1>1, <1>8 DEF OrderInv
<1>10. KeptInv'
  BY <1>1, <1>2, FileFacts DEF KeptInv
<1>11. QuietInv'
  BY <1>1, <1>2, <1>3, <1>4 DEF QuietInv
<1>12. FloorInv'
  <2>1. \A g \in Parts : /\ mark[g] \in Nat /\ floor[g] \in Nat
                         /\ disk[g] \in Nat /\ disk'[g] \in Nat /\ disk[g] <= disk'[g]
    BY <1>2, <1>8, FileFacts, Numbers DEF TypeOK
  <2> QED BY <1>1, <1>3, <2>1 DEF FloorInv
<1>13. WholeInv'
  <2>1. disk[Meta] # Absent => disk'[Meta] # Absent
    BY <1>2, <1>8, FileFacts, Numbers DEF TypeOK, Absent
  <2> QED BY <1>1, <1>3, <2>1 DEF WholeInv, Whole
<1> QED BY <1>5, <1>6, <1>7, <1>9, <1>10, <1>11, <1>12, <1>13

(* A file that the operating system writes back keeps the invariant.        *)
LEMMA WriteBackInv ==
  ASSUME IInv, WriteBack
  PROVE  IInv'
<1> USE DEF IInv, stores, syncing, history
<1>1. PICK f \in Files :
        /\ safe' = [safe EXCEPT ![f] = disk[f]]
        /\ UNCHANGED <<layout, handle, made, root, cached, disk, syncing, clock, history>>
  BY DEF WriteBack
<1>2. /\ safe' \in Contents
      /\ \A g \in Files : safe'[g] = safe[g] \/ safe'[g] = disk[g]
  BY <1>1 DEF TypeOK, Contents
<1>3. Now' = Now /\ Written' = Written /\ Hardened' = Hardened
  BY <1>1 DEF Now, StateIn, Written, Hardened, FilesOf
<1>4. Hardened \subseteq Files /\ (Hardened # {} => Written = Files)
  BY DEF Written, Hardened
<1>5. TypeOK'
  BY <1>1, <1>2 DEF TypeOK
<1>6. CreatingInv' /\ StageInv' /\ KeptInv'
  BY <1>1 DEF CreatingInv, StageInv, KeptInv, FilesOf
<1>7. OpenInv'
  BY <1>1, <1>2, <1>3, FileFacts DEF OpenInv
<1>8. \A g \in Files : safe[g] <= safe'[g] /\ safe'[g] <= disk[g]
  BY <1>2, Numbers DEF OrderInv, TypeOK
<1>9. OrderInv'
  BY <1>1, <1>8 DEF OrderInv
<1>10. SecuredInv'
  BY <1>1, <1>2, FileFacts DEF SecuredInv, KeptInv
<1>11. QuietInv'
  BY <1>1, <1>2, <1>3, <1>4 DEF QuietInv
<1>12. FloorInv'
  <2>1. \A g \in Parts : /\ mark[g] \in Nat /\ base[g] \in Nat
                         /\ safe[g] \in Nat /\ safe'[g] \in Nat /\ safe[g] <= safe'[g]
    BY <1>2, <1>8, FileFacts, Numbers DEF TypeOK
  <2> QED BY <1>1, <1>3, <2>1 DEF FloorInv
<1>13. WholeInv'
  <2>1. safe[Meta] # Absent => safe'[Meta] # Absent
    BY <1>2, <1>8, FileFacts, Numbers DEF TypeOK, Absent
  <2> QED BY <1>1, <1>3, <2>1 DEF WholeInv, Whole
<1> QED BY <1>5, <1>6, <1>7, <1>9, <1>10, <1>11, <1>12, <1>13

(* Dropping the tensor keeps the invariant.                                 *)
LEMMA CloseInv ==
  ASSUME IInv, Close
  PROVE  IInv'
<1> USE DEF IInv, stores, syncing, history
<1>1. /\ handle' = "closed" /\ stage = "idle"
      /\ UNCHANGED <<layout, made, root, stores, syncing, clock, history>>
  BY DEF Close
<1>2. Now' = Now
  BY <1>1 DEF Now, StateIn
<1>3. TypeOK'
  BY <1>1 DEF TypeOK
<1>4. CreatingInv' /\ OpenInv' /\ OrderInv' /\ KeptInv' /\ SecuredInv'
  BY <1>1, <1>2 DEF CreatingInv, OpenInv, OrderInv, KeptInv, SecuredInv
<1>5. StageInv' /\ QuietInv' /\ FloorInv' /\ WholeInv'
  BY <1>1, StageFiles DEF StageInv, QuietInv, FloorInv, WholeInv, Whole
<1> QED BY <1>3, <1>4, <1>5

(* The filesystem has what was kept when the cache is lost.                 *)
LEMMA CrashInv ==
  ASSUME IInv, Crash
  PROVE  IInv'
<1> USE DEF IInv, stores, history
<1>1. /\ handle' = "closed" /\ stage' = "idle" /\ todo' = {} /\ cached' = disk
      /\ UNCHANGED <<layout, made, root, disk, safe, all, clock, history>>
  BY StageFiles DEF Crash, Enter
<1>2. TypeOK'
  BY <1>1 DEF TypeOK
<1>3. CreatingInv' /\ OpenInv' /\ KeptInv' /\ SecuredInv'
  BY <1>1 DEF CreatingInv, OpenInv, KeptInv, SecuredInv
<1>4. OrderInv'
  BY <1>1, Numbers DEF OrderInv, TypeOK
<1>5. StageInv' /\ QuietInv' /\ FloorInv' /\ WholeInv'
  BY <1>1, StageFiles, FileFacts DEF StageInv, QuietInv, FloorInv, WholeInv, Whole
<1> QED BY <1>2, <1>3, <1>4, <1>5

(* The medium has what was secured when the machine stops.                  *)
LEMMA PowerLossInv ==
  ASSUME IInv, PowerLoss
  PROVE  IInv'
<1> USE DEF IInv, stores, history
<1>1. /\ handle' = "closed" /\ stage' = "idle" /\ todo' = {}
      /\ cached' = safe /\ disk' = safe /\ kept' = secured /\ floor' = base
      /\ UNCHANGED <<layout, made, root, safe, all, clock, past, mark, quiet, secured, base>>
  BY StageFiles DEF PowerLoss, Enter
<1>2. TypeOK'
  BY <1>1 DEF TypeOK
<1>3. CreatingInv' /\ OpenInv'
  BY <1>1 DEF CreatingInv, OpenInv
<1>4. KeptInv' /\ SecuredInv'
  BY <1>1 DEF KeptInv, SecuredInv
<1>5. OrderInv'
  BY <1>1, Numbers DEF OrderInv, TypeOK
<1>6. StageInv' /\ QuietInv' /\ FloorInv' /\ WholeInv'
  BY <1>1, StageFiles, FileFacts DEF StageInv, QuietInv, FloorInv, WholeInv, Whole
<1> QED BY <1>2, <1>3, <1>4, <1>5, <1>6

(* Loading opens the state that the files hold, whatever state that is.     *)
LEMMA LoadInv ==
  ASSUME IInv, Load
  PROVE  IInv'
<1> USE DEF IInv, stores, syncing, history
<1>1. /\ handle = "closed" /\ Complete(cached) /\ root' = cached[Root]
      /\ handle' = "open" /\ past' = past \union {Now'}
      /\ UNCHANGED <<layout, made, stores, syncing, clock,
                     mark, quiet, kept, secured, floor, base>>
  BY DEF Load, Accepts
<1>2. root' \in Versions /\ stage = "idle"
  BY <1>1, FileFacts DEF TypeOK, Contents, StageInv
<1>3. Now' = StateIn(cached) /\ Now' \in States
  <2>1. /\ StateIn(cached) \in States /\ StateIn(cached)[Root] = cached[Root]
        /\ \A d \in Data : StateIn(cached)[d] = cached[d]
    BY StateFacts, FileFacts DEF TypeOK
  <2>2. Now' = [StateIn(cached) EXCEPT ![Root] = cached[Root]]
    BY <1>1 DEF Now, StateIn
  <2> QED BY <2>1, <2>2 DEF States
<1>4. TypeOK'
  BY <1>1, <1>2, <1>3 DEF TypeOK
<1>5. CreatingInv' /\ OrderInv' /\ SecuredInv'
  BY <1>1, FileFacts, Numbers DEF CreatingInv, OrderInv, SecuredInv, TypeOK
<1>6. OpenInv'
  BY <1>1, <1>3 DEF OpenInv, Complete, TypeOK
<1>7. KeptInv'
  BY <1>1, FileFacts DEF KeptInv
<1>8. StageInv' /\ QuietInv' /\ FloorInv' /\ WholeInv'
  BY <1>1, <1>2, StageFiles DEF StageInv, QuietInv, FloorInv, WholeInv, Whole
<1> QED BY <1>4, <1>5, <1>6, <1>7, <1>8

(* Every step keeps the invariant.                                          *)
LEMMA StepInv ==
  ASSUME IInv, [Next]_vars
  PROVE  IInv'
<1>1. CASE InitializeBlock \/ CreateTable \/ PublishMetadata
  BY <1>1, InitializeBlockInv, CreateTableInv, PublishMetadataInv
<1>2. CASE Write
  BY <1>2, WriteInv
<1>3. CASE Sync
  BY <1>3, BeginSyncInv, PublishRootInv, SaveFileInv, EndStageInv, BreakSyncInv DEF Sync
<1>4. CASE Environment
  BY <1>4, SpillInv, WriteBackInv, CloseInv, CrashInv, PowerLossInv DEF Environment
<1>5. CASE Load
  BY <1>5, LoadInv
<1>6. CASE UNCHANGED vars
  BY <1>6, Unchanged
<1> QED BY <1>1, <1>2, <1>3, <1>4, <1>5, <1>6 DEF Next

(* The invariant holds in every state of every behaviour.                   *)
LEMMA Invariance == Spec => []IInv
<1>1. Init => IInv
  BY InitInv
<1>2. IInv /\ [Next]_vars => IInv'
  BY StepInv
<1> QED BY <1>1, <1>2, PTL DEF Spec

--------------------------------------------------------------------------------
(* TensorLifecycle's variables keep their types.                            *)
THEOREM TypeCorrect == Spec => []TypeOK
<1>1. IInv => TypeOK
  BY DEF IInv
<1> QED BY <1>1, Invariance, PTL

(* Complete files that hold a state give that state to whoever opens them.  *)
LEMMA HoldingGives ==
  ASSUME NEW store \in Contents, NEW s \in States,
         store[Meta] # Absent, \A f \in Parts : store[f] = s[f], \A d \in Data : s[d] # Absent,
         layout = "sparse" => s \in past /\ s[Root] # Absent
  PROVE  Gives(store, s)
BY StateIs, FileFacts DEF Gives, Complete

(* Tensor::sync keeps what it wrote: reopening finds it after the handles   *)
(* are dropped, the cache spilled, or the process crashed any number of     *)
(* times, whatever was interrupted.                                         *)
THEOREM SyncKeeps == Spec => []SyncedIsKept
<1>1. IInv => SyncedIsKept
  <2> SUFFICES ASSUME IInv, NEW s \in kept
               PROVE  Gives(cached, s) /\ Gives(disk, s)
    BY DEF SyncedIsKept
  <2>1. /\ cached \in Contents /\ disk \in Contents /\ s \in States
        /\ cached[Meta] # Absent /\ disk[Meta] # Absent /\ \A d \in Data : s[d] # Absent
        /\ layout = "sparse" => s \in past /\ s[Root] # Absent
        /\ \A f \in Parts : cached[f] = s[f] /\ disk[f] = s[f]
    BY DEF IInv, TypeOK, KeptInv
  <2> QED BY <2>1, HoldingGives
<1> QED BY <1>1, Invariance, PTL

(* Tensor::sync_all keeps it against the loss of the machine too.           *)
THEOREM SyncAllSecures == Spec => []SecuredIsDurable
<1>1. IInv => SecuredIsDurable
  <2> SUFFICES ASSUME IInv, NEW s \in secured
               PROVE  Gives(cached, s) /\ Gives(disk, s) /\ Gives(safe, s)
    BY DEF SecuredIsDurable
  <2>1. /\ cached \in Contents /\ disk \in Contents /\ safe \in Contents /\ s \in States
        /\ s \in kept /\ safe[Meta] # Absent /\ \A f \in Parts : safe[f] = s[f]
    BY DEF IInv, TypeOK, SecuredInv
  <2>2. /\ cached[Meta] # Absent /\ disk[Meta] # Absent /\ \A d \in Data : s[d] # Absent
        /\ layout = "sparse" => s \in past /\ s[Root] # Absent
        /\ \A f \in Parts : cached[f] = s[f] /\ disk[f] = s[f]
    BY <2>1 DEF IInv, KeptInv
  <2> QED BY <2>1, <2>2, HoldingGives
<1> QED BY <1>1, Invariance, PTL

(* No crash brings back a file older than the last completed sync began     *)
(* with, and no loss of the machine one older than the last sync_all did,   *)
(* though writes raced with them and strict loading may have taken files of *)
(* different states for a table; nor does such a table open under an older  *)
(* root.                                                                    *)
THEOREM SyncIsALowerBound == Spec => []FilesNeverGoBack
<1>1. IInv => FilesNeverGoBack
  <2> SUFFICES ASSUME IInv
               PROVE  FilesNeverGoBack
    OBVIOUS
  <2>1. \A f \in Parts :
          /\ floor[f] \in Nat /\ disk[f] \in Nat /\ cached[f] \in Nat
          /\ floor[f] <= disk[f] /\ disk[f] <= cached[f] /\ base[f] <= safe[f]
    BY FileFacts, Numbers DEF IInv, TypeOK, FloorInv, OrderInv
  <2>2. root \in Nat /\ (handle = "open" => cached[Root] <= root)
    BY Numbers DEF IInv, TypeOK, OrderInv
  <2> QED BY <2>1, <2>2 DEF FilesNeverGoBack, Parts
<1> QED BY <1>1, Invariance, PTL

(* Files that are not older than those of a tensor that lacked nothing, and *)
(* have metadata, lack nothing.                                             *)
LEMMA NewerIsComplete ==
  ASSUME NEW store \in Contents, NEW s \in States, store[Meta] # Absent,
         Whole(s), \A f \in Parts : s[f] <= store[f]
  PROVE  Complete(store)
BY Numbers, FileFacts DEF Whole, Complete, Absent

(* What a sync has written, with writes in between or not, is never refused *)
(* for a missing file after a process crash, nor what a sync_all has        *)
(* written after the loss of the machine, whatever was spilled, interrupted *)
(* or lost before and since.                                                *)
THEOREM SyncedLoads == Spec => []SyncedStaysLoadable
<1>1. IInv => SyncedStaysLoadable
  <2> SUFFICES ASSUME IInv
               PROVE  SyncedStaysLoadable
    OBVIOUS
  <2>1. /\ cached \in Contents /\ disk \in Contents /\ safe \in Contents
        /\ floor \in States /\ base \in States
    BY DEF IInv, TypeOK
  <2>2. \A f \in Parts : floor[f] <= disk[f] /\ floor[f] <= cached[f] /\ base[f] <= safe[f]
    BY <2>1, FileFacts, Numbers DEF IInv, FloorInv, OrderInv
  <2>3. disk[Meta] # Absent => cached[Meta] # Absent
    BY <2>1, FileFacts, Numbers DEF IInv, OrderInv, Absent
  <2> QED BY <2>1, <2>2, <2>3, NewerIsComplete DEF IInv, WholeInv, SyncedStaysLoadable
<1> QED BY <1>1, Invariance, PTL

================================================================================
