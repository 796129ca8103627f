-------------------------- MODULE StorePublication --------------------------
(***************************************************************************)
(* PublishStore: a runner uploads the closure of what it built, signed and *)
(* encrypted, small archives packed into blobs and large ones alone, and   *)
(* records the paths that are complete. The coordinator publishes to its   *)
(* delta and extends its index with it. A helper is given a selection of   *)
(* the index and publishes the outputs of its task; the coordinator reuses *)
(* the archives of its result. Their calls touch different snapshots, and  *)
(* one is followed at a time.                                              *)
(*                                                                         *)
(* Uploads, nix and the upstream cache may fail at any time. Left out: the *)
(* bytes of archives but their sizes, and the offsets in a pack.           *)
(***************************************************************************)
EXTENDS SnapshotIndex, FiniteSetsExt

CONSTANTS
  Workers,       \* the goroutines of UploadWorkers
  Size,          \* the encrypted size of each archive
  PackSize,      \* cachePackSize, the limit of a pack
  PackedLimit,   \* packedArchiveLimit, above which an archive goes alone
  Heads,         \* what the coordinator starts from of the platform's head
  Required,      \* sets of paths the coordinator publishes
  Tasks,         \* what helpers build: [inputs, outputs]
  NoTask,        \* the coordinator's calls are followed
  Stores,        \* sets of paths the local store may hold
  Upstreams      \* sets of paths the upstream cache may hold

ASSUME StoreAssumption ==
  /\ Size \in [Archives -> Nat] /\ PackSize \in Nat /\ PackedLimit \in Nat
  /\ Required \subseteq SUBSET Paths /\ Upstreams \subseteq SUBSET Paths
  /\ NoTask \notin Tasks
  /\ Tasks \subseteq [inputs : SUBSET Paths, outputs : SUBSET Paths]
  /\ \A h \in Heads : IsSnapshot(h) /\ RequireClosed(h)
                       /\ \A a \in Archives : HasFile(h, a) => a \in h.files[a]
  /\ Stores \subseteq { S \in SUBSET Paths : \A p \in S : Refs[p] \subseteq S }

VARIABLES
  head,       \* what the coordinator started from
  index,      \* the coordinator's index: what the substituter and tasks get
  view,       \* the view that is to replace it, while it is being filled
  delta,      \* the coordinator's records, while a helper is followed
  task,       \* the task of the helper that is followed
  parent,     \* the parent of the calls followed: head, or the task's inputs
  snapshot,   \* the records of the calls followed
  blobs,      \* the registry's blobs
  call,       \* the call of PublishStore
  worker,     \* the archive of each worker and where it is
  packer      \* narPacker: the buffer, the files in it, and the last pack's upload

runnerVars == <<head, index, view, delta, task, parent>>
storeVars == <<runnerVars, snapshot, blobs, call, worker, packer>>

NoUpload == [pc |-> "none", pack |-> {}, files |-> {}]
NewPacker == [buffer |-> {}, files |-> {}, err |-> FALSE, upload |-> NoUpload]
Free == [pc |-> "free", archives |-> {}]
NoCall ==
  [pc |-> "idle", roots |-> {}, queue |-> {}, failed |-> FALSE, err |-> FALSE,
   ready |-> {}, invalid |-> {}]

\* Mutant of Incomplete: the references of what was found are not looked at.
IncompleteUnseen(found) == FALSE

\* Collect refuses coverage by an upstream cache that lacks a reference.
Incomplete(found) == \E p \in found : ~(Refs[p] \subseteq found)

\* Collect: the candidates in the upstream cache with all they refer to.
Collect(candidates, upstream) == Reach(candidates, upstream)

\* execute has looked up upstream what the head does not cover.
StoreInit ==
  /\ head \in Heads /\ parent = head
  /\ \E required \in Required, upstream \in Upstreams :
       LET found == Collect(required \ Covered(head), upstream)
       IN  /\ ~Incomplete(found)
           /\ snapshot = [NewSnapshot EXCEPT !.upstream = found]
  /\ index = Merge(head, snapshot) /\ view = {}
  /\ delta = NewSnapshot /\ task = NoTask
  /\ blobs = { head.files[a] : a \in { x \in Archives : HasFile(head, x) } }
  /\ call = NoCall /\ worker = [w \in Workers |-> Free] /\ packer = NewPacker

Known == Covered(snapshot) \cup Covered(parent)

-----------------------------------------------------------------------------
\* A task's helper begins with the records of its inputs, at any time, also while
\* the index is being extended; its calls are followed when that has ended.
BeginTask(t) ==
  /\ call.pc = "idle" /\ task = NoTask
  /\ task' = t /\ delta' = snapshot /\ snapshot' = NewSnapshot
  /\ parent' = SelectPaths(index, t.inputs)
  /\ call' = NoCall /\ UNCHANGED <<head, index, view, blobs, worker, packer>>

\* What a helper publishes: the outputs with what they refer to.
Result == SelectPaths(Merge(parent, snapshot), task.outputs)

\* The coordinator takes the archives of a complete result; it signs and records
\* the paths itself, when it publishes next. Or the task failed.
EndTask ==
  /\ call.pc = "idle" /\ task # NoTask /\ view = {}
  /\ \/ /\ ~call.err /\ RequireClosed(Result) /\ task.outputs \subseteq Covered(Result)
        /\ snapshot' = [delta EXCEPT !.files =
             [a \in Archives |-> IF HasFile(delta, a) THEN @[a] ELSE Result.files[a]]]
     \/ snapshot' = delta
  /\ task' = NoTask /\ delta' = NewSnapshot /\ parent' = head
  /\ call' = NoCall /\ UNCHANGED <<head, index, view, blobs, worker, packer>>

-----------------------------------------------------------------------------
\* The coordinator's records, whoever is followed.
Delta == IF task = NoTask THEN snapshot ELSE delta

\* What extend has taken over of a delta: its files, then coverage, then records.
Parts(d) ==
  { [d EXCEPT !.upstream = u, !.narinfos = {}] : u \in SUBSET d.upstream }
    \cup { [d EXCEPT !.narinfos = n] : n \in SUBSET d.narinfos }

\* Mutant of Fill: the view shares the maps of the index.
FillShared(filled) == view' = {filled} /\ index' = filled

\* The view's maps are copies.
Fill(filled) == view' = {filled} /\ UNCHANGED index

\* After a call without error the coordinator extends its index: a view of it is
\* filled with what is new in any order, while others read the index.
BeginExtend ==
  /\ call.pc = "idle" /\ task = NoTask /\ ~call.err /\ view = {}
  /\ \E part \in Parts(snapshot) : Fill(Merge(index, part))
  /\ UNCHANGED <<head, delta, task, parent, snapshot, blobs, call, worker, packer>>

\* The view that is complete replaces the index.
EndExtend ==
  /\ Extendable(index, Delta)
  /\ \E filled \in view : index' = Merge(filled, Delta)
  /\ view' = {}
  /\ UNCHANGED <<head, delta, task, parent, snapshot, blobs, call, worker, packer>>

-----------------------------------------------------------------------------

\* A query of nix or of the upstream cache fails before anything is recorded.
QueryFails ==
  /\ call.pc = "idle" /\ view = {} /\ call' = [NoCall EXCEPT !.err = TRUE]
  /\ UNCHANGED <<runnerVars, snapshot, blobs, worker, packer>>

\* What the call followed is asked for.
Asked == IF task = NoTask THEN Required ELSE {task.outputs}

\* The local paths of the closure that nobody has: those in the upstream cache are
\* recorded as covered, the others are signed, or fail to be, and are uploaded.
Publish(required, store, upstream) ==
  LET selected == (required \cap store) \ Known
      candidates == Reach(selected, store) \ Known
      found == Collect(candidates, upstream)
      roots == candidates \ found
  IN  /\ call.pc = "idle" /\ view = {} /\ selected # {} /\ ~Incomplete(found)
      /\ snapshot' = [snapshot EXCEPT !.upstream = @ \cup found]
      /\ \/ call' = [NoCall EXCEPT !.err = TRUE]
         \/ call' = [NoCall EXCEPT !.pc = "upload", !.roots = roots,
                                   !.queue = { Archive[p] : p \in roots }]
      /\ packer' = NewPacker
      /\ UNCHANGED <<runnerVars, blobs, worker>>

-----------------------------------------------------------------------------
\* A worker takes an archive: after a failure they are passed over; one the parent
\* or an earlier call uploaded is not uploaded again.
Take(w, a) ==
  /\ call.pc = "upload" /\ worker[w].pc = "free" /\ a \in call.queue
  /\ call' = [call EXCEPT !.queue = @ \ {a}]
  /\ snapshot' = IF ~call.failed /\ HasFile(parent, a)
                 THEN [snapshot EXCEPT !.files[a] = parent.files[a]] ELSE snapshot
  /\ worker' = IF call.failed \/ HasFile(parent, a) \/ HasFile(snapshot, a)
               THEN worker
               ELSE [worker EXCEPT ![w] = [pc |-> "stream", archives |-> {a}]]
  /\ UNCHANGED <<runnerVars, blobs, packer>>

Fails(w) ==
  /\ call' = [call EXCEPT !.failed = TRUE, !.err = TRUE]
  /\ worker' = [worker EXCEPT ![w] = Free]

\* The archive cannot be streamed, or its own upload fails.
StreamFails(w) ==
  /\ worker[w].pc = "stream" /\ Fails(w)
  /\ UNCHANGED <<runnerVars, snapshot, blobs, packer>>

\* An archive too large for a pack is uploaded alone.
UploadLarge(w) ==
  LET pack == worker[w].archives
  IN  /\ worker[w].pc = "stream" /\ \A a \in pack : Size[a] > PackedLimit
      /\ blobs' = blobs \cup {pack}
      /\ snapshot' = [snapshot EXCEPT !.files =
                        [a \in Archives |-> IF a \in pack THEN pack ELSE @[a]]]
      /\ worker' = [worker EXCEPT ![w] = Free]
      /\ UNCHANGED <<runnerVars, call, packer>>

\* narPacker.mu is held while a worker waits for the upload of the last pack.
Unlocked == \A v \in Workers : worker[v].pc # "flush"
SizeOf(pack) == MapThenSumSet(LAMBDA a : Size[a], pack)
Fits(w) == SizeOf(packer.buffer) + SizeOf(worker[w].archives) <= PackSize

AddSmall(w) ==
  /\ worker[w].pc = "stream" /\ Unlocked
  /\ \A a \in worker[w].archives : Size[a] <= PackedLimit
  /\ \/ packer.err /\ Fails(w) /\ UNCHANGED packer
     \/ /\ ~packer.err /\ Fits(w)
        /\ packer' = [packer EXCEPT !.buffer = @ \cup worker[w].archives,
                                    !.files = @ \cup worker[w].archives]
        /\ worker' = [worker EXCEPT ![w] = Free] /\ UNCHANGED call
     \/ /\ ~packer.err /\ ~Fits(w)
        /\ worker' = [worker EXCEPT ![w].pc = "flush"] /\ UNCHANGED <<packer, call>>
  /\ UNCHANGED <<runnerVars, snapshot, blobs>>

\* Mutant of Flushed: the files of a pack stay with those of the next one.
FlushedKeeping(p, next) ==
  [p EXCEPT !.buffer = next, !.files = @ \cup next,
            !.upload = [pc |-> "busy", pack |-> p.buffer, files |-> p.files]]

\* flush: the buffer becomes the pack being uploaded, and the next one begins.
Flushed(p, next) ==
  [p EXCEPT !.buffer = next, !.files = next,
            !.upload = [pc |-> "busy", pack |-> p.buffer, files |-> p.files]]

\* The last pack was uploaded, or failed to be.
Waited == packer.upload.pc # "busy"
PackFailed == packer.err \/ packer.upload.pc = "error"

\* The full pack is uploaded while the next one fills.
Flush(w) ==
  /\ worker[w].pc = "flush" /\ Waited
  /\ \/ /\ PackFailed
        /\ packer' = [packer EXCEPT !.err = TRUE, !.upload = NoUpload] /\ Fails(w)
     \/ /\ ~PackFailed
        /\ packer' = Flushed(packer, worker[w].archives)
        /\ worker' = [worker EXCEPT ![w] = Free] /\ UNCHANGED call
  /\ UNCHANGED <<runnerVars, snapshot, blobs>>

\* The files of a pack enter the snapshot with its blob.
UploadPack ==
  LET pack == packer.upload.pack
  IN  /\ packer.upload.pc = "busy"
      /\ \/ /\ packer' = [packer EXCEPT !.upload.pc = "done"]
            /\ blobs' = blobs \cup {pack}
            /\ snapshot' = [snapshot EXCEPT !.files =
                 [a \in Archives |->
                    IF a \in packer.upload.files THEN pack ELSE @[a]]]
         \/ /\ packer' = [packer EXCEPT !.upload.pc = "error"]
            /\ UNCHANGED <<blobs, snapshot>>
      /\ UNCHANGED <<runnerVars, call, worker>>

-----------------------------------------------------------------------------
Joined == call.queue = {} /\ \A w \in Workers : worker[w].pc = "free"

\* finish: the last pack is flushed, and its upload awaited.
Finish ==
  /\ call.pc = "upload" /\ Joined /\ Waited
  /\ ~PackFailed /\ packer.buffer # {}
  /\ packer' = Flushed(packer, {})
  /\ UNCHANGED <<runnerVars, snapshot, blobs, call, worker>>

\* What is complete so far, and what of it refers to a path nobody has.
Ready == { p \in call.roots : HasFile(snapshot, Archive[p]) }
Dangling(ready) ==
  { p \in ready : \E r \in Refs[p] : r \notin ready /\ r \notin Known }

\* Mutant of Outcome: the last upload's error is not collected.
OutcomeIgnored == call.err

Outcome == call.err \/ PackFailed

Collected ==
  /\ call.pc = "upload" /\ Joined /\ Waited
  /\ PackFailed \/ packer.buffer = {}
  /\ call' = [call EXCEPT !.pc = "salvage", !.ready = Ready,
                          !.invalid = Dangling(Ready), !.err = Outcome]
  /\ packer' = NewPacker
  /\ UNCHANGED <<runnerVars, snapshot, blobs, worker>>

\* Mutant of Consumers: only what refers to a missing path itself is dropped.
ConsumersNone(p) == {}

Consumers(p) == { q \in call.ready : p \in Refs[q] }

\* A path that refers to one that is not complete is not complete.
Drop(p) ==
  /\ call.pc = "salvage" /\ p \in call.invalid
  /\ call' = [call EXCEPT !.ready = @ \ {p},
                !.invalid = (@ \ {p}) \cup (IF p \in call.ready
                                            THEN Consumers(p) ELSE {})]
  /\ UNCHANGED <<runnerVars, snapshot, blobs, worker, packer>>

Record ==
  /\ call.pc = "salvage" /\ call.invalid = {}
  /\ snapshot' = [snapshot EXCEPT !.narinfos = @ \cup call.ready]
  /\ call' = [call EXCEPT !.pc = "idle", !.ready = {}, !.failed = FALSE]
  /\ UNCHANGED <<runnerVars, blobs, worker, packer>>

StoreNext ==
  \/ \E t \in Tasks : BeginTask(t)
  \/ EndTask \/ BeginExtend \/ EndExtend \/ QueryFails
  \/ \E required \in Asked, store \in Stores, upstream \in Upstreams :
       Publish(required, store, upstream)
  \/ \E w \in Workers :
       \/ \E a \in Archives : Take(w, a)
       \/ StreamFails(w) \/ UploadLarge(w) \/ AddSmall(w) \/ Flush(w)
  \/ UploadPack \/ Finish \/ Collected \/ Record
  \/ \E p \in Paths : Drop(p)

StoreSpec == StoreInit /\ [][StoreNext]_storeVars

-----------------------------------------------------------------------------
\* Whatever failed to be uploaded, what is recorded is complete: every reference
\* of a record or of upstream coverage is recorded, covered or in the parent, and
\* every record has its archive. So is the index at any time, also while a view of it
\* is extended, and what a helper is given.
RecordsClosed ==
  /\ RequireClosed(index) /\ RequireClosed(parent)
  /\ RequireClosed(Merge(parent, snapshot))

\* A file of a snapshot names a blob that was uploaded and holds it, while packs
\* fill during the upload of others, uploads fail and results are reused.
PacksIntact ==
  \A s \in {index, parent, delta, snapshot}, a \in Archives :
    HasFile(s, a) => a \in s.files[a] /\ s.files[a] \in blobs

\* A call without an error recorded all it was to upload. After a failure it still
\* recorded all that is complete.
HonestReturn ==
  call.pc = "idle" =>
    /\ ~call.err => call.roots \subseteq snapshot.narinfos
    /\ \A p \in call.roots \ snapshot.narinfos :
         ~HasFile(snapshot, Archive[p]) \/ ~(Refs[p] \ {p} \subseteq Known)

\* The records of a runner, of a failed call too, are never refused: not by the
\* index they extend, nor by the union with what the runner started from.
DeltaAccepted ==
  call.pc = "idle" =>
    LET base == IF task = NoTask THEN index ELSE parent
    IN  Extendable(base, snapshot) /\ RequireClosed(Merge(base, snapshot))
=============================================================================
