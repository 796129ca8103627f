----------------------- MODULE StorePublicationProofs -----------------------
(***************************************************************************)
(* Proofs about StorePublication, for any paths and references, any number *)
(* of workers, any sizes and any local stores and upstream caches.         *)
(***************************************************************************)
EXTENDS StorePublication, TLAPS

(***************************************************************************)
(* Snapshots: what Merge, extend and selectPaths preserve.                 *)
(***************************************************************************)

\* Merge covers what either covers, and has the files of both.
LEMMA MergeFacts ==
  ASSUME NEW s, NEW o, IsSnapshot(s), IsSnapshot(o)
  PROVE  /\ IsSnapshot(Merge(s, o))
         /\ Merge(s, o).upstream = s.upstream \cup o.upstream
         /\ Merge(s, o).narinfos = s.narinfos \cup o.narinfos
         /\ Covered(Merge(s, o)) = Covered(s) \cup Covered(o)
         /\ \A a \in Archives :
              HasFile(Merge(s, o), a) <=> HasFile(s, a) \/ HasFile(o, a)
  BY DEF Merge, IsSnapshot, Covered, HasFile, NoBlob

\* What is covered by a snapshot is a set of paths with references and archives.
LEMMA CoveredPaths ==
  ASSUME NEW s, IsSnapshot(s)
  PROVE  /\ Covered(s) \subseteq Paths /\ s.narinfos \subseteq Covered(s)
         /\ \A p \in Covered(s) : Refs[p] \subseteq Paths /\ Archive[p] \in Archives
  BY IndexAssumption DEF Covered, IsSnapshot

\* RequireClosed of a union, in terms of its two sides.
LEMMA ClosedMerge ==
  ASSUME NEW s, NEW o, IsSnapshot(s), IsSnapshot(o)
  PROVE  RequireClosed(Merge(s, o)) <=>
           /\ \A p \in s.narinfos \cup o.narinfos :
                HasFile(s, Archive[p]) \/ HasFile(o, Archive[p])
           /\ \A p \in Covered(s) \cup Covered(o) :
                Refs[p] \subseteq Covered(s) \cup Covered(o)
<1>1. \A p \in s.narinfos \cup o.narinfos : Archive[p] \in Archives
  BY CoveredPaths
<1> QED BY <1>1, MergeFacts DEF RequireClosed, ValidateRecords

\* A union with a snapshot that has more files and the same records stays closed.
LEMMA MoreFiles ==
  ASSUME NEW b, NEW s, NEW t, IsSnapshot(b), IsSnapshot(s), IsSnapshot(t),
         t.upstream = s.upstream, t.narinfos = s.narinfos,
         \A a \in Archives : HasFile(s, a) => HasFile(t, a),
         RequireClosed(Merge(b, s))
  PROVE  RequireClosed(Merge(b, t))
<1>1. Covered(t) = Covered(s)
  BY DEF Covered
<1>2. \A p \in b.narinfos \cup s.narinfos : Archive[p] \in Archives
  BY CoveredPaths
<1> QED BY <1>1, <1>2, ClosedMerge

\* A union with more upstream coverage, itself closed, stays closed.
LEMMA MoreUpstream ==
  ASSUME NEW b, NEW s, IsSnapshot(b), IsSnapshot(s), NEW found \in SUBSET Paths,
         \A p \in found : Refs[p] \subseteq found,
         RequireClosed(Merge(b, s))
  PROVE  RequireClosed(Merge(b, [s EXCEPT !.upstream = @ \cup found]))
<1> DEFINE t == [s EXCEPT !.upstream = @ \cup found]
<1>1. /\ IsSnapshot(t) /\ t.narinfos = s.narinfos /\ t.files = s.files
      /\ Covered(t) = Covered(s) \cup found
  BY DEF IsSnapshot, Covered
<1>2. \A a \in Archives : HasFile(t, a) <=> HasFile(s, a)
  BY <1>1 DEF HasFile
<1>3. \A p \in b.narinfos \cup s.narinfos : Archive[p] \in Archives
  BY CoveredPaths
<1> HIDE DEF t
<1> QED BY <1>1, <1>2, <1>3, ClosedMerge DEF t

\* A union with more records, of which each has its archive and what it refers to,
\* stays closed.
LEMMA MoreRecords ==
  ASSUME NEW b, NEW s, IsSnapshot(b), IsSnapshot(s), NEW ready \in SUBSET Paths,
         \A p \in ready : HasFile(s, Archive[p]),
         \A p \in ready : Refs[p] \subseteq ready \cup Covered(s) \cup Covered(b),
         RequireClosed(Merge(b, s))
  PROVE  RequireClosed(Merge(b, [s EXCEPT !.narinfos = @ \cup ready]))
<1> DEFINE t == [s EXCEPT !.narinfos = @ \cup ready]
<1>1. /\ IsSnapshot(t) /\ t.narinfos = s.narinfos \cup ready /\ t.files = s.files
      /\ Covered(t) = Covered(s) \cup ready
  BY DEF IsSnapshot, Covered
<1>2. \A a \in Archives : HasFile(t, a) <=> HasFile(s, a)
  BY <1>1 DEF HasFile
<1>3. \A p \in b.narinfos \cup s.narinfos \cup ready : Archive[p] \in Archives
  BY CoveredPaths, IndexAssumption
<1> HIDE DEF t
<1>4. \A p \in Covered(b) \cup Covered(t) :
        Refs[p] \subseteq Covered(b) \cup Covered(t)
  BY <1>1, ClosedMerge
<1>5. \A p \in b.narinfos \cup t.narinfos :
        HasFile(b, Archive[p]) \/ HasFile(t, Archive[p])
  BY <1>1, <1>2, <1>3, ClosedMerge
<1> QED BY <1>1, <1>4, <1>5, ClosedMerge DEF t

\* A closed index that accepts a delta is closed with it.
LEMMA ExtendedClosed ==
  ASSUME NEW i, NEW d, IsSnapshot(i), IsSnapshot(d), RequireClosed(i), Extendable(i, d)
  PROVE  RequireClosed(Merge(i, d))
<1> DEFINE both == Merge(i, d)
<1>1. \A p \in d.narinfos \ i.narinfos : HasFile(both, Archive[p])
  BY DEF Extendable
<1>2. \A p \in (d.narinfos \ i.narinfos) \cup (d.upstream \ i.upstream) :
        Refs[p] \subseteq Covered(both)
  BY DEF Extendable
<1>3. \A p \in Covered(i) : Refs[p] \subseteq Covered(both)
  BY MergeFacts DEF RequireClosed
<1>4. \A p \in i.narinfos : HasFile(both, Archive[p])
  BY MergeFacts, CoveredPaths DEF RequireClosed, ValidateRecords
<1>5. both.narinfos = i.narinfos \cup d.narinfos
      /\ Covered(both) = Covered(i) \cup Covered(d)
  BY MergeFacts
<1> HIDE DEF both
<1>6. \A p \in Covered(both) : Refs[p] \subseteq Covered(both)
  BY <1>2, <1>3, <1>5 DEF Covered
<1>7. \A p \in both.narinfos : HasFile(both, Archive[p])
  BY <1>1, <1>4, <1>5
<1> QED BY <1>6, <1>7 DEF RequireClosed, ValidateRecords, both

\* What a snapshot accepts, a closed one with more records and files accepts.
LEMMA LargerAccepts ==
  ASSUME NEW b, NEW i, NEW s, IsSnapshot(b), IsSnapshot(i), IsSnapshot(s),
         b.upstream \subseteq i.upstream, b.narinfos \subseteq i.narinfos,
         \A a \in Archives : HasFile(b, a) => HasFile(i, a),
         RequireClosed(i), RequireClosed(Merge(b, s))
  PROVE  RequireClosed(Merge(i, s)) /\ Extendable(i, s)
<1>1. Covered(b) \subseteq Covered(i)
  BY DEF Covered
<1>2. \A p \in Covered(i) : Refs[p] \subseteq Covered(i)
  BY DEF RequireClosed
<1>3. \A p \in i.narinfos : HasFile(i, Archive[p])
  BY DEF RequireClosed, ValidateRecords
<1>4. \A p \in Covered(s) : Refs[p] \subseteq Covered(b) \cup Covered(s)
  BY ClosedMerge
<1>5. \A p \in s.narinfos : HasFile(b, Archive[p]) \/ HasFile(s, Archive[p])
  BY ClosedMerge
<1>6. \A p \in Covered(i) \cup Covered(s) : Refs[p] \subseteq Covered(i) \cup Covered(s)
  BY <1>1, <1>2, <1>4
<1>7. \A p \in s.narinfos : HasFile(i, Archive[p]) \/ HasFile(s, Archive[p])
  BY <1>5, CoveredPaths
<1>8. RequireClosed(Merge(i, s))
  BY <1>3, <1>6, <1>7, ClosedMerge
<1>9. \A p \in s.narinfos : Archive[p] \in Archives
  BY CoveredPaths
<1>10. \A p \in s.narinfos : HasFile(Merge(i, s), Archive[p])
  BY <1>7, <1>9, MergeFacts
<1>11. \A p \in Covered(s) : Refs[p] \subseteq Covered(Merge(i, s))
  BY <1>6, MergeFacts
<1> QED
  BY <1>8, <1>10, <1>11 DEF Extendable, Covered

\* selectPaths takes what is reached, all of it.
LEMMA ReachClosed ==
  ASSUME NEW roots, NEW within \in SUBSET Paths,
         \A p \in within : Refs[p] \subseteq within
  PROVE  /\ Reach(roots, within) \subseteq within
         /\ \A p \in Reach(roots, within) : Refs[p] \subseteq Reach(roots, within)
<1>1. Reach(roots, within) \subseteq within
  BY DEF Reach
<1>2. SUFFICES ASSUME NEW p \in Reach(roots, within), NEW r \in Refs[p]
               PROVE  r \in Reach(roots, within)
  BY <1>1
<1>3. r \in within
  BY <1>1
<1>4. SUFFICES ASSUME NEW T \in SUBSET within, roots \cap within \subseteq T,
                      \A q \in T : Refs[q] \cap within \subseteq T
               PROVE  r \in T
  BY <1>3 DEF Reach
<1>5. p \in T
  BY <1>4 DEF Reach
<1> QED BY <1>3, <1>4, <1>5

\* A selection is a snapshot.
LEMMA SelectionType ==
  ASSUME NEW i, IsSnapshot(i), NEW roots
  PROVE  IsSnapshot(SelectPaths(i, roots))
  BY DEF SelectPaths, IsSnapshot, NoBlob

\* A selection of a closed index is closed by itself.
LEMMA SelectionClosed ==
  ASSUME NEW i, IsSnapshot(i), RequireClosed(i), NEW roots
  PROVE  IsSnapshot(SelectPaths(i, roots)) /\ RequireClosed(SelectPaths(i, roots))
<1> DEFINE sel == SelectPaths(i, roots)
           seen == Reach(roots, Covered(i))
<1>1. /\ seen \subseteq Covered(i)
      /\ \A p \in seen : Refs[p] \subseteq seen
  BY ReachClosed, CoveredPaths DEF RequireClosed
<1>2. /\ sel.upstream = i.upstream \cap seen /\ sel.narinfos = i.narinfos \cap seen
      /\ sel.files = [a \in Archives |->
           IF \E p \in i.narinfos \cap seen : Archive[p] = a THEN i.files[a] ELSE NoBlob]
      /\ sel = [upstream |-> sel.upstream, narinfos |-> sel.narinfos, files |-> sel.files]
  BY DEF SelectPaths
<1> HIDE DEF sel, seen
<1>3. IsSnapshot(sel)
  BY SelectionType DEF sel
<1>4. Covered(sel) = seen
  BY <1>1, <1>2 DEF Covered
<1>5. \A p \in sel.narinfos : HasFile(sel, Archive[p])
  BY <1>2, CoveredPaths DEF HasFile, RequireClosed, ValidateRecords
<1>6. RequireClosed(sel)
  BY <1>1, <1>4, <1>5 DEF RequireClosed, ValidateRecords
<1> QED BY <1>3, <1>6 DEF sel

(***************************************************************************)
(* The types of the state.                                                 *)
(***************************************************************************)
CallType ==
  [pc : {"idle", "upload", "salvage"}, roots : SUBSET Paths, queue : SUBSET Archives,
   failed : BOOLEAN, err : BOOLEAN, ready : SUBSET Paths, invalid : SUBSET Paths]
WorkerType == [pc : {"free", "stream", "flush"}, archives : SUBSET Archives]
UploadType ==
  [pc : {"none", "busy", "done", "error"}, pack : SUBSET Archives,
   files : SUBSET Archives]
PackerType ==
  [buffer : SUBSET Archives, files : SUBSET Archives, err : BOOLEAN, upload : UploadType]

StoreType ==
  /\ IsSnapshot(head) /\ IsSnapshot(index) /\ IsSnapshot(delta)
  /\ IsSnapshot(parent) /\ IsSnapshot(snapshot)
  /\ \A filled \in view : IsSnapshot(filled)
  /\ task \in Tasks \cup {NoTask}
  /\ call \in CallType /\ worker \in [Workers -> WorkerType] /\ packer \in PackerType

\* The values a call, a worker and a packer begin with.
LEMMA InitialValues ==
  /\ IsSnapshot(NewSnapshot) /\ NoCall \in CallType /\ Free \in WorkerType
  /\ NewPacker \in PackerType /\ NoUpload \in UploadType
  BY DEF IsSnapshot, NewSnapshot, NoBlob, NoCall, CallType, Free, WorkerType, NewPacker,
         PackerType, NoUpload, UploadType

\* What the coordinator starts with: upstream coverage, with all it refers to.
LEMMA InitialRecords ==
  ASSUME StoreInit
  PROVE  \E found \in SUBSET Paths :
           /\ snapshot = [NewSnapshot EXCEPT !.upstream = found]
           /\ \A p \in found : Refs[p] \subseteq found
<1>1. PICK required \in Required, upstream \in Upstreams :
        LET found == Collect(required \ Covered(head), upstream)
        IN  /\ ~Incomplete(found)
            /\ snapshot = [NewSnapshot EXCEPT !.upstream = found]
  BY DEF StoreInit
<1> DEFINE found == Collect(required \ Covered(head), upstream)
<1>2. found \in SUBSET Paths
  BY StoreAssumption DEF Collect, Reach
<1>3. /\ snapshot = [NewSnapshot EXCEPT !.upstream = found]
      /\ \A p \in found : Refs[p] \subseteq found
  BY <1>1 DEF Incomplete
<1> HIDE DEF found
<1> QED BY <1>2, <1>3

\* The initial state has the types.
LEMMA StoreTypeInit == StoreInit => StoreType
<1> SUFFICES ASSUME StoreInit PROVE StoreType
  OBVIOUS
<1>1. IsSnapshot(snapshot)
  BY InitialRecords, InitialValues DEF IsSnapshot
<1>2. IsSnapshot(head)
  BY StoreAssumption DEF StoreInit
<1>3. IsSnapshot(index)
  BY <1>1, <1>2, MergeFacts DEF StoreInit
<1> QED BY <1>1, <1>2, <1>3, InitialValues DEF StoreInit, StoreType

\* What extend has taken over of a delta is a part of it.
LEMMA PartFacts ==
  ASSUME NEW d, IsSnapshot(d), NEW part \in Parts(d)
  PROVE  /\ IsSnapshot(part) /\ part.files = d.files
         /\ part.upstream \subseteq d.upstream /\ part.narinfos \subseteq d.narinfos
<1>1. CASE part \in { [d EXCEPT !.upstream = u, !.narinfos = {}] : u \in SUBSET d.upstream }
  <2>1. PICK u \in SUBSET d.upstream : part = [d EXCEPT !.upstream = u, !.narinfos = {}]
    BY <1>1
  <2> QED BY <2>1 DEF IsSnapshot
<1>2. CASE part \in { [d EXCEPT !.narinfos = n] : n \in SUBSET d.narinfos }
  <2>1. PICK n \in SUBSET d.narinfos : part = [d EXCEPT !.narinfos = n]
    BY <1>2
  <2> QED BY <2>1 DEF IsSnapshot
<1> QED BY <1>1, <1>2 DEF Parts

\* Files that enter a snapshot keep it one.
LEMMA FilesType ==
  ASSUME NEW s, IsSnapshot(s), NEW files \in [Archives -> SUBSET Archives]
  PROVE  /\ IsSnapshot([s EXCEPT !.files = files])
         /\ [s EXCEPT !.files = files].files = files
         /\ [s EXCEPT !.files = files].upstream = s.upstream
         /\ [s EXCEPT !.files = files].narinfos = s.narinfos
  BY DEF IsSnapshot

\* flush keeps the types of a packer.
LEMMA FlushedType ==
  ASSUME NEW p \in PackerType, NEW next \in SUBSET Archives
  PROVE  Flushed(p, next) \in PackerType
  BY DEF Flushed, PackerType, UploadType

\* The types are kept by the steps of the runners.
LEMMA RunnerTypes ==
  ASSUME StoreType,
         \/ \E t \in Tasks : BeginTask(t)
         \/ EndTask \/ BeginExtend \/ EndExtend \/ QueryFails
         \/ \E required \in Asked, store \in Stores, upstream \in Upstreams :
              Publish(required, store, upstream)
  PROVE  StoreType'
<1>1. ASSUME NEW t \in Tasks, BeginTask(t) PROVE StoreType'
  BY <1>1, InitialValues, SelectionType DEF BeginTask, StoreType
<1>2. CASE EndTask
  <2>1. IsSnapshot(Result)
    BY MergeFacts, SelectionType DEF Result, StoreType
  <2>2. IsSnapshot([delta EXCEPT !.files =
          [a \in Archives |-> IF HasFile(delta, a) THEN @[a] ELSE Result.files[a]]])
    BY <2>1 DEF IsSnapshot, StoreType
  <2>3. IsSnapshot(snapshot')
    BY <1>2, <2>2 DEF EndTask, StoreType
  <2> QED BY <1>2, <2>3, InitialValues DEF EndTask, StoreType
<1>3. CASE BeginExtend
  <2>1. ASSUME NEW part \in Parts(snapshot)
        PROVE  IsSnapshot(Merge(index, part))
    <3>1. IsSnapshot(part)
      BY PartFacts DEF StoreType
    <3> QED BY <3>1, MergeFacts DEF StoreType
  <2> QED BY <1>3, <2>1 DEF BeginExtend, Fill, StoreType
<1>4. CASE EndExtend
  <2>1. \A filled \in view : IsSnapshot(Merge(filled, Delta))
    BY MergeFacts DEF StoreType, Delta
  <2> QED BY <1>4, <2>1 DEF EndExtend, StoreType
<1>5. CASE QueryFails
  BY <1>5, InitialValues DEF QueryFails, StoreType, runnerVars, NoCall, CallType
<1>6. ASSUME NEW required \in Asked, NEW store \in Stores, NEW upstream \in Upstreams,
             Publish(required, store, upstream)
      PROVE  StoreType'
  <2> DEFINE selected == (required \cap store) \ Known
             candidates == Reach(selected, store) \ Known
             found == Collect(candidates, upstream)
             roots == candidates \ found
  <2>1. found \in SUBSET Paths /\ candidates \in SUBSET Paths
    BY StoreAssumption DEF Collect, Reach
  <2>2. { Archive[p] : p \in roots } \in SUBSET Archives
    BY <2>1, IndexAssumption
  <2>3. /\ snapshot' = [snapshot EXCEPT !.upstream = @ \cup found]
        /\ \/ call' = [NoCall EXCEPT !.err = TRUE]
           \/ call' = [NoCall EXCEPT !.pc = "upload", !.roots = roots,
                                     !.queue = { Archive[p] : p \in roots }]
        /\ packer' = NewPacker /\ UNCHANGED <<runnerVars, blobs, worker>>
    BY <1>6 DEF Publish
  <2> HIDE DEF found, candidates
  <2>4. IsSnapshot(snapshot')
    BY <2>1, <2>3 DEF IsSnapshot, StoreType
  <2>5. call' \in CallType
    BY <2>1, <2>2, <2>3 DEF NoCall, CallType
  <2> QED BY <2>3, <2>4, <2>5, InitialValues DEF StoreType, runnerVars
<1> QED BY <1>1, <1>2, <1>3, <1>4, <1>5, <1>6

\* What a worker's failure leaves.
LEMMA FailsType ==
  ASSUME NEW w \in Workers, call \in CallType, worker \in [Workers -> WorkerType], Fails(w)
  PROVE  call' \in CallType /\ worker' \in [Workers -> WorkerType]
  BY InitialValues DEF Fails, CallType

\* The types are kept by the uploads.
LEMMA UploadTypes ==
  ASSUME StoreType,
         \/ \E w \in Workers :
              \/ \E a \in Archives : Take(w, a)
              \/ StreamFails(w) \/ UploadLarge(w) \/ AddSmall(w) \/ Flush(w)
         \/ UploadPack \/ Finish
  PROVE  StoreType'
<1>1. ASSUME NEW w \in Workers, NEW a \in Archives, Take(w, a) PROVE StoreType'
  <2>1. call' \in CallType
    BY <1>1 DEF Take, StoreType, CallType
  <2>2. worker' \in [Workers -> WorkerType]
    BY <1>1 DEF Take, StoreType, WorkerType
  <2>3. IsSnapshot(snapshot')
    BY <1>1 DEF Take, StoreType, IsSnapshot
  <2> QED BY <1>1, <2>1, <2>2, <2>3 DEF Take, StoreType, runnerVars
<1>2. ASSUME NEW w \in Workers, StreamFails(w) PROVE StoreType'
  BY <1>2, FailsType DEF StreamFails, StoreType, runnerVars
<1>3. ASSUME NEW w \in Workers, UploadLarge(w) PROVE StoreType'
  <2>1. worker[w].archives \in SUBSET Archives
    BY DEF StoreType, WorkerType
  <2>2. IsSnapshot(snapshot')
    BY <1>3, <2>1 DEF UploadLarge, StoreType, IsSnapshot
  <2>3. worker' \in [Workers -> WorkerType]
    BY <1>3, InitialValues DEF UploadLarge, StoreType
  <2> QED BY <1>3, <2>2, <2>3 DEF UploadLarge, StoreType, runnerVars
<1>4. ASSUME NEW w \in Workers, AddSmall(w) PROVE StoreType'
  <2>1. worker[w].archives \in SUBSET Archives
    BY DEF StoreType, WorkerType
  <2>2. packer' \in PackerType
    <3>1. \/ UNCHANGED packer
          \/ packer' = [packer EXCEPT !.buffer = @ \cup worker[w].archives,
                                      !.files = @ \cup worker[w].archives]
      BY <1>4 DEF AddSmall
    <3>2. packer \in PackerType
      BY DEF StoreType
    <3> QED BY <2>1, <3>1, <3>2 DEF PackerType
  <2>3. worker' \in [Workers -> WorkerType] /\ call' \in CallType
    <3>1. CASE Fails(w)
      BY <3>1, FailsType DEF StoreType
    <3>2. CASE worker' = [worker EXCEPT ![w] = Free] /\ UNCHANGED call
      BY <3>2, InitialValues DEF StoreType
    <3>3. CASE worker' = [worker EXCEPT ![w].pc = "flush"] /\ UNCHANGED call
      BY <3>3 DEF StoreType, WorkerType
    <3> QED BY <1>4, <3>1, <3>2, <3>3 DEF AddSmall
  <2> QED BY <1>4, <2>2, <2>3 DEF AddSmall, StoreType, runnerVars
<1>5. ASSUME NEW w \in Workers, Flush(w) PROVE StoreType'
  <2>1. worker[w].archives \in SUBSET Archives
    BY DEF StoreType, WorkerType
  <2>2. CASE /\ packer' = [packer EXCEPT !.err = TRUE, !.upload = NoUpload] /\ Fails(w)
    <3>1. packer' \in PackerType
      BY <2>2, InitialValues DEF StoreType, PackerType
    <3> QED BY <1>5, <2>2, <3>1, FailsType DEF Flush, StoreType, runnerVars
  <2>3. CASE /\ packer' = Flushed(packer, worker[w].archives)
             /\ worker' = [worker EXCEPT ![w] = Free] /\ UNCHANGED call
    <3>1. packer' \in PackerType
      BY <2>1, <2>3, FlushedType DEF StoreType
    <3> QED BY <1>5, <2>3, <3>1, InitialValues DEF Flush, StoreType, runnerVars
  <2> QED BY <1>5, <2>2, <2>3 DEF Flush
<1>6. CASE UploadPack
  <2>1. packer.upload \in UploadType
    BY DEF StoreType, PackerType
  <2>2. packer.upload.pack \in SUBSET Archives
    BY <2>1 DEF UploadType
  <2>3. IsSnapshot(snapshot')
    BY <1>6, <2>2 DEF UploadPack, StoreType, IsSnapshot
  <2>4. packer' \in PackerType
    BY <1>6, <2>1 DEF UploadPack, StoreType, PackerType, UploadType
  <2> QED BY <1>6, <2>3, <2>4 DEF UploadPack, StoreType, runnerVars
<1>7. CASE Finish
  BY <1>7, FlushedType DEF Finish, StoreType, runnerVars
<1> QED BY <1>1, <1>2, <1>3, <1>4, <1>5, <1>6, <1>7

\* The types are kept by what follows the uploads.
LEMMA SalvageTypes ==
  ASSUME StoreType, Collected \/ Record \/ \E p \in Paths : Drop(p)
  PROVE  StoreType'
<1>1. CASE Collected
  <2>1. Ready \in SUBSET Paths /\ Dangling(Ready) \in SUBSET Paths /\ Outcome \in BOOLEAN
    BY DEF Ready, Dangling, Outcome, PackFailed, StoreType, CallType, PackerType
  <2>2. call' \in CallType
    BY <1>1, <2>1 DEF Collected, StoreType, CallType
  <2> QED BY <1>1, <2>2, InitialValues DEF Collected, StoreType, runnerVars
<1>2. CASE Record
  BY <1>2 DEF Record, StoreType, CallType, IsSnapshot, runnerVars
<1>3. ASSUME NEW p \in Paths, Drop(p) PROVE StoreType'
  <2>1. Consumers(p) \in SUBSET Paths
    BY DEF Consumers, StoreType, CallType
  <2>2. call' \in CallType
    BY <1>3, <2>1 DEF Drop, StoreType, CallType
  <2> QED BY <1>3, <2>2 DEF Drop, StoreType, runnerVars
<1> QED BY <1>1, <1>2, <1>3

\* Every step keeps the types.
LEMMA StoreTypeStep == StoreType /\ [StoreNext]_storeVars => StoreType'
<1> SUFFICES ASSUME StoreType, [StoreNext]_storeVars PROVE StoreType'
  OBVIOUS
<1>1. CASE UNCHANGED storeVars
  BY <1>1 DEF StoreType, storeVars, runnerVars
<1>2. CASE StoreNext
  BY <1>2, RunnerTypes, UploadTypes, SalvageTypes DEF StoreNext
<1> QED BY <1>1, <1>2

(***************************************************************************)
(* Files name the blob they are in.                                        *)
(***************************************************************************)
Intact(s, B) == \A a \in Archives : HasFile(s, a) => a \in s.files[a] /\ s.files[a] \in B

IntactInv ==
  /\ Intact(head, blobs) /\ Intact(index, blobs) /\ Intact(delta, blobs)
  /\ Intact(parent, blobs) /\ Intact(snapshot, blobs)
  /\ \A filled \in view : Intact(filled, blobs)
  /\ packer.files \subseteq packer.buffer
  /\ packer.upload.files \subseteq packer.upload.pack

\* The union of two intact snapshots and a selection of one are intact, and more
\* blobs do no harm.
LEMMA IntactFacts ==
  ASSUME NEW B, NEW s, IsSnapshot(s), Intact(s, B)
  PROVE  /\ \A o : IsSnapshot(o) /\ Intact(o, B) => Intact(Merge(s, o), B)
         /\ \A roots : Intact(SelectPaths(s, roots), B)
         /\ \A C : Intact(s, B \cup C)
<1>1. ASSUME NEW o, IsSnapshot(o), Intact(o, B) PROVE Intact(Merge(s, o), B)
  <2>1. \A a \in Archives :
          Merge(s, o).files[a] = IF HasFile(s, a) THEN s.files[a] ELSE o.files[a]
    BY DEF Merge
  <2> QED BY <1>1, <2>1 DEF Intact, HasFile
<1>2. ASSUME NEW roots PROVE Intact(SelectPaths(s, roots), B)
  <2>1. \A a \in Archives :
          \/ SelectPaths(s, roots).files[a] = s.files[a]
          \/ SelectPaths(s, roots).files[a] = NoBlob
    BY DEF SelectPaths
  <2> QED BY <2>1 DEF Intact, HasFile
<1>3. \A C : Intact(s, B \cup C)
  BY DEF Intact
<1> QED BY <1>1, <1>2, <1>3

\* Nothing is in a snapshot at first.
LEMMA IntactNew == \A B : Intact(NewSnapshot, B)
  BY DEF Intact, NewSnapshot, HasFile

\* What the coordinator starts from is in the registry.
LEMMA IntactInit == StoreInit => IntactInv
<1> SUFFICES ASSUME StoreInit PROVE IntactInv
  OBVIOUS
<1>1. Intact(head, blobs)
  BY StoreAssumption DEF StoreInit, Intact
<1>2. packer.files = {} /\ packer.upload.files = {}
  BY DEF StoreInit, NewPacker, NoUpload
<1>3. Intact(snapshot, blobs)
  <2>1. snapshot.files = NewSnapshot.files
    BY InitialRecords DEF NewSnapshot
  <2> QED BY <2>1, IntactNew DEF Intact, HasFile
<1>4. IsSnapshot(head) /\ IsSnapshot(snapshot)
  BY StoreTypeInit DEF StoreType
<1>5. Intact(index, blobs)
  BY <1>1, <1>3, <1>4, IntactFacts DEF StoreInit
<1> QED BY <1>1, <1>2, <1>3, <1>5, IntactNew DEF StoreInit, IntactInv

\* A file that enters a snapshot with the blob it is in leaves it intact.
LEMMA IntactAdded ==
  ASSUME NEW s, IsSnapshot(s), NEW B, Intact(s, B), NEW pack \in SUBSET Archives,
         NEW files \in SUBSET pack
  PROVE  Intact([s EXCEPT !.files = [a \in Archives |-> IF a \in files THEN pack ELSE @[a]]],
                B \cup {pack})
  BY DEF Intact, HasFile, IsSnapshot

\* The runners' steps keep files intact.
LEMMA IntactRunner ==
  ASSUME StoreType, IntactInv,
         \/ \E t \in Tasks : BeginTask(t)
         \/ EndTask \/ BeginExtend \/ EndExtend \/ QueryFails
         \/ \E required \in Asked, store \in Stores, upstream \in Upstreams :
              Publish(required, store, upstream)
  PROVE  IntactInv'
<1>1. ASSUME NEW t \in Tasks, BeginTask(t) PROVE IntactInv'
  BY <1>1, IntactFacts, IntactNew DEF BeginTask, IntactInv, StoreType
<1>2. CASE EndTask
  <2>1. Intact(Result, blobs)
    <3>1. Intact(Merge(parent, snapshot), blobs) /\ IsSnapshot(Merge(parent, snapshot))
      BY IntactFacts, MergeFacts DEF IntactInv, StoreType
    <3> QED BY <3>1, IntactFacts DEF Result
  <2>2. Intact([delta EXCEPT !.files =
           [a \in Archives |-> IF HasFile(delta, a) THEN @[a] ELSE Result.files[a]]],
               blobs)
    BY <2>1 DEF Intact, HasFile, IntactInv, StoreType, IsSnapshot
  <2>3. Intact(snapshot', blobs)
    BY <1>2, <2>2 DEF EndTask, IntactInv
  <2> QED BY <1>2, <2>3, IntactNew DEF EndTask, IntactInv
<1>3. CASE BeginExtend
  <2>1. ASSUME NEW part \in Parts(snapshot)
        PROVE  Intact(Merge(index, part), blobs)
    <3>1. IsSnapshot(part) /\ part.files = snapshot.files
      BY PartFacts DEF StoreType
    <3>2. Intact(part, blobs)
      BY <3>1 DEF IntactInv, Intact, HasFile
    <3> QED BY <3>1, <3>2, IntactFacts DEF IntactInv, StoreType
  <2> QED BY <1>3, <2>1 DEF BeginExtend, Fill, IntactInv
<1>4. CASE EndExtend
  <2>1. \A filled \in view : Intact(Merge(filled, Delta), blobs)
    BY IntactFacts DEF IntactInv, StoreType, Delta
  <2> QED BY <1>4, <2>1 DEF EndExtend, IntactInv
<1>5. CASE QueryFails
  BY <1>5 DEF QueryFails, IntactInv, runnerVars
<1>6. ASSUME NEW required \in Asked, NEW store \in Stores, NEW upstream \in Upstreams,
             Publish(required, store, upstream)
      PROVE  IntactInv'
  <2>1. snapshot'.files = snapshot.files
    BY <1>6 DEF Publish, StoreType, IsSnapshot
  <2>2. Intact(snapshot', blobs)
    BY <2>1 DEF IntactInv, Intact, HasFile
  <2>3. packer' = NewPacker /\ UNCHANGED <<runnerVars, blobs>>
    BY <1>6 DEF Publish
  <2>4. packer'.files = {} /\ packer'.upload.files = {}
    BY <2>3 DEF NewPacker, NoUpload
  <2> QED BY <2>2, <2>3, <2>4 DEF IntactInv, runnerVars
<1> QED BY <1>1, <1>2, <1>3, <1>4, <1>5, <1>6

\* flush starts the upload of the files that are in the buffer.
LEMMA FlushedIntact ==
  ASSUME NEW p \in PackerType, NEW next \in SUBSET Archives, p.files \subseteq p.buffer
  PROVE  /\ Flushed(p, next).files \subseteq Flushed(p, next).buffer
         /\ Flushed(p, next).upload.files \subseteq Flushed(p, next).upload.pack
  BY DEF Flushed, PackerType

\* The uploads keep files intact.
LEMMA IntactUploads ==
  ASSUME StoreType, IntactInv,
         \/ \E w \in Workers :
              \/ \E a \in Archives : Take(w, a)
              \/ StreamFails(w) \/ UploadLarge(w) \/ AddSmall(w) \/ Flush(w)
         \/ UploadPack \/ Finish
  PROVE  IntactInv'
<1>1. ASSUME NEW w \in Workers, NEW a \in Archives, Take(w, a) PROVE IntactInv'
  <2>1. Intact(snapshot', blobs)
    BY <1>1 DEF Take, IntactInv, Intact, HasFile, StoreType, IsSnapshot
  <2> QED BY <1>1, <2>1 DEF Take, IntactInv, runnerVars
<1>2. ASSUME NEW w \in Workers, StreamFails(w) PROVE IntactInv'
  BY <1>2 DEF StreamFails, IntactInv, runnerVars
<1>3. ASSUME NEW w \in Workers, UploadLarge(w) PROVE IntactInv'
  <2> DEFINE pack == worker[w].archives
  <2>1. pack \in SUBSET Archives
    BY DEF StoreType, WorkerType
  <2>2. /\ blobs' = blobs \cup {pack} /\ UNCHANGED <<runnerVars, packer>>
        /\ snapshot' = [snapshot EXCEPT !.files =
                          [a \in Archives |-> IF a \in pack THEN pack ELSE @[a]]]
    BY <1>3 DEF UploadLarge
  <2> HIDE DEF pack
  <2>3. Intact(snapshot', blobs')
    BY <2>1, <2>2, IntactAdded DEF IntactInv, StoreType
  <2> QED BY <2>2, <2>3, IntactFacts DEF IntactInv, StoreType, runnerVars
<1>4. ASSUME NEW w \in Workers, AddSmall(w) PROVE IntactInv'
  <2>1. packer'.files \subseteq packer'.buffer /\ packer'.upload = packer.upload
    BY <1>4 DEF AddSmall, IntactInv, StoreType, PackerType
  <2> QED BY <1>4, <2>1 DEF AddSmall, IntactInv, runnerVars
<1>5. ASSUME NEW w \in Workers, Flush(w) PROVE IntactInv'
  <2>1. /\ packer'.files \subseteq packer'.buffer
        /\ packer'.upload.files \subseteq packer'.upload.pack
    <3>1. CASE packer' = [packer EXCEPT !.err = TRUE, !.upload = NoUpload]
      BY <3>1 DEF IntactInv, StoreType, PackerType, NoUpload
    <3>2. CASE packer' = Flushed(packer, worker[w].archives)
      BY <3>2, FlushedIntact DEF IntactInv, StoreType, WorkerType
    <3> QED BY <1>5, <3>1, <3>2 DEF Flush
  <2> QED BY <1>5, <2>1 DEF Flush, IntactInv, runnerVars
<1>6. CASE UploadPack
  <2> DEFINE pack == packer.upload.pack
             files == packer.upload.files
  <2>1. pack \in SUBSET Archives /\ files \in SUBSET pack
    BY DEF StoreType, PackerType, UploadType, IntactInv
  <2>2. /\ packer'.files = packer.files /\ packer'.buffer = packer.buffer
        /\ packer'.upload.files = files /\ packer'.upload.pack = pack
    BY <1>6 DEF UploadPack, StoreType, PackerType, UploadType
  <2>3. CASE /\ blobs' = blobs \cup {pack}
             /\ snapshot' = [snapshot EXCEPT !.files =
                  [a \in Archives |-> IF a \in files THEN pack ELSE @[a]]]
    <3> HIDE DEF pack, files
    <3>1. Intact(snapshot', blobs')
      BY <2>1, <2>3, IntactAdded DEF IntactInv, StoreType
    <3>2. UNCHANGED runnerVars
      BY <1>6 DEF UploadPack
    <3> QED BY <2>1, <2>2, <2>3, <3>1, <3>2, IntactFacts
        DEF IntactInv, StoreType, runnerVars, pack, files
  <2>4. CASE UNCHANGED <<blobs, snapshot>>
    BY <1>6, <2>2, <2>4 DEF UploadPack, IntactInv, runnerVars
  <2> QED BY <1>6, <2>3, <2>4 DEF UploadPack
<1>7. CASE Finish
  BY <1>7, FlushedIntact DEF Finish, IntactInv, StoreType, runnerVars
<1> QED BY <1>1, <1>2, <1>3, <1>4, <1>5, <1>6, <1>7

\* Every step keeps files intact.
LEMMA IntactStep == StoreType /\ IntactInv /\ [StoreNext]_storeVars => IntactInv'
<1> SUFFICES ASSUME StoreType, IntactInv, [StoreNext]_storeVars PROVE IntactInv'
  OBVIOUS
<1>1. CASE UNCHANGED storeVars
  BY <1>1 DEF IntactInv, storeVars, runnerVars
<1>2. CASE Collected
  BY <1>2 DEF Collected, IntactInv, runnerVars, NewPacker, NoUpload
<1>3. CASE Record
  <2>1. snapshot'.files = snapshot.files
    BY <1>3 DEF Record, StoreType, IsSnapshot
  <2>2. Intact(snapshot', blobs)
    BY <2>1 DEF IntactInv, Intact, HasFile
  <2> QED BY <1>3, <2>2 DEF Record, IntactInv, runnerVars
<1>4. ASSUME NEW p \in Paths, Drop(p) PROVE IntactInv'
  BY <1>4 DEF Drop, IntactInv, runnerVars
<1> QED BY <1>1, <1>2, <1>3, <1>4, IntactRunner, IntactUploads DEF StoreNext

\* PacksIntact for any number of workers and any sizes: a file of a snapshot names a
\* blob that was uploaded and holds it, whatever packs fill, upload or fail.
THEOREM FilesIntact == StoreSpec => []PacksIntact
<1>1. StoreInit => StoreType /\ IntactInv
  BY StoreTypeInit, IntactInit
<1>2. StoreType /\ IntactInv /\ [StoreNext]_storeVars => (StoreType /\ IntactInv)'
  BY StoreTypeStep, IntactStep
<1>3. StoreType /\ IntactInv => PacksIntact
  BY DEF IntactInv, Intact, PacksIntact
<1> QED BY <1>1, <1>2, <1>3, PTL DEF StoreSpec

(***************************************************************************)
(* Records are closed. A helper's records are closed over its own parent   *)
(* and the coordinator's over its head, which its index only extends: so   *)
(* what either records, also after a failure, is accepted wherever it goes.*)
(* While a call salvages what it can, what is ready lacks a reference only *)
(* if it is still to be dropped.                                           *)
(***************************************************************************)
Extends(i, b) ==
  /\ b.upstream \subseteq i.upstream /\ b.narinfos \subseteq i.narinfos
  /\ \A a \in Archives : HasFile(b, a) => HasFile(i, a)

Salvage ==
  call.pc = "salvage" =>
    /\ \A p \in call.ready : HasFile(snapshot, Archive[p])
    /\ \A p \in call.ready : \A r \in Refs[p] :
         r \in call.ready \/ r \in Known \/ p \in call.invalid

\* What a view that is being filled has, in terms of the index and of the delta.
Between(filled, i, d) ==
  /\ Extends(filled, i)
  /\ filled.upstream \subseteq i.upstream \cup d.upstream
  /\ filled.narinfos \subseteq i.narinfos \cup d.narinfos

ClosedInv ==
  /\ RequireClosed(head) /\ RequireClosed(index) /\ RequireClosed(parent)
  /\ RequireClosed(Merge(parent, snapshot))
  /\ task # NoTask => RequireClosed(Merge(head, delta))
  /\ task = NoTask => parent = head
  /\ Extends(index, head)
  /\ \A filled \in view : Between(filled, index, Delta)
  /\ Salvage

\* A closed snapshot stays closed with one that has nothing yet.
LEMMA ClosedNew ==
  ASSUME NEW s, IsSnapshot(s), RequireClosed(s)
  PROVE  RequireClosed(Merge(s, NewSnapshot))
<1>1. /\ IsSnapshot(NewSnapshot) /\ NewSnapshot.narinfos = {}
      /\ Covered(NewSnapshot) = {}
  BY InitialValues DEF NewSnapshot, Covered
<1> QED BY <1>1, ClosedMerge DEF RequireClosed, ValidateRecords

\* The coordinator starts from a closed head, and what it finds upstream is closed.
LEMMA ClosedInit == StoreInit => ClosedInv
<1> SUFFICES ASSUME StoreInit PROVE ClosedInv
  OBVIOUS
<1>1. /\ head \in Heads /\ parent = head /\ index = Merge(head, snapshot) /\ view = {}
      /\ task = NoTask /\ call = NoCall
  BY DEF StoreInit
<1>2. IsSnapshot(head) /\ RequireClosed(head)
  BY <1>1, StoreAssumption
<1>3. RequireClosed(Merge(head, snapshot))
  <2>1. PICK found \in SUBSET Paths :
          /\ snapshot = [NewSnapshot EXCEPT !.upstream = found]
          /\ \A p \in found : Refs[p] \subseteq found
    BY InitialRecords
  <2>2. NewSnapshot.upstream = {} /\ IsSnapshot(NewSnapshot)
    BY InitialValues DEF NewSnapshot
  <2>3. snapshot = [NewSnapshot EXCEPT !.upstream = NewSnapshot.upstream \cup found]
    BY <2>1, <2>2
  <2>4. RequireClosed(Merge(head, NewSnapshot))
    BY <1>2, ClosedNew
  <2> QED BY <1>2, <2>1, <2>2, <2>3, <2>4, MoreUpstream
<1>4. IsSnapshot(snapshot)
  BY StoreTypeInit DEF StoreType
<1>5. Extends(index, head)
  BY <1>1, <1>2, <1>4, MergeFacts DEF Extends
<1> QED BY <1>1, <1>2, <1>3, <1>5 DEF ClosedInv, Salvage, NoCall

\* A view that is being filled comes to the same, when it has all of the delta.
LEMMA FilledClosed ==
  ASSUME NEW filled, NEW i, NEW d, IsSnapshot(filled), IsSnapshot(i), IsSnapshot(d),
         Between(filled, i, d), RequireClosed(Merge(i, d))
  PROVE  RequireClosed(Merge(filled, d))
<1>1. Covered(filled) \cup Covered(d) = Covered(i) \cup Covered(d)
  BY DEF Between, Extends, Covered
<1>2. \A p \in filled.narinfos \cup d.narinfos :
        p \in i.narinfos \cup d.narinfos /\ Archive[p] \in Archives
  BY CoveredPaths DEF Between
<1>3. \A p \in filled.narinfos \cup d.narinfos :
        HasFile(filled, Archive[p]) \/ HasFile(d, Archive[p])
  BY <1>2, ClosedMerge DEF Between, Extends
<1> QED BY <1>1, <1>3, ClosedMerge

\* A delta that grows leaves a view between the index and it.
LEMMA DeltaGrows ==
  ASSUME NEW filled, NEW i, NEW d, NEW e, Between(filled, i, d),
         d.upstream \subseteq e.upstream, d.narinfos \subseteq e.narinfos
  PROVE  Between(filled, i, e)
  BY DEF Between

\* Files alone break nothing.
LEMMA ClosedFiles ==
  ASSUME StoreType, ClosedInv, UNCHANGED runnerVars, IsSnapshot(snapshot'),
         snapshot'.upstream = snapshot.upstream,
         snapshot'.narinfos = snapshot.narinfos,
         \A a \in Archives : HasFile(snapshot, a) => HasFile(snapshot', a),
         call'.pc = "salvage" =>
           call.pc = "salvage" /\ call'.ready = call.ready
             /\ call'.invalid = call.invalid
  PROVE  ClosedInv'
<1>1. RequireClosed(Merge(parent, snapshot'))
  BY MoreFiles DEF ClosedInv, StoreType
<1>2. Covered(snapshot') = Covered(snapshot)
  BY DEF Covered
<1>3. Salvage'
  <2>1. SUFFICES ASSUME call.pc = "salvage", call'.ready = call.ready,
                        call'.invalid = call.invalid
                 PROVE  Salvage'
    BY DEF Salvage
  <2>2. \A p \in call.ready : Archive[p] \in Archives
    BY IndexAssumption DEF StoreType, CallType
  <2>3. Known' = Known
    BY <1>2 DEF Known, runnerVars
  <2> QED BY <2>1, <2>2, <2>3 DEF Salvage, ClosedInv
<1>4. \A filled \in view' : Between(filled, index', Delta')
  <2>1. \A filled \in view : Between(filled, index, Delta)
    BY DEF ClosedInv
  <2>2. Delta'.upstream = Delta.upstream /\ Delta'.narinfos = Delta.narinfos
    BY DEF Delta, runnerVars
  <2> QED BY <2>1, <2>2, DeltaGrows DEF runnerVars
<1> QED BY <1>1, <1>3, <1>4 DEF ClosedInv, runnerVars

\* The runners' steps keep records closed.
LEMMA ClosedRunner ==
  ASSUME StoreType, StoreType', ClosedInv,
         \/ \E t \in Tasks : BeginTask(t)
         \/ EndTask \/ BeginExtend \/ EndExtend \/ QueryFails
         \/ \E required \in Asked, store \in Stores, upstream \in Upstreams :
              Publish(required, store, upstream)
  PROVE  ClosedInv'
<1>1. ASSUME NEW t \in Tasks, BeginTask(t) PROVE ClosedInv'
  <2>1. /\ task' = t /\ delta' = snapshot /\ snapshot' = NewSnapshot
        /\ parent' = SelectPaths(index, t.inputs) /\ parent = head
        /\ call' = NoCall /\ UNCHANGED <<head, index, view>> /\ task = NoTask
    BY <1>1 DEF BeginTask, ClosedInv
  <2>2. IsSnapshot(parent') /\ RequireClosed(parent')
    BY <2>1, SelectionClosed DEF StoreType, ClosedInv
  <2>3. RequireClosed(Merge(parent', snapshot'))
    BY <2>1, <2>2, ClosedNew
  <2>4. task' # NoTask
    BY <2>1, StoreAssumption
  <2>5. Salvage'
    BY <2>1 DEF Salvage, NoCall
  <2>6. Delta' = Delta
    BY <2>1, <2>4 DEF Delta
  <2>7. \A filled \in view' : Between(filled, index', Delta')
    BY <2>1, <2>6 DEF ClosedInv
  <2> QED BY <2>1, <2>2, <2>3, <2>4, <2>5, <2>7 DEF ClosedInv
<1>2. CASE EndTask
  <2>1. /\ task' = NoTask /\ parent' = head /\ call' = NoCall /\ task # NoTask
        /\ UNCHANGED <<head, index>> /\ view' = {}
    BY <1>2 DEF EndTask
  <2>2. /\ snapshot'.upstream = delta.upstream /\ snapshot'.narinfos = delta.narinfos
        /\ \A a \in Archives : HasFile(delta, a) => HasFile(snapshot', a)
    BY <1>2 DEF EndTask, StoreType, IsSnapshot, HasFile
  <2>3. RequireClosed(Merge(head, snapshot'))
    BY <2>1, <2>2, MoreFiles DEF ClosedInv, StoreType
  <2>4. Salvage'
    BY <2>1 DEF Salvage, NoCall
  <2> QED BY <2>1, <2>3, <2>4 DEF ClosedInv
<1>3. CASE BeginExtend
  <2>1. PICK part \in Parts(snapshot) : view' = {Merge(index, part)}
    BY <1>3 DEF BeginExtend, Fill
  <2>2. /\ UNCHANGED <<head, index, delta, task, parent, snapshot, call>> /\ task = NoTask
    BY <1>3 DEF BeginExtend, Fill
  <2>3. /\ IsSnapshot(part) /\ part.upstream \subseteq snapshot.upstream
        /\ part.narinfos \subseteq snapshot.narinfos
    BY PartFacts DEF StoreType
  <2>4. Between(Merge(index, part), index, snapshot)
    BY <2>3, MergeFacts DEF Between, Extends, StoreType
  <2>5. \A filled \in view' : Between(filled, index', Delta')
    BY <2>1, <2>2, <2>4 DEF Delta
  <2>6. Salvage'
    BY <2>2 DEF ClosedInv, Salvage, Known
  <2> QED BY <2>2, <2>5, <2>6 DEF ClosedInv
<1>4. CASE EndExtend
  <2>1. PICK filled \in view : index' = Merge(filled, Delta)
    BY <1>4 DEF EndExtend
  <2>2. /\ Extendable(index, Delta) /\ view' = {}
        /\ UNCHANGED <<head, delta, task, parent, snapshot, call>>
    BY <1>4 DEF EndExtend
  <2>3. IsSnapshot(filled) /\ IsSnapshot(index) /\ IsSnapshot(Delta)
    BY DEF StoreType, Delta
  <2>4. RequireClosed(Merge(index, Delta))
    BY <2>2, <2>3, ExtendedClosed DEF ClosedInv
  <2>5. Between(filled, index, Delta) /\ Extends(index, head)
    BY DEF ClosedInv
  <2>6. RequireClosed(index')
    BY <2>1, <2>3, <2>4, <2>5, FilledClosed
  <2>7. Extends(index', head)
    BY <2>1, <2>3, <2>5, MergeFacts DEF Between, Extends
  <2>8. Salvage'
    BY <2>2 DEF ClosedInv, Salvage, Known
  <2> QED BY <2>2, <2>6, <2>7, <2>8 DEF ClosedInv
<1>5. CASE QueryFails
  <2>1. call'.pc = "idle" /\ UNCHANGED <<runnerVars, snapshot>>
    BY <1>5 DEF QueryFails, NoCall
  <2> QED BY <2>1, ClosedFiles DEF StoreType
<1>6. ASSUME NEW required \in Asked, NEW store \in Stores, NEW upstream \in Upstreams,
             Publish(required, store, upstream)
      PROVE  ClosedInv'
  <2> DEFINE selected == (required \cap store) \ Known
             candidates == Reach(selected, store) \ Known
             found == Collect(candidates, upstream)
  <2>1. found \in SUBSET Paths
    BY StoreAssumption DEF Collect, Reach
  <2>2. /\ \A p \in found : Refs[p] \subseteq found
        /\ snapshot' = [snapshot EXCEPT !.upstream = @ \cup found]
        /\ view = {} /\ UNCHANGED runnerVars
    BY <1>6 DEF Publish, Incomplete
  <2>3. call'.pc # "salvage"
    BY <1>6 DEF Publish, NoCall
  <2> HIDE DEF found
  <2>4. RequireClosed(Merge(parent, snapshot'))
    BY <2>1, <2>2, MoreUpstream DEF ClosedInv, StoreType
  <2> QED BY <2>2, <2>3, <2>4 DEF ClosedInv, Salvage, runnerVars
<1> QED BY <1>1, <1>2, <1>3, <1>4, <1>5, <1>6

\* Uploads add files, and nothing else, to the snapshot.
LEMMA UploadsKeep ==
  ASSUME StoreType, IntactInv,
         \/ \E w \in Workers :
              \/ \E a \in Archives : Take(w, a)
              \/ StreamFails(w) \/ UploadLarge(w) \/ AddSmall(w) \/ Flush(w)
         \/ UploadPack \/ Finish
  PROVE  /\ UNCHANGED runnerVars
         /\ snapshot'.upstream = snapshot.upstream
         /\ snapshot'.narinfos = snapshot.narinfos
         /\ \A a \in Archives : HasFile(snapshot, a) => HasFile(snapshot', a)
         /\ call'.pc = call.pc /\ call'.roots = call.roots
         /\ call'.ready = call.ready /\ call'.invalid = call.invalid
<1> DEFINE Goal ==
      /\ UNCHANGED runnerVars
      /\ snapshot'.upstream = snapshot.upstream
      /\ snapshot'.narinfos = snapshot.narinfos
      /\ \A a \in Archives : HasFile(snapshot, a) => HasFile(snapshot', a)
      /\ call'.pc = call.pc /\ call'.roots = call.roots
      /\ call'.ready = call.ready /\ call'.invalid = call.invalid
<1>1. ASSUME NEW w \in Workers, NEW a \in Archives, Take(w, a) PROVE Goal
  BY <1>1 DEF Take, StoreType, IsSnapshot, CallType, HasFile
<1>2. ASSUME NEW w \in Workers, StreamFails(w) PROVE Goal
  BY <1>2 DEF StreamFails, Fails, StoreType, CallType
<1>3. ASSUME NEW w \in Workers, UploadLarge(w) PROVE Goal
  BY <1>3 DEF UploadLarge, StoreType, IsSnapshot, HasFile, NoBlob
<1>4. ASSUME NEW w \in Workers, AddSmall(w) PROVE Goal
  BY <1>4 DEF AddSmall, Fails, StoreType, CallType
<1>5. ASSUME NEW w \in Workers, Flush(w) PROVE Goal
  BY <1>5 DEF Flush, Fails, StoreType, CallType
<1>6. CASE UploadPack
  <2>1. packer.upload.files \subseteq packer.upload.pack
    BY DEF IntactInv
  <2>2. UNCHANGED <<runnerVars, call>>
    BY <1>6 DEF UploadPack
  <2>3. CASE UNCHANGED snapshot
    BY <2>2, <2>3
  <2>4. CASE snapshot' = [snapshot EXCEPT !.files =
               [a \in Archives |-> IF a \in packer.upload.files
                                   THEN packer.upload.pack ELSE @[a]]]
    BY <2>1, <2>2, <2>4 DEF StoreType, IsSnapshot, HasFile, NoBlob
  <2> QED BY <1>6, <2>3, <2>4 DEF UploadPack
<1>7. CASE Finish
  BY <1>7 DEF Finish
<1> QED BY <1>1, <1>2, <1>3, <1>4, <1>5, <1>6, <1>7

\* So they keep records closed.
LEMMA ClosedUploads ==
  ASSUME StoreType, StoreType', IntactInv, ClosedInv,
         \/ \E w \in Workers :
              \/ \E a \in Archives : Take(w, a)
              \/ StreamFails(w) \/ UploadLarge(w) \/ AddSmall(w) \/ Flush(w)
         \/ UploadPack \/ Finish
  PROVE  ClosedInv'
<1>1. IsSnapshot(snapshot')
  BY DEF StoreType
<1> QED BY <1>1, UploadsKeep, ClosedFiles

\* Every step keeps records closed.
LEMMA ClosedStep ==
  StoreType /\ IntactInv /\ ClosedInv /\ [StoreNext]_storeVars => ClosedInv'
<1> SUFFICES ASSUME StoreType, IntactInv, ClosedInv, [StoreNext]_storeVars
             PROVE  ClosedInv'
  OBVIOUS
<1>0. StoreType'
  BY StoreTypeStep
<1>1. CASE UNCHANGED storeVars
  BY <1>1, ClosedFiles DEF StoreType, storeVars
<1>2. CASE Collected
  <2>1. /\ call'.pc = "salvage" /\ call'.ready = Ready /\ call'.invalid = Dangling(Ready)
        /\ UNCHANGED <<runnerVars, snapshot>>
    BY <1>2 DEF Collected, StoreType, CallType
  <2>2. Known' = Known
    BY <2>1 DEF Known, runnerVars
  <2>3. Salvage'
    BY <2>1, <2>2 DEF Salvage, Ready, Dangling
  <2> QED BY <2>1, <2>3 DEF ClosedInv, runnerVars, Delta
<1>3. CASE Record
  <2>1. /\ call.pc = "salvage" /\ call.invalid = {} /\ call'.pc = "idle"
        /\ snapshot' = [snapshot EXCEPT !.narinfos = @ \cup call.ready]
        /\ UNCHANGED runnerVars
    BY <1>3 DEF Record, StoreType, CallType
  <2>2. call.ready \in SUBSET Paths
    BY DEF StoreType, CallType
  <2>3. /\ \A p \in call.ready : HasFile(snapshot, Archive[p])
        /\ \A p \in call.ready :
             Refs[p] \subseteq call.ready \cup Covered(snapshot) \cup Covered(parent)
    BY <2>1 DEF ClosedInv, Salvage, Known
  <2>4. RequireClosed(Merge(parent, snapshot'))
    BY <2>1, <2>2, <2>3, MoreRecords DEF ClosedInv, StoreType
  <2>5. \A filled \in view' : Between(filled, index', Delta')
    <3>1. \A filled \in view : Between(filled, index, Delta)
      BY DEF ClosedInv
    <3>2. Delta'.upstream = Delta.upstream /\ Delta.narinfos \subseteq Delta'.narinfos
      BY <2>1 DEF Delta, runnerVars, StoreType, IsSnapshot
    <3> QED BY <2>1, <3>1, <3>2, DeltaGrows DEF runnerVars
  <2> QED BY <2>1, <2>4, <2>5 DEF ClosedInv, Salvage, runnerVars
<1>4. ASSUME NEW p \in Paths, Drop(p) PROVE ClosedInv'
  <2>1. /\ call'.ready = call.ready \ {p}
        /\ call'.invalid = (call.invalid \ {p}) \cup (IF p \in call.ready
                                                      THEN Consumers(p) ELSE {})
        /\ call.pc = "salvage" /\ UNCHANGED <<runnerVars, snapshot>>
    BY <1>4 DEF Drop, StoreType, CallType
  <2>2. Known' = Known
    BY <2>1 DEF Known, runnerVars
  <2>3. Salvage'
    BY <2>1, <2>2 DEF ClosedInv, Salvage, Consumers
  <2> QED BY <2>1, <2>3 DEF ClosedInv, runnerVars, Delta
<1> QED BY <1>0, <1>1, <1>2, <1>3, <1>4, ClosedRunner, ClosedUploads DEF StoreNext

\* The three invariants together, from which both theorems follow.
LEMMA StoreInvariant == StoreSpec => [](StoreType /\ IntactInv /\ ClosedInv)
<1>1. StoreInit => StoreType /\ IntactInv /\ ClosedInv
  BY StoreTypeInit, IntactInit, ClosedInit
<1>2. StoreType /\ IntactInv /\ ClosedInv /\ [StoreNext]_storeVars
        => (StoreType /\ IntactInv /\ ClosedInv)'
  BY StoreTypeStep, IntactStep, ClosedStep
<1> QED BY <1>1, <1>2, PTL DEF StoreSpec

\* RecordsClosed for any references and failures: the index, what a helper is given
\* and what a runner records over it hold every reference and every archive.
THEOREM AllRecordsClosed == StoreSpec => []RecordsClosed
<1>1. ClosedInv => RecordsClosed
  BY DEF ClosedInv, RecordsClosed
<1> QED BY <1>1, StoreInvariant, PTL

\* DeltaAccepted for any references and failures: extend and the final union refuse
\* nothing that a runner recorded.
THEOREM NothingRefused == StoreSpec => []DeltaAccepted
<1>1. StoreType /\ ClosedInv => DeltaAccepted
  <2> SUFFICES ASSUME StoreType, ClosedInv PROVE DeltaAccepted
    OBVIOUS
  <2>1. CASE task = NoTask
    <3>1. Extendable(index, snapshot) /\ RequireClosed(Merge(index, snapshot))
      BY <2>1, LargerAccepts DEF StoreType, ClosedInv, Extends
    <3> QED BY <2>1, <3>1 DEF DeltaAccepted
  <2>2. CASE task # NoTask
    <3>1. Extendable(parent, snapshot) /\ RequireClosed(Merge(parent, snapshot))
      BY LargerAccepts DEF StoreType, ClosedInv
    <3> QED BY <2>2, <3>1 DEF DeltaAccepted
  <2> QED BY <2>1, <2>2
<1> QED BY <1>1, StoreInvariant, PTL

(***************************************************************************)
(* A call is honest. Its roots are what nobody has, and refer to each      *)
(* other and to what is known. Until something failed, every archive of a  *)
(* root is in the queue, with a worker, in the packer, or uploaded: when   *)
(* all have returned it is uploaded. What the salvage gives up refers to   *)
(* another path that nobody has.                                           *)
(***************************************************************************)
Quiet ==
  call.pc # "upload" =>
    packer.upload.pc # "busy" /\ \A w \in Workers : worker[w].pc = "free"

Rooted ==
  call.pc # "idle" =>
    /\ call.roots \cap Known = {}
    /\ \A p \in call.roots : Refs[p] \subseteq call.roots \cup Known

UnderWay(a) ==
  \/ a \in call.queue \/ HasFile(snapshot, a)
  \/ \E w \in Workers : worker[w].pc # "free" /\ a \in worker[w].archives
  \/ a \in packer.files
  \/ packer.upload.pc = "busy" /\ a \in packer.upload.files

NothingLost ==
  /\ call.failed => call.err
  /\ call.pc = "upload" /\ ~call.err /\ ~PackFailed =>
       \A p \in call.roots : UnderWay(Archive[p])

Lacks(p) == \E r \in Refs[p] : r # p /\ r \notin call.ready /\ r \notin Known

GivenUp ==
  call.pc = "salvage" =>
    /\ call.ready \subseteq call.roots
    /\ \A p \in call.roots :
         \/ p \in call.ready /\ p \notin call.invalid
         \/ ~HasFile(snapshot, Archive[p]) \/ Lacks(p)
    /\ ~call.err => call.ready = call.roots /\ call.invalid = {}

HonestInv == Quiet /\ Rooted /\ NothingLost /\ GivenUp /\ HonestReturn

\* Nothing was asked for yet.
LEMMA HonestInit == StoreInit => HonestInv
  BY DEF StoreInit, HonestInv, Quiet, Rooted, NothingLost, GivenUp, HonestReturn,
         NoCall, NewPacker, NoUpload, Free

\* A call that follows none has nothing to answer for.
LEMMA HonestNoCall ==
  ASSUME Quiet, call.pc = "idle", call' \in {NoCall, [NoCall EXCEPT !.err = TRUE]},
         UNCHANGED worker, packer' \in {packer, NewPacker}
  PROVE  HonestInv'
<1>1. call'.pc = "idle" /\ call'.roots = {} /\ call'.failed = FALSE
  BY DEF NoCall
<1>2. Quiet'
  BY DEF Quiet, NewPacker, NoUpload
<1> QED BY <1>1, <1>2 DEF HonestInv, Rooted, NothingLost, GivenUp, HonestReturn

\* The runners' steps: a call begins with roots that nobody has and that refer to
\* nothing else, for the local store is closed.
LEMMA HonestRunner ==
  ASSUME StoreType, HonestInv,
         \/ \E t \in Tasks : BeginTask(t)
         \/ EndTask \/ BeginExtend \/ EndExtend \/ QueryFails
         \/ \E required \in Asked, store \in Stores, upstream \in Upstreams :
              Publish(required, store, upstream)
  PROVE  HonestInv'
<1>1. ASSUME NEW t \in Tasks, BeginTask(t) PROVE HonestInv'
  BY <1>1, HonestNoCall DEF BeginTask, HonestInv
<1>2. CASE EndTask
  BY <1>2, HonestNoCall DEF EndTask, HonestInv
<1>3. CASE BeginExtend \/ EndExtend
  <2>1. UNCHANGED <<call, worker, packer, snapshot, parent>>
    BY <1>3 DEF BeginExtend, EndExtend
  <2>2. HonestReturn'
    BY <2>1 DEF HonestInv, HonestReturn, Known
  <2> QED BY <2>1, <2>2
      DEF HonestInv, Quiet, Rooted, NothingLost, GivenUp, UnderWay, PackFailed, Lacks, Known
<1>4. CASE QueryFails
  BY <1>4, HonestNoCall DEF QueryFails, HonestInv
<1>5. ASSUME NEW required \in Asked, NEW store \in Stores, NEW upstream \in Upstreams,
             Publish(required, store, upstream)
      PROVE  HonestInv'
  <2> DEFINE selected == (required \cap store) \ Known
             reached == Reach(selected, store)
             candidates == reached \ Known
             found == Collect(candidates, upstream)
             roots == candidates \ found
  <2>1. /\ call.pc = "idle"
        /\ snapshot' = [snapshot EXCEPT !.upstream = @ \cup found]
        /\ \/ call' = [NoCall EXCEPT !.err = TRUE]
           \/ call' = [NoCall EXCEPT !.pc = "upload", !.roots = roots,
                                     !.queue = { Archive[p] : p \in roots }]
        /\ packer' = NewPacker /\ UNCHANGED <<parent, worker>>
    BY <1>5 DEF Publish, runnerVars
  <2>2. CASE call' = [NoCall EXCEPT !.err = TRUE]
    BY <2>1, <2>2, HonestNoCall DEF HonestInv
  <2>3. CASE call' = [NoCall EXCEPT !.pc = "upload", !.roots = roots,
                                    !.queue = { Archive[p] : p \in roots }]
    <3>1. /\ call'.pc = "upload" /\ call'.roots = roots /\ call'.failed = FALSE
          /\ call'.queue = { Archive[p] : p \in roots }
      BY <2>3 DEF NoCall
    <3>2. store \in SUBSET Paths /\ \A p \in store : Refs[p] \subseteq store
      BY StoreAssumption
    <3>3. /\ reached \subseteq store
          /\ \A p \in reached : Refs[p] \subseteq reached
      BY <3>2, ReachClosed
    <3> HIDE DEF reached, found
    <3>4. Known' = Known \cup found
      BY <2>1 DEF Known, Covered, StoreType, IsSnapshot
    <3>5. Rooted'
      BY <3>1, <3>3, <3>4 DEF Rooted
    <3>6. NothingLost'
      BY <3>1 DEF NothingLost, UnderWay
    <3> QED BY <3>1, <3>5, <3>6 DEF HonestInv, Quiet, GivenUp, HonestReturn
  <2> QED BY <2>1, <2>2, <2>3
<1> QED BY <1>1, <1>2, <1>3, <1>4, <1>5

\* An archive that is under way stays so unless something fails.
LEMMA StaysUnderWay ==
  ASSUME StoreType, IntactInv, NothingLost,
         \/ \E w \in Workers :
              \/ \E a \in Archives : Take(w, a)
              \/ StreamFails(w) \/ UploadLarge(w) \/ AddSmall(w) \/ Flush(w)
         \/ UploadPack \/ Finish,
         ~call'.err, ~PackFailed'
  PROVE  /\ ~call.err /\ ~PackFailed
         /\ \A a \in Archives : UnderWay(a) => UnderWay(a)'
<1> DEFINE Goal == /\ ~call.err /\ ~PackFailed
                   /\ \A a \in Archives : UnderWay(a) => UnderWay(a)'
<1>1. ASSUME NEW w \in Workers, NEW b \in Archives, Take(w, b) PROVE Goal
  <2>1. ~call.err /\ ~call.failed /\ ~PackFailed
    BY <1>1 DEF Take, StoreType, CallType, PackFailed, NothingLost
  <2>2. call'.queue = call.queue \ {b} /\ packer' = packer
    BY <1>1 DEF Take, StoreType, CallType
  <2>3. \A a \in Archives : HasFile(snapshot, a) => HasFile(snapshot', a)
    BY <1>1, UploadsKeep
  <2>4. \A v \in Workers : worker[v].pc # "free" => worker'[v] = worker[v]
    BY <1>1 DEF Take, StoreType
  <2>5. HasFile(snapshot', b) \/ (worker'[w].pc # "free" /\ b \in worker'[w].archives)
    BY <1>1, <2>1 DEF Take, StoreType, IsSnapshot, HasFile
  <2> QED BY <2>1, <2>2, <2>3, <2>4, <2>5 DEF UnderWay
<1>2. ASSUME NEW w \in Workers, Fails(w) PROVE FALSE
  BY <1>2 DEF Fails, StoreType, CallType
<1>3. ASSUME NEW w \in Workers, UploadLarge(w) PROVE Goal
  <2>1. /\ UNCHANGED <<call, packer>> /\ worker' = [worker EXCEPT ![w] = Free]
    BY <1>3 DEF UploadLarge
  <2>2. \A a \in Archives : HasFile(snapshot, a) => HasFile(snapshot', a)
    BY <1>3, UploadsKeep
  <2>3. \A a \in worker[w].archives : a \in Archives => HasFile(snapshot', a)
    BY <1>3 DEF UploadLarge, StoreType, IsSnapshot, HasFile, NoBlob
  <2>4. \A v \in Workers : v # w => worker'[v] = worker[v]
    BY <2>1 DEF StoreType
  <2> QED BY <2>1, <2>2, <2>3, <2>4 DEF UnderWay, PackFailed
<1>4. ASSUME NEW w \in Workers, AddSmall(w) PROVE Goal
  <2>1. ~packer.err /\ UNCHANGED <<call, snapshot>>
    BY <1>4, <1>2 DEF AddSmall
  <2>2. CASE packer' = [packer EXCEPT !.buffer = @ \cup worker[w].archives,
                                      !.files = @ \cup worker[w].archives]
             /\ worker' = [worker EXCEPT ![w] = Free]
    <3>1. /\ packer'.files = packer.files \cup worker[w].archives
          /\ packer'.upload = packer.upload /\ packer'.err = packer.err
      BY <2>2 DEF StoreType, PackerType
    <3>2. \A v \in Workers : v # w => worker'[v] = worker[v]
      BY <2>2 DEF StoreType
    <3> QED BY <2>1, <3>1, <3>2 DEF UnderWay, PackFailed
  <2>3. CASE worker' = [worker EXCEPT ![w].pc = "flush"] /\ UNCHANGED packer
    <3>1. \A v \in Workers : /\ worker'[v].archives = worker[v].archives
                             /\ worker[v].pc # "free" => worker'[v].pc # "free"
      BY <2>3 DEF StoreType, WorkerType
    <3> QED BY <2>1, <2>3, <3>1 DEF UnderWay, PackFailed
  <2> QED BY <1>4, <1>2, <2>2, <2>3 DEF AddSmall
<1>5. ASSUME NEW w \in Workers, Flush(w) PROVE Goal
  <2>1. /\ Waited /\ ~PackFailed /\ packer' = Flushed(packer, worker[w].archives)
        /\ worker' = [worker EXCEPT ![w] = Free] /\ UNCHANGED <<call, snapshot>>
    BY <1>5, <1>2 DEF Flush
  <2>2. /\ packer'.files = worker[w].archives
        /\ packer'.upload.pc = "busy" /\ packer'.upload.files = packer.files
    BY <2>1 DEF Flushed, StoreType, PackerType
  <2>3. \A v \in Workers : v # w => worker'[v] = worker[v]
    BY <2>1 DEF StoreType
  <2> QED BY <2>1, <2>2, <2>3 DEF UnderWay, Waited
<1>6. CASE UploadPack
  <2>1. UNCHANGED <<call, worker>> /\ packer.upload.pc = "busy"
    BY <1>6 DEF UploadPack
  <2>2. /\ packer' = [packer EXCEPT !.upload.pc = "done"]
        /\ snapshot' = [snapshot EXCEPT !.files =
             [a \in Archives |->
                IF a \in packer.upload.files THEN packer.upload.pack ELSE @[a]]]
    BY <1>6 DEF UploadPack, PackFailed, StoreType, PackerType, UploadType
  <2>3. /\ packer'.files = packer.files /\ packer'.err = packer.err
        /\ packer'.upload.pc = "done"
    BY <2>2 DEF StoreType, PackerType, UploadType
  <2>4. packer.upload.files \subseteq packer.upload.pack
    BY DEF IntactInv
  <2>5. \A a \in Archives : HasFile(snapshot, a) \/ a \in packer.upload.files
                              => HasFile(snapshot', a)
    BY <2>2, <2>4 DEF StoreType, IsSnapshot, HasFile, NoBlob
  <2> QED BY <2>1, <2>3, <2>5 DEF UnderWay, PackFailed
<1>7. CASE Finish
  <2>1. /\ Waited /\ ~PackFailed /\ packer' = Flushed(packer, {})
        /\ UNCHANGED <<call, snapshot, worker>>
    BY <1>7 DEF Finish
  <2>2. packer'.upload.pc = "busy" /\ packer'.upload.files = packer.files
    BY <2>1 DEF Flushed, StoreType, PackerType
  <2> QED BY <2>1, <2>2 DEF UnderWay, Waited
<1> QED BY <1>1, <1>2, <1>3, <1>4, <1>5, <1>6, <1>7 DEF StreamFails

\* The uploads keep a call honest.
LEMMA HonestUploads ==
  ASSUME StoreType, IntactInv, HonestInv,
         \/ \E w \in Workers :
              \/ \E a \in Archives : Take(w, a)
              \/ StreamFails(w) \/ UploadLarge(w) \/ AddSmall(w) \/ Flush(w)
         \/ UploadPack \/ Finish
  PROVE  HonestInv'
<1>1. call.pc = "upload"
  BY DEF HonestInv, Quiet, Take, StreamFails, UploadLarge, AddSmall, Flush, UploadPack,
         Finish
<1>2. call'.pc = "upload" /\ call'.roots = call.roots /\ Known' = Known
  BY <1>1, UploadsKeep DEF Known, Covered, runnerVars
<1>3. Rooted'
  BY <1>1, <1>2 DEF HonestInv, Rooted
<1>4. call'.failed => call'.err
  BY DEF HonestInv, NothingLost, Take, StreamFails, UploadLarge, AddSmall, Flush,
         UploadPack, Finish, Fails, StoreType, CallType
<1>5. ASSUME ~call'.err, ~PackFailed', NEW p \in call.roots PROVE UnderWay(Archive[p])'
  <2>1. Archive[p] \in Archives
    BY IndexAssumption DEF StoreType, CallType
  <2>2. UnderWay(Archive[p])
    BY <1>1, <1>5, StaysUnderWay DEF HonestInv, NothingLost
  <2> QED BY <1>5, <2>1, <2>2, StaysUnderWay DEF HonestInv
<1> QED BY <1>2, <1>3, <1>4, <1>5
    DEF HonestInv, Quiet, NothingLost, GivenUp, HonestReturn

\* What is not complete as the uploads end has no archive or lacks a reference.
LEMMA HonestCollected ==
  ASSUME StoreType, IntactInv, HonestInv, Collected
  PROVE  HonestInv'
<1>1. /\ call.pc = "upload" /\ Joined /\ Waited /\ (PackFailed \/ packer.buffer = {})
      /\ packer' = NewPacker /\ UNCHANGED <<parent, snapshot, worker>>
  BY DEF Collected, runnerVars
<1>2. /\ call'.pc = "salvage" /\ call'.roots = call.roots /\ call'.failed = call.failed
      /\ call'.ready = Ready /\ call'.invalid = Dangling(Ready) /\ call'.err = Outcome
  BY DEF Collected, StoreType, CallType
<1>3. Known' = Known
  BY <1>1 DEF Known
<1>4. Quiet' /\ Rooted' /\ NothingLost' /\ HonestReturn'
  BY <1>1, <1>2, <1>3
     DEF HonestInv, Quiet, Rooted, NothingLost, HonestReturn, Joined, Outcome, NewPacker,
         NoUpload
<1>5. Ready \subseteq call.roots
  BY DEF Ready
<1>6. ASSUME NEW p \in call.roots, p \notin Ready \/ p \in Dangling(Ready)
      PROVE  ~HasFile(snapshot', Archive[p]) \/ Lacks(p)'
  <2>1. CASE p \notin Ready
    BY <1>1, <2>1 DEF Ready
  <2>2. CASE p \in Dangling(Ready)
    BY <1>2, <1>3, <2>2 DEF Dangling, Lacks
  <2> QED BY <1>6, <2>1, <2>2
<1>7. ASSUME ~Outcome PROVE Ready = call.roots /\ Dangling(Ready) = {}
  <2>1. /\ packer.files = {} /\ call.queue = {} /\ packer.upload.pc # "busy"
        /\ \A w \in Workers : worker[w].pc = "free"
    BY <1>1, <1>7 DEF Outcome, IntactInv, Joined, Waited
  <2>2. \A p \in call.roots : HasFile(snapshot, Archive[p])
    BY <1>1, <1>7, <2>1 DEF Outcome, HonestInv, NothingLost, UnderWay
  <2> QED BY <1>1, <2>2 DEF Ready, Dangling, HonestInv, Rooted
<1>8. GivenUp'
  BY <1>2, <1>5, <1>6, <1>7 DEF GivenUp
<1> QED BY <1>4, <1>8 DEF HonestInv

\* What a dropped path's consumers lack is that path.
LEMMA HonestDrop ==
  ASSUME StoreType, HonestInv, NEW p \in Paths, Drop(p)
  PROVE  HonestInv'
<1>1. /\ call.pc = "salvage" /\ p \in call.invalid
      /\ UNCHANGED <<parent, snapshot, worker, packer>>
  BY DEF Drop, runnerVars
<1>2. /\ call'.pc = "salvage" /\ call'.roots = call.roots /\ call'.failed = call.failed
      /\ call'.err = call.err /\ call'.ready = call.ready \ {p}
      /\ call'.invalid = (call.invalid \ {p}) \cup (IF p \in call.ready
                                                    THEN Consumers(p) ELSE {})
  BY DEF Drop, StoreType, CallType
<1>3. Known' = Known
  BY <1>1 DEF Known
<1>4. Quiet' /\ Rooted' /\ NothingLost' /\ HonestReturn'
  BY <1>1, <1>2, <1>3 DEF HonestInv, Quiet, Rooted, NothingLost, HonestReturn
<1>5. \A q \in call.roots : Lacks(q) => Lacks(q)'
  BY <1>2, <1>3 DEF Lacks
<1>6. ASSUME NEW q \in call.roots
      PROVE  \/ q \in call'.ready /\ q \notin call'.invalid
             \/ ~HasFile(snapshot', Archive[q]) \/ Lacks(q)'
  <2>1. CASE ~HasFile(snapshot, Archive[q]) \/ Lacks(q)
    BY <1>1, <1>5, <2>1
  <2>2. CASE q \in call.ready /\ q \notin call.invalid
    <3>1. q # p /\ q \in call'.ready
      BY <1>1, <1>2, <2>2
    <3>2. CASE p \in call.ready /\ p \in Refs[q]
      <4>1. p \in call.roots /\ p \notin Known
        BY <1>1, <3>2 DEF HonestInv, GivenUp, Rooted
      <4> QED BY <1>2, <1>3, <3>1, <3>2, <4>1 DEF Lacks
    <3>3. CASE ~(p \in call.ready /\ p \in Refs[q])
      BY <1>2, <2>2, <3>1, <3>3 DEF Consumers
    <3> QED BY <3>2, <3>3
  <2> QED BY <1>1, <2>1, <2>2 DEF HonestInv, GivenUp
<1>7. call.err
  BY <1>1 DEF HonestInv, GivenUp
<1>8. GivenUp'
  BY <1>1, <1>2, <1>6, <1>7 DEF GivenUp, HonestInv
<1> QED BY <1>4, <1>8 DEF HonestInv

\* What is ready is recorded; what is not lacks an archive or a reference still.
LEMMA HonestRecord ==
  ASSUME StoreType, HonestInv, Record
  PROVE  HonestInv'
<1>1. /\ call.pc = "salvage" /\ call.invalid = {}
      /\ snapshot' = [snapshot EXCEPT !.narinfos = @ \cup call.ready]
      /\ UNCHANGED <<parent, worker, packer>>
  BY DEF Record, runnerVars
<1>2. /\ call'.pc = "idle" /\ call'.roots = call.roots /\ call'.failed = FALSE
      /\ call'.err = call.err
  BY DEF Record, StoreType, CallType
<1>3. /\ snapshot'.narinfos = snapshot.narinfos \cup call.ready
      /\ snapshot'.files = snapshot.files /\ Known' = Known \cup call.ready
  BY <1>1 DEF StoreType, IsSnapshot, Known, Covered
<1>4. HonestReturn'
  <2>1. ~call.err => call.roots \subseteq snapshot'.narinfos
    BY <1>1, <1>3 DEF HonestInv, GivenUp
  <2>2. ASSUME NEW p \in call.roots, p \notin snapshot'.narinfos
        PROVE  ~HasFile(snapshot', Archive[p]) \/ ~(Refs[p] \ {p} \subseteq Known')
    <3>1. ~HasFile(snapshot, Archive[p]) \/ Lacks(p)
      BY <1>1, <1>3, <2>2 DEF HonestInv, GivenUp
    <3> QED BY <1>3, <3>1 DEF Lacks, HasFile
  <2> QED BY <1>2, <2>1, <2>2 DEF HonestReturn
<1>5. Quiet'
  BY <1>1, <1>2 DEF HonestInv, Quiet
<1> QED BY <1>2, <1>4, <1>5 DEF HonestInv, Rooted, NothingLost, GivenUp

\* Every step keeps calls honest.
LEMMA HonestStep ==
  StoreType /\ IntactInv /\ HonestInv /\ [StoreNext]_storeVars => HonestInv'
<1> SUFFICES ASSUME StoreType, IntactInv, HonestInv, [StoreNext]_storeVars
             PROVE  HonestInv'
  OBVIOUS
<1>1. CASE UNCHANGED storeVars
  BY <1>1 DEF HonestInv, Quiet, Rooted, NothingLost, UnderWay, PackFailed, GivenUp, Lacks,
              HonestReturn, Known, storeVars, runnerVars
<1>2. CASE StoreNext
  BY <1>2, HonestRunner, HonestUploads, HonestCollected, HonestDrop, HonestRecord
     DEF StoreNext
<1> QED BY <1>1, <1>2

\* HonestReturn for any packing and failures: a call without an error recorded all it
\* was to upload, and one with an error left out only what is incomplete.
THEOREM CallsAreHonest == StoreSpec => []HonestReturn
<1>1. StoreInit => HonestInv
  BY HonestInit
<1>2. HonestInv => HonestReturn
  BY DEF HonestInv
<1> QED BY <1>1, <1>2, HonestStep, StoreInvariant, PTL DEF StoreSpec

=============================================================================
