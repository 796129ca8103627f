------------------------ MODULE StorageClientsProofs ------------------------
(***************************************************************************)
(* Proofs about the two clients of the registry, downloads of packs and    *)
(* uploads of blobs, which share no state. That reads and uploads return is*)
(* liveness, and left to TLC.                                              *)
(***************************************************************************)
EXTENDS PackDownloads, RegistryUpload, SequenceTheorems, Induction

(***************************************************************************)
(* PackDownloads, for any readers, files, budget and history: what somebody*)
(* holds is counted and stays in the table, and the cache keeps its budget.*)
(***************************************************************************)
PackType ==
  [size : Nat, state : {"loading", "ready", "failed"}, readers : Int, used : Nat]
ReaderType ==
  [pc : {"idle", "direct", "fetch", "wait", "open"}, key : Keys \cup {NoPack},
   pack : Packs \cup {NoPack}]

DownloadType ==
  /\ packs \in [Keys -> Packs \cup {NoPack}]
  /\ heap \in [Packs -> PackType]
  /\ clock \in Nat
  /\ reader \in [Readers -> ReaderType]

(***************************************************************************)
(* A reader holds a pack from its reservation or its joining until it      *)
(* releases it. A pack is fetched by one reader, while it is loading, and  *)
(* unless its fetch failed it is the pack of its readers' key.             *)
(***************************************************************************)
Holding == \A r \in Readers :
  /\ reader[r].pc \in {"fetch", "wait", "open"} <=> reader[r].pack # NoPack
  /\ reader[r].pack # NoPack => reader[r].key \in Keys
Counted == \A p \in Packs : heap[p].readers = Cardinality(Holders(p))
Tabled == \A r \in Readers :
  LET p == reader[r].pack
  IN  p # NoPack /\ heap[p].state # "failed" => packs[reader[r].key] = p
OneFetch == \A r \in Readers :
  reader[r].pc = "fetch" =>
    /\ heap[reader[r].pack].state = "loading"
    /\ \A s \in Readers :
         reader[s].pc = "fetch" /\ reader[s].pack = reader[r].pack => s = r

HeldInv == DownloadType /\ Holding /\ Counted /\ Tabled /\ OneFetch

\* The initial state.
LEMMA HeldInit == DownloadInit => HeldInv
<1> SUFFICES ASSUME DownloadInit PROVE HeldInv
  OBVIOUS
<1>1. DownloadType
  BY DownloadAssumption DEF DownloadInit, DownloadType, Garbage, PackType, Idle, ReaderType
<1>2. \A p \in Packs : Holders(p) = {}
  BY DownloadAssumption DEF DownloadInit, Holders, Idle
<1>3. Counted
  BY <1>2, FS_EmptySet DEF DownloadInit, Counted, Garbage
<1> QED BY <1>1, <1>3 DEF DownloadInit, HeldInv, Holding, Tabled, OneFetch, Idle

(***************************************************************************)
(* How many hold a pack, after one reader took or left one.                *)
(***************************************************************************)
\* Holders are finitely many.
LEMMA HoldersFinite == \A p : IsFiniteSet(Holders(p)) /\ Cardinality(Holders(p)) \in Nat
  BY FS_Subset, FS_CardinalityType, DownloadAssumption DEF Holders

\* A reader that holds nothing takes q.
LEMMA OneMore ==
  ASSUME NEW r \in Readers, NEW q \in Packs, reader[r].pack = NoPack,
         reader'[r].pack = q,
         \A s \in Readers \ {r} : reader'[s].pack = reader[s].pack
  PROVE  /\ Cardinality(Holders(q)') = Cardinality(Holders(q)) + 1
         /\ \A p \in Packs \ {q} : Holders(p)' = Holders(p)
<1>1. Holders(q)' = Holders(q) \cup {r} /\ r \notin Holders(q)
  BY DownloadAssumption DEF Holders
<1>2. \A p \in Packs \ {q} : Holders(p)' = Holders(p)
  BY DownloadAssumption DEF Holders
<1> QED BY <1>1, <1>2, HoldersFinite, FS_AddElement

\* A reader lets go of the pack it holds.
LEMMA OneLess ==
  ASSUME NEW r \in Readers, NEW q \in Packs, reader[r].pack = q,
         reader'[r].pack = NoPack,
         \A s \in Readers \ {r} : reader'[s].pack = reader[s].pack
  PROVE  /\ Cardinality(Holders(q)') = Cardinality(Holders(q)) - 1
         /\ \A p \in Packs \ {q} : Holders(p)' = Holders(p)
<1>1. Holders(q)' = Holders(q) \ {r} /\ r \in Holders(q)
  BY DownloadAssumption DEF Holders
<1>2. \A p \in Packs \ {q} : Holders(p)' = Holders(p)
  BY DownloadAssumption DEF Holders
<1>3. IsFiniteSet(Holders(q))
  BY HoldersFinite
<1>4. Cardinality(Holders(q) \ {r}) = Cardinality(Holders(q)) - 1
  BY <1>1, <1>3, FS_RemoveElement
<1> QED BY <1>1, <1>2, <1>4

\* Nobody takes or leaves a pack, and no pack changes.
LEMMA SameHolders ==
  ASSUME HeldInv, DownloadType', heap' = heap,
         \A s \in Readers : /\ reader'[s].pack = reader[s].pack
                            /\ reader'[s].key = reader[s].key
  PROVE  Counted' /\ (packs' = packs => Tabled')
<1>1. \A p \in Packs : Holders(p)' = Holders(p)
  BY DEF Holders
<1> QED BY <1>1 DEF HeldInv, Counted, Tabled

-----------------------------------------------------------------------------
\* A read that does not hold a pack, or returns with one, disturbs nothing.
LEMMA SameStep ==
  ASSUME HeldInv,
         \/ UNCHANGED downloadVars
         \/ \E r \in Readers, f \in Files :
              Conflict(r, f) \/ ReadUnshared(r, f) \/ FirstSight(r, f)
         \/ \E r \in Readers : ReturnReader(r) \/ ReturnDirect(r)
  PROVE  HeldInv'
<1> USE DEF HeldInv, DownloadType, ReaderType
<1>1. CASE UNCHANGED downloadVars
  BY <1>1 DEF downloadVars, Holding, Counted, Tabled, OneFetch, Holders
<1>2. ASSUME NEW r \in Readers, NEW f \in Files,
             Conflict(r, f) \/ ReadUnshared(r, f) \/ FirstSight(r, f)
      PROVE  HeldInv'
  <2>1. /\ reader[r].pc = "idle" /\ clock' = clock + 1 /\ UNCHANGED <<packs, heap>>
        /\ reader' = reader \/ reader' = [reader EXCEPT ![r].pc = "direct"]
    BY <1>2 DEF Conflict, ReadUnshared, FirstSight, Begin, Direct
  <2>2. DownloadType'
    BY <2>1
  <2>3. Counted' /\ Tabled'
    BY <2>1, <2>2, SameHolders
  <2> QED BY <2>1, <2>2, <2>3 DEF Holding, OneFetch
<1>3. ASSUME NEW r \in Readers, ReturnReader(r) PROVE HeldInv'
  <2>1. /\ reader[r].pc = "wait" /\ UNCHANGED <<packs, heap, clock>>
        /\ reader' = [reader EXCEPT ![r].pc = "open"]
    BY <1>3 DEF ReturnReader
  <2>2. DownloadType'
    BY <2>1
  <2>3. Counted' /\ Tabled'
    BY <2>1, <2>2, SameHolders
  <2> QED BY <2>1, <2>2, <2>3 DEF Holding, OneFetch
<1>4. ASSUME NEW r \in Readers, ReturnDirect(r) PROVE HeldInv'
  <2>1. /\ reader[r].pc = "direct" /\ UNCHANGED <<packs, heap, clock>>
        /\ reader' = [reader EXCEPT ![r] = Idle]
    BY <1>4 DEF ReturnDirect
  <2>2. reader[r].pack = NoPack
    BY <2>1 DEF Holding
  <2>3. DownloadType'
    BY <2>1 DEF Idle
  <2>4. \A p \in Packs : Holders(p)' = Holders(p)
    BY <2>1, <2>2, DownloadAssumption DEF Holders, Idle
  <2> QED BY <2>1, <2>3, <2>4 DEF Holding, Counted, Tabled, OneFetch, Idle
<1> QED BY <1>1, <1>2, <1>3, <1>4

\* Who fetches fetched before.
LEMMA NoNewFetch ==
  ASSUME HeldInv,
         \A s \in Readers : reader'[s].pc = "fetch" => reader'[s] = reader[s],
         \A q \in Packs : heap'[q].state = heap[q].state
  PROVE  OneFetch'
<1> SUFFICES ASSUME NEW s \in Readers, reader'[s].pc = "fetch"
             PROVE  /\ heap'[reader'[s].pack].state = "loading"
                    /\ \A t \in Readers :
                         reader'[t].pc = "fetch" /\ reader'[t].pack = reader'[s].pack
                           => t = s
  BY DEF OneFetch
<1>1. reader'[s] = reader[s] /\ reader[s].pack \in Packs
  BY DEF HeldInv, DownloadType, ReaderType, Holding
<1> QED BY <1>1 DEF HeldInv, OneFetch

\* Joining counts the reader in.
LEMMA JoinStep ==
  ASSUME HeldInv, NEW r \in Readers, NEW f \in Files, Join(r, f)
  PROVE  HeldInv'
<1>1. f.key \in Keys
  BY DownloadAssumption
<1>0. PICK p \in Packs : p = packs[f.key]
  BY <1>1 DEF Join, Cached, HeldInv, DownloadType
<1>2. /\ reader[r].pc = "idle" /\ clock' = clock + 1 /\ packs' = packs
      /\ heap' = [heap EXCEPT ![p].readers = @ + 1, ![p].used = clock + 1]
      /\ reader' = [reader EXCEPT ![r] = [pc |-> "wait", key |-> f.key, pack |-> p]]
  BY <1>0 DEF Join, Begin
<1>3. reader[r].pack = NoPack
  BY <1>2 DEF HeldInv, DownloadType, ReaderType, Holding
<1>4. \A q \in Packs : /\ heap'[q].state = heap[q].state
                       /\ heap'[q].readers = IF q = p THEN heap[q].readers + 1
                                                      ELSE heap[q].readers
                       /\ heap'[q] \in PackType
  <2>1. heap'[p] = [size |-> heap[p].size, state |-> heap[p].state,
                    readers |-> heap[p].readers + 1, used |-> clock + 1]
    BY <1>2 DEF HeldInv, DownloadType, PackType
  <2>2. \A q \in Packs \ {p} : heap'[q] = heap[q]
    BY <1>2 DEF HeldInv, DownloadType
  <2> QED BY <2>1, <2>2 DEF HeldInv, DownloadType, PackType
<1>5. \A s \in Readers :
        reader'[s] = IF s = r THEN [pc |-> "wait", key |-> f.key, pack |-> p]
                              ELSE reader[s]
  BY <1>2 DEF HeldInv, DownloadType
<1>6. DownloadType'
  BY <1>1, <1>2, <1>4, <1>5 DEF HeldInv, DownloadType, ReaderType
<1>7. Counted'
  <2>1. /\ Cardinality(Holders(p)') = Cardinality(Holders(p)) + 1
        /\ \A q \in Packs \ {p} : Holders(q)' = Holders(q)
    BY <1>3, <1>5, OneMore
  <2> QED BY <1>4, <2>1 DEF HeldInv, Counted
<1>8. Holding'
  BY <1>1, <1>5, DownloadAssumption DEF HeldInv, Holding
<1>9. Tabled'
  <2> SUFFICES ASSUME NEW s \in Readers, NEW q, q = reader'[s].pack, q # NoPack,
                      heap'[q].state # "failed"
               PROVE  packs'[reader'[s].key] = q
    BY DEF Tabled
  <2>1. CASE s = r
    BY <1>0, <1>2, <1>5, <2>1
  <2>2. CASE s # r
    <3>1. reader'[s] = reader[s] /\ q \in Packs
      BY <1>5, <2>2 DEF HeldInv, DownloadType, ReaderType
    <3>2. heap[q].state # "failed"
      BY <1>4, <3>1
    <3> QED BY <1>2, <3>1, <3>2 DEF HeldInv, Tabled
  <2> QED BY <2>1, <2>2
<1>10. OneFetch'
  BY <1>4, <1>5, NoNewFetch
<1> QED BY <1>6, <1>7, <1>8, <1>9, <1>10 DEF HeldInv

\* A reservation takes a pack nobody refers to, and evicts none that is held.
LEMMA ReserveStep ==
  ASSUME HeldInv, NEW r \in Readers, NEW f \in Files, Reserve(r, f)
  PROVE  HeldInv'
<1> DEFINE gone == Evicted(f.size)
           kept == [k \in Keys |-> IF k \in gone THEN NoPack ELSE packs[k]]
<1>1. f.key \in Keys /\ f.size \in Nat
  BY DownloadAssumption
<1>2. reader[r].pc = "idle" /\ clock' = clock + 1 /\ packs[f.key] = NoPack
  BY DEF Reserve, Begin, Cached
<1>3. reader[r].pack = NoPack
  BY <1>2 DEF HeldInv, Holding, DownloadType, ReaderType
<1>4. \A s \in Readers :
        LET q == reader[s].pack
        IN  q # NoPack /\ heap[q].state # "failed" => kept[reader[s].key] = q
  <2> SUFFICES ASSUME NEW s \in Readers, reader[s].pack # NoPack,
                      heap[reader[s].pack].state # "failed"
               PROVE  kept[reader[s].key] = reader[s].pack
    OBVIOUS
  <2> DEFINE q == reader[s].pack
             k == reader[s].key
  <2>1. q \in Packs /\ k \in Keys /\ packs[k] = q
    BY DEF HeldInv, DownloadType, ReaderType, Holding, Tabled
  <2>2. s \in Holders(q)
    BY DEF Holders
  <2>3. heap[q].readers # 0
    BY <2>1, <2>2, HoldersFinite, FS_EmptySet DEF HeldInv, Counted
  <2>4. k \notin gone
    BY <2>1, <2>3 DEF Evicted, Evictable
  <2> QED BY <2>1, <2>4
<1>5. kept \in [Keys -> Packs \cup {NoPack}]
  BY DEF HeldInv, DownloadType
<1>6. ASSUME NEW p \in Packs, Unreferenced(p),
             packs' = [kept EXCEPT ![f.key] = p],
             heap' = [heap EXCEPT ![p] = NewPack(f.size, clock + 1)],
             reader' = [reader EXCEPT ![r] =
                          [pc |-> "fetch", key |-> f.key, pack |-> p]]
      PROVE  HeldInv'
  <2> HIDE DEF kept, gone
  <2>2. /\ \A s \in Readers : reader[s].pack # p
        /\ \A k \in Keys : packs[k] # p
    BY <1>6 DEF Unreferenced
  <2>3. \A q \in Packs : heap'[q] = IF q = p THEN NewPack(f.size, clock + 1) ELSE heap[q]
    BY <1>6 DEF HeldInv, DownloadType
  <2>4. \A s \in Readers :
          reader'[s] = IF s = r THEN [pc |-> "fetch", key |-> f.key, pack |-> p]
                                ELSE reader[s]
    BY <1>6 DEF HeldInv, DownloadType
  <2>5. \A k \in Keys : packs'[k] = IF k = f.key THEN p ELSE kept[k]
    BY <1>5, <1>6
  <2>6. NewPack(f.size, clock + 1) \in PackType
    BY <1>1 DEF HeldInv, DownloadType, NewPack, PackType
  <2>7. DownloadType'
    BY <1>1, <1>2, <1>5, <1>6, <2>6 DEF HeldInv, DownloadType, ReaderType
  <2>8. Counted'
    <3>1. /\ Cardinality(Holders(p)') = Cardinality(Holders(p)) + 1
          /\ \A q \in Packs \ {p} : Holders(q)' = Holders(q)
      BY <1>3, <2>4, OneMore
    <3>2. Holders(p) = {}
      BY <2>2 DEF Holders
    <3> QED BY <2>3, <3>1, <3>2, FS_EmptySet DEF HeldInv, Counted, NewPack
  <2>9. Holding'
    BY <1>1, <2>4, DownloadAssumption DEF HeldInv, Holding
  <2>10. Tabled'
    <3> SUFFICES ASSUME NEW s \in Readers, reader'[s].pack # NoPack,
                        heap'[reader'[s].pack].state # "failed"
                 PROVE  packs'[reader'[s].key] = reader'[s].pack
      BY DEF Tabled
    <3>1. CASE s = r
      BY <1>1, <2>4, <2>5, <3>1
    <3>2. CASE s # r
      <4>1. reader'[s] = reader[s]
        BY <2>4, <3>2
      <4>2. reader[s].pack \in Packs /\ reader[s].key \in Keys /\ reader[s].pack # p
        BY <2>2, <4>1 DEF HeldInv, DownloadType, ReaderType, Holding
      <4>3. heap[reader[s].pack].state # "failed"
        BY <2>3, <4>1, <4>2
      <4>4. kept[reader[s].key] = reader[s].pack /\ packs[reader[s].key] = reader[s].pack
        BY <1>4, <4>1, <4>3 DEF HeldInv, Tabled
      <4> QED BY <1>2, <2>5, <4>1, <4>2, <4>4
    <3> QED BY <3>1, <3>2
  <2>11. OneFetch'
    <3>1. \A s \in Readers \ {r} : reader[s].pc = "fetch" => reader[s].pack \in Packs \ {p}
      BY <2>2 DEF HeldInv, DownloadType, ReaderType, Holding
    <3>2. heap'[p].state = "loading"
      BY <2>3 DEF NewPack
    <3> QED BY <2>3, <2>4, <3>1, <3>2 DEF HeldInv, OneFetch
  <2> QED BY <2>7, <2>8, <2>9, <2>10, <2>11 DEF HeldInv
<1>7. CASE packs' = kept /\ Direct(r) /\ UNCHANGED heap
  <2>1. reader' = [reader EXCEPT ![r].pc = "direct"]
    BY <1>7 DEF Direct
  <2>2. DownloadType'
    BY <1>2, <1>5, <1>7, <2>1 DEF HeldInv, DownloadType, ReaderType
  <2>3. Counted'
    BY <1>7, <2>1, <2>2, SameHolders DEF HeldInv, DownloadType, ReaderType
  <2> HIDE DEF kept
  <2>4. Tabled'
    BY <1>4, <1>7, <2>1 DEF HeldInv, DownloadType, ReaderType, Tabled
  <2> QED BY <1>2, <1>7, <2>1, <2>2, <2>3, <2>4
      DEF HeldInv, DownloadType, ReaderType, Holding, OneFetch
<1>8. CASE /\ \E q \in Packs : Unreferenced(q)
           /\ LET p == CHOOSE q \in Packs : Unreferenced(q)
              IN  /\ packs' = [kept EXCEPT ![f.key] = p]
                  /\ heap' = [heap EXCEPT ![p] = NewPack(f.size, clock + 1)]
                  /\ reader' = [reader EXCEPT ![r] =
                                  [pc |-> "fetch", key |-> f.key, pack |-> p]]
  BY <1>6, <1>8
<1> QED BY <1>7, <1>8 DEF Reserve

\* The end of a fetch concerns one pack, which nobody else fetches.
LEMMA FetchStep ==
  ASSUME HeldInv, NEW r \in Readers, Fetched(r) \/ FetchFailed(r)
  PROVE  HeldInv'
<1>0. PICK p \in Packs, k \in Keys : p = reader[r].pack /\ k = reader[r].key
  BY DEF Fetched, FetchFailed, HeldInv, DownloadType, ReaderType, Holding
<1>1. PICK state \in {"ready", "failed"} :
        /\ heap' = [heap EXCEPT ![p].state = state]
        /\ packs' = IF state = "ready" THEN packs ELSE [packs EXCEPT ![k] = NoPack]
        /\ reader[r].pc = "fetch" /\ reader' = [reader EXCEPT ![r].pc = "wait"]
        /\ clock' = clock
  BY <1>0 DEF Fetched, FetchFailed
<1>2. heap[p].state = "loading" /\ packs[k] = p
  BY <1>0, <1>1 DEF HeldInv, DownloadType, ReaderType, Holding, OneFetch, Tabled
<1>3. \A s \in Readers : s # r /\ reader[s].pc = "fetch" => reader[s].pack # p
  BY <1>0, <1>1 DEF HeldInv, OneFetch
<1>4. \A q \in Packs : /\ heap'[q] \in PackType /\ heap'[q].readers = heap[q].readers
                       /\ heap'[q].state = IF q = p THEN state ELSE heap[q].state
  BY <1>1 DEF HeldInv, DownloadType, PackType
<1>5. \A s \in Readers : /\ reader'[s].pack = reader[s].pack /\ reader'[s].key = reader[s].key
                         /\ reader'[s].pc = IF s = r THEN "wait" ELSE reader[s].pc
  BY <1>1 DEF HeldInv, DownloadType, ReaderType
<1>6. DownloadType'
  BY <1>1, <1>2, <1>4 DEF HeldInv, DownloadType, ReaderType
<1>7. Counted'
  <2>1. \A q \in Packs : Holders(q)' = Holders(q)
    BY <1>5 DEF Holders
  <2> QED BY <1>4, <2>1 DEF HeldInv, Counted
<1>8. Holding'
  BY <1>1, <1>5 DEF HeldInv, Holding
<1>9. Tabled'
  <2> SUFFICES ASSUME NEW s \in Readers, reader[s].pack # NoPack,
                      heap'[reader[s].pack].state # "failed"
               PROVE  packs'[reader[s].key] = reader[s].pack
    BY <1>5 DEF Tabled
  <2>1. reader[s].pack \in Packs /\ reader[s].key \in Keys
    BY DEF HeldInv, DownloadType, ReaderType, Holding
  <2>2. CASE state = "ready"
    BY <1>1, <1>2, <1>4, <2>1, <2>2 DEF HeldInv, Tabled
  <2>3. CASE state = "failed"
    <3>1. reader[s].pack # p /\ heap[reader[s].pack].state # "failed"
      BY <1>4, <2>1, <2>3
    <3>2. packs[reader[s].key] = reader[s].pack /\ reader[s].key # k
      BY <1>2, <3>1 DEF HeldInv, Tabled
    <3> QED BY <1>1, <2>1, <2>3, <3>2 DEF HeldInv, DownloadType
  <2> QED BY <2>2, <2>3
<1>10. OneFetch'
  BY <1>3, <1>4, <1>5 DEF HeldInv, DownloadType, ReaderType, Holding, OneFetch
<1> QED BY <1>6, <1>7, <1>8, <1>9, <1>10 DEF HeldInv

\* A reader that lets go of its pack is counted out.
LEMMA ReleaseStep ==
  ASSUME HeldInv, NEW r \in Readers, ReturnError(r) \/ Close(r)
  PROVE  HeldInv'
<1>0. PICK p \in Packs : p = reader[r].pack
  BY DEF ReturnError, Close, HeldInv, DownloadType, ReaderType, Holding
<1>1. /\ heap' = [heap EXCEPT ![p].readers = @ - 1]
      /\ reader' = [reader EXCEPT ![r] = Idle]
      /\ packs' = packs /\ clock' = clock /\ reader[r].pc \in {"wait", "open"}
  BY <1>0 DEF ReturnError, Close, Release
<1>3. \A q \in Packs : /\ heap'[q] \in PackType /\ heap'[q].state = heap[q].state
                       /\ heap'[q].readers = IF q = p THEN heap[q].readers - 1
                                                      ELSE heap[q].readers
  BY <1>1 DEF HeldInv, DownloadType, PackType
<1>4. \A s \in Readers : reader'[s] = IF s = r THEN Idle ELSE reader[s]
  BY <1>1 DEF HeldInv, DownloadType
<1>5. DownloadType'
  BY <1>1, <1>3, <1>4 DEF HeldInv, DownloadType, ReaderType, Idle
<1>6. Counted'
  <2>1. /\ Cardinality(Holders(p)') = Cardinality(Holders(p)) - 1
        /\ \A q \in Packs \ {p} : Holders(q)' = Holders(q)
    BY <1>0, <1>4, OneLess DEF Idle
  <2> QED BY <1>3, <2>1 DEF HeldInv, Counted
<1>7. Holding' /\ Tabled'
  BY <1>1, <1>3, <1>4 DEF HeldInv, DownloadType, ReaderType, Holding, Tabled, Idle
<1>8. OneFetch'
  BY <1>3, <1>4, NoNewFetch DEF Idle
<1> QED BY <1>5, <1>6, <1>7, <1>8 DEF HeldInv

\* HeldAccounted for any number of readers, any files and any budget: what a reader
\* holds is counted, and remains the pack of its key unless its fetch failed.
THEOREM HeldStaysAccounted == DownloadSpec => []HeldAccounted
<1>1. DownloadInit => HeldInv
  BY HeldInit
<1>2. HeldInv /\ [DownloadNext]_downloadVars => HeldInv'
  BY SameStep, JoinStep, ReserveStep, FetchStep, ReleaseStep
  DEF DownloadNext, Fetching, Returning
<1>3. HeldInv => HeldAccounted
  BY DEF HeldInv, DownloadType, ReaderType, Counted, Tabled, HeldAccounted
<1> QED BY <1>1, <1>2, <1>3, PTL DEF DownloadSpec

-----------------------------------------------------------------------------
(***************************************************************************)
(* The budget. What is live is what the table has, each pack under one key; *)
(* the bytes reserved are the sum over its keys.                            *)
(***************************************************************************)
CachedKeys == { k \in Keys : Cached(k) }
Bytes == [k \in Keys |-> heap[packs[k]].size]
Live == { p \in Packs : /\ heap[p].state # "failed"
                        /\ Holders(p) # {} \/ \E k \in Keys : packs[k] = p }

OnePackEach == \A j, k \in CachedKeys : packs[j] = packs[k] => j = k
NoneFailed == \A k \in CachedKeys : heap[packs[k]].state # "failed"
Reserved == /\ IsFiniteSet(CachedKeys)
            /\ bytes = SumFunctionOnSet(Bytes, CachedKeys)
            /\ bytes <= Limit

BudgetInv == HeldInv /\ OnePackEach /\ NoneFailed /\ Reserved

\* The bytes of a key in the table are a number.
LEMMA BytesType == HeldInv => \A k \in CachedKeys : packs[k] \in Packs /\ Bytes[k] \in Nat
  BY DEF HeldInv, DownloadType, PackType, CachedKeys, Cached, Bytes

\* The initial state.
LEMMA BudgetInit == DownloadInit => BudgetInv
<1> SUFFICES ASSUME DownloadInit PROVE BudgetInv
  OBVIOUS
<1>1. CachedKeys = {} /\ bytes = 0
  BY DEF DownloadInit, CachedKeys, Cached
<1> QED BY <1>1, HeldInit, FS_EmptySet, SumEmpty, DownloadAssumption
    DEF BudgetInv, OnePackEach, NoneFailed, Reserved

\* A step that leaves the table and the sizes alone.
LEMMA SameBudget ==
  ASSUME BudgetInv, HeldInv', packs' = packs, bytes' = bytes,
         \A p \in Packs : /\ heap'[p].size = heap[p].size
                          /\ heap[p].state # "failed" => heap'[p].state # "failed"
  PROVE  BudgetInv'
<1>1. CachedKeys' = CachedKeys
  BY DEF CachedKeys, Cached
<1>2. \A k \in CachedKeys : packs[k] \in Packs
  BY BytesType DEF BudgetInv
<1>3. OnePackEach' /\ NoneFailed'
  BY <1>1, <1>2 DEF BudgetInv, OnePackEach, NoneFailed
<1>4. \A k \in CachedKeys : Bytes'[k] = Bytes[k]
  BY <1>2 DEF Bytes, CachedKeys
<1>5. SumFunctionOnSet(Bytes', CachedKeys) = SumFunctionOnSet(Bytes, CachedKeys)
  BY <1>4, SumSame DEF BudgetInv, Reserved
<1>6. Reserved'
  BY <1>1, <1>5 DEF BudgetInv, Reserved
<1> QED BY <1>3, <1>6 DEF BudgetInv

\* What a reservation evicts leaves the table and the sum.
LEMMA Evicting ==
  ASSUME BudgetInv, NEW gone \in SUBSET CachedKeys
  PROVE  /\ IsFiniteSet(CachedKeys \ gone)
         /\ bytes - SizeOf(gone) = SumFunctionOnSet(Bytes, CachedKeys \ gone)
         /\ bytes \in Nat /\ SizeOf(gone) \in Nat
<1>1. /\ IsFiniteSet(CachedKeys) /\ IsFiniteSet(gone) /\ IsFiniteSet(CachedKeys \ gone)
      /\ bytes = SumFunctionOnSet(Bytes, CachedKeys)
  BY FS_Subset DEF BudgetInv, Reserved
<1>2. \A k \in CachedKeys : Bytes[k] \in Nat
  BY BytesType DEF BudgetInv
<1>3. SizeOf(gone) = SumFunctionOnSet(Bytes, gone)
  <2> DEFINE f == [k \in gone |-> heap[packs[k]].size]
  <2>1. \A k \in gone : f[k] = Bytes[k]
    BY DEF CachedKeys, Bytes
  <2>2. SumFunctionOnSet(f, gone) = SumFunctionOnSet(Bytes, gone)
    <3> HIDE DEF f
    <3> QED BY <1>1, <2>1, SumSame
  <2> QED BY <2>2 DEF SizeOf
<1>4. SumFunctionOnSet(Bytes, CachedKeys \ gone)
        = SumFunctionOnSet(Bytes, CachedKeys) - SumFunctionOnSet(Bytes, gone)
  BY <1>1, <1>2, SumWithout
<1>5. bytes \in Nat /\ SizeOf(gone) \in Nat
  BY <1>1, <1>2, <1>3, SumNat
<1> QED BY <1>1, <1>3, <1>4, <1>5

\* A reservation.
LEMMA ReserveBudget ==
  ASSUME BudgetInv, HeldInv', NEW r \in Readers, NEW f \in Files, Reserve(r, f)
  PROVE  BudgetInv'
<1> DEFINE gone == Evicted(f.size)
           left == bytes - SizeOf(gone)
           kept == [k \in Keys |-> IF k \in gone THEN NoPack ELSE packs[k]]
           Rest == CachedKeys \ gone
<1>1. f.key \in Keys /\ f.size \in Nat /\ f.key \notin CachedKeys /\ packs[f.key] = NoPack
  BY DownloadAssumption DEF Reserve, Cached, CachedKeys
<1>2. gone \in SUBSET CachedKeys
  BY DEF Evicted, Evictable, CachedKeys
<1>3. /\ IsFiniteSet(Rest) /\ left = SumFunctionOnSet(Bytes, Rest)
      /\ bytes \in Nat /\ SizeOf(gone) \in Nat
  BY <1>2, Evicting
<1>4. bytes <= Limit /\ Limit \in Nat
  BY DownloadAssumption DEF BudgetInv, Reserved
<1>5. left \in Int /\ left <= Limit
  BY <1>3, <1>4
<1>6. \A k \in CachedKeys : Bytes[k] \in Nat /\ packs[k] \in Packs
  BY BytesType DEF BudgetInv
<1>7. \A k \in Keys : kept[k] = IF k \in Rest THEN packs[k] ELSE NoPack
  BY DEF CachedKeys, Cached
<1>8. kept \in [Keys -> Packs \cup {NoPack}]
  BY DEF BudgetInv, HeldInv, DownloadType
<1>9. CASE packs' = kept /\ bytes' = left /\ UNCHANGED heap
  <2> HIDE DEF kept, gone, left
  <2>1. CachedKeys' = Rest
    BY <1>6, <1>7, <1>9, DownloadAssumption DEF CachedKeys, Cached
  <2>2. \A k \in Rest : packs'[k] = packs[k] /\ Bytes'[k] = Bytes[k]
    BY <1>7, <1>9 DEF CachedKeys, Bytes
  <2>3. OnePackEach' /\ NoneFailed'
    BY <1>9, <2>1, <2>2 DEF BudgetInv, OnePackEach, NoneFailed
  <2>4. SumFunctionOnSet(Bytes', Rest) = SumFunctionOnSet(Bytes, Rest)
    BY <1>3, <2>2, SumSame
  <2>5. Reserved'
    BY <1>3, <1>5, <1>9, <2>1, <2>4 DEF Reserved
  <2> QED BY <2>3, <2>5 DEF BudgetInv
<1>10. ASSUME NEW p \in Packs, Unreferenced(p), left + f.size <= Limit,
              packs' = [kept EXCEPT ![f.key] = p], bytes' = left + f.size,
              heap' = [heap EXCEPT ![p] = NewPack(f.size, clock + 1)]
       PROVE  BudgetInv'
  <2> HIDE DEF kept, gone, left
  <2>1. \A k \in Keys : packs'[k] = IF k = f.key THEN p ELSE kept[k]
    BY <1>1, <1>8, <1>10
  <2>2. CachedKeys' = Rest \cup {f.key}
    BY <1>1, <1>6, <1>7, <1>10, <2>1, DownloadAssumption DEF CachedKeys, Cached
  <2>3. \A q \in Packs : heap'[q] = IF q = p THEN NewPack(f.size, clock + 1) ELSE heap[q]
    BY <1>10 DEF BudgetInv, HeldInv, DownloadType
  <2>4. \A k \in Rest : packs'[k] = packs[k] /\ packs[k] \in Packs \ {p} /\ k # f.key
    BY <1>1, <1>6, <1>7, <1>10, <2>1 DEF Unreferenced, CachedKeys
  <2>5. packs'[f.key] = p
    BY <1>1, <2>1
  <2>6. OnePackEach'
    BY <2>2, <2>4, <2>5 DEF BudgetInv, OnePackEach
  <2>7. NoneFailed'
    BY <2>2, <2>3, <2>4, <2>5 DEF BudgetInv, NoneFailed, NewPack
  <2>8. Bytes'[f.key] = f.size /\ \A k \in Rest : Bytes'[k] = Bytes[k]
    BY <1>1, <2>3, <2>4, <2>5 DEF Bytes, CachedKeys, NewPack
  <2>9. f.key \notin Rest /\ \A k \in Rest \cup {f.key} : Bytes'[k] \in Int
    BY <1>1, <1>6, <2>8
  <2>10. SumFunctionOnSet(Bytes', Rest \cup {f.key})
           = Bytes'[f.key] + SumFunctionOnSet(Bytes', Rest)
    BY <1>3, <2>9, SumAdd
  <2>11. SumFunctionOnSet(Bytes', Rest) = SumFunctionOnSet(Bytes, Rest)
    BY <1>3, <2>8, SumSame
  <2>12. IsFiniteSet(Rest \cup {f.key})
    BY <1>3, FS_AddElement
  <2>13. f.size + left = left + f.size
    BY <1>1, <1>5
  <2>14. Reserved'
    BY <1>3, <1>10, <2>2, <2>8, <2>10, <2>11, <2>12, <2>13 DEF Reserved
  <2> QED BY <2>6, <2>7, <2>14 DEF BudgetInv
<1>11. CASE /\ left + f.size <= Limit /\ \E q \in Packs : Unreferenced(q)
            /\ LET p == CHOOSE q \in Packs : Unreferenced(q)
               IN  /\ packs' = [kept EXCEPT ![f.key] = p]
                   /\ heap' = [heap EXCEPT ![p] = NewPack(f.size, clock + 1)]
            /\ bytes' = left + f.size
  BY <1>10, <1>11
<1> QED BY <1>9, <1>11 DEF Reserve

\* A failed fetch.
LEMMA FailedBudget ==
  ASSUME BudgetInv, HeldInv', NEW r \in Readers, FetchFailed(r)
  PROVE  BudgetInv'
<1>0. PICK p \in Packs, k \in Keys : p = reader[r].pack /\ k = reader[r].key
  BY DEF FetchFailed, BudgetInv, HeldInv, DownloadType, ReaderType, Holding
<1>1. /\ heap' = [heap EXCEPT ![p].state = "failed"]
      /\ packs' = [packs EXCEPT ![k] = NoPack]
      /\ bytes' = bytes - heap[p].size
  BY <1>0 DEF FetchFailed
<1>2. heap[p].state = "loading" /\ packs[k] = p
  BY <1>0 DEF FetchFailed, BudgetInv, HeldInv, DownloadType, ReaderType, Holding,
              OneFetch, Tabled
<1>3. k \in CachedKeys
  BY <1>2, DownloadAssumption DEF CachedKeys, Cached
<1> DEFINE Rest == CachedKeys \ {k}
<1>4. CachedKeys' = Rest
  BY <1>1 DEF BudgetInv, HeldInv, DownloadType, CachedKeys, Cached
<1>5. \A j \in Rest : packs'[j] = packs[j] /\ packs[j] \in Packs \ {p}
  BY <1>1, <1>2, <1>3, BytesType
  DEF BudgetInv, HeldInv, DownloadType, OnePackEach, CachedKeys
<1>6. \A q \in Packs \ {p} : heap'[q] = heap[q]
  BY <1>1 DEF BudgetInv, HeldInv, DownloadType
<1>7. OnePackEach' /\ NoneFailed'
  BY <1>4, <1>5, <1>6 DEF BudgetInv, OnePackEach, NoneFailed
<1>8. \A j \in Rest : Bytes'[j] = Bytes[j]
  BY <1>5, <1>6 DEF Bytes, CachedKeys
<1>9. /\ IsFiniteSet(CachedKeys) /\ IsFiniteSet(Rest)
      /\ bytes = SumFunctionOnSet(Bytes, CachedKeys) /\ bytes <= Limit
  BY FS_Subset DEF BudgetInv, Reserved
<1>10. SumFunctionOnSet(Bytes', Rest) = SumFunctionOnSet(Bytes, Rest)
  BY <1>8, <1>9, SumSame
<1>11. \A j \in CachedKeys : Bytes[j] \in Nat
  BY BytesType DEF BudgetInv
<1>12. SumFunctionOnSet(Bytes, CachedKeys) = Bytes[k] + SumFunctionOnSet(Bytes, Rest)
  BY <1>3, <1>9, <1>11, SumElement
<1>13. SumFunctionOnSet(Bytes, Rest) \in Nat
  BY <1>9, <1>11, SumNat
<1>14. Bytes[k] = heap[p].size /\ Bytes[k] \in Nat
  BY <1>2, <1>3, <1>11 DEF Bytes
<1>15. bytes' = SumFunctionOnSet(Bytes, Rest) /\ bytes' <= Limit
  BY <1>1, <1>9, <1>12, <1>13, <1>14, DownloadAssumption
<1>16. Reserved'
  BY <1>4, <1>9, <1>10, <1>15 DEF Reserved
<1> QED BY <1>7, <1>16 DEF BudgetInv

\* Every step.
LEMMA BudgetStep ==
  ASSUME BudgetInv, [DownloadNext]_downloadVars, HeldInv'
  PROVE  BudgetInv'
<1>1. CASE /\ packs' = packs /\ bytes' = bytes
           /\ heap' = heap
  BY <1>1, SameBudget
<1>2. ASSUME NEW r \in Readers, NEW f \in Files, Join(r, f) PROVE BudgetInv'
  <2>1. PICK p : heap' = [heap EXCEPT ![p].readers = @ + 1, ![p].used = clock + 1]
    BY <1>2 DEF Join
  <2>2. \A q \in Packs : heap'[q].size = heap[q].size /\ heap'[q].state = heap[q].state
    BY <2>1 DEF BudgetInv, HeldInv, DownloadType, PackType
  <2> QED BY <1>2, <2>2, SameBudget DEF Join
<1>3. ASSUME NEW r \in Readers, Fetched(r) PROVE BudgetInv'
  <2>1. heap' = [heap EXCEPT ![reader[r].pack].state = "ready"]
    BY <1>3 DEF Fetched
  <2>2. \A q \in Packs : /\ heap'[q].size = heap[q].size
                         /\ heap'[q].state \in {heap[q].state, "ready"}
    BY <2>1 DEF BudgetInv, HeldInv, DownloadType, PackType
  <2> QED BY <1>3, <2>2, SameBudget DEF Fetched
<1>4. ASSUME NEW r \in Readers, ReturnError(r) \/ Close(r) PROVE BudgetInv'
  <2>1. PICK p : heap' = [heap EXCEPT ![p].readers = @ - 1]
    BY <1>4 DEF ReturnError, Close, Release
  <2>2. \A q \in Packs : heap'[q].size = heap[q].size /\ heap'[q].state = heap[q].state
    BY <2>1 DEF BudgetInv, HeldInv, DownloadType, PackType
  <2> QED BY <1>4, <2>2, SameBudget DEF ReturnError, Close
<1> QED BY <1>1, <1>2, <1>3, <1>4, ReserveBudget, FailedBudget
    DEF DownloadNext, downloadVars, Conflict, ReadUnshared, FirstSight, ReturnReader,
        ReturnDirect, Fetching, Returning

\* What the table has is what is live.
LEMMA BudgetWithin == BudgetInv => WithinBudget
<1> SUFFICES ASSUME BudgetInv PROVE WithinBudget
  OBVIOUS
<1> DEFINE size == [p \in Packs |-> heap[p].size]
<1>1. \A k \in CachedKeys : packs[k] \in Packs /\ Bytes[k] \in Nat
  BY BytesType DEF BudgetInv
<1>2. Live = { packs[k] : k \in CachedKeys }
  <2>1. ASSUME NEW p \in Live PROVE \E k \in CachedKeys : packs[k] = p
    <3>1. p \in Packs /\ heap[p].state # "failed" /\ p # NoPack
      BY DownloadAssumption DEF Live
    <3>2. CASE \E k \in Keys : packs[k] = p
      BY <3>1, <3>2 DEF CachedKeys, Cached
    <3>3. CASE Holders(p) # {}
      <4>1. PICK r \in Readers : reader[r].pack = p
        BY <3>3 DEF Holders
      <4>2. reader[r].key \in Keys /\ packs[reader[r].key] = p
        BY <3>1, <4>1 DEF BudgetInv, HeldInv, Holding, Tabled
      <4> QED BY <3>1, <4>2 DEF CachedKeys, Cached
    <3> QED BY <3>2, <3>3 DEF Live
  <2>2. \A k \in CachedKeys : packs[k] \in Live
    BY <1>1 DEF Live, BudgetInv, NoneFailed, CachedKeys
  <2> QED BY <2>1, <2>2
<1>3. /\ IsFiniteSet(CachedKeys) /\ bytes = SumFunctionOnSet(Bytes, CachedKeys)
      /\ bytes <= Limit
  BY DEF BudgetInv, Reserved
<1>4. \A k \in CachedKeys : Bytes[k] = size[packs[k]] /\ Bytes[k] \in Int
  BY <1>1 DEF Bytes, CachedKeys
<1>5. \A j, k \in CachedKeys : packs[j] = packs[k] => j = k
  BY DEF BudgetInv, OnePackEach
<1>6. SumFunctionOnSet(Bytes, CachedKeys) = SumFunctionOnSet(size, Live)
  <2> HIDE DEF size
  <2> QED BY <1>2, <1>3, <1>4, <1>5, SumImage
<1> QED BY <1>3, <1>6 DEF WithinBudget, Live

\* WithinBudget for any number of readers, any files and any budget: the bytes
\* reserved are those of the packs downloading, cached or held, and fit.
THEOREM BudgetKept == DownloadSpec => []WithinBudget
<1>1. DownloadInit => BudgetInv
  BY BudgetInit
<1>2. BudgetInv /\ [DownloadNext]_downloadVars => BudgetInv'
  <2>1. HeldInv /\ [DownloadNext]_downloadVars => HeldInv'
    BY SameStep, JoinStep, ReserveStep, FetchStep, ReleaseStep
    DEF DownloadNext, Fetching, Returning
  <2> QED BY <2>1, BudgetStep DEF BudgetInv
<1> QED BY <1>1, <1>2, BudgetWithin, PTL DEF DownloadSpec

-----------------------------------------------------------------------------
(***************************************************************************)
(* RegistryUpload, for any uploaders, contents, chunks, limits and delays: *)
(* what was uploaded is there, and nothing is sent twice.                  *)
(***************************************************************************)
LoopType == [attempt : Nat, left : Nat]
UploadType ==
  [pc : {"idle", "done", "lock", "wait", "request", "answered", "pause"},
   blob : Blobs, op : {"none", "POST", "PATCH", "PUT", "HEAD", "MANIFEST"},
   status : {"none", "ok", "404", "429", "5xx", "other"}, sent : Nat,
   check : BOOLEAN, inner : LoopType, outer : LoopType]
SessionType == [received : Seq(Nat), spent : BOOLEAN]

\* The first k chunks, each once and in order.
FirstChunks(k) == [i \in 1..k |-> i]

(***************************************************************************)
(* An upload, its session and the blobs agree: what is sent next is what   *)
(* the session lacks, a completion is on its way only to a session that    *)
(* was not committed, and a committed session's blob is there. So a HEAD   *)
(* that does not find it allows another completion.                        *)
(***************************************************************************)
Busy == {"wait", "request", "answered", "pause"}

Agree(w, s, B) ==
  /\ w.pc \in {"idle", "done", "lock"} => s = NoSession
  /\ w.pc = "lock" => w.blob = Config /\ w.sent = 0
  /\ w.pc = "done" => w.blob \in B
  /\ \E k \in Nat : s.received = FirstChunks(k)
  /\ w.pc = "pause" => w.op \in {"PUT", "HEAD"}
  /\ w.pc \in Busy /\ w.op \in {"POST", "MANIFEST"} => s = NoSession /\ w.sent = 0
  /\ w.pc \in {"wait", "request"} /\ w.op = "PATCH" =>
       ~s.spent /\ s.received = FirstChunks(w.sent)
  /\ w.pc = "answered" /\ w.op = "PATCH" /\ w.status = "ok" =>
       ~s.spent /\ s.received = FirstChunks(w.sent + 1)
  /\ w.pc \in Busy /\ w.op \in {"PUT", "HEAD"} /\ s.spent => w.blob \in B
  /\ w.pc \in {"wait", "request"} /\ w.op = "PUT" => ~s.spent
  /\ w.pc = "pause" /\ ~w.check => ~s.spent
  /\ w.pc = "answered" /\ w.op = "HEAD" /\ w.status = "404" => ~s.spent
  /\ w.pc = "answered" /\ w.op \in {"PUT", "HEAD"} /\ w.status = "ok" => w.blob \in B

UploadInv ==
  /\ upload \in [Uploaders -> UploadType]
  /\ session \in [Uploaders -> SessionType]
  /\ cooldown \in Nat
  /\ configs => Config \in blobs
  /\ \A u \in Uploaders : Agree(upload[u], session[u], blobs)

(***************************************************************************)
(* Chunks in order.                                                        *)
(***************************************************************************)
\* The first k chunks are a sequence of length k, and chunk k + 1 comes after them.
LEMMA ChunksFacts ==
  ASSUME NEW k \in Nat
  PROVE  /\ FirstChunks(k) \in Seq(Nat) /\ Len(FirstChunks(k)) = k
         /\ Append(FirstChunks(k), k + 1) = FirstChunks(k + 1)
  BY DEF FirstChunks

\* A session begins without chunks.
LEMMA NoChunks == FirstChunks(0) = << >> /\ NoSession \in SessionType
  BY DEF FirstChunks, NoSession, SessionType

\* A new upload and a new request have the types, and a loop that is fresh.
LEMMA NewFacts ==
  /\ Fresh \in LoopType
  /\ \A loop \in LoopType : Failed(loop) \in LoopType
  /\ \A b \in Blobs, pc \in {"idle", "done", "lock", "wait"} :
       /\ NewUpload(b, pc) \in UploadType
       /\ NewUpload(b, pc).pc = pc /\ NewUpload(b, pc).blob = b
       /\ NewUpload(b, pc).sent = 0 /\ NewUpload(b, pc).op = "none"
  BY UploadAssumption DEF Fresh, Failed, LoopType, NewUpload, UploadType

\* A request issued keeps the rest of the upload.
LEMMA IssueFacts ==
  ASSUME NEW w \in UploadType, NEW op \in {"POST", "PATCH", "PUT", "HEAD", "MANIFEST"}
  PROVE  /\ Issue(w, op) \in UploadType
         /\ Issue(w, op).pc = "wait" /\ Issue(w, op).op = op
         /\ Issue(w, op).blob = w.blob /\ Issue(w, op).sent = w.sent
         /\ Issue(w, op).check = w.check
<1>1. Fresh \in LoopType
  BY NewFacts
<1> QED BY <1>1 DEF Issue, UploadType

\* A new upload agrees with a new session.
LEMMA NewAgrees ==
  ASSUME NEW b \in Blobs, NEW pc \in {"idle", "done", "lock"}, NEW B,
         pc = "lock" => b = Config, pc = "done" => b \in B
  PROVE  Agree(NewUpload(b, pc), NoSession, B)
<1>1. NoSession.received = FirstChunks(0)
  BY NoChunks DEF NoSession
<1> QED BY <1>1, NewFacts DEF Agree, Busy

\* The initial state.
LEMMA UploadInitInv == UploadInit => UploadInv
<1> SUFFICES ASSUME UploadInit PROVE UploadInv
  OBVIOUS
<1>1. Agree(NewUpload(Config, "idle"), NoSession, blobs)
  BY NewAgrees, UploadAssumption
<1>2. NewUpload(Config, "idle") \in UploadType
  BY NewFacts, UploadAssumption
<1> QED BY <1>1, <1>2, NoChunks DEF UploadInit, UploadInv

\* More blobs do no harm.
LEMMA MoreBlobs ==
  ASSUME NEW w, NEW s, NEW B, NEW C, B \subseteq C, Agree(w, s, B)
  PROVE  Agree(w, s, C)
  BY DEF Agree

\* A step of one uploader.
LEMMA OneUploader ==
  ASSUME UploadInv, NEW u \in Uploaders, NEW w \in UploadType, NEW s \in SessionType,
         upload' = [upload EXCEPT ![u] = w], session' = [session EXCEPT ![u] = s],
         cooldown' \in Nat, blobs \subseteq blobs',
         configs' => Config \in blobs', Agree(w, s, blobs')
  PROVE  UploadInv'
<1>1. /\ upload' \in [Uploaders -> UploadType] /\ session' \in [Uploaders -> SessionType]
      /\ upload'[u] = w /\ session'[u] = s
      /\ \A v \in Uploaders \ {u} : upload'[v] = upload[v] /\ session'[v] = session[v]
  BY DEF UploadInv
<1>2. \A v \in Uploaders \ {u} : Agree(upload[v], session[v], blobs')
  BY MoreBlobs DEF UploadInv
<1> QED BY <1>1, <1>2 DEF UploadInv

\* A step of one uploader that leaves its session.
LEMMA SameSession ==
  ASSUME UploadInv, NEW u \in Uploaders, NEW w \in UploadType,
         upload' = [upload EXCEPT ![u] = w], session' = session,
         cooldown' \in Nat, blobs \subseteq blobs',
         configs' => Config \in blobs', Agree(w, session[u], blobs')
  PROVE  UploadInv'
<1>1. session[u] \in SessionType /\ session' = [session EXCEPT ![u] = session[u]]
  BY DEF UploadInv
<1> QED BY <1>1, OneUploader

\* A call that returns forgets its session.
LEMMA ReturnStep ==
  ASSUME UploadInv, NEW u \in Uploaders, NEW pc \in {"idle", "done"}, Return(u, pc),
         cooldown' \in Nat, blobs' = blobs, configs' => Config \in blobs,
         pc = "done" => upload[u].blob \in blobs
  PROVE  UploadInv'
<1> DEFINE b == IF pc = "done" THEN upload[u].blob ELSE Config
           w == NewUpload(b, pc)
<1>1. b \in Blobs
  BY UploadAssumption DEF UploadInv, UploadType
<1>2. /\ upload' = [upload EXCEPT ![u] = w]
      /\ session' = [session EXCEPT ![u] = NoSession]
  BY DEF Return, Goto
<1>3. pc = "done" => b \in blobs
  OBVIOUS
<1> HIDE DEF b
<1>4. w \in UploadType /\ Agree(w, NoSession, blobs)
  BY <1>1, <1>3, NewFacts, NewAgrees
<1> HIDE DEF w
<1> QED BY <1>2, <1>4, OneUploader, NoChunks

\* A call begins with a new session, and the config behind its lock.
LEMMA BeginSteps ==
  ASSUME UploadInv, NEW u \in Uploaders,
         \/ \E b \in Blobs : UploadBlob(u, b)
         \/ PutManifest(u) \/ LockConfigs(u)
  PROVE  UploadInv'
<1>1. ASSUME session[u] = NoSession, UNCHANGED <<cooldown, configs, session, blobs>>,
             NEW op \in {"POST", "MANIFEST"}, NEW v \in UploadType, v.sent = 0,
             Goto(u, Issue(v, op))
      PROVE  UploadInv'
  <2> DEFINE w == Issue(v, op)
  <2>1. /\ w \in UploadType /\ w.pc = "wait" /\ w.op = op /\ w.sent = 0
        /\ upload' = [upload EXCEPT ![u] = w]
    BY <1>1, IssueFacts DEF Goto
  <2> HIDE DEF w
  <2>2. NoSession.received = FirstChunks(0)
    BY NoChunks DEF NoSession
  <2>3. Agree(w, session[u], blobs)
    BY <1>1, <2>1, <2>2 DEF Agree, Busy
  <2> QED BY <1>1, <2>1, <2>3, SameSession DEF UploadInv
<1>2. ASSUME NEW b \in Blobs, UploadBlob(u, b) PROVE UploadInv'
  <2>1. session[u] = NoSession /\ UNCHANGED <<cooldown, configs, session, blobs>>
    BY <1>2 DEF UploadBlob, Returned, UploadInv, Agree
  <2>2. CASE b = Config
    <3>1. upload' = [upload EXCEPT ![u] = NewUpload(b, "lock")]
      BY <1>2, <2>2 DEF UploadBlob, Goto
    <3>2. NewUpload(b, "lock") \in UploadType
          /\ Agree(NewUpload(b, "lock"), session[u], blobs)
      BY <2>1, <2>2, NewFacts, NewAgrees
    <3> QED BY <2>1, <3>1, <3>2, SameSession DEF UploadInv
  <2>3. CASE b # Config
    <3>1. Goto(u, Issue(NewUpload(b, "wait"), "POST"))
      BY <1>2, <2>3 DEF UploadBlob
    <3> QED BY <1>1, <2>1, <3>1, NewFacts
  <2> QED BY <2>2, <2>3
<1>3. CASE PutManifest(u)
  <2>1. /\ session[u] = NoSession /\ UNCHANGED <<cooldown, configs, session, blobs>>
        /\ Goto(u, Issue(NewUpload(Config, "wait"), "MANIFEST"))
    BY <1>3 DEF PutManifest, Returned, UploadInv, Agree
  <2> QED BY <1>1, <2>1, NewFacts, UploadAssumption
<1>4. CASE LockConfigs(u)
  <2>1. /\ upload[u].pc = "lock" /\ upload[u].blob = Config /\ session[u] = NoSession
        /\ UNCHANGED <<cooldown, configs, blobs>>
    BY <1>4 DEF LockConfigs, At, UploadInv, Agree
  <2>2. CASE configs /\ Return(u, "done")
    BY <2>1, <2>2, ReturnStep DEF UploadInv
  <2>3. CASE ~configs /\ Goto(u, Issue(upload[u], "POST")) /\ UNCHANGED session
    <3>1. upload[u] \in UploadType /\ upload[u].sent = 0
      BY <2>1 DEF UploadInv, Agree
    <3> QED BY <1>1, <2>1, <2>3, <3>1
  <2> QED BY <1>4, <2>2, <2>3 DEF LockConfigs
<1> QED BY <1>2, <1>3, <1>4

\* Waiting for the cooldown changes no session.
LEMMA WaitSteps ==
  ASSUME UploadInv, NEW u \in Uploaders, Send(u) \/ GiveUp(u)
  PROVE  UploadInv'
<1> DEFINE w == upload[u]
<1>1. w \in UploadType /\ Agree(w, session[u], blobs)
  BY DEF UploadInv
<1>2. /\ w.pc = "wait" /\ UNCHANGED <<cooldown, configs, session, blobs>>
      /\ \/ upload' = [upload EXCEPT ![u] = [w EXCEPT !.pc = "request"]]
         \/ upload' = [upload EXCEPT ![u] =
              [w EXCEPT !.pc = "answered", !.status = "429", !.inner = Fresh]]
  BY DEF Send, GiveUp, At, Goto
<1> HIDE DEF w
<1>3. CASE upload' = [upload EXCEPT ![u] = [w EXCEPT !.pc = "request"]]
  <2> DEFINE v == [w EXCEPT !.pc = "request"]
  <2>1. v \in UploadType /\ Agree(v, session[u], blobs)
    BY <1>1, <1>2 DEF UploadType, Agree, Busy
  <2> HIDE DEF v
  <2> QED BY <1>2, <1>3, <2>1, SameSession DEF UploadInv, v
<1>4. CASE upload' = [upload EXCEPT ![u] =
                [w EXCEPT !.pc = "answered", !.status = "429", !.inner = Fresh]]
  <2> DEFINE v == [w EXCEPT !.pc = "answered", !.status = "429", !.inner = Fresh]
  <2>1. /\ v \in UploadType /\ v.pc = "answered" /\ v.status = "429"
        /\ v.op = w.op /\ v.blob = w.blob /\ v.sent = w.sent
    BY <1>1, NewFacts DEF UploadType
  <2>2. Agree(v, session[u], blobs)
    <3> HIDE DEF v
    <3> QED BY <1>1, <1>2, <2>1 DEF Agree, Busy
  <2> HIDE DEF v
  <2> QED BY <1>2, <1>4, <2>1, <2>2, SameSession DEF UploadInv, v
<1> QED BY <1>2, <1>3, <1>4

\* A completion is issued, or the blob looked for, as its session allows.
LEMMA CompletionSteps ==
  ASSUME UploadInv, NEW u \in Uploaders, Complete(u) \/ Missed(u)
  PROVE  UploadInv'
<1> DEFINE w == upload[u]
<1>1. w \in UploadType /\ Agree(w, session[u], blobs)
  BY DEF UploadInv
<1>2. PICK op \in {"PUT", "HEAD"} :
        /\ upload' = [upload EXCEPT ![u] = Issue(w, op)]
        /\ UNCHANGED <<cooldown, configs, session, blobs>>
        /\ w.pc \in Busy /\ w.op \in {"PUT", "HEAD"}
        /\ op = "PUT" => ~session[u].spent
  BY <1>1 DEF Complete, Missed, At, Goto, Agree, Busy
<1> HIDE DEF w
<1> DEFINE v == Issue(w, op)
<1>3. /\ v \in UploadType /\ v.pc = "wait" /\ v.op = op /\ v.blob = w.blob
  BY <1>1, IssueFacts
<1> HIDE DEF v
<1>4. Agree(v, session[u], blobs)
  BY <1>1, <1>2, <1>3 DEF Agree, Busy
<1> QED BY <1>2, <1>3, <1>4, SameSession DEF UploadInv, v

\* What ends without a descriptor leaves a session behind that nobody knows.
LEMMA EndSteps ==
  ASSUME UploadInv, NEW u \in Uploaders, GiveUpCompletion(u) \/ Fail(u)
  PROVE  UploadInv'
<1>1. Return(u, "idle") /\ UNCHANGED <<cooldown, configs, blobs>>
  BY DEF GiveUpCompletion, Fail
<1> QED BY <1>1, ReturnStep DEF UploadInv

\* The blob itself is looked for before a completion is sent again.
LEMMA RetryStep ==
  ASSUME UploadInv, NEW u \in Uploaders, NEW d \in Delays, RetryCompletion(u, d)
  PROVE  UploadInv'
<1> DEFINE w == upload[u]
<1>1. w \in UploadType /\ Agree(w, session[u], blobs)
  BY DEF UploadInv
<1>2. /\ w.pc = "answered" /\ w.op \in {"PUT", "HEAD"} /\ UNCHANGED <<configs, blobs>>
      /\ cooldown' \in Nat
  BY UploadAssumption DEF RetryCompletion, Retried, At, Extended, UploadInv
<1>3. CASE Return(u, "idle")
  BY <1>2, <1>3, ReturnStep DEF UploadInv
<1>4. CASE /\ Goto(u, [w EXCEPT !.pc = "pause", !.status = "none", !.check = TRUE,
                                !.outer = Failed(@)])
           /\ UNCHANGED session
  <2> DEFINE v == [w EXCEPT !.pc = "pause", !.status = "none", !.check = TRUE,
                            !.outer = Failed(@)]
  <2>1. upload' = [upload EXCEPT ![u] = v]
    BY <1>4 DEF Goto
  <2> HIDE DEF w
  <2>2. /\ v \in UploadType /\ v.pc = "pause" /\ v.check
        /\ v.op = w.op /\ v.blob = w.blob /\ v.sent = w.sent
    BY <1>1, NewFacts DEF UploadType
  <2> HIDE DEF v
  <2>3. Agree(v, session[u], blobs)
    BY <1>1, <1>2, <2>2 DEF Agree, Busy
  <2> QED BY <1>2, <1>4, <2>1, <2>2, <2>3, SameSession DEF UploadInv
<1> QED BY <1>3, <1>4 DEF RetryCompletion

\* Where an answer leads changes nothing of the session and keeps the rest.
LEMMA AnsweredType ==
  ASSUME UploadInv, NEW u \in Uploaders, NEW d \in Delays,
         NEW s \in {"ok", "404", "429", "5xx", "other"}, Answer(u, s, d)
  PROVE  /\ cooldown' \in Nat /\ configs' = configs /\ upload[u].pc = "request"
         /\ \E v \in UploadType :
              /\ upload' = [upload EXCEPT ![u] = v]
              /\ v.op = upload[u].op /\ v.blob = upload[u].blob
              /\ v.sent = upload[u].sent /\ v.check = upload[u].check
              /\ \/ v.pc = "answered" /\ v.status = s
                 \/ v.pc = "wait" /\ s = "429"
<1> DEFINE w == upload[u]
<1>1. w \in UploadType
  BY DEF UploadInv
<1>2. cooldown' \in Nat /\ configs' = configs /\ w.pc = "request"
  BY UploadAssumption DEF Answer, At, Extended, UploadInv
<1>3. \/ upload' = [upload EXCEPT ![u] = [w EXCEPT !.pc = "wait", !.inner = Failed(@)]]
           /\ s = "429"
      \/ upload' = [upload EXCEPT ![u] =
           [w EXCEPT !.pc = "answered", !.status = s, !.inner = Fresh]]
  BY DEF Answer, Goto, Repeated
<1> HIDE DEF w
<1>4. /\ [w EXCEPT !.pc = "wait", !.inner = Failed(@)] \in UploadType
      /\ [w EXCEPT !.pc = "answered", !.status = s, !.inner = Fresh] \in UploadType
  <2>1. [w EXCEPT !.pc = "wait", !.inner = Failed(@)] \in UploadType
    BY <1>1, NewFacts DEF UploadType
  <2>2. [w EXCEPT !.pc = "answered", !.status = s, !.inner = Fresh] \in UploadType
    BY <1>1, NewFacts DEF UploadType
  <2> QED BY <2>1, <2>2
<1>5. CASE /\ upload' = [upload EXCEPT ![u] =
                           [w EXCEPT !.pc = "wait", !.inner = Failed(@)]]
           /\ s = "429"
  <2> DEFINE v == [w EXCEPT !.pc = "wait", !.inner = Failed(@)]
  <2>1. /\ v.op = w.op /\ v.blob = w.blob /\ v.sent = w.sent /\ v.check = w.check
        /\ v.pc = "wait"
    BY <1>1 DEF UploadType
  <2> QED BY <1>2, <1>4, <1>5, <2>1 DEF w
<1>6. CASE upload' = [upload EXCEPT ![u] =
                [w EXCEPT !.pc = "answered", !.status = s, !.inner = Fresh]]
  <2> DEFINE v == [w EXCEPT !.pc = "answered", !.status = s, !.inner = Fresh]
  <2>1. /\ v.op = w.op /\ v.blob = w.blob /\ v.sent = w.sent /\ v.check = w.check
        /\ v.pc = "answered" /\ v.status = s
    BY <1>1 DEF UploadType
  <2> QED BY <1>2, <1>4, <1>6, <2>1 DEF w
<1> QED BY <1>3, <1>5, <1>6

\* What the registry does to a session it has granted a request on.
LEMMA EffectFacts ==
  ASSUME UploadInv, NEW u \in Uploaders, upload[u].pc = "request", Granted(u), Effect(u)
  PROVE  \E t \in SessionType :
           /\ session' = [session EXCEPT ![u] = t] /\ blobs \subseteq blobs'
           /\ \E k \in Nat : t.received = FirstChunks(k)
           /\ upload[u].op \in {"POST", "MANIFEST", "HEAD"} => t = session[u]
           /\ upload[u].op = "PATCH" =>
                ~t.spent /\ t.received = FirstChunks(upload[u].sent + 1)
           /\ upload[u].op \in {"PUT", "HEAD"} => upload[u].blob \in blobs'
<1> DEFINE w == upload[u]
           s == session[u]
           whole == s.received = [i \in 1..Chunks[w.blob] |-> i]
<1>1. w \in UploadType /\ s \in SessionType /\ Agree(w, s, blobs) /\ w.pc = "request"
  BY DEF UploadInv
<1>2. blobs' = blobs \cup IF w.op = "PUT" /\ whole THEN {w.blob} ELSE {}
  BY DEF Effect
<1>3. /\ w.op = "PUT" => ~s.spent /\ whole
      /\ w.op = "HEAD" => w.blob \in blobs
  BY DEF Granted
<1>4. CASE w.op = "PATCH"
  <2> DEFINE t == [s EXCEPT !.received = Append(@, w.sent + 1)]
  <2>1. session' = [session EXCEPT ![u] = t]
    BY <1>4 DEF Effect, UploadInv
  <2>2. ~s.spent /\ s.received = FirstChunks(w.sent)
    BY <1>1, <1>4 DEF Agree
  <2> HIDE DEF w, s
  <2>3. w.sent \in Nat /\ w.sent + 1 \in Nat
    BY <1>1 DEF UploadType
  <2>4. t \in SessionType /\ ~t.spent /\ t.received = FirstChunks(w.sent + 1)
    <3>1. /\ FirstChunks(w.sent + 1) \in Seq(Nat)
          /\ Append(FirstChunks(w.sent), w.sent + 1) = FirstChunks(w.sent + 1)
      BY <2>3, ChunksFacts
    <3> QED BY <1>1, <2>2, <3>1 DEF SessionType
  <2>5. \E k \in Nat : t.received = FirstChunks(k)
    BY <2>3, <2>4
  <2> HIDE DEF t
  <2> QED BY <1>2, <1>4, <2>1, <2>4, <2>5 DEF w
<1>5. CASE w.op = "PUT"
  <2> DEFINE t == [s EXCEPT !.spent = TRUE]
  <2>1. session' = [session EXCEPT ![u] = t]
    BY <1>3, <1>5 DEF Effect, UploadInv
  <2>2. w.blob \in blobs'
    BY <1>2, <1>3, <1>5
  <2>3. \E k \in Nat : s.received = FirstChunks(k)
    BY <1>1 DEF Agree
  <2> HIDE DEF w, s
  <2>4. t \in SessionType /\ t.received = s.received
    BY <1>1 DEF SessionType
  <2> QED BY <1>2, <1>5, <2>1, <2>2, <2>3, <2>4 DEF w
<1>6. CASE w.op \notin {"PATCH", "PUT"}
  <2>1. session' = [session EXCEPT ![u] = s]
    BY <1>6 DEF Effect, UploadInv
  <2>2. \E k \in Nat : s.received = FirstChunks(k)
    BY <1>1 DEF Agree
  <2> QED BY <1>1, <1>2, <1>3, <1>6, <2>1, <2>2
<1> QED BY <1>4, <1>5, <1>6

\* An answer, true, failed or lost, leaves the upload in step with its session.
LEMMA AnswerStep ==
  ASSUME UploadInv, NEW u \in Uploaders, NEW d \in Delays,
         NEW s \in {"ok", "404", "429", "5xx", "other"}, Answer(u, s, d)
  PROVE  UploadInv'
<1> DEFINE w == upload[u]
<1>1. w \in UploadType /\ session[u] \in SessionType /\ Agree(w, session[u], blobs)
  BY DEF UploadInv
<1>2. cooldown' \in Nat /\ configs' = configs /\ w.pc = "request"
  BY AnsweredType
<1>3. PICK v \in UploadType :
        /\ upload' = [upload EXCEPT ![u] = v]
        /\ v.op = w.op /\ v.blob = w.blob /\ v.sent = w.sent /\ v.check = w.check
        /\ \/ v.pc = "answered" /\ v.status = s
           \/ v.pc = "wait" /\ s = "429"
  BY AnsweredType
<1>4. CASE UNCHANGED <<session, blobs>> /\ s # "ok" /\ (s = "404" => ~Granted(u))
  <2>1. w.op = "HEAD" /\ s = "404" => w.blob \notin blobs
    BY <1>4 DEF Granted
  <2> HIDE DEF w
  <2>2. Agree(v, session[u], blobs)
    BY <1>1, <1>2, <1>3, <1>4, <2>1 DEF Agree, Busy
  <2> QED BY <1>2, <1>3, <1>4, <2>2, SameSession DEF UploadInv
<1>5. CASE Granted(u) /\ Effect(u) /\ s \in {"ok", "5xx", "other"}
  <2>1. PICK t \in SessionType :
          /\ session' = [session EXCEPT ![u] = t] /\ blobs \subseteq blobs'
          /\ \E k \in Nat : t.received = FirstChunks(k)
          /\ w.op \in {"POST", "MANIFEST", "HEAD"} => t = session[u]
          /\ w.op = "PATCH" => ~t.spent /\ t.received = FirstChunks(w.sent + 1)
          /\ w.op \in {"PUT", "HEAD"} => w.blob \in blobs'
    BY <1>2, <1>5, EffectFacts
  <2> HIDE DEF w
  <2>2. v.pc = "answered" /\ v.status = s /\ s # "404"
    BY <1>3, <1>5
  <2>3. Agree(v, t, blobs')
    BY <1>1, <1>2, <1>3, <2>1, <2>2 DEF Agree, Busy
  <2> QED BY <1>2, <1>3, <2>1, <2>3, OneUploader DEF UploadInv
<1>6. \/ UNCHANGED <<session, blobs>> /\ s # "ok" /\ (s = "404" => ~Granted(u))
      \/ Granted(u) /\ Effect(u) /\ s \in {"ok", "5xx", "other"}
  BY DEF Answer
<1> QED BY <1>4, <1>5, <1>6

\* A granted request leads to the next chunk, the completion or the end.
LEMMA AdvanceStep ==
  ASSUME UploadInv, NEW u \in Uploaders, Advance(u)
  PROVE  UploadInv'
<1> DEFINE w == upload[u]
           sent == IF w.op = "PATCH" THEN w.sent + 1 ELSE w.sent
<1>1. w \in UploadType /\ session[u] \in SessionType /\ Agree(w, session[u], blobs)
  BY DEF UploadInv
<1>2. w.pc = "answered" /\ w.status = "ok" /\ UNCHANGED <<cooldown, blobs>>
  BY DEF Advance, At
<1>3. /\ sent \in Nat
      /\ w.op \in {"POST", "PATCH"} =>
           ~session[u].spent /\ session[u].received = FirstChunks(sent)
  <2>1. NoSession.received = FirstChunks(0) /\ ~NoSession.spent
    BY NoChunks DEF NoSession
  <2> HIDE DEF w
  <2> QED BY <1>1, <1>2, <2>1 DEF UploadType, Agree, Busy
<1>4. ASSUME NEW op \in {"PATCH", "PUT"}, NEW pc \in {"wait", "pause"},
             op = "PATCH" => pc = "wait", w.op \in {"POST", "PATCH"},
             NEW loop \in LoopType,
             upload' = [upload EXCEPT ![u] =
               [Issue([w EXCEPT !.sent = sent], op) EXCEPT !.pc = pc, !.outer = loop]],
             UNCHANGED <<configs, session>>
      PROVE  UploadInv'
  <2> DEFINE x == [w EXCEPT !.sent = sent]
             i == Issue(x, op)
             v == [i EXCEPT !.pc = pc, !.outer = loop]
  <2>0. upload' = [upload EXCEPT ![u] = v]
    BY <1>4
  <2> HIDE DEF w, sent
  <2>1. x \in UploadType /\ x.sent = sent
    BY <1>1, <1>3 DEF UploadType
  <2> HIDE DEF x
  <2>2. i \in UploadType /\ i.op = op /\ i.sent = sent
    <3>1. op \in {"POST", "PATCH", "PUT", "HEAD", "MANIFEST"}
      OBVIOUS
    <3> QED BY <2>1, <3>1, IssueFacts
  <2> HIDE DEF i
  <2>3. v \in UploadType /\ v.op = op /\ v.sent = sent /\ v.pc = pc
    BY <2>2 DEF UploadType
  <2> HIDE DEF v
  <2>4. Agree(v, session[u], blobs)
    BY <1>3, <1>4, <2>3 DEF Agree, Busy
  <2> QED BY <1>2, <1>4, <2>0, <2>3, <2>4, SameSession DEF UploadInv
<1>5. CASE w.op \in {"POST", "PATCH"} /\ Goto(u, Issue([w EXCEPT !.sent = sent], "PATCH"))
             /\ UNCHANGED <<configs, session>>
  <2> DEFINE i == Issue([w EXCEPT !.sent = sent], "PATCH")
  <2>1. i \in UploadType /\ i.pc = "wait"
    <3> HIDE DEF w, sent
    <3>1. [w EXCEPT !.sent = sent] \in UploadType
      BY <1>1, <1>3 DEF UploadType
    <3> QED BY <3>1, IssueFacts
  <2>2. upload' = [upload EXCEPT ![u] = i]
    BY <1>5 DEF Goto
  <2> HIDE DEF w, sent
  <2>3. i = [i EXCEPT !.pc = "wait", !.outer = i.outer] /\ i.outer \in LoopType
    <3> HIDE DEF i
    <3> QED BY <2>1 DEF UploadType
  <2> QED BY <1>4, <1>5, <2>2, <2>3
<1>6. CASE w.op = "PATCH" /\ UNCHANGED <<configs, session>>
             /\ Goto(u, [Issue([w EXCEPT !.sent = sent], "PUT") EXCEPT
                           !.pc = "pause", !.outer = Fresh])
  BY <1>4, <1>6, NewFacts DEF Goto
<1>7. CASE Return(u, "idle") /\ configs' = configs
  BY <1>2, <1>7, ReturnStep DEF UploadInv
<1>8. CASE /\ w.op \in {"PUT", "HEAD"}
           /\ configs' = (configs \/ w.blob = Config) /\ Return(u, "done")
  <2>1. w.blob \in blobs
    BY <1>1, <1>2, <1>8 DEF Agree
  <2>2. configs' => Config \in blobs
    BY <1>8, <2>1 DEF UploadInv
  <2> QED BY <1>2, <1>8, <2>1, <2>2, ReturnStep DEF UploadInv
<1> QED BY <1>5, <1>6, <1>7, <1>8 DEF Advance

\* Time concerns the loops alone.
LEMMA TickStep ==
  ASSUME UploadInv, Tick
  PROVE  UploadInv'
<1>1. \A n \in Nat : Less(n) \in Nat
  BY DEF Less
<1>2. UNCHANGED <<configs, session, blobs>> /\ cooldown' \in Nat
  BY <1>1 DEF Tick, UploadInv
<1>3. \A u \in Uploaders :
        /\ upload'[u] \in UploadType
        /\ upload'[u].pc = upload[u].pc /\ upload'[u].op = upload[u].op
        /\ upload'[u].blob = upload[u].blob /\ upload'[u].sent = upload[u].sent
        /\ upload'[u].check = upload[u].check /\ upload'[u].status = upload[u].status
  <2> TAKE u \in Uploaders
  <2> DEFINE w == upload[u]
  <2>1. upload'[u] =
          [w EXCEPT !.inner.left = IF w.pc \in {"wait", "request"} THEN Less(@) ELSE @,
                    !.outer.left = IF w.op \in {"PUT", "HEAD"} THEN Less(@) ELSE @]
    BY DEF Tick
  <2>2. w \in UploadType
    BY DEF UploadInv
  <2> HIDE DEF w
  <2>3. PICK inner \in LoopType, outer \in LoopType :
          upload'[u] = [w EXCEPT !.inner = inner, !.outer = outer]
    <3> DEFINE inner == [w.inner EXCEPT !.left =
                           IF w.pc \in {"wait", "request"} THEN Less(@) ELSE @]
               outer == [w.outer EXCEPT !.left =
                           IF w.op \in {"PUT", "HEAD"} THEN Less(@) ELSE @]
    <3>1. inner \in LoopType /\ outer \in LoopType
      BY <1>1, <2>2 DEF UploadType, LoopType
    <3>2. upload'[u] = [w EXCEPT !.inner = inner, !.outer = outer]
      BY <2>1, <2>2 DEF UploadType
    <3> QED BY <3>1, <3>2
  <2> QED BY <2>2, <2>3 DEF UploadType, w
<1>4. upload' \in [Uploaders -> UploadType]
  BY <1>3 DEF Tick
<1>5. \A u \in Uploaders : Agree(upload'[u], session[u], blobs)
  BY <1>3 DEF UploadInv, Agree
<1> QED BY <1>2, <1>4, <1>5 DEF UploadInv

\* Every step keeps uploads, sessions and blobs in agreement.
LEMMA UploadStep == UploadInv /\ [UploadNext]_uploadVars => UploadInv'
<1>1. ASSUME UploadInv, UNCHANGED uploadVars PROVE UploadInv'
  BY <1>1 DEF UploadInv, uploadVars
<1> QED BY <1>1, BeginSteps, WaitSteps, CompletionSteps, EndSteps, RetryStep, AnswerStep,
           AdvanceStep, TickStep DEF UploadNext, Requesting

\* The invariant, from which both theorems follow.
LEMMA UploadInvariant == UploadSpec => []UploadInv
  BY UploadInitInv, UploadStep, PTL DEF UploadSpec

\* CompleteUploads for any number of uploaders and any failures: a descriptor that
\* was returned, and the config once it is cached, name a blob of the registry.
THEOREM UploadsAreComplete == UploadSpec => []CompleteUploads
<1>1. UploadInv => CompleteUploads
  BY DEF UploadInv, Agree, CompleteUploads, At
<1> QED BY <1>1, UploadInvariant, PTL

\* SendsOnce for any chunks and any failures: sessions receive the chunks in order,
\* once, and no completion is sent to one that was committed.
THEOREM NothingSentTwice == UploadSpec => []SendsOnce
<1>1. UploadInv => SendsOnce
  <2> SUFFICES ASSUME UploadInv, NEW u \in Uploaders
               PROVE  /\ session[u].received = [i \in 1..Len(session[u].received) |-> i]
                      /\ At(u, "request") /\ upload[u].op = "PUT" => ~session[u].spent
    BY DEF SendsOnce
  <2>1. PICK k \in Nat : session[u].received = FirstChunks(k)
    BY DEF UploadInv, Agree
  <2>2. Len(session[u].received) = k
    BY <2>1, ChunksFacts
  <2> QED BY <2>1, <2>2 DEF FirstChunks, UploadInv, Agree, At
<1> QED BY <1>1, UploadInvariant, PTL
=============================================================================
