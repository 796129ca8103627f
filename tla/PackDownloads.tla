--------------------------- MODULE PackDownloads ---------------------------
(***************************************************************************)
(* packDownloads.read: substitutions that read records of packed blobs at  *)
(* the same time share one download of the pack, within a budget of bytes  *)
(* that covers packs being downloaded and packs readers hold. Every action *)
(* but the fetches runs under packDownloads.mu.                            *)
(*                                                                         *)
(* Left out: the bytes. A pack is its size; a fetch and the digest of a    *)
(* record may fail.                                                        *)
(***************************************************************************)
EXTENDS Integers, FiniteSets, Functions

CONSTANTS
  Readers,   \* goroutines that may be in read
  Keys,      \* repository@digest of the packs
  Files,     \* what is asked for: [key, size of the pack, part of it or all]
  Packs,     \* downloadedPack objects in memory, enough of them
  NoPack,    \* a key that is not in packDownloads.packs
  Limit,     \* the budget
  History,   \* downloadHistoryEntries
  MaxClock   \* bound: reads of a behaviour

ASSUME DownloadAssumption ==
  /\ IsFiniteSet(Readers) /\ NoPack \notin Packs
  /\ Files \subseteq [key : Keys, size : Nat, part : BOOLEAN]
  /\ Limit \in Nat /\ History \in Nat /\ MaxClock \in Nat

VARIABLES
  packs,     \* the pack of each key
  heap,      \* the downloadedPack objects
  bytes,     \* bytes reserved
  clock,     \* reads begun
  recent,    \* when a key was last asked for without a pack; 0: not remembered
  reader     \* where each reader is and the pack it holds

downloadVars == <<packs, heap, bytes, clock, recent, reader>>

Idle == [pc |-> "idle", key |-> NoPack, pack |-> NoPack]
NewPack(n, used) == [size |-> n, state |-> "loading", readers |-> 1, used |-> used]
Garbage == [size |-> 0, state |-> "failed", readers |-> 0, used |-> 0]

DownloadInit ==
  /\ packs = [k \in Keys |-> NoPack] /\ heap = [p \in Packs |-> Garbage]
  /\ bytes = 0 /\ clock = 0 /\ recent = [k \in Keys |-> 0]
  /\ reader = [r \in Readers |-> Idle]

Cached(k) == packs[k] # NoPack
Unreferenced(p) ==
  (\A k \in Keys : packs[k] # p) /\ (\A r \in Readers : reader[r].pack # p)

-----------------------------------------------------------------------------
\* The record is not served from a pack: too large to hold, or the whole blob.
Unshared(f) == ~f.part \/ f.size > Limit

Begin(r) ==
  reader[r].pc = "idle" /\ clock < MaxClock /\ clock' = clock + 1
Direct(r) == reader' = [reader EXCEPT ![r].pc = "direct"]

\* The descriptor differs from that of the pack held: an error.
Conflict(r, f) ==
  /\ Begin(r) /\ Cached(f.key) /\ heap[packs[f.key]].size # f.size
  /\ UNCHANGED <<packs, heap, bytes, recent, reader>>

ReadUnshared(r, f) ==
  /\ Begin(r) /\ Unshared(f)
  /\ Cached(f.key) => heap[packs[f.key]].size = f.size
  /\ Direct(r) /\ UNCHANGED <<packs, heap, bytes, recent>>

\* Joins the download of the pack, in progress or done.
Join(r, f) ==
  LET p == packs[f.key]
  IN  /\ Begin(r) /\ ~Unshared(f) /\ Cached(f.key) /\ heap[p].size = f.size
      /\ heap' = [heap EXCEPT ![p].readers = @ + 1, ![p].used = clock + 1]
      /\ reader' = [reader EXCEPT ![r] =
                      [pc |-> "wait", key |-> f.key, pack |-> p]]
      /\ UNCHANGED <<packs, bytes, recent>>

\* The bounded history of keys asked for; the oldest one is forgotten.
Remember(k) ==
  LET now == [recent EXCEPT ![k] = clock + 1]
      kept == { j \in Keys : now[j] > 0 }
  IN  [j \in Keys |->
         IF Cardinality(kept) > History /\ j \in kept
            /\ \A i \in kept : now[j] <= now[i]
         THEN 0 ELSE now[j]]

\* The first read of a record in a pack does not justify fetching all of it.
FirstSight(r, f) ==
  /\ Begin(r) /\ ~Unshared(f) /\ ~Cached(f.key) /\ recent[f.key] = 0
  /\ recent' = Remember(f.key)
  /\ Direct(r) /\ UNCHANGED <<packs, heap, bytes>>

\* Mutant of Evictable: a pack somebody holds may go once it is downloaded.
EvictableReady == { k \in Keys : Cached(k) /\ heap[packs[k]].state = "ready" }

Evictable == { k \in Keys : Cached(k) /\ heap[packs[k]].readers = 0 }
SizeOf(K) == SumFunctionOnSet([k \in K |-> heap[packs[k]].size], K)

\* Unused packs go, the least recently used first, until n bytes fit.
Evicted(n) ==
  { k \in Evictable :
      LET older == { j \in Evictable : heap[packs[j]].used < heap[packs[k]].used }
      IN  bytes - SizeOf(older) + n > Limit }

\* The second read of a pack: make room and download it, or, when what is in use
\* leaves no room, read the record alone.
Reserve(r, f) ==
  LET gone == Evicted(f.size)
      left == bytes - SizeOf(gone)
      kept == [k \in Keys |-> IF k \in gone THEN NoPack ELSE packs[k]]
  IN  /\ Begin(r) /\ ~Unshared(f) /\ ~Cached(f.key) /\ recent[f.key] > 0
      /\ recent' = Remember(f.key)
      /\ \/ /\ left + f.size <= Limit /\ \E q \in Packs : Unreferenced(q)
            /\ LET p == CHOOSE q \in Packs : Unreferenced(q)
               IN  /\ packs' = [kept EXCEPT ![f.key] = p]
                   /\ heap' = [heap EXCEPT ![p] = NewPack(f.size, clock + 1)]
                   /\ reader' = [reader EXCEPT ![r] =
                                   [pc |-> "fetch", key |-> f.key, pack |-> p]]
            /\ bytes' = left + f.size
         \/ /\ left + f.size > Limit
            /\ packs' = kept /\ bytes' = left
            /\ Direct(r) /\ UNCHANGED heap

-----------------------------------------------------------------------------
\* The pack arrived whole and with the right digest.
Fetched(r) ==
  /\ reader[r].pc = "fetch"
  /\ heap' = [heap EXCEPT ![reader[r].pack].state = "ready"]
  /\ reader' = [reader EXCEPT ![r].pc = "wait"]
  /\ UNCHANGED <<packs, bytes, clock, recent>>

\* Mutant of FetchFailed: the channel the other readers wait for is not closed.
FetchFailedSilently(r) ==
  /\ reader[r].pc = "fetch"
  /\ packs' = [packs EXCEPT ![reader[r].key] = NoPack]
  /\ bytes' = bytes - heap[reader[r].pack].size
  /\ heap' = [heap EXCEPT ![reader[r].pack].readers = @ - 1]
  /\ reader' = [reader EXCEPT ![r] = Idle]
  /\ UNCHANGED <<clock, recent>>

\* The reservation is given back; whoever joined the download gets its error.
FetchFailed(r) ==
  /\ reader[r].pc = "fetch"
  /\ heap' = [heap EXCEPT ![reader[r].pack].state = "failed"]
  /\ packs' = [packs EXCEPT ![reader[r].key] = NoPack]
  /\ bytes' = bytes - heap[reader[r].pack].size
  /\ reader' = [reader EXCEPT ![r].pc = "wait"]
  /\ UNCHANGED <<clock, recent>>

\* Mutant of Release: the counter of the key's present pack is decremented.
ReleaseByKey(r) ==
  LET p == IF Cached(reader[r].key) THEN packs[reader[r].key] ELSE reader[r].pack
  IN  /\ heap' = [heap EXCEPT ![p].readers = @ - 1]
      /\ reader' = [reader EXCEPT ![r] = Idle]

Release(r) ==
  /\ heap' = [heap EXCEPT ![reader[r].pack].readers = @ - 1]
  /\ reader' = [reader EXCEPT ![r] = Idle]

\* The download ended: its error or a record with the wrong digest is returned.
ReturnError(r) ==
  /\ reader[r].pc = "wait" /\ heap[reader[r].pack].state # "loading"
  /\ Release(r) /\ UNCHANGED <<packs, bytes, clock, recent>>

\* The record is returned as a reader of the pack's bytes.
ReturnReader(r) ==
  /\ reader[r].pc = "wait" /\ heap[reader[r].pack].state = "ready"
  /\ reader' = [reader EXCEPT ![r].pc = "open"]
  /\ UNCHANGED <<packs, heap, bytes, clock, recent>>

Close(r) ==
  /\ reader[r].pc = "open"
  /\ Release(r) /\ UNCHANGED <<packs, bytes, clock, recent>>

\* A read of the record alone returns.
ReturnDirect(r) ==
  /\ reader[r].pc = "direct" /\ reader' = [reader EXCEPT ![r] = Idle]
  /\ UNCHANGED <<packs, heap, bytes, clock, recent>>

Fetching(r) == Fetched(r) \/ FetchFailed(r)
Returning(r) == ReturnError(r) \/ ReturnReader(r) \/ ReturnDirect(r)

DownloadNext ==
  \/ \E r \in Readers, f \in Files :
       Conflict(r, f) \/ ReadUnshared(r, f) \/ Join(r, f) \/ FirstSight(r, f)
         \/ Reserve(r, f)
  \/ \E r \in Readers : Fetching(r) \/ Returning(r) \/ Close(r)

DownloadSpec == DownloadInit /\ [][DownloadNext]_downloadVars

\* Requests have timeouts, and a goroutine that can run does.
DownloadFairness ==
  \A r \in Readers : WF_downloadVars(Fetching(r) \/ Returning(r))

-----------------------------------------------------------------------------
Holders(p) == { r \in Readers : reader[r].pack = p }

\* What a reader waits for or reads stays in the table and so in the budget
\* until the last of them released it, unless its download failed: no read, join,
\* eviction or failure of another one takes it out.
HeldAccounted ==
  \A r \in Readers :
    LET p == reader[r].pack
    IN  p # NoPack =>
          /\ heap[p].readers = Cardinality(Holders(p))
          /\ heap[p].state # "failed" => packs[reader[r].key] = p

\* The bytes of every pack in memory, being downloaded, cached or held by a
\* reader, are those reserved, and within the limit.
WithinBudget ==
  LET live == { p \in Packs :
                  /\ heap[p].state # "failed"
                  /\ Holders(p) # {} \/ \E k \in Keys : packs[k] = p }
      size == [p \in Packs |-> heap[p].size]
  IN  bytes = SumFunctionOnSet(size, live) /\ bytes <= Limit

\* A read that joined a download returns, whatever becomes of it.
ReadsReturn ==
  \A r \in Readers :
    reader[r].pc = "wait" ~> reader[r].pc \in {"idle", "open"}
=============================================================================
