------------------------- MODULE CacheClientsProofs -------------------------
(***************************************************************************)
(* Proofs about the reader of the published heads and about the catalogs of*)
(* a snapshot, which share no state. That requests are answered is liveness,*)
(* and left to TLC.                                                        *)
(***************************************************************************)
EXTENDS SnapshotReader, Catalog, SequenceTheorems, Induction

(***************************************************************************)
(* SnapshotReader, for any requests, platforms and names: an absent name   *)
(* was not published.                                                      *)
(***************************************************************************)
HeadType == {NoHead} \cup SUBSET Names
Errors == {"none", "failed", "missing"}
ResultType == [view : HeadType, error : Errors \cup {"running"}]
ViewsType == UNION { [S -> SUBSET Names] : S \in SUBSET Tags }
RequestType ==
  [pc : {"idle", "current", "refresh", "lookup", "merge", "recover", "present",
         "absent", "failed"},
   name : Names \cup {NoName}, views : ViewsType, left : SUBSET Tags,
   found : SUBSET Names, failures : SUBSET Errors, refreshError : Errors,
   again : BOOLEAN, promised : SUBSET Names]

ReaderType ==
  /\ heads \in [Tags -> HeadType] /\ views \in [Tags -> HeadType]
  /\ snapshot \in HeadType /\ refreshError \in Errors
  /\ results \in [Tags -> ResultType]
  /\ promised \in SUBSET Names
  /\ request \in [Requests -> RequestType]

(***************************************************************************)
(* A name that was published as the refresh began is in the head of some   *)
(* tag, and so in its result unless that tag's head is still to be read or *)
(* fails. After the refresh it is in some view unless refreshError tells.  *)
(***************************************************************************)
ShownBy(t, n) == views[t] # NoHead /\ n \in views[t]

Underway ==
  /\ \A t \in Tags :
       /\ results[t].error = "running" => results[t].view = NoHead
       /\ results[t].error = "none" => results[t].view # NoHead /\ heads[t] # NoHead
       /\ results[t].error = "missing" => views[t] = NoHead
       /\ views[t] # NoHead => heads[t] # NoHead
  /\ mu = NoName => \A t \in Tags : results[t].error = "running"
  /\ mu # NoName =>
       \A n \in promised : \E t \in Tags :
         /\ heads[t] # NoHead /\ n \in heads[t]
         /\ \/ results[t].error \in {"running", "failed"}
            \/ results[t].error = "none" /\ n \in results[t].view

Refreshed ==
  /\ mu = NoName /\ refreshError # "failed" =>
       \A n \in promised : \E t \in Tags : ShownBy(t, n)
  /\ snapshot = NoHead => \A t \in Tags : views[t] = NoHead

(***************************************************************************)
(* A request that looks a promised name up has it in a view that is left,  *)
(* in what it found, or in the snapshot already, unless a node failed.     *)
(***************************************************************************)
Hopeful(q, snap) ==
  \/ Has(snap, q.name) \/ q.failures # {}
  \/ \E t \in q.left : q.name \in q.views[t]
  \/ q.pc = "merge" /\ q.name \in q.found

Sound(q, snap) ==
  /\ q.pc # "idle" => q.name \in Names
  /\ q.pc = "absent" => q.name \notin q.promised
  /\ q.pc \in {"lookup", "merge"} =>
       /\ snap # NoHead
       /\ q.refreshError # "failed" /\ q.name \in q.promised => Hopeful(q, snap)

RequestInv == \A r \in Requests :
  /\ request[r].pc = "refresh" <=> mu = r
  /\ Sound(request[r], snapshot)

ReaderInv == ReaderType /\ Underway /\ Refreshed /\ RequestInv

\* No views are views.
LEMMA NoViews == [t \in {} |-> NoHead] \in ViewsType
<1>1. [t \in {} |-> NoHead] \in [{} -> SUBSET Names]
  OBVIOUS
<1> QED BY <1>1 DEF ViewsType

\* What a request is before it asked.
LEMMA IdleType == Idle \in RequestType
  BY NoViews DEF Idle, RequestType, Errors

\* The initial state.
LEMMA ReaderInitInv == ReaderInit => ReaderInv
<1> SUFFICES ASSUME ReaderInit PROVE ReaderInv
  OBVIOUS
<1>1. ReaderType
  BY ReaderAssumption, IdleType
  DEF ReaderInit, ReaderType, HeadType, NotYet, ResultType, Errors
<1>2. Underway /\ Refreshed
  BY DEF ReaderInit, Underway, Refreshed, NotYet
<1>3. RequestInv
  BY ReaderAssumption DEF ReaderInit, RequestInv, Sound, Idle
<1> QED BY <1>1, <1>2, <1>3 DEF ReaderInv

\* The snapshot only grows.
LEMMA SoundGrows ==
  ASSUME NEW q, NEW snap, NEW more, Sound(q, snap),
         snap # NoHead => more # NoHead /\ snap \subseteq more
  PROVE  Sound(q, more)
  BY DEF Sound, Hopeful, Has

\* A request is left with its own record; the others keep theirs.
LEMMA OneRequest ==
  ASSUME ReaderInv, NEW r \in Requests, NEW q \in RequestType,
         request' = [request EXCEPT ![r] = q],
         snapshot # NoHead => snapshot' # NoHead /\ snapshot \subseteq snapshot',
         Sound(q, snapshot'),
         \A s \in Requests \ {r} : mu = s <=> mu' = s,
         q.pc = "refresh" <=> mu' = r
  PROVE  RequestInv' /\ request' \in [Requests -> RequestType]
<1>1. /\ request'[r] = q /\ \A s \in Requests \ {r} : request'[s] = request[s]
      /\ request' \in [Requests -> RequestType]
  BY DEF ReaderInv, ReaderType
<1>2. \A s \in Requests \ {r} : Sound(request[s], snapshot')
  BY SoundGrows DEF ReaderInv, RequestInv
<1> QED BY <1>1, <1>2 DEF ReaderInv, RequestInv

-----------------------------------------------------------------------------
\* What a request becomes when it leaves the lock.
Leaving(q, after, snap, error, since) ==
  LET opened == { t \in Tags : after[t] # NoHead }
  IN  IF snap # NoHead /\ (q.name \notin snap \/ q.again)
      THEN [q EXCEPT !.pc = "lookup", !.views = [t \in opened |-> after[t]],
                     !.left = opened, !.failures = {}, !.refreshError = error,
                     !.promised = since]
      ELSE [Idle EXCEPT !.pc = Outcome(q.name, snap, {}, error), !.name = q.name,
                        !.promised = since]

\* It looks up in all views that are open, or answers what is settled.
LEMMA LeavingSound ==
  ASSUME NEW q \in RequestType, q.name \in Names, NEW after \in [Tags -> HeadType],
         NEW snap, NEW error \in Errors, NEW since \in SUBSET Names,
         error # "failed" => \A n \in since : \E t \in Tags :
                                after[t] # NoHead /\ n \in after[t],
         snap = NoHead => \A t \in Tags : after[t] = NoHead
  PROVE  LET p == Leaving(q, after, snap, error, since)
         IN  p \in RequestType /\ p.pc # "refresh" /\ Sound(p, snap)
<1> DEFINE opened == { t \in Tags : after[t] # NoHead }
           p == Leaving(q, after, snap, error, since)
<1>1. [t \in opened |-> after[t]] \in ViewsType
  <2>1. [t \in opened |-> after[t]] \in [opened -> SUBSET Names]
    BY DEF HeadType
  <2> QED BY <2>1 DEF ViewsType
<1>2. CASE snap # NoHead /\ (q.name \notin snap \/ q.again)
  <2>1. p = [q EXCEPT !.pc = "lookup", !.views = [t \in opened |-> after[t]],
                      !.left = opened, !.failures = {}, !.refreshError = error,
                      !.promised = since]
    BY <1>2 DEF Leaving
  <2> HIDE DEF p
  <2>2. /\ p \in RequestType /\ p.pc = "lookup" /\ p.name = q.name
        /\ p.left = opened /\ p.views = [t \in opened |-> after[t]]
        /\ p.refreshError = error /\ p.promised = since
    BY <1>1, <2>1 DEF RequestType
  <2>3. error # "failed" /\ q.name \in since => \E t \in opened : q.name \in after[t]
    OBVIOUS
  <2> QED BY <1>2, <2>2, <2>3 DEF Sound, Hopeful, p
<1>3. CASE ~(snap # NoHead /\ (q.name \notin snap \/ q.again))
  <2> DEFINE answer == Outcome(q.name, snap, {}, error)
  <2>1. /\ answer \in {"present", "absent", "failed"}
        /\ answer = "absent" => snap = NoHead /\ error # "failed"
    BY <1>3 DEF Outcome, Has
  <2>2. p = [Idle EXCEPT !.pc = answer, !.name = q.name, !.promised = since]
    BY <1>3 DEF Leaving
  <2> HIDE DEF p, answer
  <2>3. /\ p \in RequestType /\ p.pc = answer /\ p.name = q.name /\ p.promised = since
    BY <2>1, <2>2, IdleType DEF RequestType
  <2>4. answer = "absent" => q.name \notin since
    BY <2>1
  <2> QED BY <2>1, <2>3, <2>4 DEF Sound, p
<1> QED BY <1>2, <1>3

-----------------------------------------------------------------------------
\* Heads that grow and clocks that run hide nothing.
LEMMA PublishStep ==
  ASSUME ReaderInv,
         \/ \E t \in Tags, n \in Names : PublishHead(t, n)
         \/ Elapse \/ UNCHANGED readerVars
  PROVE  ReaderInv'
<1>1. ASSUME NEW t \in Tags, NEW n \in Names, PublishHead(t, n) PROVE ReaderInv'
  <2> DEFINE new == {n} \cup (IF heads[t] = NoHead THEN {} ELSE heads[t])
  <2>1. /\ heads' = [heads EXCEPT ![t] = new]
        /\ UNCHANGED <<mu, views, snapshot, refreshError, results, promised, request>>
    BY <1>1 DEF PublishHead
  <2>2. new \in SUBSET Names /\ new # NoHead
    BY ReaderAssumption DEF ReaderInv, ReaderType, HeadType
  <2>3. \A u \in Tags : /\ heads[u] # NoHead => heads'[u] # NoHead
                        /\ heads[u] # NoHead => heads[u] \subseteq heads'[u]
    BY <2>1, <2>2 DEF ReaderInv, ReaderType
  <2>4. ReaderType'
    BY <2>1, <2>2 DEF ReaderInv, ReaderType, HeadType
  <2>5. Underway'
    BY <2>1, <2>3 DEF ReaderInv, Underway
  <2>6. Refreshed' /\ RequestInv'
    BY <2>1 DEF ReaderInv, Refreshed, RequestInv, ShownBy
  <2> QED BY <2>4, <2>5, <2>6 DEF ReaderInv
<1>2. CASE Elapse \/ UNCHANGED readerVars
  <2>1. UNCHANGED <<heads, mu, views, snapshot, refreshError, results, promised, request>>
    BY <1>2 DEF Elapse, readerVars
  <2> QED
    BY <2>1 DEF ReaderInv, ReaderType, Underway, Refreshed, RequestInv, ShownBy
<1> QED BY <1>1, <1>2

\* A tag whose head is published is read or fails: it is not missing.
LEMMA TagStep ==
  ASSUME ReaderInv, NEW t \in Tags, RefreshTag(t)
  PROVE  ReaderInv'
<1>1. PICK e \in Errors :
        /\ e = "missing" => heads[t] = NoHead
        /\ e = "none" => heads[t] # NoHead
        /\ results' = [results EXCEPT ![t] =
             [error |-> e, view |-> IF e = "none" THEN heads[t] ELSE NoHead]]
  BY DEF RefreshTag, Errors
<1>2. /\ mu # NoName
      /\ UNCHANGED <<heads, mu, views, snapshot, refreshError, promised, request>>
  BY DEF RefreshTag, Unlocked
<1>3. \A u \in Tags :
        /\ u # t => results'[u] = results[u]
        /\ results'[t].error = e
        /\ results'[t].view = IF e = "none" THEN heads[t] ELSE NoHead
  BY <1>1 DEF ReaderInv, ReaderType
<1>4. ReaderType'
  BY <1>1, <1>2 DEF ReaderInv, ReaderType, ResultType, HeadType, Errors
<1>5. Underway'
  BY <1>1, <1>2, <1>3 DEF ReaderInv, Underway, Errors
<1>6. Refreshed' /\ RequestInv'
  BY <1>2 DEF ReaderInv, Refreshed, RequestInv, ShownBy
<1> QED BY <1>4, <1>5, <1>6 DEF ReaderInv

\* A request that only changes its own record leaves the shared state sound.
LEMMA SharedSame ==
  ASSUME ReaderInv, UNCHANGED sharedVars, RequestInv',
         request' \in [Requests -> RequestType]
  PROVE  ReaderInv'
  BY DEF ReaderInv, ReaderType, Underway, Refreshed, ShownBy, sharedVars

\* Asking, leaving, and answering from the snapshot.
LEMMA AskStep ==
  ASSUME ReaderInv, NEW r \in Requests,
         \/ \E n \in Names : Ask(r, n)
         \/ Leave(r) \/ FastPath(r)
  PROVE  ReaderInv'
<1>1. PICK q \in RequestType :
        /\ request' = [request EXCEPT ![r] = q]
        /\ q.pc # "idle" => q.name \in Names
        /\ q.pc \in {"idle", "current", "present"}
        /\ request[r].pc # "refresh"
  <2>1. ASSUME NEW n \in Names, Ask(r, n)
        PROVE  \E q \in RequestType :
                 /\ request' = [request EXCEPT ![r] = q]
                 /\ q.pc # "idle" => q.name \in Names
                 /\ q.pc \in {"idle", "current", "present"}
                 /\ request[r].pc # "refresh"
    <3> DEFINE q == [Idle EXCEPT !.pc = "current", !.name = n]
    <3>1. q \in RequestType /\ q.pc = "current" /\ q.name = n
      BY IdleType DEF RequestType
    <3> QED BY <2>1, <3>1 DEF Ask, At
  <2>2. CASE Leave(r)
    BY <2>2, IdleType DEF Leave, Idle
  <2>3. CASE FastPath(r)
    <3> DEFINE q == [request[r] EXCEPT !.pc = "present"]
    <3>1. request' = [request EXCEPT ![r] = q] /\ request[r].pc = "current"
      BY <2>3 DEF FastPath, At
    <3>2. q \in RequestType /\ q.pc = "present" /\ q.name = request[r].name
      BY DEF ReaderInv, ReaderType, RequestType
    <3>3. request[r].name \in Names
      BY <3>1 DEF ReaderInv, RequestInv, Sound
    <3> QED BY <3>1, <3>2, <3>3
  <2> QED BY <2>1, <2>2, <2>3
<1>2. UNCHANGED sharedVars
  BY DEF Ask, Leave, FastPath
<1>3. RequestInv' /\ request' \in [Requests -> RequestType]
  BY <1>1, <1>2, OneRequest DEF ReaderInv, RequestInv, Sound, sharedVars
<1> QED BY <1>2, <1>3, SharedSame

\* A request takes the lock with what is published at that moment.
LEMMA BeginStep ==
  ASSUME ReaderInv, NEW r \in Requests, BeginRefresh(r)
  PROVE  ReaderInv'
<1> DEFINE q == [request[r] EXCEPT !.pc = "refresh"]
<1>1. /\ mu = NoName /\ mu' = r /\ promised' = Published /\ request[r].pc # "idle"
      /\ request' = [request EXCEPT ![r] = q]
      /\ UNCHANGED <<heads, views, snapshot, refreshError, results>>
  BY DEF BeginRefresh, Unlocked, At
<1>2. q \in RequestType /\ q.pc = "refresh" /\ q.name = request[r].name
  BY DEF ReaderInv, ReaderType, RequestType
<1>3. \A n \in Published : \E t \in Tags : heads[t] # NoHead /\ n \in heads[t]
  BY DEF Published
<1>4. Published \in SUBSET Names
  BY DEF Published, ReaderInv, ReaderType, HeadType
<1>5. mu' # NoName /\ \A s \in Requests : mu # s
  BY <1>1, ReaderAssumption
<1>6. Sound(q, snapshot')
  BY <1>1, <1>2 DEF ReaderInv, RequestInv, Sound
<1> HIDE DEF q
<1>7. RequestInv' /\ request' \in [Requests -> RequestType]
  BY <1>1, <1>2, <1>5, <1>6, OneRequest
<1>8. ReaderType'
  BY <1>1, <1>4, <1>7 DEF ReaderInv, ReaderType
<1>9. Underway'
  BY <1>1, <1>3, <1>5 DEF ReaderInv, Underway
<1>10. Refreshed'
  BY <1>1, <1>5 DEF ReaderInv, Refreshed, ShownBy
<1> QED BY <1>7, <1>8, <1>9, <1>10 DEF ReaderInv

\* No refresh is due: the views are those of the last one.
LEMMA CurrentStep ==
  ASSUME ReaderInv, NEW r \in Requests, Current(r)
  PROVE  ReaderInv'
<1> DEFINE q == Leaving(request[r], views, snapshot, refreshError, promised)
<1>1. /\ mu = NoName /\ request[r].pc = "current" /\ UNCHANGED sharedVars
      /\ request' = [request EXCEPT ![r] = q]
  BY DEF Current, Unlocked, At, LeaveLock, Answered, Leaving
<1>2. request[r] \in RequestType /\ request[r].name \in Names
  BY <1>1 DEF ReaderInv, ReaderType, RequestInv, Sound
<1>3. q \in RequestType /\ q.pc # "refresh" /\ Sound(q, snapshot)
  BY <1>1, <1>2, LeavingSound DEF ReaderInv, ReaderType, Refreshed, ShownBy
<1> HIDE DEF q
<1>4. RequestInv' /\ request' \in [Requests -> RequestType]
  BY <1>1, <1>3, OneRequest, ReaderAssumption DEF sharedVars
<1> QED BY <1>1, <1>4, SharedSame

\* A refresh that reports no failure has every promised name in a view: what failed
\* is told, unless the only tag is missing, and then nothing was promised.
LEMMA RefreshTells ==
  ASSUME ReaderInv, mu # NoName, \A t \in Tags : results[t].error # "running",
         NEW after,
         \A t \in Tags : after[t] = IF results[t].error = "none" THEN results[t].view
                                    ELSE views[t],
         RefreshError(after) # "failed"
  PROVE  \A n \in promised : \E t \in Tags : after[t] # NoHead /\ n \in after[t]
<1> SUFFICES ASSUME NEW n \in promised
             PROVE  \E t \in Tags : after[t] # NoHead /\ n \in after[t]
  OBVIOUS
<1>1. PICK t \in Tags : \/ results[t].error \in {"running", "failed"}
                        \/ results[t].error = "none" /\ n \in results[t].view
  <2>1. \A m \in promised : \E t \in Tags :
          \/ results[t].error \in {"running", "failed"}
          \/ results[t].error = "none" /\ m \in results[t].view
    BY DEF ReaderInv, Underway
  <2> QED BY <2>1
<1>2. CASE results[t].error = "none"
  BY <1>1, <1>2 DEF ReaderInv, Underway
<1>3. CASE results[t].error = "failed"
  <2> DEFINE failures == { results[u].error : u \in { v \in Tags : Failed(v) } }
  <2>1. "failed" \in failures
    BY <1>3 DEF Failed
  <2>2. "missing" \in failures
    BY <2>1 DEF RefreshError
  <2>3. PICK u \in Tags : Failed(u) /\ results[u].error = "missing"
    BY <2>2
  <2>4. Cardinality(Tags) = 1
    BY <2>3 DEF Failed, ReaderInv, Underway
  <2>5. u = t
    <3>1. PICK x : Tags = {x}
      BY <2>4, FS_Singleton, ReaderAssumption
    <3> QED BY <3>1
  <2> QED BY <1>3, <2>3, <2>5
<1> QED BY <1>1, <1>2, <1>3

\* RefreshError is an error or none.
LEMMA RefreshErrorType ==
  ASSUME NEW after
  PROVE  RefreshError(after) \in Errors
  BY DEF RefreshError, Errors

\* The refresh installs its views with the failures it had.
LEMMA EndStep ==
  ASSUME ReaderInv, NEW r \in Requests, EndRefresh(r)
  PROVE  ReaderInv'
<1>1. PICK after : after = [t \in Tags |-> IF results[t].error = "none"
                                           THEN results[t].view ELSE views[t]]
  OBVIOUS
<1>2. PICK error : error = RefreshError(after)
  OBVIOUS
<1>3. PICK next : next = IF snapshot = NoHead /\ (\E t \in Tags : after[t] # NoHead)
                         THEN {} ELSE snapshot
  OBVIOUS
<1>4. PICK q : q = Leaving(request[r], after, next, error, promised)
  OBVIOUS
<1>5. /\ request[r].pc = "refresh" /\ \A t \in Tags : results[t] # NotYet
      /\ views' = after /\ snapshot' = next /\ refreshError' = error
      /\ mu' = NoName /\ results' = [t \in Tags |-> NotYet]
      /\ request' = [request EXCEPT ![r] = q]
      /\ UNCHANGED <<heads, promised>>
  BY <1>1, <1>2, <1>3, <1>4 DEF EndRefresh, At, LeaveLock, Answered, Leaving
<1>6. /\ request[r] \in RequestType /\ request[r].name \in Names
      /\ mu = r /\ mu # NoName
  BY <1>5, ReaderAssumption DEF ReaderInv, ReaderType, RequestInv, Sound
<1>7. \A t \in Tags : results[t].error # "running"
  BY <1>5 DEF ReaderInv, ReaderType, Underway, ResultType, NotYet
<1>8. \A t \in Tags : after[t] = IF results[t].error = "none" THEN results[t].view
                                 ELSE views[t]
  BY <1>1
<1>9. error # "failed" =>
        \A n \in promised : \E t \in Tags : after[t] # NoHead /\ n \in after[t]
  BY <1>2, <1>6, <1>7, <1>8, RefreshTells
<1>10. after \in [Tags -> HeadType] /\ error \in Errors
  BY <1>1, <1>2, RefreshErrorType DEF ReaderInv, ReaderType, ResultType
<1>11. /\ next \in HeadType
       /\ next = NoHead => \A t \in Tags : after[t] = NoHead
       /\ snapshot # NoHead => next = snapshot
  BY <1>3, ReaderAssumption DEF ReaderInv, ReaderType, HeadType
<1>12. q \in RequestType /\ q.pc # "refresh" /\ Sound(q, next)
  BY <1>4, <1>6, <1>9, <1>10, <1>11, LeavingSound DEF ReaderInv, ReaderType
<1>13. RequestInv' /\ request' \in [Requests -> RequestType]
  BY <1>5, <1>6, <1>11, <1>12, OneRequest, ReaderAssumption
<1>14. ReaderType'
  BY <1>5, <1>10, <1>11, <1>13
  DEF ReaderInv, ReaderType, NotYet, ResultType, HeadType, Errors
<1>15. Underway'
  <2>1. \A t \in Tags : after[t] # NoHead => heads[t] # NoHead
    BY <1>8 DEF ReaderInv, Underway
  <2> QED BY <1>5, <2>1 DEF Underway, NotYet
<1>16. Refreshed'
  BY <1>5, <1>9, <1>11 DEF Refreshed, ShownBy
<1> QED BY <1>13, <1>14, <1>15, <1>16 DEF ReaderInv

\* A view is looked up: it has the name, or another may, or a node failed.
LEMMA LookupStep ==
  ASSUME ReaderInv, NEW r \in Requests, NEW t \in Tags, LookupView(r, t)
  PROVE  ReaderInv'
<1> DEFINE p == request[r]
<1>1. /\ p.pc = "lookup" /\ t \in p.left /\ UNCHANGED sharedVars
      /\ p \in RequestType /\ p.name \in Names /\ Sound(p, snapshot)
  BY DEF LookupView, At, ReaderInv, ReaderType, RequestInv, Sound
<1>2. CASE request' = [request EXCEPT ![r].pc = "merge", ![r].left = @ \ {t},
                         ![r].found = p.views[t] \cap Beside[p.name]]
  <2> DEFINE q == [p EXCEPT !.pc = "merge", !.left = @ \ {t},
                            !.found = p.views[t] \cap Beside[p.name]]
  <2>1. request' = [request EXCEPT ![r] = q]
    BY <1>2 DEF ReaderInv, ReaderType
  <2>2. Beside[p.name] \in SUBSET Names /\ p.name \in Beside[p.name]
    BY <1>1, ReaderAssumption
  <2> HIDE DEF p
  <2>3. /\ q \in RequestType /\ q.pc = "merge" /\ q.name = p.name
        /\ q.left = p.left \ {t} /\ q.views = p.views /\ q.failures = p.failures
        /\ q.found = p.views[t] \cap Beside[p.name]
        /\ q.refreshError = p.refreshError /\ q.promised = p.promised
    BY <1>1, <2>2 DEF RequestType
  <2> HIDE DEF q
  <2>4. Sound(q, snapshot)
    BY <1>1, <2>2, <2>3 DEF Sound, Hopeful
  <2>5. RequestInv' /\ request' \in [Requests -> RequestType]
    BY <1>1, <2>1, <2>3, <2>4, OneRequest
    DEF ReaderInv, RequestInv, sharedVars, p
  <2> QED BY <1>1, <2>5, SharedSame
<1>3. ASSUME NEW e \in {"failed", "missing"},
             request' = [request EXCEPT ![r].left = @ \ {t}, ![r].failures = @ \cup {e}]
      PROVE  ReaderInv'
  <2> DEFINE q == [p EXCEPT !.left = @ \ {t}, !.failures = @ \cup {e}]
  <2>1. request' = [request EXCEPT ![r] = q]
    BY <1>3 DEF ReaderInv, ReaderType
  <2> HIDE DEF p
  <2>2. /\ q \in RequestType /\ q.pc = "lookup" /\ q.name = p.name /\ q.failures # {}
    BY <1>1 DEF RequestType, Errors
  <2> HIDE DEF q
  <2>3. Sound(q, snapshot)
    BY <1>1, <2>2 DEF Sound, Hopeful
  <2>4. RequestInv' /\ request' \in [Requests -> RequestType]
    BY <1>1, <2>1, <2>2, <2>3, OneRequest DEF ReaderInv, RequestInv, sharedVars, p
  <2> QED BY <1>1, <2>4, SharedSame
<1> QED BY <1>2, <1>3 DEF LookupView

\* What was found enters the snapshot, which others may have replaced none of.
LEMMA MergeStep ==
  ASSUME ReaderInv, NEW r \in Requests, MergeFound(r)
  PROVE  ReaderInv'
<1> DEFINE p == request[r]
           merged == snapshot \cup p.found
<1>1. /\ p.pc = "merge" /\ p \in RequestType /\ p.name \in Names
      /\ Sound(p, snapshot) /\ snapshot \in SUBSET Names /\ snapshot # NoHead
      /\ mu # r
      /\ UNCHANGED <<heads, mu, views, refreshError, results, promised>>
  BY DEF MergeFound, At, ReaderInv, ReaderType, RequestInv, Sound, HeadType
<1>2. merged \in SUBSET Names /\ merged # NoHead
  BY <1>1, ReaderAssumption DEF RequestType
<1>3. ASSUME NEW q \in RequestType, request' = [request EXCEPT ![r] = q],
             q.pc = "lookup", snapshot' \in {snapshot, merged}, Sound(q, snapshot')
      PROVE  ReaderInv'
  <2>1. /\ snapshot' \in SUBSET Names /\ snapshot' # NoHead
        /\ snapshot \subseteq snapshot'
    BY <1>1, <1>2, <1>3
  <2>2. RequestInv' /\ request' \in [Requests -> RequestType]
    BY <1>1, <1>3, <2>1, OneRequest
  <2> QED BY <1>1, <2>1, <2>2
      DEF ReaderInv, ReaderType, HeadType, Underway, Refreshed, ShownBy
<1>4. CASE /\ snapshot' = merged
           /\ request' = [request EXCEPT ![r].pc = "lookup", ![r].found = {},
                            ![r].left = IF p.name \in merged THEN {} ELSE @]
  <2> DEFINE q == [p EXCEPT !.pc = "lookup", !.found = {},
                            !.left = IF p.name \in merged THEN {} ELSE @]
  <2>1. request' = [request EXCEPT ![r] = q]
    BY <1>4 DEF ReaderInv, ReaderType
  <2> HIDE DEF p
  <2>2. /\ q \in RequestType /\ q.pc = "lookup" /\ q.name = p.name
        /\ q.left = IF p.name \in merged THEN {} ELSE p.left
        /\ q.views = p.views /\ q.failures = p.failures
        /\ q.refreshError = p.refreshError /\ q.promised = p.promised
    BY <1>1 DEF RequestType
  <2> HIDE DEF q
  <2>3. Sound(q, merged)
    BY <1>1, <1>2, <2>2 DEF Sound, Hopeful, Has
  <2> QED BY <1>3, <1>4, <2>1, <2>2, <2>3
<1>5. CASE /\ request' = [request EXCEPT ![r].pc = "lookup", ![r].found = {},
                            ![r].failures = @ \cup {"failed"}]
           /\ UNCHANGED snapshot
  <2> DEFINE q == [p EXCEPT !.pc = "lookup", !.found = {},
                            !.failures = @ \cup {"failed"}]
  <2>1. request' = [request EXCEPT ![r] = q]
    BY <1>5 DEF ReaderInv, ReaderType
  <2> HIDE DEF p
  <2>2. q \in RequestType /\ q.pc = "lookup" /\ q.name = p.name /\ q.failures # {}
    BY <1>1 DEF RequestType, Errors
  <2> HIDE DEF q
  <2>3. Sound(q, snapshot)
    BY <1>1, <2>2 DEF Sound, Hopeful
  <2> QED BY <1>3, <1>5, <2>1, <2>2, <2>3
<1> QED BY <1>4, <1>5 DEF MergeFound

\* Without hope left the lookup ends: it repeats, or answers.
LEMMA ConcludeStep ==
  ASSUME ReaderInv, NEW r \in Requests, Conclude(r)
  PROVE  ReaderInv'
<1> DEFINE p == request[r]
<1>1. /\ p.pc = "lookup" /\ p.left = {} /\ UNCHANGED sharedVars
      /\ p \in RequestType /\ p.name \in Names /\ Sound(p, snapshot) /\ mu # r
  BY DEF Conclude, At, ReaderInv, ReaderType, RequestInv, Sound
<1>2. ASSUME NEW q \in RequestType, request' = [request EXCEPT ![r] = q],
             q.pc # "refresh", Sound(q, snapshot)
      PROVE  ReaderInv'
  <2>1. RequestInv' /\ request' \in [Requests -> RequestType]
    BY <1>1, <1>2, OneRequest DEF sharedVars
  <2> QED BY <1>1, <2>1, SharedSame
<1>3. CASE Recovers(r)
  <2> DEFINE q == [Idle EXCEPT !.pc = "recover", !.name = p.name, !.again = TRUE]
  <2>1. request' = [request EXCEPT ![r] = q]
    BY <1>3 DEF Conclude
  <2> HIDE DEF p
  <2>2. q \in RequestType /\ q.pc = "recover" /\ q.name = p.name
    BY <1>1, IdleType DEF RequestType
  <2>3. Sound(q, snapshot)
    BY <1>1, <2>2 DEF Sound
  <2> QED BY <1>2, <2>1, <2>2, <2>3
<1>4. CASE ~Recovers(r)
  <2> DEFINE answer == Outcome(p.name, snapshot, p.failures, p.refreshError)
             q == [Idle EXCEPT !.pc = answer, !.name = p.name, !.promised = p.promised]
  <2>1. request' = [request EXCEPT ![r] = q]
    BY <1>4 DEF Conclude, Answered
  <2>2. /\ answer \in {"present", "absent", "failed"}
        /\ answer = "absent" => /\ ~Has(snapshot, p.name) /\ p.failures = {}
                                /\ p.refreshError # "failed"
    BY DEF Outcome
  <2> HIDE DEF p, answer
  <2>3. /\ q \in RequestType /\ q.pc = answer /\ q.name = p.name
        /\ q.promised = p.promised
    BY <1>1, <2>2, IdleType DEF RequestType
  <2>4. answer = "absent" => p.name \notin p.promised
    BY <1>1, <2>2 DEF Sound, Hopeful
  <2>5. Sound(q, snapshot)
    BY <1>1, <2>2, <2>3, <2>4 DEF Sound
  <2> QED BY <1>2, <2>1, <2>2, <2>3, <2>5
<1> QED BY <1>3, <1>4

\* AbsentIsTrue for any requests, platforms and names: what the heads had when the
\* last refresh began is never answered absent, whatever fails meanwhile.
THEOREM AbsentNamesAreAbsent == ReaderSpec => []AbsentIsTrue
<1>1. ReaderInit => ReaderInv
  BY ReaderInitInv
<1>2. ReaderInv /\ [ReaderNext]_readerVars => ReaderInv'
  BY PublishStep, TagStep, AskStep, BeginStep, CurrentStep, EndStep, LookupStep,
     MergeStep, ConcludeStep DEF ReaderNext, Step
<1>3. ReaderInv => AbsentIsTrue
  BY DEF ReaderInv, RequestInv, Sound, AbsentIsTrue, At
<1> QED BY <1>1, <1>2, <1>3, PTL DEF ReaderSpec

-----------------------------------------------------------------------------
(***************************************************************************)
(* Catalog, for any names, hashes and workers: every manifest that was put *)
(* can be read. A name's path is what its hash begins with.                *)
(***************************************************************************)
NodeType == [tree : Trees, prefix : HashPrefixes]
Path(name, d) == [i \in 1..d |-> Hash[name][i]]
ChildAt(node, x) == [node EXCEPT !.prefix = Append(@, x)]

\* The paths of a name.
LEMMA PathFacts ==
  ASSUME NEW name \in RecordNames, NEW d \in 0..Depth
  PROVE  /\ Path(name, d) \in HashPrefixes /\ Path(name, d) \in Seq(Nibbles)
         /\ Len(Path(name, d)) = d
         /\ IsPrefix(Path(name, d), Hash[name])
         /\ d = 0 => Path(name, d) = <<>>
         /\ d > 0 => /\ Front(Path(name, d)) = Path(name, d - 1)
                     /\ Append(Path(name, d - 1), Hash[name][d]) = Path(name, d)
<1>1. Depth \in Nat /\ Hash[name] \in [1..Depth -> Nibbles] /\ Hash[name] \in Seq(Nibbles)
  BY CatalogAssumption
<1>2. Len(Hash[name]) = Depth
  BY <1>1
<1>3. Path(name, d) \in [1..d -> Nibbles]
  BY <1>1 DEF Path
<1>4. Path(name, d) \in Seq(Nibbles) /\ Len(Path(name, d)) = d
  BY <1>3
<1>5. Path(name, d) \in HashPrefixes
  BY <1>3 DEF HashPrefixes
<1>6. SubSeq(Path(name, d), 1, d) = SubSeq(Hash[name], 1, d)
  <2>1. \A i \in 1..d : Path(name, d)[i] = Hash[name][i]
    BY DEF Path
  <2> QED BY <1>1, <1>2, <1>4, <2>1
<1>7. IsPrefix(Path(name, d), Hash[name])
  BY <1>1, <1>2, <1>4, <1>6 DEF IsPrefix
<1>8. d = 0 => Path(name, d) = <<>>
  BY <1>4
<1>9. ASSUME d > 0
      PROVE  /\ Front(Path(name, d)) = Path(name, d - 1)
             /\ Append(Path(name, d - 1), Hash[name][d]) = Path(name, d)
  <2>1. d - 1 \in 0..Depth /\ d - 1 \in Nat
    BY <1>1, <1>9
  <2>2. Path(name, d - 1) \in [1..(d - 1) -> Nibbles]
    BY <1>1, <2>1 DEF Path
  <2>3. Path(name, d - 1) \in Seq(Nibbles) /\ Len(Path(name, d - 1)) = d - 1
    BY <2>1, <2>2
  <2>4. \A i \in 1..(d - 1) : Path(name, d - 1)[i] = Path(name, d)[i]
    BY <2>1 DEF Path
  <2>5. Front(Path(name, d)) = Path(name, d - 1)
    BY <1>4, <2>1, <2>3, <2>4 DEF Front
  <2>6. Path(name, d)[d] = Hash[name][d]
    BY <1>9 DEF Path
  <2>7. Append(Path(name, d - 1), Hash[name][d]) = Path(name, d)
    BY <1>1, <1>4, <1>9, <2>1, <2>3, <2>4, <2>6
  <2> QED BY <2>5, <2>7
<1> QED BY <1>4, <1>5, <1>7, <1>8, <1>9

\* A child has its parent's tree and a digit more.
LEMMA ChildRecord ==
  \A node \in NodeType : \A x :
    ChildAt(node, x) = [tree |-> node.tree, prefix |-> Append(node.prefix, x)]
<1>1. SUFFICES ASSUME NEW node \in [tree : Trees, prefix : HashPrefixes], NEW x
               PROVE  [node EXCEPT !.prefix = Append(@, x)]
                        = [tree |-> node.tree, prefix |-> Append(node.prefix, x)]
  BY DEF ChildAt, NodeType
<1>2. PICK next : next = Append(node.prefix, x)
  OBVIOUS
<1>3. [node EXCEPT !.prefix = next] = [tree |-> node.tree, prefix |-> next]
  OBVIOUS
<1> QED BY <1>2, <1>3

\* A prefix of a name's hash is a path of the name.
LEMMA PrefixIsPath ==
  ASSUME NEW name \in RecordNames, NEW prefix \in HashPrefixes,
         IsPrefix(prefix, Hash[name])
  PROVE  prefix = Path(name, Len(prefix)) /\ Len(prefix) \in 0..Depth
<1>1. PICK n \in 0..Depth : prefix \in [1..n -> Nibbles]
  BY DEF HashPrefixes
<1>2. prefix \in Seq(Nibbles) /\ Len(prefix) = n
  BY <1>1
<1>3. Hash[name] \in Seq(Nibbles) /\ Len(Hash[name]) = Depth /\ Depth \in Nat
  BY CatalogAssumption
<1>4. \A i \in 1..n : prefix[i] = Hash[name][i]
  <2>1. SubSeq(prefix, 1, n) = SubSeq(Hash[name], 1, n)
    BY <1>2 DEF IsPrefix
  <2>2. \A i \in 1..n : /\ SubSeq(prefix, 1, n)[i] = prefix[i]
                        /\ SubSeq(Hash[name], 1, n)[i] = Hash[name][i]
    BY <1>2, <1>3
  <2> QED BY <2>1, <2>2
<1>5. prefix = [i \in 1..n |-> prefix[i]]
  BY <1>1
<1>6. Path(name, n) = [i \in 1..n |-> prefix[i]]
  BY <1>4 DEF Path
<1> QED BY <1>2, <1>5, <1>6

\* A node's prefix is a sequence, as long as a path at most.
LEMMA NodeLength ==
  ASSUME NEW node \in NodeType
  PROVE  node.prefix \in Seq(Nibbles) /\ Len(node.prefix) \in 0..Depth
<1>1. PICK n \in 0..Depth : node.prefix \in [1..n -> Nibbles]
  BY DEF NodeType, HashPrefixes
<1> QED BY <1>1

\* The nodes of a plan are nodes, and the roots of the trees are among them.
LEMMA PlanNodes ==
  \A names : /\ Plan(names) \subseteq NodeType
             /\ \A tree \in Trees : [tree |-> tree, prefix |-> <<>>] \in Plan(names)
<1>1. <<>> \in HashPrefixes
  <2>1. <<>> \in [1..0 -> Nibbles] /\ 0 \in 0..Depth
    BY CatalogAssumption
  <2> QED BY <2>1 DEF HashPrefixes
<1> QED BY <1>1 DEF Plan, NodeType

\* A node that is split has names under it, and if it is not at the end of the
\* hash a child for each.
LEMMA SplitNodes ==
  ASSUME NEW names \in SUBSET RecordNames, NEW node \in Plan(names), Split(names, node)
  PROVE  /\ Under(names, node) # {}
         /\ Len(node.prefix) < Depth =>
              \A name \in Under(names, node) :
                ChildAt(node, Hash[name][Len(node.prefix) + 1]) \in Plan(names)
<1>1. Under(names, node) # {}
  <2>1. Cardinality(Under(names, node)) > NodeLimit /\ NodeLimit \in Nat \ {0}
    BY CatalogAssumption DEF Split
  <2>2. Cardinality({}) = 0
    BY FS_EmptySet
  <2> QED BY <2>1, <2>2
<1>2. node \in NodeType
  BY PlanNodes
<1>3. ASSUME Len(node.prefix) < Depth, NEW name \in Under(names, node)
      PROVE  ChildAt(node, Hash[name][Len(node.prefix) + 1]) \in Plan(names)
  <2> DEFINE d == Len(node.prefix)
             child == ChildAt(node, Hash[name][d + 1])
  <2>1. name \in RecordNames /\ IsPrefix(node.prefix, Hash[name])
        /\ name \in Records(names, node.tree)
    BY DEF Under, Records
  <2>2. node.prefix = Path(name, d) /\ d \in 0..Depth /\ d + 1 \in 0..Depth
    <3>1. node.prefix \in HashPrefixes
      BY <1>2 DEF NodeType
    <3>2. node.prefix = Path(name, d) /\ d \in 0..Depth
      BY <2>1, <3>1, PrefixIsPath
    <3> QED BY <1>3, <3>2, CatalogAssumption
  <2>3. /\ Append(Path(name, d), Hash[name][d + 1]) = Path(name, d + 1)
        /\ Front(Path(name, d + 1)) = Path(name, d)
        /\ IsPrefix(Path(name, d + 1), Hash[name])
        /\ Path(name, d + 1) \in HashPrefixes
    <3>1. d \in Nat /\ d + 1 > 0 /\ (d + 1) - 1 = d
      BY <2>2, CatalogAssumption
    <3> QED BY <2>1, <2>2, <3>1, PathFacts
  <2>4. child = [tree |-> node.tree, prefix |-> Path(name, d + 1)]
    BY <1>2, <2>2, <2>3 DEF ChildAt, NodeType
  <2>5. [child EXCEPT !.prefix = Front(@)] = node
    BY <1>2, <2>2, <2>3, <2>4 DEF NodeType
  <2>6. name \in Under(names, child)
    BY <2>1, <2>3, <2>4 DEF Under
  <2>7. child \in NodeType
    BY <1>2, <2>3, <2>4 DEF NodeType
  <2>8. Under(names, child) # {} /\ Split(names, [child EXCEPT !.prefix = Front(@)])
    BY <2>5, <2>6
  <2> HIDE DEF child
  <2>9. child \in Plan(names)
    BY <2>7, <2>8 DEF Plan, NodeType
  <2> QED BY <2>9 DEF child
<1> QED BY <1>1, <1>3

-----------------------------------------------------------------------------
(***************************************************************************)
(* What the node of a tree over names holds when f gives the blob of each  *)
(* node, and what is a catalog of them: blobs that are layers of the       *)
(* manifest, encrypted to its recipients and there, with that content.     *)
(***************************************************************************)
NodeContent(names, f, node) ==
  IF Split(names, node)
  THEN [records |-> {},
        children |-> [x \in { y \in Nibbles : ChildAt(node, y) \in Plan(names) } |->
                        f[ChildAt(node, x)]]]
  ELSE [records |-> Under(names, node), children |-> <<>>]
Holds(names, f, key, nodes, node) ==
  f[node] \in nodes /\ f[node].key = key /\ f[node].content = NodeContent(names, f, node)

IsCatalog(m, f) ==
  /\ \A node \in Plan(m.records) : Holds(m.records, f, m.key, m.nodes, node)
  /\ \A tree \in Trees :
       m.root.content[tree] = f[[tree |-> tree, prefix |-> <<>>]]

ManifestType ==
  [key : Recipients, records : SUBSET RecordNames, root : registry,
   nodes : SUBSET registry]

\* Readers begin at the root and go a digit down.
Down(m, node, digit) ==
  IF node = Unreadable \/ node.children = <<>> THEN node
  ELSE IF digit \in DOMAIN node.children THEN Open(m, node.children[digit])
  ELSE [records |-> {}, children |-> <<>>]
IsWalk(m, tree, name, walk, last) ==
  walk = [d \in 0..last |->
            IF d = 0 THEN Open(m, m.root.content[tree])
            ELSE Down(m, walk[d - 1], Hash[name][d])]

\* There is such a walk.
LEMMA WalkExists ==
  ASSUME NEW m, NEW tree, NEW name, NEW n \in Nat
  PROVE  \E walk : IsWalk(m, tree, name, walk, n)
<1> DEFINE S == { k \in Nat : \E walk : IsWalk(m, tree, name, walk, k) }
<1>1. 0 \in S
  <2> DEFINE w == [d \in 0..0 |-> Open(m, m.root.content[tree])]
  <2>1. IsWalk(m, tree, name, w, 0)
    <3>1. \A d \in 0..0 : d = 0
      OBVIOUS
    <3> QED BY <3>1 DEF IsWalk
  <2> QED BY <2>1
<1>2. ASSUME NEW k \in S PROVE k + 1 \in S
  <2>1. k \in Nat
    OBVIOUS
  <2>2. PICK walk : IsWalk(m, tree, name, walk, k)
    OBVIOUS
  <2> DEFINE Value(w, d) == IF d = 0 THEN Open(m, m.root.content[tree])
                            ELSE Down(m, w[d - 1], Hash[name][d])
             w == [d \in 0..(k + 1) |-> Value(walk, d)]
  <2>3. \A d \in 0..k : walk[d] = Value(walk, d) /\ w[d] = Value(walk, d)
    <3>1. walk = [d \in 0..k |-> Value(walk, d)]
      BY <2>2 DEF IsWalk
    <3> HIDE DEF Value
    <3> QED BY <2>1, <3>1
  <2>4. ASSUME NEW d \in 0..(k + 1) PROVE Value(walk, d) = Value(w, d)
    <3>1. CASE d = 0
      BY <3>1
    <3>2. CASE d # 0
      <4>1. d - 1 \in 0..k
        BY <2>1, <3>2
      <4>2. walk[d - 1] = w[d - 1]
        <5> HIDE DEF Value, w
        <5> QED BY <2>3, <4>1
      <4> HIDE DEF w
      <4> QED BY <3>2, <4>2
    <3> QED BY <3>1, <3>2
  <2>5. w = [d \in 0..(k + 1) |-> Value(w, d)]
    <3> HIDE DEF Value
    <3> QED BY <2>4
  <2>6. \E v : v = [d \in 0..(k + 1) |-> Value(v, d)]
    <3> HIDE DEF Value, w
    <3> QED BY <2>5
  <2>7. \E v : IsWalk(m, tree, name, v, k + 1)
    BY <2>6 DEF IsWalk
  <2> QED BY <2>1, <2>7
<1>3. S = Nat
  <2> HIDE DEF S
  <2>1. S \in SUBSET Nat
    BY DEF S
  <2> QED BY <1>1, <1>2, <2>1, NumberInduction
<1> QED BY <1>3

\* A lookup is the end of one.
LEMMA LookupWalks ==
  ASSUME NEW m, NEW tree, NEW name
  PROVE  \E walk : IsWalk(m, tree, name, walk, Depth) /\ Lookup(m, tree, name) = walk[Depth]
<1> DEFINE walk == CHOOSE w : IsWalk(m, tree, name, w, Depth)
<1>1. IsWalk(m, tree, name, walk, Depth)
  BY WalkExists, CatalogAssumption
<1>2. Lookup(m, tree, name) = walk[Depth]
  BY DEF Lookup, IsWalk, Down
<1> QED BY <1>1, <1>2

\* The content of a node is not the error.
LEMMA NotUnreadable ==
  \A names, below : [records |-> names, children |-> below] # Unreadable
<1> SUFFICES ASSUME NEW names, NEW below,
                    [records |-> names, children |-> below] = Unreadable
             PROVE  FALSE
  OBVIOUS
<1>1. "records" \in DOMAIN Unreadable
  OBVIOUS
<1>2. DOMAIN Unreadable = {"readable"}
  BY DEF Unreadable
<1> QED BY <1>1, <1>2

\* Going down a catalog: to the node of the name's path, or to a leaf above it.
LEMMA WalkDown ==
  ASSUME NEW m \in ManifestType, NEW f, IsCatalog(m, f), Plannable(m.records),
         NEW tree \in Trees, NEW name \in RecordNames,
         NEW walk, IsWalk(m, tree, name, walk, Depth)
  PROVE  LET leaf == walk[Depth]
         IN  /\ leaf # Unreadable /\ leaf.children = <<>>
             /\ name \in leaf.records <=> name \in Records(m.records, tree)
<1> DEFINE names == m.records
           Spot(d) == [tree |-> tree, prefix |-> Path(name, d)]
           IsLeaf(c) == /\ c # Unreadable /\ c.children = <<>>
                        /\ name \in c.records <=> name \in Records(names, tree)
           Reached(d) == \/ Spot(d) \in Plan(names) /\ walk[d] = NodeContent(names, f, Spot(d))
                         \/ IsLeaf(walk[d])
           S == { d \in Nat : d <= Depth => Reached(d) }
<1>1. Depth \in Nat /\ names \in SUBSET RecordNames
  BY CatalogAssumption DEF ManifestType
<1>2. \A node \in Plan(names) : Open(m, f[node]) = NodeContent(names, f, node)
  BY DEF IsCatalog, Holds, Open, Opens, ManifestType
<1>3. \A d \in 0..Depth : /\ Spot(d) \in NodeType /\ Len(Spot(d).prefix) = d
                          /\ IsPrefix(Spot(d).prefix, Hash[name])
  BY PathFacts DEF NodeType
<1>4. ASSUME NEW d \in 0..Depth, ~Split(names, Spot(d)) PROVE IsLeaf(NodeContent(names, f, Spot(d)))
  <2> DEFINE c == [records |-> Under(names, Spot(d)), children |-> <<>>]
  <2>1. NodeContent(names, f, Spot(d)) = c
    BY <1>4 DEF NodeContent
  <2>2. c # Unreadable
    BY NotUnreadable
  <2>3. name \in Under(names, Spot(d)) <=> name \in Records(names, tree)
    BY <1>3 DEF Under
  <2> QED BY <2>1, <2>2, <2>3
<1>5. 0 \in S
  <2>1. walk[0] = Open(m, m.root.content[tree])
    BY <1>1 DEF IsWalk
  <2>2. Spot(0) = [tree |-> tree, prefix |-> <<>>] /\ Spot(0) \in Plan(names)
    BY <1>1, PathFacts, PlanNodes
  <2>3. m.root.content[tree] = f[Spot(0)]
    BY <2>2 DEF IsCatalog
  <2> HIDE DEF Spot
  <2> QED BY <1>2, <2>1, <2>2, <2>3
<1>6. ASSUME NEW d \in S PROVE d + 1 \in S
  <2>1. d \in Nat
    OBVIOUS
  <2> SUFFICES ASSUME d + 1 <= Depth PROVE Reached(d + 1)
    BY <2>1
  <2>2. d \in 0..Depth /\ d + 1 \in 0..Depth /\ d + 1 # 0 /\ (d + 1) - 1 = d
    BY <1>1, <2>1
  <2>3. Reached(d)
    BY <2>2
  <2> DEFINE digit == Hash[name][d + 1]
  <2>4. walk[d + 1] = Down(m, walk[d], digit)
    BY <2>2 DEF IsWalk
  <2>5. CASE IsLeaf(walk[d])
    <3>1. walk[d + 1] = walk[d]
      BY <2>4, <2>5 DEF Down
    <3> QED BY <2>5, <3>1
  <2>6. CASE Spot(d) \in Plan(names) /\ walk[d] = NodeContent(names, f, Spot(d))
             /\ ~Split(names, Spot(d))
    <3>1. IsLeaf(walk[d])
      BY <1>4, <2>2, <2>6
    <3>2. walk[d + 1] = walk[d]
      BY <2>4, <3>1 DEF Down
    <3> QED BY <3>1, <3>2
  <2>7. CASE Spot(d) \in Plan(names) /\ walk[d] = NodeContent(names, f, Spot(d))
             /\ Split(names, Spot(d))
    <3> DEFINE D == { y \in Nibbles : ChildAt(Spot(d), y) \in Plan(names) }
               inner == [x \in D |-> f[ChildAt(Spot(d), x)]]
    <3>1. walk[d].records = {} /\ walk[d].children = inner
      BY <2>7 DEF NodeContent
    <3>2. \A n \in Under(names, Spot(d)) : ChildAt(Spot(d), Hash[n][d + 1]) \in Plan(names)
      <4>1. Len(Spot(d).prefix) = d /\ d < Depth
        BY <1>1, <1>3, <2>2
      <4> HIDE DEF Spot
      <4> QED BY <1>1, <2>7, <4>1, SplitNodes
    <3>3. D # {}
      <4>1. PICK n \in Under(names, Spot(d)) : TRUE
        BY <1>1, <2>7, SplitNodes
      <4>2. n \in RecordNames /\ Hash[n][d + 1] \in Nibbles
        BY <1>1, <2>2, <4>1, CatalogAssumption DEF Under, Records
      <4> QED BY <3>2, <4>1, <4>2
    <3>4. walk[d].children # <<>> /\ walk[d] # Unreadable
      <4>1. DOMAIN inner = D /\ DOMAIN <<>> = {}
        OBVIOUS
      <4>2. inner # <<>>
        BY <3>3, <4>1
      <4>3. walk[d] = [records |-> {}, children |-> inner]
        BY <2>7 DEF NodeContent
      <4>4. walk[d] # Unreadable
        BY <4>3, NotUnreadable
      <4> QED BY <3>1, <4>2, <4>4
    <3>5. ChildAt(Spot(d), digit) = Spot(d + 1)
      <4>1. Append(Path(name, d), digit) = Path(name, d + 1)
        <5>1. d + 1 \in 0..Depth /\ d + 1 > 0 /\ (d + 1) - 1 = d
          BY <1>1, <2>2
        <5> QED BY <5>1, PathFacts
      <4>2. Spot(d) \in NodeType /\ Spot(d).prefix = Path(name, d) /\ Spot(d).tree = tree
        BY <1>3, <2>2
      <4> QED BY <4>1, <4>2, ChildRecord
    <3>6. digit \in Nibbles
      BY <1>1, <2>2, CatalogAssumption
    <3> HIDE DEF Spot
    <3>7. CASE Spot(d + 1) \in Plan(names)
      <4>1. digit \in D
        BY <3>5, <3>6, <3>7
      <4>2. walk[d + 1] = Open(m, f[Spot(d + 1)])
        BY <2>4, <3>1, <3>4, <3>5, <4>1 DEF Down
      <4> QED BY <1>2, <3>7, <4>2
    <3>8. CASE Spot(d + 1) \notin Plan(names)
      <4>1. digit \notin D
        BY <3>5, <3>8
      <4>2. walk[d + 1] = [records |-> {}, children |-> <<>>]
        BY <2>4, <3>1, <3>4, <4>1 DEF Down
      <4>3. name \notin Under(names, Spot(d))
        BY <3>2, <3>5, <3>8
      <4>4. name \notin Records(names, tree)
        BY <1>3, <2>2, <4>3 DEF Under, Spot
      <4>5. walk[d + 1] # Unreadable
        BY <4>2, NotUnreadable
      <4> QED BY <4>2, <4>4, <4>5
    <3> QED BY <3>7, <3>8
  <2> QED BY <2>3, <2>5, <2>6, <2>7
<1>7. S = Nat
  <2> HIDE DEF S
  <2>1. S \in SUBSET Nat
    BY DEF S
  <2> QED BY <1>5, <1>6, <2>1, NumberInduction
<1>8. Reached(Depth)
  BY <1>1, <1>7
<1>9. CASE IsLeaf(walk[Depth])
  BY <1>9
<1>10. CASE Spot(Depth) \in Plan(names) /\ walk[Depth] = NodeContent(names, f, Spot(Depth))
  <2>1. Len(Spot(Depth).prefix) = Depth
    <3>1. Depth \in 0..Depth
      BY <1>1
    <3> HIDE DEF Spot
    <3> QED BY <1>3, <3>1
  <2>2. ~Split(names, Spot(Depth))
    <3> HIDE DEF Spot
    <3> QED BY <1>1, <1>10, <2>1 DEF Plannable
  <2> QED BY <1>1, <1>4, <1>10, <2>2
<1> QED BY <1>8, <1>9, <1>10

-----------------------------------------------------------------------------
(***************************************************************************)
(* The invariant. Blobs that may be reused are for the snapshot's          *)
(* recipients. While a catalog is uploaded, what is at its level or deeper *)
(* is uploaded, left, or in the hands of a worker; only its level is.      *)
(***************************************************************************)
PlanType ==
  [pc : {"nodes", "root", "manifest"}, key : Recipients, depth : 0..Depth,
   left : SUBSET Plan(catalog.records), failed : BOOLEAN,
   blob : [Plan(catalog.records) -> registry \cup {NoBlob}],
   layers : SUBSET registry, root : registry \cup {NoBlob}]
SenderType == {Resting} \cup [pc : {"upload"}, node : Plan(catalog.records)]

CatalogType ==
  /\ catalog \in [records : SUBSET RecordNames, key : Recipients \cup {NoBlob},
                  blobs : SUBSET registry]
  /\ manifests \subseteq ManifestType
  /\ plan = NoPlan \/ plan \in PlanType
  /\ sender \in [CatalogWorkers -> SenderType]

OwnBlobs ==
  /\ \A b \in catalog.blobs : b.key = catalog.key
  /\ catalog.key = NoBlob => catalog.blobs = {}
OwnPlan == plan # NoPlan =>
  /\ plan.key = catalog.key /\ Plannable(catalog.records)
  /\ \A b \in plan.layers : b.key = plan.key
AtLevel ==
  /\ plan # NoPlan => \A node \in plan.left : Len(node.prefix) = plan.depth
  /\ \A w \in CatalogWorkers : sender[w].pc = "upload" =>
       plan.pc = "nodes" /\ Len(sender[w].node.prefix) = plan.depth
Uploaded(node) == Holds(catalog.records, plan.blob, plan.key, plan.layers, node)
Uploading(node) == \E w \in CatalogWorkers : sender[w] = [pc |-> "upload", node |-> node]
Deeper ==
  /\ plan.pc = "nodes" /\ ~plan.failed =>
       \A node \in Plan(catalog.records) : Len(node.prefix) >= plan.depth =>
         Uploaded(node) \/ node \in plan.left \/ Uploading(node)
  /\ plan.pc \in {"root", "manifest"} => \A node \in Plan(catalog.records) : Uploaded(node)
  /\ plan.pc = "manifest" =>
       /\ plan.root \in registry
       /\ \A tree \in Trees : plan.root.content[tree] = TreeRoot(tree)
Catalogs == \A m \in manifests :
  /\ Plannable(m.records) /\ \A b \in m.nodes : b.key = m.key
  /\ \E f : IsCatalog(m, f)

CatalogInv == CatalogType /\ OwnBlobs /\ OwnPlan /\ AtLevel /\ Deeper /\ Catalogs

\* The plan in progress is one of the records.
LEMMA InProgress ==
  CatalogInv /\ plan.pc # "idle" => plan # NoPlan /\ plan \in PlanType
  BY DEF CatalogInv, CatalogType, NoPlan

\* No worker is busy but while nodes are uploaded.
LEMMA AllRest ==
  CatalogInv /\ plan.pc # "nodes" => \A w \in CatalogWorkers : sender[w] = Resting
  BY DEF CatalogInv, CatalogType, SenderType, AtLevel

\* The content of a node in progress.
LEMMA PlannedContent ==
  ASSUME plan \in PlanType, NEW node
  PROVE  Content(node) = NodeContent(catalog.records, plan.blob, node)
<1>1. DOMAIN plan.blob = Plan(catalog.records)
  BY DEF PlanType
<1> QED BY <1>1 DEF Content, NodeContent, ChildAt

\* The deepest level of a plan.
LEMMA DeepestLevel ==
  \A names : /\ Deepest(names) \in 0..Depth
             /\ \A node \in Plan(names) : Len(node.prefix) <= Deepest(names)
<1> SUFFICES ASSUME NEW names
             PROVE  /\ Deepest(names) \in 0..Depth
                    /\ \A node \in Plan(names) : Len(node.prefix) <= Deepest(names)
  OBVIOUS
<1> DEFINE Rest == { n \in Nat : n <= Depth /\ Level(names, Depth - n) # {} }
<1>1. Depth \in Nat
  BY CatalogAssumption
<1>2. \A node \in Plan(names) : Len(node.prefix) \in 0..Depth
  BY PlanNodes, NodeLength
<1>3. Depth \in Rest
  <2>1. [tree |-> "index", prefix |-> <<>>] \in Level(names, 0)
    BY PlanNodes DEF Level, Trees
  <2>2. Depth - Depth = 0
    BY <1>1
  <2> QED BY <1>1, <2>1, <2>2
<1>4. PICK n \in Rest : \A k \in Rest : n <= k
  <2> HIDE DEF Rest
  <2>1. Rest \in SUBSET Nat
    BY DEF Rest
  <2> QED BY <1>3, <2>1, LeastNumber
<1>5. Depth - n \in 0..Depth /\ Level(names, Depth - n) # {}
  BY <1>1
<1>6. ASSUME NEW e \in (Depth - n + 1)..Depth, Level(names, e) # {} PROVE FALSE
  <2>1. Depth - e \in Nat /\ Depth - e <= Depth /\ Depth - (Depth - e) = e /\ Depth - e < n
    BY <1>1, <1>5
  <2>2. Depth - e \in Rest
    BY <1>6, <2>1
  <2> QED BY <1>4, <2>1, <2>2
<1>7. \E d \in 0..Depth : /\ Level(names, d) # {}
                          /\ \A e \in (d + 1)..Depth : Level(names, e) = {}
  BY <1>5, <1>6
<1>8. /\ Deepest(names) \in 0..Depth
      /\ \A e \in (Deepest(names) + 1)..Depth : Level(names, e) = {}
  BY <1>7 DEF Deepest
<1> QED BY <1>1, <1>2, <1>8 DEF Level

\* The initial state.
LEMMA CatalogInitInv == CatalogInit => CatalogInv
  BY DEF CatalogInit, CatalogInv, CatalogType, SenderType, OwnBlobs, OwnPlan, AtLevel,
         Deeper, Catalogs, NoPlan, Resting

-----------------------------------------------------------------------------
\* Records are added, or a snapshot merged, between publications.
LEMMA MergeOneStep ==
  ASSUME CatalogInv, UNCHANGED catalogVars
                     \/ (\E n \in RecordNames : AddRecord(n))
                     \/ (\E m \in manifests : MergeLoaded(m))
  PROVE  CatalogInv'
<1> USE DEF CatalogInv
<1>1. CASE UNCHANGED catalogVars
  BY <1>1 DEF catalogVars, CatalogType, ManifestType, PlanType, SenderType, OwnBlobs, OwnPlan,
              AtLevel, Deeper, Uploaded, Uploading, TreeRoot, Catalogs
<1>2. ASSUME ~Publishing, UNCHANGED <<registry, manifests, plan, sender>>,
             catalog' \in [records : SUBSET RecordNames, key : Recipients \cup {NoBlob},
                           blobs : SUBSET registry],
             OwnBlobs'
      PROVE  CatalogInv'
  <2>1. plan = NoPlan /\ plan.pc = "idle"
    BY <1>2 DEF Publishing, CatalogType, PlanType, NoPlan
  <2>2. \A w \in CatalogWorkers : sender[w] = Resting
    BY <2>1, AllRest
  <2>3. CatalogType'
    BY <1>2, <2>1, <2>2 DEF CatalogType, ManifestType, SenderType
  <2> QED BY <1>2, <2>1, <2>2, <2>3 DEF OwnPlan, AtLevel, Deeper, Catalogs, Resting
<1>3. ASSUME NEW n \in RecordNames, AddRecord(n) PROVE CatalogInv'
  <2>1. catalog' = [catalog EXCEPT !.records = @ \cup {n}] /\ UNCHANGED registry
    BY <1>3 DEF AddRecord
  <2>2. /\ catalog' \in [records : SUBSET RecordNames, key : Recipients \cup {NoBlob},
                         blobs : SUBSET registry]
        /\ catalog'.key = catalog.key /\ catalog'.blobs = catalog.blobs
    BY <2>1 DEF CatalogType
  <2>3. OwnBlobs'
    BY <2>2 DEF OwnBlobs
  <2> QED BY <1>2, <1>3, <2>2, <2>3 DEF AddRecord
<1>4. ASSUME NEW m \in manifests, MergeLoaded(m) PROVE CatalogInv'
  <2>1. m \in ManifestType
    BY DEF CatalogType
  <2>2. /\ m.records \in SUBSET RecordNames /\ m.key \in Recipients
        /\ m.nodes \in SUBSET registry /\ \A b \in m.nodes : b.key = m.key
    BY <2>1 DEF ManifestType, Catalogs
  <2> DEFINE same == catalog.key \in {NoBlob, m.key}
  <2>3. catalog' = [records |-> catalog.records \cup m.records,
                    key |-> IF same THEN m.key ELSE catalog.key,
                    blobs |-> IF same THEN catalog.blobs \cup m.nodes ELSE catalog.blobs]
    BY <1>4 DEF MergeLoaded
  <2>4. catalog' \in [records : SUBSET RecordNames, key : Recipients \cup {NoBlob},
                      blobs : SUBSET registry]
    BY <2>2, <2>3 DEF CatalogType
  <2>5. OwnBlobs'
    BY <2>2, <2>3, CatalogAssumption DEF OwnBlobs
  <2> QED BY <1>2, <1>4, <2>4, <2>5 DEF MergeLoaded
<1> QED BY <1>1, <1>3, <1>4

\* A publication begins with the deepest level.
LEMMA PublishCatalogStep ==
  ASSUME CatalogInv, NEW key \in Recipients, PublishCatalog(key)
  PROVE  CatalogInv'
<1> USE DEF CatalogInv
<1> DEFINE names == catalog.records
           d == Deepest(names)
<1>1. /\ ~Publishing /\ Plannable(names) /\ UNCHANGED <<registry, manifests, sender>>
      /\ catalog' = [catalog EXCEPT !.key = key, !.blobs = Reused(key)]
  BY DEF PublishCatalog
<1>2. plan.pc = "idle" /\ \A w \in CatalogWorkers : sender[w] = Resting
  BY <1>1, AllRest DEF Publishing
<1>3. catalog' = [records |-> names, key |-> key, blobs |-> Reused(key)]
  BY <1>1 DEF CatalogType
<1>4. Reused(key) \in SUBSET registry /\ \A b \in Reused(key) : b.key = key
  BY DEF Reused, CatalogType, OwnBlobs
<1>5. names \in SUBSET RecordNames /\ catalog'.records = names
  BY <1>3 DEF CatalogType
<1>6. plan' = [pc |-> "nodes", key |-> key, depth |-> d, left |-> Level(names, d),
               failed |-> FALSE, blob |-> [node \in Plan(names) |-> NoBlob],
               layers |-> {}, root |-> NoBlob]
  BY DEF PublishCatalog, NoPlan
<1>7. d \in 0..Depth /\ \A node \in Plan(names) : Len(node.prefix) <= d
  BY DeepestLevel
<1>8. \A node \in Plan(names) : Len(node.prefix) \in 0..Depth
  BY PlanNodes, NodeLength
<1> HIDE DEF d
<1>9. Level(names, d) \in SUBSET Plan(names)
  BY DEF Level
<1>10. plan' \in PlanType'
  BY <1>1, <1>5, <1>6, <1>7, <1>9 DEF PlanType
<1>11. CatalogType'
  BY <1>1, <1>2, <1>3, <1>4, <1>5, <1>10 DEF CatalogType, ManifestType, SenderType
<1>12. OwnBlobs'
  BY <1>3, <1>4, CatalogAssumption DEF OwnBlobs
<1>13. OwnPlan'
  BY <1>1, <1>3, <1>6 DEF OwnPlan
<1>14. AtLevel'
  BY <1>1, <1>2, <1>6 DEF AtLevel, Level, Resting
<1>15. \A node \in Plan(names) : Len(node.prefix) >= d => node \in Level(names, d)
  BY <1>7, <1>8, CatalogAssumption DEF Level
<1>16. Deeper'
  BY <1>3, <1>6, <1>15 DEF Deeper
<1>17. Catalogs'
  BY <1>1 DEF Catalogs
<1> QED BY <1>11, <1>12, <1>13, <1>14, <1>16, <1>17

\* A worker takes a node.
LEMMA TakeNodeStep ==
  ASSUME CatalogInv, NEW w \in CatalogWorkers, NEW node, TakeNode(w, node)
  PROVE  CatalogInv'
<1> USE DEF CatalogInv
<1>1. /\ plan.pc = "nodes" /\ sender[w].pc = "free" /\ ~plan.failed /\ node \in plan.left
      /\ plan' = [plan EXCEPT !.left = @ \ {node}]
      /\ sender' = [sender EXCEPT ![w] = [pc |-> "upload", node |-> node]]
      /\ UNCHANGED <<catalog, registry, manifests>>
  BY DEF TakeNode
<1>2. plan # NoPlan /\ plan \in PlanType
  BY <1>1, InProgress
<1>3. /\ plan' \in PlanType /\ plan'.left = plan.left \ {node}
      /\ plan'.pc = plan.pc /\ plan'.key = plan.key /\ plan'.depth = plan.depth
      /\ plan'.failed = plan.failed /\ plan'.blob = plan.blob /\ plan'.layers = plan.layers
      /\ plan'.root = plan.root
  BY <1>1, <1>2 DEF PlanType
<1>4. node \in Plan(catalog.records) /\ Len(node.prefix) = plan.depth
  BY <1>1, <1>2 DEF PlanType, AtLevel
<1>5. \A v \in CatalogWorkers :
        sender'[v] = IF v = w THEN [pc |-> "upload", node |-> node] ELSE sender[v]
  BY <1>1 DEF CatalogType
<1>6. CatalogType'
  BY <1>1, <1>3, <1>4 DEF CatalogType, ManifestType, PlanType, SenderType
<1>7. OwnBlobs' /\ OwnPlan'
  BY <1>1, <1>2, <1>3 DEF OwnBlobs, OwnPlan
<1>8. AtLevel'
  BY <1>1, <1>2, <1>3, <1>4, <1>5 DEF AtLevel
<1>9. \A n : Uploaded(n)' <=> Uploaded(n)
  BY <1>1, <1>3 DEF Uploaded, Holds, NodeContent
<1>10. Uploading(node)' /\ \A n : Uploading(n) => Uploading(n)'
  BY <1>1, <1>5 DEF Uploading
<1>11. Deeper'
  BY <1>1, <1>3, <1>9, <1>10 DEF Deeper
<1> QED BY <1>1, <1>6, <1>7, <1>8, <1>11 DEF Catalogs

\* A node of the level is uploaded, or one like it was: those below it stay.
LEMMA UploadNodeStep ==
  ASSUME CatalogInv, NEW w \in CatalogWorkers, UploadNode(w)
  PROVE  CatalogInv'
<1> USE DEF CatalogInv
<1> DEFINE names == catalog.records
<1>0. PICK node \in Plan(names) : sender[w] = [pc |-> "upload", node |-> node]
  BY DEF UploadNode, CatalogType, SenderType, Resting
<1> DEFINE content == Content(node)
           known == { b \in catalog.blobs : b.content = content }
<1>1. sender[w].pc = "upload" /\ UNCHANGED <<catalog, manifests>>
      /\ sender' = [sender EXCEPT ![w] = Resting]
  BY DEF UploadNode
<1>2. plan.pc = "nodes" /\ Len(node.prefix) = plan.depth
  BY <1>0, <1>1 DEF AtLevel
<1>3. plan # NoPlan /\ plan \in PlanType
  BY <1>2, InProgress
<1>4. sender[w].node = node
  BY <1>0
<1>5. PICK b \in IF known # {} THEN known ELSE {Blob(content)} :
         /\ plan' = [plan EXCEPT !.blob[node] = b, !.layers = @ \cup {b}]
         /\ registry' = registry \cup ({b} \ known)
  BY <1>4 DEF UploadNode
<1>6. b.content = content /\ b.key = plan.key /\ b \in registry' /\ registry \subseteq registry'
  <2>1. CASE known # {}
    BY <1>3, <1>5, <2>1 DEF OwnBlobs, OwnPlan, CatalogType
  <2>2. CASE known = {}
    BY <1>5, <2>2 DEF Blob
  <2> QED BY <2>1, <2>2
<1> HIDE DEF known, content
<1>7. /\ plan'.pc = plan.pc /\ plan'.key = plan.key /\ plan'.depth = plan.depth
      /\ plan'.left = plan.left /\ plan'.failed = plan.failed /\ plan'.root = plan.root
      /\ plan'.layers = plan.layers \cup {b}
      /\ plan'.blob = [plan.blob EXCEPT ![node] = b]
      /\ plan' \in PlanType'
  <2>1. /\ plan' = [plan EXCEPT !.blob[node] = b, !.layers = @ \cup {b}]
        /\ plan \in PlanType /\ catalog' = catalog
    BY <1>1, <1>3, <1>5
  <2>2. /\ plan'.pc = plan.pc /\ plan'.key = plan.key /\ plan'.depth = plan.depth
        /\ plan'.left = plan.left /\ plan'.failed = plan.failed /\ plan'.root = plan.root
        /\ plan'.layers = plan.layers \cup {b}
        /\ plan'.blob = [plan.blob EXCEPT ![node] = b]
    BY <2>1 DEF PlanType
  <2>3. plan' \in PlanType'
    BY <1>6, <2>1 DEF PlanType
  <2> QED BY <2>2, <2>3
<1>8. \A v \in CatalogWorkers : sender'[v] = IF v = w THEN Resting ELSE sender[v]
  BY <1>1 DEF CatalogType
<1>9. CatalogType'
  BY <1>1, <1>6, <1>7 DEF CatalogType, ManifestType, SenderType
<1>10. OwnBlobs' /\ OwnPlan'
  BY <1>1, <1>3, <1>6, <1>7 DEF OwnBlobs, OwnPlan
<1>11. AtLevel'
  BY <1>1, <1>3, <1>7, <1>8 DEF AtLevel, Resting
<1>12. plan'.blob[node] = b /\ \A n \in Plan(names) \ {node} : plan'.blob[n] = plan.blob[n]
  BY <1>3, <1>4, <1>7 DEF PlanType
<1>13. ASSUME NEW n \in Plan(names), Len(n.prefix) >= plan.depth
       PROVE  NodeContent(names, plan'.blob, n) = NodeContent(names, plan.blob, n)
  <2> DEFINE D == { y \in Nibbles : ChildAt(n, y) \in Plan(names) }
  <2>1. ASSUME NEW y \in D PROVE plan'.blob[ChildAt(n, y)] = plan.blob[ChildAt(n, y)]
    <3>1. Len(ChildAt(n, y).prefix) > plan.depth
      <4>1. n \in NodeType /\ n.prefix \in Seq(Nibbles) /\ Len(n.prefix) \in Nat
        BY <1>13, PlanNodes, NodeLength
      <4>2. ChildAt(n, y).prefix = Append(n.prefix, y)
        BY <4>1, ChildRecord
      <4>3. Len(Append(n.prefix, y)) = Len(n.prefix) + 1
        BY <4>1
      <4>4. plan.depth \in 0..Depth
        BY <1>3 DEF PlanType
      <4> QED BY <1>13, <4>1, <4>2, <4>3, <4>4
    <3>2. ChildAt(n, y) # node
      BY <1>2, <3>1, <1>3 DEF PlanType
    <3> QED BY <1>12, <3>2
  <2>2. [x \in D |-> plan'.blob[ChildAt(n, x)]] = [x \in D |-> plan.blob[ChildAt(n, x)]]
    <3> HIDE DEF D
    <3> QED BY <2>1
  <2> QED BY <2>2 DEF NodeContent
<1>14. content = NodeContent(names, plan.blob, node)
  BY <1>3, PlannedContent DEF content
<1>15. Uploaded(node)'
  <2>1. Len(node.prefix) >= plan.depth
    BY <1>2, <1>3 DEF PlanType
  <2> QED BY <1>1, <1>6, <1>7, <1>12, <1>13, <1>14, <2>1 DEF Uploaded, Holds
<1>16. ASSUME NEW n \in Plan(names), Len(n.prefix) >= plan.depth, Uploaded(n)
       PROVE  Uploaded(n)'
  <2>1. CASE n = node
    BY <1>15, <2>1
  <2>2. CASE n # node
    BY <1>1, <1>7, <1>12, <1>13, <1>16, <2>2 DEF Uploaded, Holds
  <2> QED BY <2>1, <2>2
<1>17. \A n : n # node /\ Uploading(n) => Uploading(n)'
  BY <1>0, <1>8 DEF Uploading
<1>18. Deeper'
  BY <1>1, <1>2, <1>7, <1>15, <1>16, <1>17 DEF Deeper
<1> QED BY <1>1, <1>9, <1>10, <1>11, <1>18 DEF Catalogs

\* An upload fails: the catalog will not be published.
LEMMA NodeFailsStep ==
  ASSUME CatalogInv, NEW w \in CatalogWorkers, NodeFails(w)
  PROVE  CatalogInv'
<1> USE DEF CatalogInv
<1>1. /\ sender[w].pc = "upload" /\ UNCHANGED <<catalog, registry, manifests>>
      /\ plan' = [plan EXCEPT !.failed = TRUE]
      /\ sender' = [sender EXCEPT ![w] = Resting]
  BY DEF NodeFails
<1>2. plan.pc = "nodes" /\ plan # NoPlan /\ plan \in PlanType
  BY <1>1, InProgress DEF AtLevel
<1>3. /\ plan'.pc = "nodes" /\ plan'.key = plan.key /\ plan'.depth = plan.depth
      /\ plan'.left = plan.left /\ plan'.failed = TRUE /\ plan'.layers = plan.layers
      /\ plan' \in PlanType'
  BY <1>1, <1>2 DEF PlanType
<1>4. \A v \in CatalogWorkers : sender'[v] = IF v = w THEN Resting ELSE sender[v]
  BY <1>1 DEF CatalogType
<1>5. CatalogType'
  BY <1>1, <1>3 DEF CatalogType, ManifestType, SenderType
<1>6. OwnBlobs' /\ OwnPlan'
  BY <1>1, <1>2, <1>3 DEF OwnBlobs, OwnPlan
<1>7. AtLevel'
  BY <1>1, <1>2, <1>3, <1>4 DEF AtLevel, Resting
<1>8. Deeper'
  BY <1>3 DEF Deeper
<1> QED BY <1>1, <1>5, <1>6, <1>7, <1>8 DEF Catalogs

\* Nothing is left of a publication.
LEMMA AbandonStep ==
  ASSUME CatalogInv, plan' = NoPlan, registry \subseteq registry', sender' = sender,
         \A w \in CatalogWorkers : sender[w] = Resting,
         catalog' = catalog, manifests' \subseteq ManifestType', Catalogs'
  PROVE  CatalogInv'
<1>1. CatalogType' /\ OwnBlobs'
  BY DEF CatalogInv, CatalogType, SenderType, OwnBlobs
<1> QED BY <1>1 DEF CatalogInv, OwnPlan, AtLevel, Deeper, NoPlan, Resting

\* The level is done and so the next one begins, or the root is uploaded.
LEMMA NextLevelStep ==
  ASSUME CatalogInv, NextLevel
  PROVE  CatalogInv'
<1> USE DEF CatalogInv
<1>1. /\ plan.pc = "nodes"
      /\ plan.left = {} \/ plan.failed
      /\ \A w \in CatalogWorkers : sender[w].pc = "free"
      /\ UNCHANGED <<catalog, registry, manifests, sender>>
  BY DEF NextLevel, LevelDone
<1>2. plan # NoPlan /\ plan \in PlanType
  BY <1>1, InProgress
<1>3. \A w \in CatalogWorkers : sender[w] = Resting
  BY <1>1 DEF CatalogType, SenderType
<1>4. \A n : ~Uploading(n)
  BY <1>3 DEF Uploading, Resting
<1>5. Catalogs' /\ manifests' \subseteq ManifestType'
  BY <1>1 DEF Catalogs, CatalogType, ManifestType
<1>6. CASE plan.failed
  BY <1>1, <1>3, <1>5, <1>6, AbandonStep DEF NextLevel
<1>7. CASE ~plan.failed
  <2>1. \A n \in Plan(catalog.records) : Len(n.prefix) >= plan.depth => Uploaded(n)
    BY <1>1, <1>4, <1>7 DEF Deeper
  <2>2. \A n \in Plan(catalog.records) : Len(n.prefix) \in Nat
    BY PlanNodes, NodeLength
  <2>3. Depth \in Nat /\ plan.depth \in 0..Depth
    BY <1>2, CatalogAssumption DEF PlanType
  <2>4. CASE plan.depth = 0
    <3>1. plan' = [plan EXCEPT !.pc = "root"]
      BY <1>7, <2>4 DEF NextLevel
    <3>2. /\ plan'.pc = "root" /\ plan'.key = plan.key /\ plan'.depth = plan.depth
          /\ plan'.left = plan.left /\ plan'.layers = plan.layers /\ plan'.blob = plan.blob
          /\ plan' \in PlanType'
      BY <1>1, <1>2, <3>1 DEF PlanType
    <3>3. CatalogType'
      BY <1>1, <3>2 DEF CatalogType, ManifestType, SenderType
    <3>4. OwnBlobs' /\ OwnPlan' /\ AtLevel'
      BY <1>1, <1>2, <1>3, <3>2 DEF OwnBlobs, OwnPlan, AtLevel, Resting
    <3>5. \A n \in Plan(catalog.records) : Uploaded(n)'
      <4>1. \A n \in Plan(catalog.records) : Uploaded(n)
        BY <2>1, <2>2, <2>4
      <4> QED BY <1>1, <3>2, <4>1 DEF Uploaded, Holds, NodeContent
    <3>6. Deeper'
      BY <1>1, <3>2, <3>5 DEF Deeper
    <3> QED BY <1>5, <3>3, <3>4, <3>6
  <2>5. CASE plan.depth # 0
    <3> DEFINE d == plan.depth - 1
               level == Level(catalog.records, d)
    <3>1. plan' = [plan EXCEPT !.depth = d, !.left = level]
      BY <1>2, <1>7, <2>5 DEF NextLevel, PlanType
    <3>2. d \in 0..Depth /\ level \in SUBSET Plan(catalog.records)
      BY <2>3, <2>5 DEF Level
    <3>3. /\ plan'.pc = "nodes" /\ plan'.key = plan.key /\ plan'.depth = d
          /\ plan'.left = level /\ plan'.layers = plan.layers /\ plan'.blob = plan.blob
          /\ plan'.failed = plan.failed /\ plan' \in PlanType'
      <4> HIDE DEF d, level
      <4>1. /\ plan'.pc = "nodes" /\ plan'.key = plan.key /\ plan'.depth = d
            /\ plan'.left = level /\ plan'.layers = plan.layers /\ plan'.blob = plan.blob
            /\ plan'.failed = plan.failed
        BY <1>1, <1>2, <3>1 DEF PlanType
      <4>2. plan' \in PlanType'
        BY <1>1, <1>2, <3>1, <3>2 DEF PlanType
      <4> QED BY <4>1, <4>2
    <3>4. CatalogType'
      BY <1>1, <3>3 DEF CatalogType, ManifestType, SenderType
    <3>5. OwnBlobs' /\ OwnPlan'
      BY <1>1, <1>2, <3>3 DEF OwnBlobs, OwnPlan
    <3>6. AtLevel'
      BY <1>1, <1>3, <3>3 DEF AtLevel, Resting, Level
    <3>7. \A n \in Plan(catalog.records) : Uploaded(n) => Uploaded(n)'
      BY <1>1, <3>3 DEF Uploaded, Holds, NodeContent
    <3>8. \A n \in Plan(catalog.records) : Len(n.prefix) >= d =>
            Uploaded(n) \/ n \in level
      BY <2>1, <2>2, <2>3 DEF Level
    <3>9. Deeper'
      <4> HIDE DEF level, d
      <4> QED BY <1>1, <3>3, <3>7, <3>8 DEF Deeper
    <3> QED BY <1>5, <3>4, <3>5, <3>6, <3>9
  <2> QED BY <2>4, <2>5
<1> QED BY <1>6, <1>7

\* The root names the roots of the trees.
LEMMA UploadRootStep ==
  ASSUME CatalogInv, UploadRoot
  PROVE  CatalogInv'
<1> USE DEF CatalogInv
<1> DEFINE root == Blob([index |-> TreeRoot("index"), writer |-> TreeRoot("writer")])
<1>1. plan.pc = "root" /\ UNCHANGED <<manifests, sender>>
  BY DEF UploadRoot
<1>2. plan # NoPlan /\ plan \in PlanType /\ \A w \in CatalogWorkers : sender[w] = Resting
  BY <1>1, InProgress, AllRest
<1>3. CASE /\ registry' = registry \cup {root}
           /\ plan' = [plan EXCEPT !.pc = "manifest", !.root = root]
           /\ catalog' = [catalog EXCEPT !.blobs = plan.layers]
  <2>1. \A tree \in Trees : root.content[tree] = TreeRoot(tree)
    BY DEF Blob, Trees
  <2> HIDE DEF root
  <2>2. /\ catalog'.records = catalog.records /\ catalog'.key = catalog.key
        /\ catalog'.blobs = plan.layers
    BY <1>3 DEF CatalogType
  <2>3. catalog' \in [records : SUBSET RecordNames, key : Recipients \cup {NoBlob},
                      blobs : SUBSET registry']
    BY <1>2, <1>3, <2>2 DEF CatalogType, PlanType
  <2>4. /\ plan'.pc = "manifest" /\ plan'.key = plan.key /\ plan'.depth = plan.depth
        /\ plan'.left = plan.left /\ plan'.layers = plan.layers /\ plan'.blob = plan.blob
        /\ plan'.root = root
    BY <1>2, <1>3 DEF PlanType
  <2>5. plan' \in PlanType'
    BY <1>2, <1>3, <2>2 DEF PlanType
  <2>6. CatalogType'
    BY <1>1, <1>3, <2>2, <2>3, <2>5 DEF CatalogType, ManifestType, SenderType
  <2>7. OwnBlobs'
    BY <1>2, <2>2, CatalogAssumption DEF OwnBlobs, OwnPlan, PlanType
  <2>8. OwnPlan' /\ AtLevel'
    BY <1>1, <1>2, <2>2, <2>4 DEF OwnPlan, AtLevel, Resting
  <2>9. \A n \in Plan(catalog.records) : Uploaded(n)'
    BY <1>1, <2>2, <2>4 DEF Deeper, Uploaded, Holds, NodeContent
  <2>10. \A tree \in Trees : plan'.root.content[tree] = TreeRoot(tree)'
    BY <2>1, <2>4 DEF TreeRoot
  <2>11. Deeper'
    BY <1>3, <2>2, <2>4, <2>9, <2>10 DEF Deeper
  <2> QED BY <1>1, <2>6, <2>7, <2>8, <2>11 DEF Catalogs
<1>4. CASE plan' = NoPlan /\ UNCHANGED <<registry, catalog>>
  <2>1. Catalogs' /\ manifests' \subseteq ManifestType'
    BY <1>1, <1>4 DEF Catalogs, CatalogType, ManifestType
  <2> QED BY <1>1, <1>2, <1>4, <2>1, AbandonStep
<1> QED BY <1>3, <1>4 DEF UploadRoot

\* The manifest that is put is that of a catalog.
LEMMA PutCatalogStep ==
  ASSUME CatalogInv, PutCatalog
  PROVE  CatalogInv'
<1> USE DEF CatalogInv
<1> DEFINE new == [key |-> plan.key, records |-> catalog.records, root |-> plan.root,
                   nodes |-> plan.layers]
<1>1. /\ plan.pc = "manifest" /\ plan' = NoPlan /\ UNCHANGED <<catalog, registry, sender>>
      /\ manifests' \subseteq manifests \cup {new}
  BY DEF PutCatalog
<1>2. plan # NoPlan /\ plan \in PlanType /\ \A w \in CatalogWorkers : sender[w] = Resting
  BY <1>1, InProgress, AllRest
<1>3. new \in ManifestType
  BY <1>1, <1>2 DEF ManifestType, PlanType, CatalogType, Deeper
<1>4. Plannable(new.records) /\ \A b \in new.nodes : b.key = new.key
  BY <1>2 DEF OwnPlan
<1>5. IsCatalog(new, plan.blob)
  BY <1>1 DEF IsCatalog, Deeper, Uploaded, TreeRoot
<1> HIDE DEF new
<1>6. Catalogs'
  BY <1>1, <1>4, <1>5 DEF Catalogs
<1>7. manifests' \subseteq ManifestType'
  BY <1>1, <1>3 DEF CatalogType, ManifestType
<1> QED BY <1>1, <1>2, <1>6, <1>7, AbandonStep

\* CatalogReadable for any records, hashes, workers and recipients: whatever was
\* reused, failed or ran together, a lookup in a catalog that was put reaches a
\* leaf, which has the record when the snapshot had it.
THEOREM CatalogsReadable == CatalogSpec => []CatalogReadable
<1>1. CatalogInv /\ [CatalogNext]_catalogVars => CatalogInv'
  BY MergeOneStep, PublishCatalogStep, TakeNodeStep, UploadNodeStep, NodeFailsStep, NextLevelStep,
     UploadRootStep, PutCatalogStep DEF CatalogNext
<1>2. CatalogInv => CatalogReadable
  <2> SUFFICES ASSUME CatalogInv, NEW m \in manifests, NEW tree \in Trees,
                      NEW name \in RecordNames, NEW leaf, leaf = Lookup(m, tree, name)
               PROVE  /\ m.root \in registry /\ leaf # Unreadable /\ leaf.children = <<>>
                      /\ name \in leaf.records <=> name \in Records(m.records, tree)
    BY DEF CatalogReadable
  <2>1. m \in ManifestType /\ m.root \in registry /\ Plannable(m.records)
    BY DEF CatalogInv, CatalogType, Catalogs, ManifestType
  <2>2. PICK f : IsCatalog(m, f)
    BY DEF CatalogInv, Catalogs
  <2>3. PICK walk : IsWalk(m, tree, name, walk, Depth) /\ leaf = walk[Depth]
    BY LookupWalks
  <2> QED BY <2>1, <2>2, <2>3, WalkDown
<1> QED BY <1>1, <1>2, CatalogInitInv, PTL DEF CatalogSpec
=============================================================================
