--------------------------- MODULE SnapshotReader ---------------------------
(***************************************************************************)
(* SnapshotReader.Current under the requests of the HTTP handler: the      *)
(* heads of the platforms are refreshed under mu and kept as views; a name *)
(* the snapshot lacks is looked up outside of mu in the views captured,    *)
(* and what is found is merged under mu into the snapshot of that moment.  *)
(*                                                                         *)
(* A head is the set of names it publishes: heads only grow, and another   *)
(* set has another digest. A node of a catalog is read, or not; nodes kept *)
(* in memory only make it likelier. Nodes of a head that was replaced may  *)
(* have been collected; roots and tags are not.                            *)
(***************************************************************************)
EXTENDS Naturals, FiniteSets

CONSTANTS
  Requests,   \* handlers, as many as have a slot
  Tags,       \* platform tags
  Names,      \* what is asked for
  Beside,     \* the names whose records are in the node that has a name's
  NoHead,     \* a tag that was not published, or not opened
  NoName,     \* what nobody asks for
  FirstHeads, \* what the tags may publish at first
  MaxHeads  \* bound: publications of heads

ASSUME ReaderAssumption ==
  /\ Beside \in [Names -> SUBSET Names] /\ \A n \in Names : n \in Beside[n]
  /\ NoName \notin Names \cup Requests
  /\ IsFiniteSet(Tags) /\ \A S \in SUBSET Names : S # NoHead
  /\ FirstHeads \subseteq [Tags -> {NoHead} \cup SUBSET Names]

VARIABLES
  heads,      \* what the tags publish
  published,  \* publications so far
  mu,         \* the request that holds it in a refresh
  views,      \* the view of each tag
  snapshot,   \* the records merged so far, or none
  refreshError,
  due,        \* "none", "retry": after retryAfter, "deadline"
  results,    \* the results of the refresh in progress
  promised,   \* history: what the heads had when the last refresh began
  request     \* the state of each request

readerVars == <<heads, published, mu, views, snapshot, refreshError, due,
                results, promised, request>>

Idle == [pc |-> "idle", name |-> NoName, views |-> [t \in {} |-> NoHead], left |-> {},
         found |-> {}, failures |-> {}, refreshError |-> "none", again |-> FALSE,
         promised |-> {}]
NotYet == [view |-> NoHead, error |-> "running"]

ReaderInit ==
  /\ heads \in FirstHeads /\ published = 0
  /\ mu = NoName /\ views = [t \in Tags |-> NoHead] /\ snapshot = NoHead
  /\ refreshError = "none" /\ due = "deadline"
  /\ results = [t \in Tags |-> NotYet] /\ promised = {}
  /\ request = [r \in Requests |-> Idle]

Published == UNION { heads[t] : t \in { u \in Tags : heads[u] # NoHead } }
Has(snap, n) == snap # NoHead /\ n \in snap
Unlocked == mu = NoName
At(r, pc) == request[r].pc = pc
sharedVars == <<heads, published, mu, views, snapshot, refreshError, due, results,
                promised>>

-----------------------------------------------------------------------------
\* A runner publishes a platform's head, which keeps what it had.
PublishHead(t, n) ==
  /\ published < MaxHeads /\ published' = published + 1
  /\ heads' = [heads EXCEPT ![t] = {n} \cup (IF @ = NoHead THEN {} ELSE @)]
  /\ UNCHANGED <<mu, views, snapshot, refreshError, due, results, promised, request>>

\* retryAfter or the deadline passes; after a failed refresh they are the same.
Elapse ==
  /\ due # "deadline"
  /\ due' = IF due = "none" /\ refreshError = "none" THEN "retry" ELSE "deadline"
  /\ UNCHANGED <<heads, published, mu, views, snapshot, refreshError, results,
                 promised, request>>

\* The handler has a slot and asks for a name, and later answers.
Ask(r, n) ==
  /\ At(r, "idle")
  /\ request' = [request EXCEPT ![r] = [Idle EXCEPT !.pc = "current", !.name = n]]
  /\ UNCHANGED sharedVars

Leave(r) ==
  /\ request[r].pc \in {"present", "absent", "failed"}
  /\ request' = [request EXCEPT ![r] = Idle] /\ UNCHANGED sharedVars

\* A record of the snapshot is served while another request refreshes.
FastPath(r) ==
  /\ At(r, "current") /\ Has(snapshot, request[r].name) /\ ~Unlocked
  /\ request' = [request EXCEPT ![r].pc = "present"] /\ UNCHANGED sharedVars

-----------------------------------------------------------------------------
\* What Current and the handler make of a snapshot and the errors; an error that
\* wraps ErrObjectNotFound is answered like an absent name.
Outcome(n, snap, failures, error) ==
  IF Has(snap, n) THEN "present"
  ELSE IF failures # {} \/ error = "failed" THEN "failed" ELSE "absent"

Answered(r, answer, since) ==
  request' = [request EXCEPT ![r] = [Idle EXCEPT !.pc = answer, !.name = request[r].name,
                                                 !.promised = since]]

\* A request leaves mu with the views of that moment, to look up what is missing.
LeaveLock(r, after, snap, error) ==
  LET opened == { t \in Tags : after[t] # NoHead }
      n == request[r].name
  IN  IF snap # NoHead /\ (n \notin snap \/ request[r].again)
      THEN request' = [request EXCEPT ![r] =
             [@ EXCEPT !.pc = "lookup", !.views = [t \in opened |-> after[t]],
                       !.left = opened, !.failures = {}, !.refreshError = error,
                       !.promised = promised]]
      ELSE Answered(r, Outcome(n, snap, {}, error), promised)

NeedsRefresh(n) == due = "deadline" \/ (due = "retry" /\ ~Has(snapshot, n))

\* No refresh is due.
Current(r) ==
  /\ At(r, "current") /\ Unlocked /\ ~NeedsRefresh(request[r].name)
  /\ LeaveLock(r, views, snapshot, refreshError) /\ UNCHANGED sharedVars

\* mu is held during the refresh of a request that needs one, or whose lookup
\* missed a node.
BeginRefresh(r) ==
  /\ Unlocked
  /\ (At(r, "current") /\ NeedsRefresh(request[r].name)) \/ At(r, "recover")
  /\ mu' = r /\ promised' = Published
  /\ request' = [request EXCEPT ![r].pc = "refresh"]
  /\ UNCHANGED <<heads, published, views, snapshot, refreshError, due, results>>

\* The head of a tag is unchanged, or read and opened, or missing, or fails.
RefreshTag(t) ==
  /\ ~Unlocked /\ results[t] = NotYet
  /\ \E e \in {"failed", IF heads[t] = NoHead THEN "missing" ELSE "none"} :
       results' = [results EXCEPT ![t] =
         [error |-> e, view |-> IF e = "none" THEN heads[t] ELSE NoHead]]
  /\ UNCHANGED <<heads, published, mu, views, snapshot, refreshError, due, promised,
                 request>>

\* Mutant of Failed: a head that cannot be read is passed over if it never was.
FailedOpened(t) == results[t].error # "none" /\ views[t] # NoHead

\* A head that does not exist is no failure where others may.
Failed(t) ==
  /\ results[t].error # "none"
  /\ results[t].error # "missing" \/ views[t] # NoHead \/ Cardinality(Tags) = 1

\* refreshError, as errors.Is sees it.
RefreshError(after) ==
  LET failures == { results[t].error : t \in { u \in Tags : Failed(u) } }
  IN  IF "missing" \in failures THEN "missing"
      ELSE IF failures # {} THEN "failed"
      ELSE IF \A t \in Tags : after[t] = NoHead THEN "missing" ELSE "none"

\* A tag that failed keeps its view.
EndRefresh(r) ==
  LET after == [t \in Tags |-> IF results[t].error = "none" THEN results[t].view
                               ELSE views[t]]
      error == RefreshError(after)
      next == IF snapshot = NoHead /\ (\E t \in Tags : after[t] # NoHead)
              THEN {} ELSE snapshot
  IN  /\ At(r, "refresh") /\ \A t \in Tags : results[t] # NotYet
      /\ views' = after /\ snapshot' = next /\ refreshError' = error
      /\ due' = "none" /\ mu' = NoName /\ results' = [t \in Tags |-> NotYet]
      /\ LeaveLock(r, after, next, error)
      /\ UNCHANGED <<heads, published, promised>>

-----------------------------------------------------------------------------
\* The node that would have the name is read, or fails to be, or was collected
\* with a head that was replaced.
LookupView(r, t) ==
  LET seen == request[r].views[t]
      Fail(e) == request' = [request EXCEPT ![r].left = @ \ {t},
                                            ![r].failures = @ \cup {e}]
  IN  /\ At(r, "lookup") /\ t \in request[r].left
      /\ \/ request' = [request EXCEPT ![r].pc = "merge", ![r].left = @ \ {t},
                          ![r].found = seen \cap Beside[request[r].name]]
         \/ Fail("failed")
         \/ heads[t] # seen /\ Fail("missing")
      /\ UNCHANGED sharedVars

\* What was found is merged into the snapshot of this moment, unless a record of it
\* conflicts. The lookup ends with the name.
MergeFound(r) ==
  LET n == request[r].name
      merged == snapshot \cup request[r].found
  IN  /\ At(r, "merge") /\ Unlocked
      /\ \/ /\ snapshot' = merged
            /\ request' = [request EXCEPT
                 ![r].pc = "lookup", ![r].found = {},
                 ![r].left = IF n \in merged THEN {} ELSE @]
         \/ /\ request[r].found \cap snapshot # {}
            /\ request' = [request EXCEPT ![r].pc = "lookup", ![r].found = {},
                             ![r].failures = @ \cup {"failed"}]
            /\ UNCHANGED snapshot
      /\ UNCHANGED <<heads, published, mu, views, refreshError, due, results, promised>>

\* Mutant of Recovers: a missing node is worth a refresh every time.
RecoversAgain(r) == "missing" \in request[r].failures

\* After a missing node the heads are refreshed and the lookup repeated, once.
Recovers(r) == "missing" \in request[r].failures /\ ~request[r].again

Conclude(r) ==
  LET q == request[r]
  IN  /\ At(r, "lookup") /\ q.left = {}
      /\ IF Recovers(r)
         THEN request' = [request EXCEPT ![r] =
                [Idle EXCEPT !.pc = "recover", !.name = q.name, !.again = TRUE]]
         ELSE Answered(r, Outcome(q.name, snapshot, q.failures, q.refreshError), q.promised)
      /\ UNCHANGED sharedVars

Step(r) ==
  \/ FastPath(r) \/ Current(r) \/ BeginRefresh(r) \/ EndRefresh(r)
  \/ (\E t \in Tags : LookupView(r, t)) \/ MergeFound(r) \/ Conclude(r)

ReaderNext ==
  \/ \E t \in Tags, n \in Names : PublishHead(t, n)
  \/ Elapse
  \/ \E r \in Requests : (\E n \in Names : Ask(r, n)) \/ Leave(r) \/ Step(r)
  \/ \E t \in Tags : RefreshTag(t)

ReaderSpec == ReaderInit /\ [][ReaderNext]_readerVars

\* Registry requests have timeouts, goroutines that can run do, and a sync.Mutex
\* is given to whoever waits for it.
ReaderFairness ==
  /\ WF_readerVars(\E t \in Tags : RefreshTag(t))
  /\ \A r \in Requests : SF_readerVars(Step(r))

-----------------------------------------------------------------------------
\* A name is answered absent only when no platform had published it as the last
\* refresh began: neither an error of some head, nor a node that is gone, nor a
\* refresh that replaced the views meanwhile, hides what others published.
AbsentIsTrue ==
  \A r \in Requests : At(r, "absent") => request[r].name \notin request[r].promised

\* Every request is answered, whatever fails: none waits for the lock that a
\* refresh holds, or refreshes and looks up, for ever.
RequestsAnswered ==
  \A r \in Requests :
    At(r, "current") ~> request[r].pc \in {"present", "absent", "failed"}
=============================================================================
