--------------------------- MODULE LivePublication ---------------------------
(***************************************************************************)
(* nativeBuild.execute from the evaluated plan on, with its cachePublisher *)
(* goroutine, livePublisher and Reclaim: outputs are built, collected into *)
(* the attempt's delta, published as a generation and behind the platform  *)
(* head, and deleted from a full disk. A job may be killed at any moment;  *)
(* the next attempt starts from the head.                                  *)
(*                                                                         *)
(* Left out: references and archives (a path is collected whole), the      *)
(* substituter's view, evaluation and the upstream caches. With a static   *)
(* plan the builds are those of BuildPool.build; here they add outputs.    *)
(***************************************************************************)
EXTENDS Integers, FiniteSets, Sequences

CONSTANTS
  Batches,      \* what each batch builds: a sequence of sets of outputs
  Known,        \* outputs whose path the evaluation of a dynamic plan knows
  MaxAttempts   \* bound: attempts of the run

Outputs == UNION { Batches[b] : b \in DOMAIN Batches }

ASSUME LivePublicationAssumption ==
  /\ IsFiniteSet(Outputs) /\ Batches \in Seq(SUBSET Outputs)
  /\ Known \subseteq Outputs /\ MaxAttempts \in Nat \ {0}

Callers == {"main", "background"}

VARIABLES
  pc,          \* where execute is
  attempt,     \* the attempt of the run
  pool,        \* "none": the plan is dynamic | "building" | "ended"
  batch,       \* the batch being built
  parent,      \* outputs behind the head when the attempt began
  local,       \* outputs in the local store
  deleted,     \* outputs Reclaim deleted
  required,    \* graph.Required: outputs whose path is known
  exit,        \* exitCode: a build command failed
  delta,       \* outputs in delta.Narinfos
  failure,     \* failure: a step of execute failed
  result,      \* what execute returned
  collected,   \* history: the final collection returned no error
  publisher,   \* the cachePublisher
  calls,       \* the publication each goroutine is in
  live,        \* the livePublisher
  generations, \* registry: the generation tags
  head         \* registry: the platform tag

mainVars == <<pc, batch, exit, failure, result>>
storeVars == <<local, deleted, required>>
attemptVars == <<attempt, pool, parent, collected>>
registryVars == <<generations, head>>
vars == <<mainVars, storeVars, attemptVars, delta, publisher, calls, live,
          registryVars>>

NoCall == [step |-> "idle"]
NoPublisher ==
  [state |-> "none", stop |-> FALSE, err |-> FALSE,
   required |-> {}, full |-> FALSE, update |-> {}]
Empty == [paths |-> {}, results |-> {}]

\* Mutant of NewLive: the records inherited from the head are not carried over.
NewLiveForgetting(content) ==
  [content |-> [content EXCEPT !.results = {}], published |-> 0,
   failed |-> FALSE, dirty |-> FALSE]

\* The cumulative snapshot starts as the parent, its result files included.
NewLive(content) ==
  [content |-> content, published |-> 0, failed |-> FALSE, dirty |-> FALSE]

Beginning(p) == IF p = "none" THEN "start" ELSE "pool"
Required0(p) == IF p = "none" THEN Known ELSE Outputs

Init ==
  /\ pool \in {"none", "building"} /\ pc = Beginning(pool)
  /\ required = Required0(pool)
  /\ attempt = 1 /\ batch = 1 /\ parent = {}
  /\ local = {} /\ deleted = {} /\ exit = FALSE
  /\ delta = {} /\ failure = FALSE /\ result = "none" /\ collected = FALSE
  /\ publisher = NoPublisher /\ calls = [w \in Callers |-> NoCall]
  /\ live = NewLive(Empty)
  /\ generations = <<>> /\ head = Empty

\* The job is killed, or a run that was not a success is started again.
Restart ==
  /\ attempt < MaxAttempts /\ result # "success"
  /\ attempt' = attempt + 1
  /\ pool' = (IF pool = "none" THEN "none" ELSE "building")
  /\ pc' = Beginning(pool') /\ required' = Required0(pool')
  /\ batch' = 1 /\ parent' = head.paths
  /\ local' = {} /\ deleted' = {} /\ exit' = FALSE
  /\ delta' = {} /\ failure' = FALSE /\ result' = "none" /\ collected' = FALSE
  /\ publisher' = NoPublisher /\ calls' = [w \in Callers |-> NoCall]
  /\ live' = NewLive(head)
  /\ UNCHANGED registryVars

-----------------------------------------------------------------------------
(***************************************************************************)
(* nativeBuild.publish: PublishStore, then livePublisher.flush. A call by  *)
(* execute or by the publisher.                                            *)
(***************************************************************************)
Entering(paths, force) ==
  [step |-> "select", required |-> paths, force |-> force, err |-> FALSE,
   selected |-> {}, before |-> 0, status |-> "none"]

Set(w, call) == calls' = [calls EXCEPT ![w] = call]
At(w, step) == calls[w].step = step
Return(w, err) == Set(w, [calls[w] EXCEPT !.step = "return", !.err = err])

\* Nothing is collected after a publication failed; else look for required
\* outputs in the local store that are not covered yet.
Select(w) ==
  /\ At(w, "select")
  /\ IF live.failed
     THEN Return(w, TRUE)
     ELSE \E err \in BOOLEAN :
            Set(w, [calls[w] EXCEPT
                      !.step = IF err THEN "flush" ELSE "upload", !.err = err,
                      !.before = Cardinality(delta),
                      !.selected = (calls[w].required \cap local)
                                     \ (delta \cup parent)])
  /\ UNCHANGED <<mainVars, storeVars, attemptVars, delta, publisher, live,
                 registryVars>>

\* Some archives may fail to upload; what is complete is recorded all the same.
Upload(w) ==
  /\ At(w, "upload")
  /\ \E S \in SUBSET calls[w].selected :
       /\ delta' = delta \cup S
       /\ Set(w, [calls[w] EXCEPT !.step = "flush",
                                  !.err = S # calls[w].selected])
  /\ UNCHANGED <<mainVars, storeVars, attemptVars, publisher, live,
                 registryVars>>

\* There is something to publish that no publication of the attempt holds.
Dirty(w) ==
  \/ live.dirty
  \/ live.published = 0 /\ delta # {}
  \/ Cardinality(delta) # calls[w].before

\* Nothing to publish, or the last publication is recent and nothing forces
\* one; an incomplete collection does.
Flush(w) ==
  LET forced == calls[w].force \/ calls[w].err
      recent == live.published > 0
  IN  /\ At(w, "flush")
      /\ live' = [live EXCEPT !.dirty = Dirty(w)]
      /\ \/ /\ ~Dirty(w) \/ (recent /\ ~forced)
            /\ Return(w, calls[w].err)
         \/ /\ Dirty(w)
            /\ Set(w, [calls[w] EXCEPT !.step = "tag"])
      /\ UNCHANGED <<mainVars, storeVars, attemptVars, delta, publisher,
                     registryVars>>

\* The cumulative snapshot with the delta and, at the end, the result record.
Merged(w) ==
  [paths |-> live.content.paths \cup delta,
   results |-> live.content.results \cup
     (IF calls[w].status = "none" THEN {}
      ELSE { <<attempt, calls[w].status>> })]

\* Mutant of GenerationTag: the attempt is left out of the tag.
GenerationTagOfRun == <<1, live.published + 1>>

GenerationTag == <<attempt, live.published + 1>>

PutGeneration(content) ==
  generations' = [g \in DOMAIN generations \cup {GenerationTag} |->
                    IF g = GenerationTag THEN content ELSE generations[g]]

\* A publication that fails may have been stored; nothing follows it.
Fail(w, content) ==
  /\ live' = [live EXCEPT !.content = content, !.failed = TRUE]
  /\ Return(w, TRUE)

\* The generation's tag, before the head.
Tag(w) ==
  /\ At(w, "tag")
  /\ \/ /\ PutGeneration(Merged(w))
        /\ live' = [live EXCEPT !.content = Merged(w)]
        /\ Set(w, [calls[w] EXCEPT !.step = "head"])
     \/ Fail(w, Merged(w)) /\ UNCHANGED generations
     \/ Fail(w, Merged(w)) /\ PutGeneration(Merged(w))
  /\ UNCHANGED <<mainVars, storeVars, attemptVars, delta, publisher, head>>

Published ==
  [live EXCEPT !.published = @ + 1, !.dirty = FALSE]

\* Mutant of AdvanceHead: a failure to move the head goes unnoticed.
AdvanceHeadUnchecked(w) ==
  /\ At(w, "head")
  /\ head' \in {head, live.content}
  /\ live' = Published /\ Return(w, calls[w].err)
  /\ UNCHANGED <<mainVars, storeVars, attemptVars, delta, publisher,
                 generations>>

\* The platform tag moves to the manifest just tagged.
AdvanceHead(w) ==
  /\ At(w, "head")
  /\ \/ /\ head' = live.content
        /\ live' = Published /\ Return(w, calls[w].err)
     \/ Fail(w, live.content) /\ UNCHANGED head
     \/ Fail(w, live.content) /\ head' = live.content
  /\ UNCHANGED <<mainVars, storeVars, attemptVars, delta, publisher,
                 generations>>

Publication(w) ==
  Select(w) \/ Upload(w) \/ Flush(w) \/ Tag(w) \/ AdvanceHead(w)

-----------------------------------------------------------------------------
(***************************************************************************)
(* The cachePublisher goroutine.                                           *)
(***************************************************************************)
Become(p) == publisher' = p

PublisherTop ==
  /\ publisher.state = "top"
  /\ IF publisher.stop
     THEN Become([publisher EXCEPT !.state = "exited"]) /\ UNCHANGED calls
     ELSE /\ Become([publisher EXCEPT !.state = "publishing"])
          /\ Set("background", Entering(publisher.required, FALSE))
  /\ UNCHANGED <<mainVars, storeVars, attemptVars, delta, live, registryVars>>

\* The publication is over; extending the view with what is new may fail too.
PublisherPublished ==
  LET call == calls["background"]
      grown == Cardinality(delta) # call.before
  IN  /\ At("background", "return")
      /\ \E err \in BOOLEAN :
           /\ err = call.err \/ (err /\ grown)
           /\ Become([publisher EXCEPT !.err = err,
                        !.state = IF err THEN "exited" ELSE "waiting"])
      /\ Set("background", NoCall)
      /\ UNCHANGED <<mainVars, storeVars, attemptVars, delta, live,
                     registryVars>>

\* The select: stop, a new plan, or the interval is over.
PublisherWaits ==
  /\ publisher.state = "waiting"
  /\ \/ publisher.stop /\ Become([publisher EXCEPT !.state = "exited"])
     \/ /\ publisher.full
        /\ Become([publisher EXCEPT !.state = "top", !.full = FALSE,
                     !.required = publisher.update, !.update = {}])
     \/ Become([publisher EXCEPT !.state = "top"])
  /\ UNCHANGED <<mainVars, storeVars, attemptVars, delta, calls, live,
                 registryVars>>

-----------------------------------------------------------------------------
(***************************************************************************)
(* execute with a dynamic plan: batch after batch.                         *)
(***************************************************************************)
Leave == pc' = "finish" /\ failure' = TRUE

\* update drops the plan that was not taken yet.
OfferPlan == Become([publisher EXCEPT !.full = FALSE, !.update = {}])

StartPublication ==
  /\ pc = "start"
  /\ \/ /\ batch > Len(Batches)
        /\ pc' = "finish" /\ UNCHANGED <<failure, publisher>>
     \/ /\ batch <= Len(Batches) /\ publisher.state = "none"
        /\ Become([NoPublisher EXCEPT !.state = "top", !.required = required])
        /\ pc' = "build" /\ UNCHANGED failure
     \/ /\ batch <= Len(Batches) /\ publisher.state = "exited"
        /\ IF publisher.err THEN Leave ELSE pc' = "build" /\ UNCHANGED failure
        /\ UNCHANGED publisher
     \/ /\ batch <= Len(Batches) /\ publisher.state \notin {"none", "exited"}
        /\ OfferPlan
        /\ pc' = "send" /\ UNCHANGED failure
  /\ UNCHANGED <<batch, exit, result, storeVars, attemptVars, delta, calls,
                 live, registryVars>>

\* The slot of the channel is free, or this blocks.
SendPlan ==
  /\ pc = "send" /\ ~publisher.full
  /\ Become([publisher EXCEPT !.full = TRUE, !.update = required])
  /\ pc' = "build"
  /\ UNCHANGED <<batch, exit, failure, result, storeVars, attemptVars, delta,
                 calls, live, registryVars>>

\* One nix build of the batch's missing outputs; some may fail.
BuildBatch ==
  LET missing == { o \in Batches[batch] : o \notin required \cap parent } IN
  /\ pc = "build"
  /\ \/ \E B \in SUBSET missing :
          /\ local' = local \cup B
          /\ exit' = (exit \/ B # missing)
          /\ pc' = "resolve" /\ UNCHANGED failure
     \/ Leave /\ UNCHANGED <<local, exit>>
  /\ UNCHANGED <<batch, result, deleted, required, attemptVars, delta,
                 publisher, calls, live, registryVars>>

\* graph.Resolve: paths of what has been built; what nix does not tell stays
\* unknown.
Resolving == \E S \in SUBSET local : required' = required \cup S

ResolveBatch ==
  /\ pc = "resolve"
  /\ Resolving
  /\ \/ pc' = "disk" /\ UNCHANGED failure
     \/ Leave
  /\ UNCHANGED <<batch, exit, result, local, deleted, attemptVars, delta,
                 publisher, calls, live, registryVars>>

-----------------------------------------------------------------------------
(***************************************************************************)
(* reclaimIfNeeded, after a batch and in every refresh of the pool.        *)
(***************************************************************************)
\* On to the next batch, the next refresh or the end.
Proceed ==
  CASE pool = "none" -> pc' = "start" /\ batch' = batch + 1
    [] pool = "building" -> pc' = "pool" /\ UNCHANGED batch
    [] pool = "ended" -> pc' = "finish" /\ UNCHANGED batch

\* The pool reports every failure of a refresh as a failed publication.
GiveUp ==
  /\ Leave
  /\ live' = [live EXCEPT !.failed = @ \/ pool # "none"]

CheckDisk ==
  /\ pc = "disk"
  /\ \/ Proceed /\ UNCHANGED <<failure, publisher, live>>
     \/ GiveUp /\ UNCHANGED <<batch, publisher>>
     \/ /\ pc' = "wait"
        /\ Become([publisher EXCEPT !.stop = TRUE])
        /\ UNCHANGED <<batch, failure, live>>
  /\ UNCHANGED <<exit, result, storeVars, attemptVars, delta, calls,
                 registryVars>>

\* Mutant of Joined: stopping the publisher is taken for its end.
JoinedWhenStopped == publisher.state = "none" \/ publisher.stop

\* cachePublisher.close has returned.
Joined == publisher.state \in {"none", "exited"}

\* Mutant of PublishBeforeReclaim: not forced.
PublishBeforeReclaimLazily ==
  /\ pc = "wait" /\ Joined
  /\ publisher' = NoPublisher
  /\ IF publisher.err
     THEN GiveUp /\ UNCHANGED calls
     ELSE /\ Set("main", Entering(required, FALSE))
          /\ pc' = "published" /\ UNCHANGED <<failure, live>>
  /\ UNCHANGED <<batch, exit, result, storeVars, attemptVars, delta,
                 registryVars>>

PublishBeforeReclaim ==
  /\ pc = "wait" /\ Joined
  /\ publisher' = NoPublisher
  /\ IF publisher.err
     THEN GiveUp /\ UNCHANGED calls
     ELSE /\ Set("main", Entering(required, TRUE))
          /\ pc' = "published" /\ UNCHANGED <<failure, live>>
  /\ UNCHANGED <<batch, exit, result, storeVars, attemptVars, delta,
                 registryVars>>

PublishedBeforeReclaim ==
  /\ pc = "published" /\ At("main", "return")
  /\ Set("main", NoCall)
  /\ IF calls["main"].err
     THEN GiveUp
     ELSE \/ pc' = "reclaim" /\ UNCHANGED <<failure, live>>
          \/ GiveUp
  /\ UNCHANGED <<batch, exit, result, storeVars, attemptVars, delta,
                 publisher, registryVars>>

\* What the parent or the delta covers may be deleted; nix keeps what is in
\* use. Too little may come free.
Reclaim ==
  /\ pc = "reclaim"
  /\ \E D \in SUBSET (local \cap (parent \cup delta)) :
       local' = local \ D /\ deleted' = deleted \cup D
  /\ \/ Proceed /\ UNCHANGED <<failure, live>>
     \/ GiveUp /\ UNCHANGED batch
  /\ UNCHANGED <<exit, result, required, attemptVars, delta, publisher, calls,
                 registryVars>>

-----------------------------------------------------------------------------
(***************************************************************************)
(* execute with a static plan: the pool builds, and refreshes one at a     *)
(* time; see Scheduler for when.                                           *)
(***************************************************************************)
Reclaiming == {"disk", "wait", "published", "reclaim"}

PoolBuilds ==
  /\ pool = "building" /\ pc \in {"pool", "refresh"} \cup Reclaiming
  /\ \E o \in Outputs \ (parent \cup local \cup deleted) :
       local' = local \cup {o}
  /\ UNCHANGED <<mainVars, deleted, required, attemptVars, delta, publisher,
                 calls, live, registryVars>>

PoolRefresh ==
  /\ pc = "pool" /\ pool = "building"
  /\ Set("main", Entering(required, FALSE)) /\ pc' = "refresh"
  /\ UNCHANGED <<batch, exit, failure, result, storeVars, attemptVars, delta,
                 publisher, live, registryVars>>

\* schedule has returned; the last refresh is forced.
PoolEnds ==
  /\ pc = "pool" /\ pool = "building"
  /\ pool' = "ended"
  /\ failure' \in {TRUE} \cup
       {f \in {FALSE} : Outputs \subseteq parent \cup local \cup deleted}
  /\ Set("main", Entering(required, TRUE)) /\ pc' = "refresh"
  /\ UNCHANGED <<batch, exit, result, storeVars, attempt, parent, collected, delta,
                 publisher, live, registryVars>>

PoolRefreshed ==
  /\ pc = "refresh" /\ At("main", "return")
  /\ Set("main", NoCall)
  /\ \/ ~calls["main"].err /\ pc' = "disk" /\ UNCHANGED <<failure, live>>
     \/ GiveUp
  /\ UNCHANGED <<batch, exit, result, storeVars, attemptVars, delta,
                 publisher, registryVars>>

-----------------------------------------------------------------------------
(***************************************************************************)
(* The end of execute: join the publisher, collect and publish what there  *)
(* is, and record the result.                                              *)
(***************************************************************************)
\* Mutant of Finish: the publisher is waited for but not stopped.
FinishUnstopped ==
  /\ pc = "finish" /\ pc' = "join"
  /\ UNCHANGED <<batch, exit, failure, result, storeVars, attemptVars, delta,
                 publisher, calls, live, registryVars>>

Finish ==
  /\ pc = "finish"
  /\ pc' = "join" /\ Become([publisher EXCEPT !.stop = TRUE])
  /\ UNCHANGED <<batch, exit, failure, result, storeVars, attemptVars, delta,
                 calls, live, registryVars>>

\* Mutant of FinalPublication: after a failure nothing more is collected.
FinalPublicationAfterSuccess ==
  /\ pc = "join" /\ Joined
  /\ publisher' = NoPublisher
  /\ Resolving
  /\ failure' \in {TRUE, failure \/ publisher.err}
  /\ Set("main", [Entering(required', TRUE) EXCEPT
                    !.step = IF failure' THEN "flush" ELSE "select"])
  /\ pc' = "final"
  /\ UNCHANGED <<batch, exit, result, local, deleted, attemptVars, delta,
                 live, registryVars>>

FinalPublication ==
  /\ pc = "join" /\ Joined
  /\ publisher' = NoPublisher
  /\ Resolving
  /\ failure' \in {TRUE, failure \/ publisher.err}
  /\ Set("main", Entering(required', TRUE)) /\ pc' = "final"
  /\ UNCHANGED <<batch, exit, result, local, deleted, attemptVars, delta,
                 live, registryVars>>

\* Mutant of Complete: only the exit code of the builds counts.
CompleteByExit(failed) == ~exit

Complete(failed) ==
  /\ ~failed /\ ~exit
  /\ Outputs \subseteq required /\ required \subseteq parent \cup delta

\* Saving the evaluation may fail; then the record is published, unless a
\* publication failed before or the union with the parent is refused.
RecordResult ==
  LET failed == failure \/ calls["main"].err IN
  /\ pc = "final" /\ At("main", "return")
  /\ failure' \in {failed, TRUE}
  /\ collected' = ~calls["main"].err
  /\ \/ Return("main", TRUE)
     \/ /\ ~live.failed
        /\ Set("main", [Entering(required, TRUE) EXCEPT
                          !.step = "tag",
                          !.status = IF Complete(failure') THEN "success"
                                                           ELSE "failure"])
  /\ pc' = "terminal"
  /\ UNCHANGED <<batch, exit, result, storeVars, attempt, pool, parent, delta,
                 publisher, live, registryVars>>

ReturnResult ==
  /\ pc = "terminal" /\ At("main", "return")
  /\ Set("main", NoCall)
  /\ pc' = "returned"
  /\ result' = IF calls["main"].err THEN "error" ELSE calls["main"].status
  /\ UNCHANGED <<batch, exit, failure, storeVars, attemptVars, delta,
                 publisher, live, registryVars>>

-----------------------------------------------------------------------------
Main ==
  \/ StartPublication \/ SendPlan \/ BuildBatch \/ ResolveBatch
  \/ CheckDisk \/ PublishBeforeReclaim \/ PublishedBeforeReclaim \/ Reclaim
  \/ PoolRefresh \/ PoolEnds \/ PoolRefreshed
  \/ Finish \/ FinalPublication \/ RecordResult \/ ReturnResult
  \/ Publication("main")

Background ==
  \/ PublisherTop \/ PublisherPublished \/ PublisherWaits
  \/ Publication("background")

Returned == pc = "returned" /\ UNCHANGED vars

Next == Main \/ Background \/ PoolBuilds \/ Restart \/ Returned

Spec == Init /\ [][Next]_vars

(***************************************************************************)
(* Both goroutines run, the commands and requests they wait for end, and   *)
(* so does the pool (Terminates of Scheduler). Nothing makes a job die.    *)
(***************************************************************************)
Fairness == WF_vars(Main) /\ WF_vars(Background) /\ SF_vars(PoolEnds)

FairSpec == Spec /\ Fairness

-----------------------------------------------------------------------------
(***************************************************************************)
(* Properties.                                                             *)
(***************************************************************************)
Content ==
  [paths : SUBSET Outputs,
   results : SUBSET ((1..MaxAttempts) \X {"success", "failure"})]

Call ==
  [step : {"select", "upload", "flush", "tag", "head", "return"},
   required : SUBSET Outputs, force : BOOLEAN, err : BOOLEAN,
   selected : SUBSET Outputs, before : 0..Cardinality(Outputs),
   status : {"none", "success", "failure"}]

\* The types of execute's variables, the publisher, the calls and the tags.
TypeOK ==
  /\ pc \in {"start", "send", "build", "resolve", "disk", "wait", "published",
              "reclaim", "pool", "refresh", "finish", "join", "final",
              "terminal", "returned"}
  /\ attempt \in 1..MaxAttempts /\ batch \in 1..(Len(Batches) + 1)
  /\ pool \in {"none", "building", "ended"}
  /\ { parent, local, deleted, required, delta } \subseteq SUBSET Outputs
  /\ exit \in BOOLEAN /\ failure \in BOOLEAN /\ collected \in BOOLEAN
  /\ result \in {"none", "success", "failure", "error"}
  /\ publisher \in
       [state : {"none", "top", "publishing", "waiting", "exited"},
        stop : BOOLEAN, err : BOOLEAN, required : SUBSET Outputs,
        full : BOOLEAN, update : SUBSET Outputs]
  /\ calls \in [Callers -> Call \cup {NoCall}]
  /\ live \in [content : Content, published : Nat, failed : BOOLEAN,
               dirty : BOOLEAN]
  /\ DOMAIN generations \subseteq (1..MaxAttempts) \X Nat
  /\ \A g \in DOMAIN generations : generations[g] \in Content
  /\ head \in Content

\* Delta and the livePublisher have no lock: execute is in a publication, or
\* reads the delta to reclaim, only while no publisher goroutine exists ("Only
\* the publisher touches delta until waitPublication returns").
SingleOwner ==
  calls["main"] # NoCall \/ pc = "reclaim" =>
    publisher = NoPublisher /\ calls["background"] = NoCall

\* Nothing is deleted from the disk that is not behind the platform tag ("Disk
\* reclamation requires a forced flush"): a job that dies at once loses nothing
\* that it deleted.
ReclaimedDurable == deleted \subseteq head.paths

\* "Historical tags keep every published generation available": no tag is ever
\* put twice, by this attempt after a failure or by a later one, and the head
\* only moves to a manifest that has a generation's tag.
GenerationsKept ==
  [][ /\ \A g \in DOMAIN generations :
           g \in DOMAIN generations' /\ generations'[g] = generations[g]
      /\ head' # head =>
           \E g \in DOMAIN generations : head' = generations[g] ]_vars

\* What the head covers, and the results of earlier attempts it holds, is
\* covered by every later head, also across a killed job and a failed or
\* doubtful publication.
HeadGrows ==
  [][ head.paths \subseteq head'.paths
        /\ head.results \subseteq head'.results ]_vars

\* A result record behind the head that says success is one of an attempt
\* whose every output is behind the same head.
TruthfulRecord ==
  \A r \in head.results : r[2] = "success" => Outputs \subseteq head.paths

\* execute returns without an error only when the head holds its record and
\* everything it collected; and unless the final collection failed that is
\* everything built whose path is known, so a failed build still saves its
\* finished work.
NothingUnpublished ==
  result \in {"success", "failure"} =>
    /\ delta \subseteq head.paths /\ <<attempt, result>> \in head.results
    /\ collected => required \cap local \subseteq head.paths

\* execute returns, whatever publications fail: neither joining the publisher
\* nor handing it a plan blocks forever.
Terminates == <>(pc = "returned")
=============================================================================
