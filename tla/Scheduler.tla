----------------------------- MODULE Scheduler ------------------------------
(***************************************************************************)
(* BuildPool.build and BuildPool.schedule: one goroutine, the coordinator  *)
(* loop, assigns derivations to the coordinator's own runner (0) and to    *)
(* the helpers (1..HelperCount); one goroutine per assignment executes it, *)
(* publishes its result under the publication lock and reports on the      *)
(* channel `done'; a periodic goroutine refreshes the cache under the same *)
(* lock. The helpers are seen only through the status records the pool's   *)
(* readers store.                                                          *)
(*                                                                         *)
(* Left out: what a build computes, log lines, warm-store locality and the *)
(* name order, which only break ties between equally urgent derivations    *)
(* (the choice among those is left open).                                  *)
(***************************************************************************)
EXTENDS Integers, FiniteSets, Sequences, Scheduling

CONSTANTS
  HelperCount,   \* RunnersPerSystem - 1
  Instances,     \* incarnations of a helper process, in the order they start
  Graph,         \* Graph[d]: InputDrvs of every derivation of the plan
  Drvs,          \* the scheduled derivations: `specs', from `missing'
  Compatible     \* Compatible[h]: derivations helper h's features accept

Helpers == 1..HelperCount
Runners == 0..HelperCount
Limit == 2       \* one build and one publication per runner

Deps == [d \in Drvs |-> PoolDependencies(Graph, Drvs, d)]
Priority == PoolPriorities(Deps)
Capacity == 2 * (HelperCount + 1)

ASSUME SchedulerAssumption ==
  /\ HelperCount \in Nat
  /\ Instances \subseteq Nat \ {0}
  /\ Drvs \subseteq DOMAIN Graph
  /\ Compatible \in [Helpers -> SUBSET Drvs]

\* build's call of Batches has rejected any other plan.
ASSUME AcyclicPlan ==
  \A S \in SUBSET Drvs : S # {} => \E d \in S : Deps[d] \cap S = {}

None == "none"
NoInstance == 0
NoFinish == <<>>

VARIABLES
  pc,          \* where the coordinator loop is
  turn,        \* the runner the assignment loop considers next
  state,       \* "unassigned" (the empty string) | "running" | "done" | "failed"
  allocated,   \* the runner compiles (or has not yet said it no longer does)
  pending,     \* assignments of the runner whose completion is not received
  retryLocal,  \* derivations a helper failed on
  retired,     \* runners that get no more work
  sequences,   \* last assignment number per runner
  instances,   \* registered incarnation per helper
  finish,      \* p.finish: the last assignment number of each runner, once known
  stop,        \* p.stop
  overdue,     \* the startup deadline has passed
  failure,     \* a build failed on the coordinator
  result,      \* what schedule, then build, returns
  done,        \* the channel of completions
  tasks,       \* live assignment goroutines
  status,      \* p.statuses: the newest status record seen from each helper
  mutex,       \* the publication lock: "free" | "task" | "periodic"
  selected,    \* outputs the refresh in progress found in the local store
  local,       \* outputs in the coordinator's store
  view,        \* outputs in the published view assignments take inputs from
  cause,       \* the cancellation cause of build's context
  periodic     \* the periodic refresher: "idle" | "refreshing" | "exited"

loopVars == <<turn, state, allocated, pending, retryLocal, retired, sequences,
              instances, finish, stop, failure, result>>
helperVars == <<status, overdue>>
publicationVars == <<mutex, selected, local, view, cause, periodic>>
vars == <<pc, loopVars, helperVars, done, tasks, publicationVars>>

Idle == {"ready", "done", "failed"}
NoStatus ==
  [fresh |-> FALSE, instance |-> NoInstance, sequence |-> 0, state |-> "ready"]

Init ==
  /\ pc = "start" /\ turn = 0
  /\ state = [d \in Drvs |-> "unassigned"]
  /\ allocated = [r \in Runners |-> FALSE]
  /\ pending = [r \in Runners |-> 0]
  /\ retryLocal = {} /\ retired = {}
  /\ sequences = [r \in Runners |-> 0]
  /\ instances = [h \in Helpers |-> NoInstance]
  /\ finish = NoFinish /\ stop = FALSE
  /\ overdue = FALSE /\ failure = FALSE
  /\ result = None
  /\ done = <<>> /\ tasks = {}
  /\ status = [h \in Helpers |-> NoStatus]
  /\ mutex = "free" /\ selected = {}
  /\ local = {} /\ view = {}
  /\ cause = None /\ periodic = "idle"

(***************************************************************************)
(* Contexts: build's is cancelled by a failed publication and when         *)
(* schedule has returned; schedule's own is derived from it and cancelled  *)
(* as soon as schedule is about to return.                                 *)
(***************************************************************************)
BuildCancelled == cause # None \/ pc \in {"flush", "returned"}
Cancelled == BuildCancelled \/ pc = "join"

-----------------------------------------------------------------------------
(***************************************************************************)
(* The coordinator loop.                                                   *)
(***************************************************************************)

\* build's first refresh, before anything runs.
FirstRefresh ==
  /\ pc = "start"
  /\ \/ /\ pc' = "loop" /\ UNCHANGED result
     \/ /\ pc' = "returned" /\ result' = "publication"
  /\ UNCHANGED <<turn, state, allocated, pending, retryLocal, retired,
                 sequences, instances, finish, stop, failure, helperVars,
                 done, tasks, publicationVars>>

LeaveSchedule(error) ==
  /\ pc' = "join" /\ result' = error

\* Mutant of Abandoned: everything unassigned is given up after a failure.
AbandonedAll(S) ==
  S = { d \in Drvs : state[d] = "unassigned" /\ \E e \in Drvs : state[e] = "failed" }

\* All that is not yet decided and depends on something failed or given up.
Abandoned(S) ==
  /\ \A d \in S : state[d] = "unassigned"
  /\ \A d \in Drvs : state[d] = "unassigned" =>
       (d \in S <=> \E e \in Deps[d] : state[e] = "failed" \/ e \in S)

\* The head of an iteration: return when cancelled; propagate failures, so that
\* independent branches still finish.
BeginIteration ==
  /\ pc = "loop"
  /\ IF Cancelled
     THEN LeaveSchedule("cancelled") /\ UNCHANGED <<turn, state>>
     ELSE /\ \E S \in SUBSET Drvs :
               /\ Abandoned(S)
               /\ state' = [d \in Drvs |-> IF d \in S THEN "failed" ELSE state[d]]
          /\ pc' = "assign" /\ turn' = 0
          /\ UNCHANGED result
  /\ UNCHANGED <<allocated, pending, retryLocal, retired, sequences, instances,
                 finish, stop, failure, helperVars, done, tasks,
                 publicationVars>>

\* Mutants of Ready: an assigned derivation is ready again; a dependency need
\* only have been started.
ReadyAgain(d) == \A e \in Deps[d] : state[e] = "done"
ReadyEarly(d) ==
  /\ state[d] = "unassigned"
  /\ \A e \in Deps[d] : state[e] \in {"running", "done"}

Ready(d) == state[d] = "unassigned" /\ \A e \in Deps[d] : state[e] = "done"

KnownInstance(h) == instances[h] \in {NoInstance, status[h].instance}

\* Some live helper could still take d.
Delegatable(d) ==
  /\ d \notin retryLocal
  /\ \E h \in Helpers : /\ h \notin retired
                        /\ status[h].fresh /\ KnownInstance(h)
                        /\ d \in Compatible[h]

Candidates(r) ==
  { d \in Drvs :
      Ready(d) /\ (r > 0 => d \notin retryLocal /\ d \in Compatible[r]) }

\* The coordinator first takes what no helper can; then urgency decides.
Preferred(r) ==
  LET stranded == { d \in Candidates(r) : r = 0 /\ ~Delegatable(d) }
      choice   == IF stranded # {} THEN stranded ELSE Candidates(r)
  IN  { d \in choice : \A e \in choice : Priority[e] <= Priority[d] }

\* Mutant of Available: one publication too many may be outstanding.
AvailableBeyondLimit(r) ==
  /\ ~allocated[r] /\ pending[r] <= Limit /\ r \notin retired
  /\ r > 0 => finish = NoFinish

\* The runner can be given work as far as the loop's own books go.
Available(r) ==
  /\ ~allocated[r] /\ pending[r] < Limit /\ r \notin retired
  /\ r > 0 => finish = NoFinish

\* A helper that never registered in time, whose lease ended, or that is not
\* the incarnation registered before gets no more work.
Lost(h) == IF status[h].fresh THEN ~KnownInstance(h) ELSE overdue

Accepting(r) ==
  r > 0 => status[r].fresh /\ KnownInstance(r) /\ status[r].state \in Idle

NextTurn ==
  IF turn = HelperCount THEN pc' = "settle" /\ turn' = 0
                        ELSE pc' = pc /\ turn' = turn + 1

RetireTurn(r) ==
  /\ pc = "assign" /\ turn = r /\ r > 0
  /\ Available(r) /\ Lost(r)
  /\ retired' = retired \cup {r}
  /\ NextTurn
  /\ UNCHANGED <<state, allocated, pending, retryLocal, sequences, instances,
                 finish, stop, failure, result, helperVars, done, tasks,
                 publicationVars>>

SkipTurn(r) ==
  /\ pc = "assign" /\ turn = r
  /\ \/ ~Available(r)
     \/ r > 0 /\ ~Accepting(r) /\ ~Lost(r)
  /\ NextTurn
  /\ UNCHANGED <<state, allocated, pending, retryLocal, retired, sequences,
                 instances, finish, stop, failure, result, helperVars, done,
                 tasks, publicationVars>>

Register(r) ==
  instances' = IF r = 0 THEN instances
               ELSE [instances EXCEPT ![r] = status[r].instance]

\* Nothing suits the runner now; a helper is registered all the same.
NothingForTurn(r) ==
  /\ pc = "assign" /\ turn = r
  /\ Available(r) /\ Accepting(r)
  /\ Candidates(r) = {}
  /\ Register(r) /\ NextTurn
  /\ UNCHANGED <<state, allocated, pending, retryLocal, retired, sequences,
                 finish, stop, failure, result, helperVars, done, tasks,
                 publicationVars>>

\* A live goroutine of schedule: `err' is what execute has returned so far,
\* `omitted' the dependencies its input snapshot was taken without.
Task(r, n, d, i) ==
  [runner |-> r, sequence |-> n, drv |-> d, instance |-> i,
   stage |-> "begin", err |-> None, omitted |-> {}]

Assign(r, d) ==
  /\ pc = "assign" /\ turn = r
  /\ Available(r) /\ Accepting(r)
  /\ d \in Preferred(r)
  /\ Register(r) /\ NextTurn
  /\ allocated' = [allocated EXCEPT ![r] = TRUE]
  /\ pending' = [pending EXCEPT ![r] = @ + 1]
  /\ state' = [state EXCEPT ![d] = "running"]
  /\ sequences' = [sequences EXCEPT ![r] = @ + 1]
  /\ tasks' = tasks \cup
       { Task(r, sequences[r] + 1, d,
              IF r = 0 THEN NoInstance ELSE status[r].instance) }
  /\ UNCHANGED <<retryLocal, retired, finish, stop, failure, result,
                 helperVars, done, publicationVars>>

Unassigned == \E d \in Drvs : state[d] = "unassigned"
Active == \E d \in Drvs : state[d] = "running"

\* Mutant of Settle: announce the last assignments that are finished.
SettleFinished ==
  /\ pc = "settle"
  /\ finish' = IF ~Unassigned /\ finish = NoFinish
               THEN [r \in Runners |-> sequences[r] - pending[r]] ELSE finish
  /\ pc' = "select"
  /\ UNCHANGED <<turn, state, allocated, pending, retryLocal, retired,
                 sequences, instances, failure, stop, result, helperVars,
                 done, tasks, publicationVars>>

\* After the assignments: announce the last ones, and return when all is over.
Settle ==
  /\ pc = "settle"
  /\ finish' = IF ~Unassigned /\ finish = NoFinish THEN sequences ELSE finish
  /\ IF Active \/ Unassigned
     THEN pc' = "select" /\ UNCHANGED <<stop, result>>
     ELSE /\ stop' = TRUE
          /\ LeaveSchedule(IF failure THEN "failed" ELSE "built")
  /\ UNCHANGED <<turn, state, allocated, pending, retryLocal, retired,
                 sequences, instances, failure, helperVars, done, tasks,
                 publicationVars>>

\* The select of the loop: a tick, cancellation, or a completion.
Tick ==
  /\ pc = "select" /\ pc' = "loop"
  /\ UNCHANGED <<loopVars, helperVars, done, tasks, publicationVars>>

SelectCancelled ==
  /\ pc = "select" /\ Cancelled
  /\ LeaveSchedule("cancelled")
  /\ UNCHANGED <<turn, state, allocated, pending, retryLocal, retired,
                 sequences, instances, finish, stop, failure, helperVars,
                 done, tasks, publicationVars>>

\* Mutant of Deallocate: any completion frees the runner.
DeallocateAlways(e) == allocated' = [allocated EXCEPT ![e.runner] = FALSE]

\* A completion of an older assignment does not free a runner that is already
\* compiling the next one.
Deallocate(e) ==
  allocated' = IF e.sequence = sequences[e.runner]
               THEN [allocated EXCEPT ![e.runner] = FALSE] ELSE allocated

\* The runner has compiled its task; the result still has to be published.
ReceiveReleased ==
  /\ pc = "select" /\ done # <<>> /\ Head(done).released
  /\ Deallocate(Head(done))
  /\ done' = Tail(done) /\ pc' = "loop"
  /\ UNCHANGED <<turn, state, pending, retryLocal, retired, sequences,
                 instances, finish, stop, failure, result, helperVars, tasks,
                 publicationVars>>

\* A failed publication ends the build, a failed helper is retired and its
\* derivation goes to the coordinator, a failed local build fails for good.
ReceiveCompletion ==
  LET e == Head(done) IN
  /\ pc = "select" /\ done # <<>> /\ ~e.released
  /\ Deallocate(e)
  /\ done' = Tail(done)
  /\ pending' = [pending EXCEPT ![e.runner] = @ - 1]
  /\ IF e.err = "publication"
     THEN /\ LeaveSchedule("publication")
          /\ UNCHANGED <<state, retired, retryLocal, failure>>
     ELSE /\ pc' = "loop" /\ UNCHANGED result
          /\ CASE e.err = None ->
                    /\ state' = [state EXCEPT ![e.drv] = "done"]
                    /\ UNCHANGED <<retired, retryLocal, failure>>
               [] e.err # None /\ e.runner > 0 ->
                    /\ state' = [state EXCEPT ![e.drv] = "unassigned"]
                    /\ retired' = retired \cup {e.runner}
                    /\ retryLocal' = retryLocal \cup {e.drv}
                    /\ UNCHANGED failure
               [] OTHER ->
                    /\ state' = [state EXCEPT ![e.drv] = "failed"]
                    /\ failure' = TRUE
                    /\ UNCHANGED <<retired, retryLocal>>
  /\ UNCHANGED <<turn, sequences, instances, finish, stop, helperVars, tasks,
                 publicationVars>>

\* schedule's deferred cancel and group.Wait.
Join ==
  /\ pc = "join" /\ tasks = {}
  /\ pc' = "flush"
  /\ UNCHANGED <<loopVars, helperVars, done, tasks, publicationVars>>

\* Mutant of PublicationFailed: only what schedule returns counts.
PublicationFailedInSchedule == result = "publication"

PublicationFailed == cause # None \/ result = "publication"

\* build after schedule: join the periodic refresher, report a publication
\* that failed, else flush every result, those of a failed build included.
Flush ==
  /\ pc = "flush" /\ periodic = "exited"
  /\ pc' = "returned"
  /\ IF PublicationFailed
     THEN result' = "publication" /\ UNCHANGED view
     ELSE \/ view' = view \cup local /\ UNCHANGED result
          \/ result' = "publication" /\ UNCHANGED view
  /\ UNCHANGED <<turn, state, allocated, pending, retryLocal, retired,
                 sequences, instances, finish, stop, failure, helperVars,
                 done, tasks, mutex, selected, local, cause, periodic>>

-----------------------------------------------------------------------------
(***************************************************************************)
(* The goroutine of one assignment: execute, release, then the             *)
(* publication under the lock, then the completion.                        *)
(***************************************************************************)

Become(t, u) == tasks' = (tasks \ {t}) \cup {u}

At(t, stage) == t \in tasks /\ t.stage = stage
To(t, stage, err) == Become(t, [t EXCEPT !.stage = stage, !.err = err])

\* execute finds the context cancelled, or the command it runs is killed.
ExecuteCancelled(t) ==
  /\ t \in tasks /\ t.stage \in {"begin", "remote"} /\ Cancelled
  /\ To(t, "lock", "cancelled")
  /\ UNCHANGED <<pc, loopVars, helperVars, done, publicationVars>>

\* The coordinator's own build.
BuildLocally(t) ==
  /\ At(t, "begin") /\ t.runner = 0 /\ ~Cancelled
  /\ \/ /\ local' = local \cup {t.drv}
        /\ To(t, "release", None)
     \/ To(t, "lock", "build") /\ UNCHANGED local
  /\ UNCHANGED <<pc, loopVars, helperVars, done, mutex, selected, view, cause,
                 periodic>>

\* A helper's inputs: the part of the current view the derivation needs. A
\* dependency that is not in the view is left out without an error.
PublishInputs(t) ==
  /\ At(t, "begin") /\ t.runner > 0 /\ ~Cancelled
  /\ \/ /\ Become(t, [t EXCEPT !.stage = "remote", !.omitted = Deps[t.drv] \ view])
        /\ UNCHANGED cause
     \/ /\ To(t, "send", "publication")
        /\ cause' = "publication"
  /\ UNCHANGED <<pc, loopVars, helperVars, done, mutex, selected, local, view,
                 periodic>>

\* remoteTask's checks of the status it polls.
SameHelper(t) ==
  status[t.runner].fresh /\ status[t.runner].instance = t.instance

Reports(t, what) ==
  SameHelper(t) /\ status[t.runner].sequence = t.sequence
                /\ status[t.runner].state = what

RemoteSucceeds(t) ==
  /\ At(t, "remote") /\ Reports(t, "done")
  /\ local' = local \cup {t.drv}
  /\ To(t, "release", None)
  /\ UNCHANGED <<pc, loopVars, helperVars, done, mutex, selected, view, cause,
                 periodic>>

\* Mutant of RemoteFails: an assignment that is never acknowledged is waited for.
RemoteFailsWhenLost(t) ==
  /\ At(t, "remote")
  /\ ~SameHelper(t) \/ Reports(t, "failed")
  /\ To(t, "lock", "build")
  /\ UNCHANGED <<pc, loopVars, helperVars, done, publicationVars>>

\* Anything but a helper that is busy with this assignment can end in an error:
\* a lost lease or instance, a failed task, no acknowledgement, a bad result.
RemoteFails(t) ==
  /\ At(t, "remote") /\ ~Reports(t, "busy")
  /\ To(t, "lock", "build")
  /\ UNCHANGED <<pc, loopVars, helperVars, done, publicationVars>>

\* send: blocked while the channel is full, given up once cancelled.
Send(e) ==
  \/ Len(done) < Capacity /\ done' = Append(done, e)
  \/ Cancelled /\ UNCHANGED done

Event(t, released) ==
  [runner |-> t.runner, sequence |-> t.sequence, drv |-> t.drv,
   released |-> released, err |-> t.err]

Release(t) ==
  /\ At(t, "release")
  /\ Send(Event(t, TRUE))
  /\ To(t, "lock", t.err)
  /\ UNCHANGED <<pc, loopVars, helperVars, publicationVars>>

\* Take the publication lock; a refresh starts by listing the local store.
Lock(t) ==
  /\ At(t, "lock") /\ mutex = "free"
  /\ IF Cancelled
     THEN To(t, "send", "cancelled") /\ UNCHANGED <<mutex, selected>>
     ELSE To(t, "publish", t.err) /\ mutex' = "task" /\ selected' = local
  /\ UNCHANGED <<pc, loopVars, helperVars, done, local, view, cause, periodic>>

Publish(t) ==
  /\ At(t, "publish")
  /\ mutex' = "free" /\ selected' = {}
  /\ \/ /\ view' = view \cup selected
        /\ To(t, "send", t.err)
        /\ UNCHANGED cause
     \/ /\ cause' = "publication"
        /\ To(t, "send", "publication")
        /\ UNCHANGED view
  /\ UNCHANGED <<pc, loopVars, helperVars, done, local, periodic>>

\* Mutant of Complete: after a cancellation a goroutine whose completion finds the
\* channel full starts over instead of ending.
CompleteAgain(t) ==
  /\ At(t, "send")
  /\ \/ /\ Len(done) < Capacity /\ done' = Append(done, Event(t, FALSE))
        /\ tasks' = tasks \ {t}
     \/ /\ Cancelled /\ Len(done) = Capacity
        /\ To(t, "lock", t.err) /\ UNCHANGED done
  /\ UNCHANGED <<pc, loopVars, helperVars, publicationVars>>

Complete(t) ==
  /\ At(t, "send")
  /\ Send(Event(t, FALSE))
  /\ tasks' = tasks \ {t}
  /\ UNCHANGED <<pc, loopVars, helperVars, publicationVars>>

-----------------------------------------------------------------------------
(***************************************************************************)
(* The periodic refresher of build.                                        *)
(***************************************************************************)
Running == pc \notin {"start", "returned"}

PeriodicStart ==
  /\ Running /\ periodic = "idle" /\ mutex = "free" /\ ~BuildCancelled
  /\ periodic' = "refreshing" /\ mutex' = "periodic" /\ selected' = local
  /\ UNCHANGED <<pc, loopVars, helperVars, done, tasks, local, view, cause>>

PeriodicEnd ==
  /\ periodic = "refreshing"
  /\ mutex' = "free" /\ selected' = {}
  /\ \/ view' = view \cup selected /\ UNCHANGED cause
     \/ /\ cause' = IF BuildCancelled THEN cause ELSE "publication"
        /\ UNCHANGED view
  /\ periodic' = "idle"
  /\ UNCHANGED <<pc, loopVars, helperVars, done, tasks, local>>

PeriodicExit ==
  /\ Running /\ periodic = "idle" /\ BuildCancelled
  /\ periodic' = "exited"
  /\ UNCHANGED <<pc, loopVars, helperVars, done, tasks, mutex, selected, local,
                 view, cause>>

-----------------------------------------------------------------------------
(***************************************************************************)
(* The status readers: what the coordinator sees of a helper. A retired    *)
(* helper is not looked at again, so it stops here.                        *)
(***************************************************************************)
Watched(h) == Running /\ h \notin retired

See(h, s) ==
  /\ status' = [status EXCEPT ![h] = s]
  /\ UNCHANGED <<pc, loopVars, overdue, done, tasks, publicationVars>>

\* The first record of an incarnation: a new helper, or one that replaced it. An
\* earlier record never replaces a later one (read keeps the newest `Sent').
SeeReady(h, i) ==
  /\ Watched(h) /\ status[h].instance < i
  /\ See(h, [fresh |-> TRUE, instance |-> i, sequence |-> 0, state |-> "ready"])

\* The helper took the assignment it was sent.
SeeBusy(h) ==
  /\ Watched(h)
  /\ \E t \in tasks :
       /\ At(t, "remote") /\ t.runner = h /\ SameHelper(t)
       /\ t.sequence > status[h].sequence
       /\ See(h, [status[h] EXCEPT !.sequence = t.sequence, !.state = "busy"])

SeeResult(h) ==
  /\ Watched(h) /\ status[h].state = "busy"
  /\ \E s \in {"done", "failed"} :
       See(h, [status[h] EXCEPT !.fresh = TRUE, !.state = s])

Expire(h) ==
  /\ Watched(h) /\ status[h].fresh
  /\ See(h, [status[h] EXCEPT !.fresh = FALSE])

Renew(h) ==
  /\ Watched(h) /\ ~status[h].fresh /\ status[h].instance # NoInstance
  /\ See(h, [status[h] EXCEPT !.fresh = TRUE])

\* Time passes the startup deadline; it is looked at only for a helper whose
\* status is missing or stale.
StartupDeadline ==
  /\ Running /\ ~overdue
  /\ \E h \in Helpers : h \notin retired /\ ~status[h].fresh
  /\ overdue' = TRUE
  /\ UNCHANGED <<pc, loopVars, status, done, tasks, publicationVars>>

-----------------------------------------------------------------------------
Turn(r) ==
  \/ RetireTurn(r) \/ SkipTurn(r) \/ NothingForTurn(r)
  \/ \E d \in Drvs : Assign(r, d)

Loop ==
  \/ FirstRefresh \/ BeginIteration \/ Settle
  \/ \E r \in Runners : Turn(r)
  \/ SelectCancelled \/ Join \/ Flush

Receive == ReceiveReleased \/ ReceiveCompletion

Execute(t) ==
  \/ ExecuteCancelled(t) \/ BuildLocally(t) \/ PublishInputs(t)
  \/ RemoteSucceeds(t) \/ RemoteFails(t)
  \/ Release(t) \/ Publish(t) \/ Complete(t)

Helper(h) ==
  \/ SeeBusy(h) \/ SeeResult(h) \/ Expire(h) \/ Renew(h)
  \/ \E i \in Instances : SeeReady(h, i)

Returned == pc = "returned" /\ UNCHANGED vars

Next ==
  \/ Loop \/ Tick \/ Receive
  \/ \E t \in tasks : Execute(t) \/ Lock(t)
  \/ PeriodicStart \/ PeriodicEnd \/ PeriodicExit
  \/ \E h \in Helpers : Helper(h)
  \/ StartupDeadline
  \/ Returned

Spec == Init /\ [][Next]_vars

(***************************************************************************)
(* The loop and the goroutines run; a select with several ready cases      *)
(* takes each of them eventually; Go's mutex does not starve a waiter; a   *)
(* build that a live helper works on ends.                                 *)
(***************************************************************************)
Fairness ==
  /\ WF_vars(Loop) /\ WF_vars(Tick) /\ SF_vars(Receive)
  /\ WF_vars(\E t \in tasks : Execute(t))
  /\ SF_vars(\E t \in tasks : Lock(t))
  /\ WF_vars(PeriodicEnd) /\ WF_vars(PeriodicExit)
  /\ \A h \in Helpers : WF_vars(SeeResult(h))

FairSpec == Spec /\ Fairness

-----------------------------------------------------------------------------
(***************************************************************************)
(* Properties.                                                             *)
(***************************************************************************)
Stages == {"begin", "remote", "release", "lock", "publish", "send"}
Errors == {None, "build", "publication", "cancelled"}

TaskType ==
  [runner : Runners, sequence : Nat \ {0}, drv : Drvs,
   instance : Instances \cup {NoInstance}, stage : Stages, err : Errors,
   omitted : SUBSET Drvs]

EventType ==
  [runner : Runners, sequence : Nat \ {0}, drv : Drvs, released : BOOLEAN,
   err : Errors]

StatusType ==
  [fresh : BOOLEAN, instance : Instances \cup {NoInstance}, sequence : Nat,
   state : Idle \cup {"busy"}]

LoopType ==
  /\ turn \in Runners
  /\ state \in [Drvs -> {"unassigned", "running", "done", "failed"}]
  /\ allocated \in [Runners -> BOOLEAN]
  /\ pending \in [Runners -> Int]
  /\ retryLocal \subseteq Drvs /\ retired \subseteq Runners
  /\ sequences \in [Runners -> Nat]
  /\ instances \in [Helpers -> Instances \cup {NoInstance}]
  /\ finish \in {NoFinish} \cup [Runners -> Nat]
  /\ stop \in BOOLEAN /\ failure \in BOOLEAN
  /\ result \in {None, "built", "failed", "publication", "cancelled"}

HelperType == status \in [Helpers -> StatusType] /\ overdue \in BOOLEAN

PublicationType ==
  /\ mutex \in {"free", "task", "periodic"}
  /\ selected \subseteq Drvs /\ local \subseteq Drvs /\ view \subseteq Drvs
  /\ cause \in {None, "publication"}
  /\ periodic \in {"idle", "refreshing", "exited"}

\* The types of the loop's books, of the channel, the goroutines and the
\* publication state (var declarations of schedule and build).
TypeOK ==
  /\ pc \in {"start", "loop", "assign", "settle", "select",
              "join", "flush", "returned"}
  /\ LoopType /\ HelperType /\ PublicationType
  /\ done \in Seq(EventType) /\ tasks \subseteq TaskType

\* A helper's input snapshot never lacks a dependency: selectPaths leaves out
\* what is not published without an error, so an assignment made on a released
\* but unpublished dependency would fail on the helper, not here.
InputsPublished ==
  \A t \in tasks : t.stage = "remote" => Deps[t.drv] \subseteq view /\ t.omitted = {}

Unreleased(t) == t.stage \in {"begin", "remote", "release"}

\* A runner compiles one task at a time, the last it was assigned, and is not
\* handed another while it does: a late completion of the task before must not
\* free it (the sequence check on receipt).
OneBuildPerRunner ==
  \A t \in tasks : Unreleased(t) =>
    /\ allocated[t.runner] /\ t.sequence = sequences[t.runner]
    /\ \A u \in tasks : Unreleased(u) /\ u.runner = t.runner => u = t

Completions == { k \in DOMAIN done : ~done[k].released }

\* The goroutines that work on something and the completions of it that wait
\* in the channel.
Attempts(Of(_)) ==
  Cardinality({ t \in tasks : Of(t) })
    + Cardinality({ k \in Completions : Of(done[k]) })

\* A derivation is running exactly when one goroutine works on it or one
\* completion of it waits in the channel: the retry of a failed helper's task
\* never overlaps the attempt it replaces, and no late result decides it. (A
\* cancelled goroutine may drop its completion.)
OneAttempt ==
  \A d \in Drvs :
    LET Of(x) == x.drv = d
        running == IF state[d] = "running" THEN 1 ELSE 0
    IN  /\ Attempts(Of) <= running
        /\ ~Cancelled => Attempts(Of) = running

\* The backlog bound: `pending' counts what is really outstanding of a runner,
\* which is at most one build and one publication.
BoundedBacklog ==
  \A r \in Runners :
    LET Of(x) == x.runner = r
    IN  /\ pending[r] <= Limit /\ Attempts(Of) <= pending[r]
        /\ ~Cancelled => Attempts(Of) = pending[r]

\* A helper may exit once it has served the number announced for it in Finish:
\* no later assignment, not even of a derivation another helper failed on, goes
\* to a helper ("Helpers may exit after their final assignment").
FinishIsFinal ==
  finish # NoFinish => \A h \in Helpers : finish[h] = sequences[h]

\* What build returns is true: "built" and "failed" only when every derivation
\* is decided and every output in the coordinator's store is published (also
\* that of a failed build), and never after a publication failed while
\* schedule ran.
HonestResult ==
  pc = "returned" /\ result # "publication" =>
    /\ cause = None
    /\ result \in {"built", "failed"}
    /\ local \subseteq view
    /\ \A d \in Drvs : state[d] \in {"done", "failed"}
    /\ result = "built" => \A d \in Drvs : d \in view /\ state[d] = "done"

\* The pool keeps the promises of BuildOrder.
Promise == INSTANCE BuildOrder WITH published <- view
ImplementsBuildOrder == Promise!Spec

\* build returns, whatever helpers are lost, replaced or fail, and with every
\* goroutine it started joined (no send or lock blocks forever).
Terminates == <>(pc = "returned" /\ tasks = {})
=============================================================================
