-------------------------- MODULE SchedulerProofs ---------------------------
(***************************************************************************)
(* Proofs about Scheduler, for any number of helpers, any incarnations,    *)
(* any plan and any set of scheduled derivations.                          *)
(***************************************************************************)
EXTENDS Scheduler, SequenceTheorems, FiniteSetTheorems, FunctionTheorems, TLAPS

(***************************************************************************)
(* What the steps do to goroutines and to the channel.                     *)
(***************************************************************************)

\* A goroutine that moves on is still one (the locals of schedule's func).
LEMMA MovedTask ==
  ASSUME NEW t \in TaskType, NEW stage \in Stages, NEW err \in Errors
  PROVE  /\ [t EXCEPT !.stage = stage, !.err = err] \in TaskType
         /\ [t EXCEPT !.stage = stage, !.err = err].runner = t.runner
         /\ [t EXCEPT !.stage = stage, !.err = err].sequence = t.sequence
         /\ [t EXCEPT !.stage = stage, !.err = err].drv = t.drv
         /\ [t EXCEPT !.stage = stage, !.err = err].omitted = t.omitted
         /\ [t EXCEPT !.stage = stage, !.err = err].stage = stage
         /\ [t EXCEPT !.stage = stage, !.err = err].err = err
  BY DEF TaskType

\* A goroutine whose inputs are published is still one.
LEMMA SentTask ==
  ASSUME NEW t \in TaskType, NEW S \in SUBSET Drvs
  PROVE  /\ [t EXCEPT !.stage = "remote", !.omitted = S] \in TaskType
         /\ [t EXCEPT !.stage = "remote", !.omitted = S].runner = t.runner
         /\ [t EXCEPT !.stage = "remote", !.omitted = S].sequence = t.sequence
         /\ [t EXCEPT !.stage = "remote", !.omitted = S].drv = t.drv
         /\ [t EXCEPT !.stage = "remote", !.omitted = S].omitted = S
         /\ [t EXCEPT !.stage = "remote", !.omitted = S].stage = "remote"
         /\ [t EXCEPT !.stage = "remote", !.omitted = S].err = t.err
  BY DEF TaskType, Stages

\* What a goroutine sends is an event about its own assignment.
LEMMA SentEvent ==
  ASSUME NEW t \in TaskType, NEW released \in BOOLEAN
  PROVE  /\ Event(t, released) \in EventType
         /\ Event(t, released).runner = t.runner
         /\ Event(t, released).sequence = t.sequence
         /\ Event(t, released).drv = t.drv
         /\ Event(t, released).released = released
         /\ Event(t, released).err = t.err
  BY DEF Event, EventType, TaskType

\* send adds at most the event, at the end of the channel.
LEMMA Sending ==
  ASSUME done \in Seq(EventType), NEW e \in EventType,
         done' = Append(done, e) \/ done' = done
  PROVE  /\ done' \in Seq(EventType)
         /\ \A k \in DOMAIN done' :
              \/ k \in DOMAIN done /\ done'[k] = done[k]
              \/ k = Len(done) + 1 /\ k \notin DOMAIN done /\ done'[k] = e
<1>1. CASE done' = Append(done, e)
  BY <1>1, AppendProperties
<1>2. CASE done' = done
  BY <1>2
<1> QED BY <1>1, <1>2

\* Receiving takes the first event and leaves the others in order.
LEMMA Receiving ==
  ASSUME done \in Seq(EventType), done # <<>>, done' = Tail(done)
  PROVE  /\ done' \in Seq(EventType)
         /\ 1 \in DOMAIN done /\ Head(done) = done[1] /\ Head(done) \in EventType
         /\ \A k \in DOMAIN done' :
              /\ k \in Nat /\ k + 1 \in DOMAIN done /\ k + 1 # 1
              /\ done'[k] = done[k + 1]
  BY HeadTailProperties

-----------------------------------------------------------------------------
(***************************************************************************)
(* Type correctness.                                                       *)
(***************************************************************************)

\* A step of a goroutine that only moves it keeps the goroutines' type.
LEMMA MovedTasks ==
  ASSUME tasks \subseteq TaskType, NEW t \in tasks,
         NEW stage \in Stages, NEW err \in Errors, To(t, stage, err)
  PROVE  tasks' \subseteq TaskType
  BY MovedTask DEF To, Become

\* Every action keeps the types of all the state (the declarations of schedule
\* and build).
LEMMA TypeStep == TypeOK /\ [Next]_vars => TypeOK'
<1> SUFFICES ASSUME TypeOK, [Next]_vars PROVE TypeOK'
  OBVIOUS
<1> USE SchedulerAssumption
        DEF TypeOK, LoopType, HelperType, PublicationType
<1>1. CASE FirstRefresh
  BY <1>1 DEF FirstRefresh, helperVars, publicationVars
<1>2. CASE BeginIteration
  <2>1. pc' \in {"join", "assign"} /\ turn' \in Runners
    BY <1>2 DEF BeginIteration, LeaveSchedule, Runners
  <2>2. state' \in [Drvs -> {"unassigned", "running", "done", "failed"}]
    BY <1>2 DEF BeginIteration, LeaveSchedule
  <2>3. result' \in {None, "built", "failed", "publication", "cancelled"}
    BY <1>2 DEF BeginIteration, LeaveSchedule
  <2> QED BY <1>2, <2>1, <2>2, <2>3
         DEF BeginIteration, helperVars, publicationVars
<1>3. CASE Settle
  <2>1. finish' \in {NoFinish} \cup [Runners -> Nat] /\ stop' \in BOOLEAN
    BY <1>3 DEF Settle, LeaveSchedule
  <2>2. result' \in {None, "built", "failed", "publication", "cancelled"}
          /\ pc' \in {"select", "join"}
    BY <1>3 DEF Settle, LeaveSchedule
  <2> QED BY <1>3, <2>1, <2>2 DEF Settle, helperVars, publicationVars
<1>4. ASSUME NEW r \in Runners, Turn(r) PROVE TypeOK'
  <2>1. NextTurn => pc' \in {"assign", "settle", pc} /\ turn' \in Runners
    BY DEF NextTurn, Runners
  <2>2. r > 0 => r \in Helpers
    BY DEF Runners, Helpers
  <2>3. Register(r) => instances' \in [Helpers -> Instances \cup {NoInstance}]
    BY <2>2 DEF Register, StatusType, Runners
  <2>4. CASE RetireTurn(r)
    BY <2>1, <2>4 DEF RetireTurn, helperVars, publicationVars
  <2>5. CASE SkipTurn(r)
    BY <2>1, <2>5 DEF SkipTurn, helperVars, publicationVars
  <2>6. CASE NothingForTurn(r)
    BY <2>1, <2>3, <2>6 DEF NothingForTurn, helperVars, publicationVars
  <2>7. ASSUME NEW d \in Drvs, Assign(r, d) PROVE TypeOK'
    <3>1. pc' \in {"assign", "settle"} /\ turn' \in Runners
      BY <2>1, <2>7 DEF Assign
    <3>2. /\ allocated' \in [Runners -> BOOLEAN]
          /\ pending' \in [Runners -> Int]
          /\ sequences' \in [Runners -> Nat]
          /\ state' \in [Drvs -> {"unassigned", "running", "done", "failed"}]
      BY <2>7 DEF Assign
    <3>3. tasks' \subseteq TaskType
      <4>1. (IF r = 0 THEN NoInstance ELSE status[r].instance) \in Instances \cup {NoInstance}
        BY <2>2 DEF StatusType, Runners
      <4>2. sequences[r] + 1 \in Nat \ {0}
        OBVIOUS
      <4>3. Task(r, sequences[r] + 1, d,
                 IF r = 0 THEN NoInstance ELSE status[r].instance) \in TaskType
        BY <4>1, <4>2 DEF Task, TaskType, Stages, Errors
      <4> QED BY <2>7, <4>3 DEF Assign
    <3> QED BY <2>3, <2>7, <3>1, <3>2, <3>3
           DEF Assign, helperVars, publicationVars
  <2> QED BY <1>4, <2>4, <2>5, <2>6, <2>7 DEF Turn
<1>5. CASE SelectCancelled
  BY <1>5 DEF SelectCancelled, LeaveSchedule, helperVars, publicationVars
<1>6. CASE Join
  BY <1>6 DEF Join, loopVars, helperVars, publicationVars
<1>7. CASE Flush
  BY <1>7 DEF Flush, helperVars
<1>8. CASE Tick
  BY <1>8 DEF Tick, loopVars, helperVars, publicationVars
<1>9. CASE Receive
  <2>1. done # <<>> /\ done' = Tail(done)
    BY <1>9 DEF Receive, ReceiveReleased, ReceiveCompletion
  <2>2. done' \in Seq(EventType) /\ Head(done) \in EventType
    BY <2>1, Receiving
  <2>3. Deallocate(Head(done)) => allocated' \in [Runners -> BOOLEAN]
    BY DEF Deallocate
  <2>4. CASE ReceiveReleased
    BY <2>2, <2>3, <2>4 DEF ReceiveReleased, helperVars, publicationVars
  <2>5. CASE ReceiveCompletion
    <3> DEFINE e == Head(done)
    <3>1. e.runner \in Runners /\ e.drv \in Drvs
      BY <2>2 DEF EventType
    <3>2. pending' \in [Runners -> Int]
      BY <2>5, <3>1 DEF ReceiveCompletion
    <3>3. CASE e.err = "publication"
      BY <2>2, <2>3, <2>5, <3>2, <3>3
         DEF ReceiveCompletion, LeaveSchedule, helperVars, publicationVars
    <3>4. CASE e.err # "publication"
      <4>1. /\ state' \in [Drvs -> {"unassigned", "running", "done", "failed"}]
            /\ retryLocal' \subseteq Drvs /\ retired' \subseteq Runners
            /\ failure' \in BOOLEAN
            /\ pc' = "loop" /\ result' = result
        BY <2>5, <3>1, <3>4 DEF ReceiveCompletion
      <4> QED BY <2>2, <2>3, <2>5, <3>2, <4>1
             DEF ReceiveCompletion, helperVars, publicationVars
    <3> QED BY <3>3, <3>4
  <2> QED BY <1>9, <2>4, <2>5 DEF Receive
<1>10. ASSUME NEW t \in tasks, Execute(t) \/ Lock(t) PROVE TypeOK'
  <2>1. t \in TaskType /\ tasks \subseteq TaskType
        /\ t.err \in Errors /\ t.drv \in Drvs
    BY DEF TaskType
  <2>2. \A stage \in Stages, err \in Errors :
          To(t, stage, err) => tasks' \subseteq TaskType
    BY <2>1, MovedTasks
  <2>3. \A released \in BOOLEAN :
          Send(Event(t, released)) => done' \in Seq(EventType)
    BY <2>1, SentEvent, Sending DEF Send
  <2>4. CASE ExecuteCancelled(t)
    <3>1. tasks' \subseteq TaskType
      BY <2>2, <2>4 DEF ExecuteCancelled, Stages, Errors
    <3> QED BY <2>4, <3>1
           DEF ExecuteCancelled, loopVars, helperVars, publicationVars
  <2>5. CASE BuildLocally(t)
    <3>1. tasks' \subseteq TaskType
      BY <2>2, <2>5 DEF BuildLocally, Stages, Errors
    <3> QED BY <2>1, <2>5, <3>1 DEF BuildLocally, loopVars, helperVars
  <2>6. CASE PublishInputs(t)
    <3>1. Deps[t.drv] \ view \in SUBSET Drvs
      BY <2>1 DEF Deps, PoolDependencies
    <3>2. CASE Become(t, [t EXCEPT !.stage = "remote", !.omitted = Deps[t.drv] \ view])
      <4>1. [t EXCEPT !.stage = "remote", !.omitted = Deps[t.drv] \ view] \in TaskType
        BY <2>1, <3>1, SentTask
      <4> QED BY <2>1, <2>6, <3>2, <4>1
             DEF Become, PublishInputs, loopVars, helperVars
    <3>3. CASE To(t, "send", "publication")
      <4>1. tasks' \subseteq TaskType
        BY <2>2, <3>3 DEF Stages, Errors
      <4> QED BY <2>6, <4>1
             DEF PublishInputs, loopVars, helperVars
    <3> QED BY <2>6, <3>2, <3>3 DEF PublishInputs
  <2>7. CASE RemoteSucceeds(t)
    <3>1. tasks' \subseteq TaskType
      BY <2>2, <2>7 DEF RemoteSucceeds, Stages, Errors
    <3> QED BY <2>1, <2>7, <3>1 DEF RemoteSucceeds, loopVars, helperVars
  <2>8. CASE RemoteFails(t)
    <3>1. tasks' \subseteq TaskType
      BY <2>2, <2>8 DEF RemoteFails, Stages, Errors
    <3> QED BY <2>8, <3>1
           DEF RemoteFails, loopVars, helperVars, publicationVars
  <2>9. CASE Release(t)
    <3>1. tasks' \subseteq TaskType
      BY <2>1, <2>2, <2>9 DEF Release, Stages
    <3>2. done' \in Seq(EventType)
      BY <2>3, <2>9 DEF Release
    <3> QED BY <2>9, <3>1, <3>2
           DEF Release, loopVars, helperVars, publicationVars
  <2>10. CASE Publish(t)
    <3>1. tasks' \subseteq TaskType
      BY <2>1, <2>2, <2>10 DEF Publish, Stages, Errors
    <3> QED BY <2>10, <3>1 DEF Publish, loopVars, helperVars
  <2>11. CASE Complete(t)
    <3>1. done' \in Seq(EventType)
      BY <2>3, <2>11 DEF Complete
    <3> QED BY <2>11, <3>1
           DEF Complete, loopVars, helperVars, publicationVars
  <2>12. CASE Lock(t)
    <3>1. tasks' \subseteq TaskType
      BY <2>1, <2>2, <2>12 DEF Lock, Stages, Errors
    <3> QED BY <2>12, <3>1 DEF Lock, loopVars, helperVars
  <2> QED BY <1>10, <2>4, <2>5, <2>6, <2>7, <2>8, <2>9, <2>10, <2>11, <2>12
         DEF Execute
<1>11. CASE PeriodicStart \/ PeriodicEnd \/ PeriodicExit
  BY <1>11 DEF PeriodicStart, PeriodicEnd, PeriodicExit, loopVars, helperVars
<1>12. ASSUME NEW h \in Helpers, Helper(h) PROVE TypeOK'
  <2>1. \A s \in StatusType : See(h, s) => TypeOK'
    BY DEF See, loopVars, publicationVars
  <2>2. status[h] \in StatusType
    OBVIOUS
  <2>3. CASE SeeBusy(h)
    <3>1. PICK t \in tasks : See(h, [status[h] EXCEPT !.sequence = t.sequence, !.state = "busy"])
      BY <2>3 DEF SeeBusy
    <3>2. t.sequence \in Nat
      BY DEF TaskType
    <3>3. [status[h] EXCEPT !.sequence = t.sequence, !.state = "busy"] \in StatusType
      BY <2>2, <3>2 DEF StatusType
    <3> QED BY <2>1, <3>1, <3>3
  <2>4. CASE SeeResult(h)
    <3>1. PICK s \in {"done", "failed"} :
            See(h, [status[h] EXCEPT !.fresh = TRUE, !.state = s])
      BY <2>4 DEF SeeResult
    <3>2. [status[h] EXCEPT !.fresh = TRUE, !.state = s] \in StatusType
      BY <2>2 DEF StatusType, Idle
    <3> QED BY <2>1, <3>1, <3>2
  <2>5. CASE Expire(h)
    <3>1. [status[h] EXCEPT !.fresh = FALSE] \in StatusType
      BY <2>2 DEF StatusType
    <3> QED BY <2>1, <2>5, <3>1 DEF Expire
  <2>6. CASE Renew(h)
    <3>1. [status[h] EXCEPT !.fresh = TRUE] \in StatusType
      BY <2>2 DEF StatusType
    <3> QED BY <2>1, <2>6, <3>1 DEF Renew
  <2>7. ASSUME NEW i \in Instances, SeeReady(h, i) PROVE TypeOK'
    <3>1. [fresh |-> TRUE, instance |-> i, sequence |-> 0, state |-> "ready"] \in StatusType
      BY DEF StatusType, Idle
    <3> QED BY <2>1, <2>7, <3>1 DEF SeeReady
  <2> QED BY <1>12, <2>3, <2>4, <2>5, <2>6, <2>7 DEF Helper
<1>13. CASE StartupDeadline
  BY <1>13 DEF StartupDeadline, loopVars, publicationVars
<1>14. CASE UNCHANGED vars
  BY <1>14 DEF vars, loopVars, helperVars, publicationVars
<1> QED
  BY <1>1, <1>2, <1>3, <1>4, <1>5, <1>6, <1>7, <1>8, <1>9, <1>10, <1>11,
     <1>12, <1>13, <1>14 DEF Next, Loop, Returned

LEMMA TypeInit == Init => TypeOK
<1> SUFFICES ASSUME Init PROVE TypeOK
  OBVIOUS
<1>1. LoopType
  <2>1. turn \in Runners
    BY SchedulerAssumption DEF Init, Runners
  <2> QED BY <2>1 DEF Init, LoopType
<1>2. HelperType
  BY DEF Init, HelperType, NoStatus, StatusType, Idle
<1>3. PublicationType
  BY DEF Init, PublicationType
<1> QED BY <1>1, <1>2, <1>3 DEF Init, TypeOK

\* The books of the loop, the channel, the goroutines and the publication
\* state keep their types, however many helpers come, go and fail.
THEOREM TypeCorrect == Spec => []TypeOK
  BY TypeInit, TypeStep, PTL DEF Spec

-----------------------------------------------------------------------------
(***************************************************************************)
(* What a goroutine may do at a time, whatever its action is: move within  *)
(* its assignment, report that the runner is free, or report completion.   *)
(***************************************************************************)
SameAssignment(t, u) ==
  u.runner = t.runner /\ u.sequence = t.sequence /\ u.drv = t.drv

Moves(t) ==
  \E u \in TaskType :
    /\ SameAssignment(t, u) /\ Become(t, u)
    /\ \/ done' = done /\ (Unreleased(u) => Unreleased(t))
       \/ u.stage = "lock" /\ Unreleased(t) /\ Send(Event(t, TRUE))

Ends(t) ==
  t.stage = "send" /\ Send(Event(t, FALSE)) /\ tasks' = tasks \ {t}

LEMMA GoroutineStep ==
  ASSUME TypeOK, NEW t \in tasks, Execute(t) \/ Lock(t)
  PROVE  UNCHANGED <<pc, loopVars, helperVars>> /\ (Moves(t) \/ Ends(t))
<1>1. t \in TaskType /\ t.err \in Errors
  BY DEF TypeOK, TaskType
<1>2. \A stage \in Stages, err \in Errors :
        To(t, stage, err) => \E u \in TaskType :
          SameAssignment(t, u) /\ Become(t, u) /\ u.stage = stage
  <2> TAKE stage \in Stages, err \in Errors
  <2> DEFINE u == [t EXCEPT !.stage = stage, !.err = err]
  <2>1. u \in TaskType /\ u.stage = stage
        /\ u.runner = t.runner /\ u.sequence = t.sequence /\ u.drv = t.drv
    BY <1>1 DEF TaskType
  <2>2. To(t, stage, err) => Become(t, u)
    BY DEF To
  <2> HIDE DEF u
  <2> QED BY <2>1, <2>2 DEF SameAssignment
<1>3. \A stage \in {"lock", "publish", "send"}, err \in Errors :
        To(t, stage, err) /\ done' = done => Moves(t)
  BY <1>2 DEF Moves, Unreleased, Stages
<1>4. CASE ExecuteCancelled(t)
  BY <1>3, <1>4 DEF ExecuteCancelled, Errors
<1>5. CASE BuildLocally(t)
  <2>1. CASE To(t, "release", None)
    BY <1>2, <1>5, <2>1 DEF BuildLocally, Moves, At, Unreleased, Stages, Errors
  <2> QED BY <1>3, <1>5, <2>1 DEF BuildLocally, Errors
<1>6. CASE PublishInputs(t)
  <2>1. CASE Become(t, [t EXCEPT !.stage = "remote", !.omitted = Deps[t.drv] \ view])
    <3>1. Deps[t.drv] \ view \in SUBSET Drvs
      BY <1>1 DEF Deps, PoolDependencies, TaskType
    <3>2. Moves(t)
      BY <1>1, <1>6, <2>1, <3>1, SentTask
         DEF PublishInputs, Moves, SameAssignment, At, Unreleased
    <3> QED BY <1>6, <3>2 DEF PublishInputs
  <2> QED BY <1>3, <1>6, <2>1 DEF PublishInputs, Errors
<1>7. CASE RemoteSucceeds(t)
  BY <1>2, <1>7 DEF RemoteSucceeds, Moves, At, Unreleased, Stages, Errors
<1>8. CASE RemoteFails(t)
  BY <1>3, <1>8 DEF RemoteFails, Errors
<1>9. CASE Release(t)
  BY <1>1, <1>2, <1>9 DEF Release, Moves, At, Unreleased, Stages
<1>10. CASE Publish(t)
  BY <1>1, <1>3, <1>10 DEF Publish, Errors
<1>11. CASE Complete(t)
  BY <1>11 DEF Complete, Ends, At
<1>12. CASE Lock(t)
  BY <1>1, <1>3, <1>12 DEF Lock, Errors
<1> QED BY <1>4, <1>5, <1>6, <1>7, <1>8, <1>9, <1>10, <1>11, <1>12 DEF Execute

\* The steps that change the books, the goroutines, the channel or what is
\* published; every other leaves all of these alone.
bookVars == <<state, allocated, pending, sequences, finish, done, tasks>>

LEMMA StepKinds ==
  ASSUME [Next]_vars
  PROVE  \/ \E t \in tasks : Execute(t) \/ Lock(t)
         \/ \E r \in Runners, d \in Drvs : Assign(r, d)
         \/ Receive \/ BeginIteration \/ Settle
         \/ Flush \/ PeriodicStart \/ PeriodicEnd \/ PeriodicExit
         \/ UNCHANGED <<bookVars, publicationVars>>
<1> USE DEF bookVars, loopVars
<1>1. CASE FirstRefresh \/ SelectCancelled \/ Join \/ Tick
  BY <1>1 DEF FirstRefresh, SelectCancelled, Join, Tick
<1>2. ASSUME NEW r \in Runners, RetireTurn(r) \/ SkipTurn(r) \/ NothingForTurn(r)
      PROVE  UNCHANGED <<bookVars, publicationVars>>
  BY <1>2 DEF RetireTurn, SkipTurn, NothingForTurn
<1>3. ASSUME NEW h \in Helpers, Helper(h)
      PROVE  UNCHANGED <<bookVars, publicationVars>>
  BY <1>3 DEF Helper, SeeBusy, SeeResult, Expire, Renew, SeeReady, See
<1>4. CASE StartupDeadline \/ Returned \/ UNCHANGED vars
  BY <1>4 DEF StartupDeadline, Returned, vars
<1> QED BY <1>1, <1>2, <1>3, <1>4 DEF Next, Loop, Turn

-----------------------------------------------------------------------------
(***************************************************************************)
(* One build per runner. The books of the loop, the goroutines and the     *)
(* channel agree on the assignment numbers: every number is given to one   *)
(* goroutine, an event carries a number already given, and a runner that   *)
(* still compiles is allocated for its last number, of which no event      *)
(* waits in the channel.                                                   *)
(***************************************************************************)
Books ==
  /\ \A t \in tasks : t.sequence <= sequences[t.runner]
  /\ \A t, u \in tasks :
       t.runner = u.runner /\ t.sequence = u.sequence => t = u
  /\ \A k \in DOMAIN done : done[k].sequence <= sequences[done[k].runner]
  /\ \A t \in tasks : Unreleased(t) =>
       /\ allocated[t.runner] /\ t.sequence = sequences[t.runner]
       /\ \A k \in DOMAIN done :
            done[k].runner = t.runner => done[k].sequence # t.sequence

\* Assignment numbers grow by one, completions of older ones free nobody.
LEMMA BooksStep == TypeOK /\ TypeOK' /\ Books /\ [Next]_vars => Books'
<1> SUFFICES ASSUME TypeOK, TypeOK', Books, [Next]_vars PROVE Books'
  OBVIOUS
<1> USE DEF Books
<1>0. /\ tasks \subseteq TaskType /\ done \in Seq(EventType)
      /\ sequences \in [Runners -> Nat]
      /\ allocated \in [Runners -> BOOLEAN]
      /\ \A t \in TaskType : t.runner \in Runners /\ t.sequence \in Nat
      /\ \A k \in DOMAIN done :
           done[k].runner \in Runners /\ done[k].sequence \in Nat
  <2>1. /\ tasks \subseteq TaskType /\ done \in Seq(EventType)
        /\ sequences \in [Runners -> Nat]
        /\ allocated \in [Runners -> BOOLEAN]
    BY DEF TypeOK, LoopType
  <2>2. \A k \in DOMAIN done : done[k] \in EventType
    BY <2>1
  <2> QED BY <2>1, <2>2 DEF TaskType, EventType
<1>1. ASSUME NEW t \in tasks, Moves(t),
             UNCHANGED <<sequences, allocated>> PROVE Books'
  <2>1. PICK u \in TaskType :
          /\ SameAssignment(t, u) /\ tasks' = (tasks \ {t}) \cup {u}
          /\ \/ done' = done /\ (Unreleased(u) => Unreleased(t))
             \/ u.stage = "lock" /\ Unreleased(t) /\ Send(Event(t, TRUE))
    BY <1>1 DEF Moves, Become
  <2>2. CASE done' = done /\ (Unreleased(u) => Unreleased(t))
    BY <1>0, <1>1, <2>1, <2>2 DEF SameAssignment, Unreleased
  <2>3. CASE u.stage = "lock" /\ Unreleased(t) /\ Send(Event(t, TRUE))
    <3>1. \A k \in DOMAIN done' :
            \/ k \in DOMAIN done /\ done'[k] = done[k]
            \/ done'[k].runner = t.runner /\ done'[k].sequence = t.sequence
      <4>1. /\ Event(t, TRUE) \in EventType /\ Event(t, TRUE).runner = t.runner
            /\ Event(t, TRUE).sequence = t.sequence
        BY <1>0, SentEvent
      <4>2. \/ done' = Append(done, Event(t, TRUE))
            \/ done' = done
        BY <2>3 DEF Send
      <4> HIDE DEF Books
      <4>3. CASE done' = done
        BY <4>3
      <4>4. CASE done' = Append(done, Event(t, TRUE))
        <5>1. \A k \in DOMAIN done' :
                \/ k \in DOMAIN done /\ done'[k] = done[k]
                \/ done'[k] = Event(t, TRUE)
          BY <1>0, <4>1, <4>4, Sending
        <5> QED BY <4>1, <5>1
      <4> QED BY <4>2, <4>3, <4>4
    <3>2. ~Unreleased(u)
      BY <2>3 DEF Unreleased
    <3>3. \A x \in tasks' : Unreleased(x) => x \in tasks /\ x # t
      BY <2>1, <3>2
    <3>4. \A x \in tasks' : Unreleased(x) => \A k \in DOMAIN done' :
            done'[k].runner = x.runner => done'[k].sequence # x.sequence
      BY <1>0, <2>3, <3>1, <3>3
    <3>5. \A x \in tasks' : Unreleased(x) =>
            allocated'[x.runner] /\ x.sequence = sequences'[x.runner]
      BY <1>1, <3>3
    <3>6. \A k \in DOMAIN done' : done'[k].sequence <= sequences'[done'[k].runner]
      BY <1>0, <1>1, <3>1
    <3>7. /\ \A x \in tasks' : x.sequence <= sequences'[x.runner]
          /\ \A x, y \in tasks' :
               x.runner = y.runner /\ x.sequence = y.sequence => x = y
      BY <1>0, <1>1, <2>1 DEF SameAssignment
    <3> QED BY <3>4, <3>5, <3>6, <3>7 DEF Unreleased
  <2> QED BY <2>1, <2>2, <2>3
<1>2. ASSUME NEW t \in tasks, Ends(t),
             UNCHANGED <<sequences, allocated>> PROVE Books'
  <2>1. \A k \in DOMAIN done' :
          \/ k \in DOMAIN done /\ done'[k] = done[k]
          \/ done'[k].runner = t.runner /\ done'[k].sequence = t.sequence
    <3>1. /\ Event(t, FALSE) \in EventType /\ Event(t, FALSE).runner = t.runner
          /\ Event(t, FALSE).sequence = t.sequence
      BY <1>0, SentEvent
    <3>2. done' = Append(done, Event(t, FALSE)) \/ done' = done
      BY <1>2 DEF Ends, Send
    <3> HIDE DEF Books
    <3>3. \A k \in DOMAIN done' :
            \/ k \in DOMAIN done /\ done'[k] = done[k]
            \/ done'[k] = Event(t, FALSE)
      BY <1>0, <3>1, <3>2, Sending
    <3> QED BY <3>1, <3>3
  <2> QED BY <1>0, <1>2, <2>1 DEF Ends, Unreleased
<1>3. ASSUME NEW r \in Runners, NEW d \in Drvs, Assign(r, d) PROVE Books'
  <2> DEFINE n == sequences[r] + 1
             i == IF r = 0 THEN NoInstance ELSE status[r].instance
             new == Task(r, n, d, i)
  <2>1. /\ tasks' = tasks \cup {new} /\ done' = done
        /\ sequences' = [sequences EXCEPT ![r] = n]
        /\ allocated' = [allocated EXCEPT ![r] = TRUE]
        /\ ~allocated[r]
    BY <1>3 DEF Assign, Available
  <2>2. new.runner = r /\ new.sequence = n
    BY DEF Task
  <2> HIDE DEF new
  <2> QED BY <1>0, <2>1, <2>2 DEF Unreleased
<1>4. CASE Receive
  <2>1. done # <<>> /\ done' = Tail(done) /\ Deallocate(Head(done))
        /\ UNCHANGED <<tasks, sequences>>
    BY <1>4 DEF Receive, ReceiveReleased, ReceiveCompletion
  <2>2. /\ 1 \in DOMAIN done /\ Head(done) = done[1]
        /\ \A k \in DOMAIN done' : k + 1 \in DOMAIN done /\ done'[k] = done[k + 1]
    BY <1>0, <2>1, Receiving
  <2>3. \A t \in tasks : Unreleased(t) => allocated'[t.runner]
    BY <1>0, <2>1, <2>2 DEF Deallocate
  <2> QED BY <1>0, <2>1, <2>2, <2>3 DEF Unreleased
<1>5. CASE UNCHANGED <<tasks, done, sequences, allocated>>
  BY <1>5 DEF Unreleased
<1>6. ASSUME NEW t \in tasks, Execute(t) \/ Lock(t) PROVE Books'
  BY <1>1, <1>2, <1>6, GoroutineStep DEF loopVars
<1>7. CASE BeginIteration \/ Settle
  BY <1>5, <1>7 DEF BeginIteration, Settle
<1>8. CASE Flush \/ PeriodicStart \/ PeriodicEnd \/ PeriodicExit
  BY <1>5, <1>8 DEF Flush, PeriodicStart, PeriodicEnd, PeriodicExit, loopVars
<1>9. CASE UNCHANGED bookVars
  BY <1>5, <1>9 DEF bookVars
<1> QED BY <1>3, <1>4, <1>6, <1>7, <1>8, <1>9, StepKinds

\* No runner compiles two derivations at once, nor is it handed one while it
\* compiles: schedule frees a runner only on an event of its last assignment.
THEOREM RunnersExclusive == Spec => []OneBuildPerRunner
<1>1. Init => Books
  BY DEF Init, Books
<1>2. TypeOK /\ Books => OneBuildPerRunner
  BY DEF Books, OneBuildPerRunner
<1> QED BY <1>1, <1>2, TypeCorrect, BooksStep, PTL DEF Spec

\* Once announced, the last assignment number of a helper is its last: nothing
\* is assigned to helpers after Finish is known.
THEOREM LastAssignmentKept == Spec => []FinishIsFinal
<1>1. Init => FinishIsFinal
  BY DEF Init, FinishIsFinal
<1>2. TypeOK /\ FinishIsFinal /\ [Next]_vars => FinishIsFinal'
  <2> SUFFICES ASSUME TypeOK, FinishIsFinal, [Next]_vars PROVE FinishIsFinal'
    OBVIOUS
  <2>1. ASSUME NEW r \in Runners, NEW d \in Drvs, Assign(r, d)
        PROVE  FinishIsFinal'
    <3>1. r > 0 => finish = NoFinish
      BY <2>1 DEF Assign, Available
    <3>2. finish' = finish /\ sequences' = [sequences EXCEPT ![r] = @ + 1]
      BY <2>1 DEF Assign
    <3>3. \A h \in Helpers : h \in Runners /\ h > 0
      BY DEF Helpers, Runners
    <3> QED BY <3>1, <3>2, <3>3 DEF FinishIsFinal, TypeOK, LoopType
  <2>2. CASE Settle
    BY <2>2 DEF Settle, FinishIsFinal
  <2>3. CASE UNCHANGED <<finish, sequences>>
    BY <2>3 DEF FinishIsFinal
  <2>4. ASSUME NEW t \in tasks, Execute(t) \/ Lock(t)
        PROVE  UNCHANGED <<finish, sequences>>
    BY <2>4, GoroutineStep DEF loopVars
  <2>5. CASE Receive \/ BeginIteration
    BY <2>3, <2>5 DEF Receive, ReceiveReleased, ReceiveCompletion, BeginIteration
  <2>6. CASE Flush \/ PeriodicStart \/ PeriodicEnd \/ PeriodicExit
    BY <2>3, <2>6
       DEF Flush, PeriodicStart, PeriodicEnd, PeriodicExit, loopVars
  <2>7. CASE UNCHANGED bookVars
    BY <2>3, <2>7 DEF bookVars
  <2> QED BY <2>1, <2>2, <2>3, <2>4, <2>5, <2>6, <2>7, StepKinds
<1> QED BY <1>1, <1>2, TypeCorrect, PTL DEF Spec

-----------------------------------------------------------------------------
(***************************************************************************)
(* Inputs are published. From a goroutine's error and stage follows where  *)
(* the outputs of its derivation already are: in the store before the      *)
(* publication lock is taken, among the paths the refresh selected while   *)
(* it is held, in the published view afterwards.                           *)
(***************************************************************************)
publishedVars == <<mutex, selected, local, view, periodic>>

\* The next record u of goroutine t, and what happens to the outputs with it.
Advances(t, u) ==
  \/ /\ u.stage = "remote" /\ u.omitted = Deps[t.drv] \ view
     /\ UNCHANGED publishedVars
  \/ /\ u.omitted = t.omitted
     /\ \/ /\ u.stage = "release" /\ local' = local \cup {t.drv}
           /\ UNCHANGED <<mutex, selected, view, periodic>>
        \/ u.stage \in {"lock", "send"} /\ u.err # None /\ UNCHANGED publishedVars
        \/ /\ t.stage = "release" /\ u.stage = "lock" /\ u.err = t.err
           /\ UNCHANGED publishedVars
        \/ /\ t.stage = "lock" /\ u.stage = "publish" /\ u.err = t.err
           /\ mutex = "free" /\ mutex' = "task" /\ selected' = local
           /\ UNCHANGED <<local, view, periodic>>
        \/ /\ t.stage = "publish" /\ u.stage = "send"
           /\ mutex' = "free" /\ UNCHANGED <<local, periodic>>
           /\ \/ view' = view \cup selected /\ u.err = t.err
              \/ view' = view /\ u.err # None

LEMMA PublicationStep ==
  ASSUME TypeOK, NEW t \in tasks, Execute(t) \/ Lock(t)
  PROVE  \/ Ends(t) /\ UNCHANGED publishedVars
         \/ \E u \in TaskType :
              SameAssignment(t, u) /\ Become(t, u) /\ Advances(t, u)
<1>1. t \in TaskType /\ t.err \in Errors
  BY DEF TypeOK, TaskType
<1>2. \A stage \in Stages, err \in Errors :
        To(t, stage, err) => \E u \in TaskType :
          /\ SameAssignment(t, u) /\ Become(t, u)
          /\ u.stage = stage /\ u.err = err /\ u.omitted = t.omitted
  <2> TAKE stage \in Stages, err \in Errors
  <2> DEFINE u == [t EXCEPT !.stage = stage, !.err = err]
  <2>1. /\ u \in TaskType /\ u.stage = stage /\ u.err = err
        /\ u.omitted = t.omitted
        /\ u.runner = t.runner /\ u.sequence = t.sequence /\ u.drv = t.drv
    BY <1>1 DEF TaskType
  <2>2. To(t, stage, err) => Become(t, u)
    BY DEF To
  <2> HIDE DEF u
  <2> QED BY <2>1, <2>2 DEF SameAssignment
<1> DEFINE Goal == \E u \in TaskType :
                     SameAssignment(t, u) /\ Become(t, u) /\ Advances(t, u)
<1>3. UNCHANGED publicationVars => UNCHANGED publishedVars
  BY DEF publicationVars, publishedVars
<1>4. \A err \in Errors : err # None /\ UNCHANGED publishedVars =>
        (To(t, "lock", err) => Goal) /\ (To(t, "send", err) => Goal)
  BY <1>2 DEF Advances, Stages
<1> USE DEF Stages, Errors, None
<1>5. CASE ExecuteCancelled(t)
  BY <1>3, <1>4, <1>5 DEF ExecuteCancelled
<1>6. CASE BuildLocally(t)
  <2>1. CASE To(t, "release", None) /\ local' = local \cup {t.drv}
    BY <1>2, <1>6, <2>1 DEF BuildLocally, Advances
  <2> QED BY <1>4, <1>6, <2>1 DEF BuildLocally, publishedVars
<1>7. CASE PublishInputs(t)
  <2>1. CASE Become(t, [t EXCEPT !.stage = "remote", !.omitted = Deps[t.drv] \ view])
    <3> DEFINE u == [t EXCEPT !.stage = "remote", !.omitted = Deps[t.drv] \ view]
    <3>1. Deps[t.drv] \ view \in SUBSET Drvs
      BY <1>1 DEF Deps, PoolDependencies, TaskType
    <3>2. /\ u \in TaskType /\ SameAssignment(t, u)
          /\ u.stage = "remote" /\ u.omitted = Deps[t.drv] \ view
      BY <1>1, <3>1, SentTask DEF SameAssignment
    <3>3. UNCHANGED publishedVars
      BY <1>7 DEF PublishInputs, publishedVars
    <3> HIDE DEF u
    <3>4. Become(t, u)
      BY <2>1 DEF u
    <3> QED BY <3>2, <3>3, <3>4 DEF Advances
  <2> QED BY <1>4, <1>7, <2>1 DEF PublishInputs, publishedVars
<1>8. CASE RemoteSucceeds(t)
  BY <1>2, <1>8 DEF RemoteSucceeds, Advances
<1>9. CASE RemoteFails(t)
  BY <1>3, <1>4, <1>9 DEF RemoteFails
<1>10. CASE Release(t)
  <2>1. PICK u \in TaskType :
          /\ SameAssignment(t, u) /\ Become(t, u)
          /\ u.stage = "lock" /\ u.err = t.err /\ u.omitted = t.omitted
    BY <1>1, <1>2, <1>10 DEF Release
  <2>2. t.stage = "release" /\ UNCHANGED publishedVars
    BY <1>3, <1>10 DEF Release, At
  <2> QED BY <2>1, <2>2 DEF Advances
<1>11. CASE Publish(t)
  BY <1>1, <1>2, <1>11 DEF Publish, At, Advances
<1>12. CASE Complete(t)
  BY <1>3, <1>12 DEF Complete, Ends, At
<1>13. CASE Lock(t)
  <2>1. CASE Cancelled
    BY <1>4, <1>13, <2>1 DEF Lock, publishedVars
  <2>2. CASE ~Cancelled
    BY <1>1, <1>2, <1>13, <2>2 DEF Lock, At, Advances
  <2> QED BY <2>1, <2>2
<1> QED BY <1>5, <1>6, <1>7, <1>8, <1>9, <1>10, <1>11, <1>12, <1>13 DEF Execute

\* A running derivation belongs to one goroutine or to one completion.
Owners ==
  /\ \A t \in tasks : state[t.drv] = "running"
  /\ \A t, u \in tasks : t.drv = u.drv => t = u
  /\ \A k \in Completions : /\ state[done[k].drv] = "running"
                            /\ \A t \in tasks : t.drv # done[k].drv
  /\ \A j, k \in Completions : done[j].drv = done[k].drv => j = k

\* The lock has one holder.
Exclusion ==
  /\ \A t \in tasks : t.stage = "publish" =>
       mutex = "task" /\ \A u \in tasks : u.stage = "publish" => u = t
  /\ periodic = "refreshing" => mutex = "periodic"

\* Where a good result is, by stage of its goroutine, in the channel and
\* after it was received.
Results ==
  /\ \A t \in tasks : t.err = None =>
       /\ t.stage \in {"release", "lock"} => t.drv \in local
       /\ t.stage = "publish" => t.drv \in selected
       /\ t.stage = "send" => t.drv \in view
  /\ \A k \in Completions : done[k].err = None => done[k].drv \in view
  /\ \A d \in Drvs : state[d] = "done" => d \in view

\* What a goroutine depends on is finished, and was published when its inputs
\* were taken.
Inputs ==
  \A t \in tasks : t.omitted = {} /\ \A e \in Deps[t.drv] : state[e] = "done"

\* The channel, for a step that sends an event of goroutine t, or receives.
LEMMA SentCompletions ==
  ASSUME TypeOK, NEW t \in tasks, NEW released \in BOOLEAN,
         done' = Append(done, Event(t, released)) \/ done' = done
  PROVE  \A k \in Completions' :
           \/ k \in Completions /\ done'[k] = done[k]
           \/ /\ ~released /\ k = Len(done) + 1 /\ k \notin DOMAIN done
              /\ done'[k].drv = t.drv /\ done'[k].err = t.err
<1>1. /\ Event(t, released) \in EventType /\ Event(t, released).drv = t.drv
      /\ Event(t, released).err = t.err
      /\ Event(t, released).released = released
  BY SentEvent DEF TypeOK
<1>2. \A k \in DOMAIN done' :
        \/ k \in DOMAIN done /\ done'[k] = done[k]
        \/ k = Len(done) + 1 /\ k \notin DOMAIN done
           /\ done'[k] = Event(t, released)
  BY <1>1, Sending DEF TypeOK
<1> QED BY <1>1, <1>2 DEF Completions

LEMMA ReceivedCompletions ==
  ASSUME TypeOK, done # <<>>, done' = Tail(done)
  PROVE  /\ Head(done) = done[1] /\ ~Head(done).released => 1 \in Completions
         /\ Head(done) \in EventType
         /\ \A k \in Completions' :
              /\ k \in Nat /\ k + 1 \in Completions /\ k + 1 # 1
              /\ done'[k] = done[k + 1]
  BY Receiving DEF Completions, TypeOK

\* The lock is taken only while it is free and given back by its holder.
LEMMA ExclusionStep ==
  TypeOK /\ Exclusion /\ [Next]_vars => Exclusion'
<1> SUFFICES ASSUME TypeOK, Exclusion, [Next]_vars PROVE Exclusion'
  OBVIOUS
<1> USE DEF Exclusion
<1>1. CASE UNCHANGED <<tasks, mutex, periodic>>
  BY <1>1
<1>2. ASSUME NEW t \in tasks, Execute(t) \/ Lock(t) PROVE Exclusion'
  <2>1. CASE Ends(t) /\ UNCHANGED publishedVars
    BY <2>1 DEF Ends, publishedVars
  <2>2. ASSUME NEW u \in TaskType,
               SameAssignment(t, u), Become(t, u), Advances(t, u)
        PROVE  Exclusion'
    BY <2>2 DEF Become, Advances, publishedVars
  <2> QED BY <1>2, <2>1, <2>2, PublicationStep
<1>3. ASSUME NEW r \in Runners, NEW d \in Drvs, Assign(r, d) PROVE Exclusion'
  BY <1>3 DEF Assign, Task, publicationVars
<1>4. CASE Receive
  BY <1>1, <1>4
     DEF Receive, ReceiveReleased, ReceiveCompletion, publicationVars
<1>5. CASE BeginIteration \/ Settle
  BY <1>1, <1>5 DEF BeginIteration, Settle, publicationVars
<1>6. CASE Flush
  BY <1>1, <1>6 DEF Flush
<1>7. CASE PeriodicStart \/ PeriodicEnd \/ PeriodicExit
  BY <1>7 DEF PeriodicStart, PeriodicEnd, PeriodicExit
<1>8. CASE UNCHANGED <<bookVars, publicationVars>>
  BY <1>1, <1>8 DEF bookVars, publicationVars
<1> QED BY <1>2, <1>3, <1>4, <1>5, <1>6, <1>7, <1>8, StepKinds

\* Only what is not started is assigned, and only its completion decides it.
LEMMA OwnersStep == TypeOK /\ Owners /\ [Next]_vars => Owners'
<1> SUFFICES ASSUME TypeOK, Owners, [Next]_vars PROVE Owners'
  OBVIOUS
<1> USE DEF Owners
<1>0. /\ tasks \subseteq TaskType /\ \A t \in TaskType : t.drv \in Drvs
      /\ state \in [Drvs -> {"unassigned", "running", "done", "failed"}]
      /\ \A k \in Completions : done[k].drv \in Drvs
  <2>1. \A k \in DOMAIN done : done[k] \in EventType
    BY DEF TypeOK
  <2> QED BY <2>1 DEF TypeOK, LoopType, TaskType, EventType, Completions
<1>1. CASE UNCHANGED <<state, done, tasks>>
  BY <1>1 DEF Completions
<1>2. ASSUME NEW t \in tasks, Execute(t) \/ Lock(t) PROVE Owners'
  <2>1. state' = state
    BY <1>2, GoroutineStep DEF loopVars
  <2>2. CASE Moves(t)
    <3>1. PICK u : u.drv = t.drv /\ tasks' = (tasks \ {t}) \cup {u}
                   /\ (done' = done \/ Send(Event(t, TRUE)))
      BY <2>2 DEF Moves, SameAssignment, Become
    <3>2. done' = Append(done, Event(t, TRUE)) \/ done' = done
      BY <3>1 DEF Send
    <3>3. \A k \in Completions' : k \in Completions /\ done'[k] = done[k]
      BY <3>2, SentCompletions
    <3> QED BY <2>1, <3>1, <3>3
  <2>3. CASE Ends(t)
    <3>1. done' = Append(done, Event(t, FALSE)) \/ done' = done
      BY <2>3 DEF Ends, Send
    <3>2. \A k \in Completions' :
            \/ k \in Completions /\ done'[k] = done[k]
            \/ k = Len(done) + 1 /\ done'[k].drv = t.drv
      BY <3>1, SentCompletions
    <3> QED BY <2>1, <2>3, <3>2 DEF Ends
  <2> QED BY <1>2, <2>2, <2>3, GoroutineStep
<1>3. ASSUME NEW r \in Runners, NEW d \in Drvs, Assign(r, d) PROVE Owners'
  <2> DEFINE i == IF r = 0 THEN NoInstance ELSE status[r].instance
             new == Task(r, sequences[r] + 1, d, i)
  <2>1. /\ tasks' = tasks \cup {new} /\ done' = done
        /\ state' = [state EXCEPT ![d] = "running"]
        /\ state[d] = "unassigned"
    BY <1>3 DEF Assign, Preferred, Candidates, Ready
  <2>2. new.drv = d
    BY DEF Task
  <2>3. Completions' = Completions
    BY <2>1 DEF Completions
  <2> HIDE DEF new
  <2> QED BY <1>0, <2>1, <2>2, <2>3
<1>4. CASE Receive
  <2>1. done # <<>> /\ done' = Tail(done) /\ tasks' = tasks
    BY <1>4 DEF Receive, ReceiveReleased, ReceiveCompletion
  <2>2. /\ Head(done) = done[1] /\ ~Head(done).released => 1 \in Completions
        /\ \A k \in Completions' : /\ k + 1 \in Completions /\ k + 1 # 1
                                   /\ done'[k] = done[k + 1] /\ k \in Nat
    BY <2>1, ReceivedCompletions
  <2>3. \A k \in Completions' : /\ state[done'[k].drv] = "running"
                               /\ \A t \in tasks : t.drv # done'[k].drv
    BY <2>2
  <2>4. \A j, k \in Completions' : done'[j].drv = done'[k].drv => j = k
    <3> SUFFICES ASSUME NEW j \in Completions', NEW k \in Completions',
                        done'[j].drv = done'[k].drv
                 PROVE  j = k
      OBVIOUS
    <3>1. j + 1 = k + 1
      BY <2>2
    <3> QED BY <2>2, <3>1
  <2>5. CASE ReceiveReleased
    BY <2>1, <2>5, <2>3, <2>4 DEF ReceiveReleased
  <2>6. CASE ReceiveCompletion
    <3>1. 1 \in Completions /\ Head(done) = done[1]
      BY <2>2, <2>6 DEF ReceiveCompletion
    <3>2. \A d \in Drvs : d # done[1].drv => state'[d] = state[d]
      BY <1>0, <2>6, <3>1 DEF ReceiveCompletion, LeaveSchedule
    <3>3. \A k \in Completions' : done'[k].drv \in Drvs /\ done'[k].drv # done[1].drv
      BY <1>0, <2>2, <3>1
    <3>4. \A t \in tasks : t.drv \in Drvs /\ t.drv # done[1].drv
      BY <1>0, <3>1
    <3> QED BY <2>1, <2>3, <2>4, <3>2, <3>3, <3>4
  <2> QED BY <1>4, <2>5, <2>6 DEF Receive
<1>5. CASE BeginIteration
  <2>1. /\ UNCHANGED <<done, tasks>>
        /\ \A d \in Drvs : state[d] = "running" => state'[d] = "running"
    BY <1>0, <1>5 DEF BeginIteration, Abandoned
  <2> QED BY <1>0, <2>1 DEF Completions
<1>6. CASE Settle \/ Flush \/ PeriodicStart \/ PeriodicEnd \/ PeriodicExit
  BY <1>1, <1>6
     DEF Settle, Flush, PeriodicStart, PeriodicEnd, PeriodicExit, loopVars
<1>7. CASE UNCHANGED <<bookVars, publicationVars>>
  BY <1>1, <1>7 DEF bookVars
<1> QED BY <1>2, <1>3, <1>4, <1>5, <1>6, <1>7, StepKinds

\* A result moves from the store to the view before its completion is sent.
LEMMA ResultsStep ==
  TypeOK /\ Owners /\ Exclusion /\ Results /\ [Next]_vars => Results'
<1> SUFFICES ASSUME TypeOK, Owners, Exclusion, Results, [Next]_vars
             PROVE  Results'
  OBVIOUS
<1> USE DEF Results
<1>0. /\ tasks \subseteq TaskType /\ \A t \in TaskType : t.drv \in Drvs
      /\ state \in [Drvs -> {"unassigned", "running", "done", "failed"}]
  BY DEF TypeOK, LoopType, TaskType
<1>1. CASE UNCHANGED <<state, done, tasks, local, selected, view>>
  BY <1>1 DEF Completions
<1>2. ASSUME NEW t \in tasks, Execute(t) \/ Lock(t) PROVE Results'
  <2>1. UNCHANGED state
    BY <1>2, GoroutineStep DEF loopVars
  <2>2. view \subseteq view'
    BY <1>2, PublicationStep DEF Advances, publishedVars
  <2>3. Moves(t) \/ Ends(t)
    BY <1>2, GoroutineStep
  <2>4. CASE Ends(t) /\ UNCHANGED publishedVars
    <3>1. done' = Append(done, Event(t, FALSE)) \/ done' = done
      BY <2>4 DEF Ends, Send
    <3>2. \A k \in Completions' :
            \/ k \in Completions /\ done'[k] = done[k]
            \/ done'[k].drv = t.drv /\ done'[k].err = t.err
      BY <3>1, SentCompletions
    <3> QED BY <2>1, <2>4, <3>2 DEF Ends, publishedVars
  <2>5. ASSUME NEW u \in TaskType,
               SameAssignment(t, u), Become(t, u), Advances(t, u)
        PROVE  Results'
    <3>1. \A k \in Completions' : k \in Completions /\ done'[k] = done[k]
      <4>1. CASE Moves(t)
        <5>1. done' = Append(done, Event(t, TRUE)) \/ done' = done
          BY <4>1 DEF Moves, Send
        <5> QED BY <5>1, SentCompletions
      <4>2. CASE Ends(t)
        <5>1. u \in tasks' /\ tasks' = tasks \ {t} /\ u.drv = t.drv
          BY <2>5, <4>2 DEF Ends, Become, SameAssignment
        <5> QED BY <5>1 DEF Owners
      <4> QED BY <2>3, <4>1, <4>2
    <3>2. tasks' = (tasks \ {t}) \cup {u} /\ u.drv = t.drv
      BY <2>5 DEF Become, SameAssignment
    <3>3. local \subseteq local'
      BY <2>5 DEF Advances, publishedVars
    <3>4. \A x \in tasks : x # t /\ x.stage = "publish" => selected' = selected
      BY <2>5 DEF Advances, Exclusion, publishedVars
    <3>5. u.err = None =>
            /\ u.stage \in {"release", "lock"} => u.drv \in local'
            /\ u.stage = "publish" => u.drv \in selected'
            /\ u.stage = "send" => u.drv \in view'
      BY <2>5, <3>2, <3>3 DEF Advances, publishedVars
    <3> QED BY <2>1, <2>2, <3>1, <3>2, <3>3, <3>4, <3>5
  <2> QED BY <1>2, <2>4, <2>5, PublicationStep
<1>3. ASSUME NEW r \in Runners, NEW d \in Drvs, Assign(r, d) PROVE Results'
  <2> DEFINE i == IF r = 0 THEN NoInstance ELSE status[r].instance
             new == Task(r, sequences[r] + 1, d, i)
  <2>1. /\ tasks' = tasks \cup {new} /\ done' = done
        /\ state' = [state EXCEPT ![d] = "running"]
        /\ UNCHANGED <<local, selected, view>>
    BY <1>3 DEF Assign, publicationVars
  <2>2. new.stage = "begin"
    BY DEF Task
  <2>3. Completions' = Completions
    BY <2>1 DEF Completions
  <2> HIDE DEF new
  <2> QED BY <1>0, <2>1, <2>2, <2>3
<1>4. CASE Receive
  <2>1. /\ done # <<>> /\ done' = Tail(done)
        /\ UNCHANGED <<tasks, local, selected, view>>
    BY <1>4
       DEF Receive, ReceiveReleased, ReceiveCompletion, publicationVars
  <2>2. /\ Head(done) = done[1] /\ ~Head(done).released => 1 \in Completions
        /\ \A k \in Completions' :
             k + 1 \in Completions /\ done'[k] = done[k + 1]
    BY <2>1, ReceivedCompletions
  <2>3. \A k \in Completions' : done'[k].err = None => done'[k].drv \in view
    BY <2>2
  <2>4. \A d \in Drvs : state'[d] = "done" => d \in view
    <3>1. CASE ReceiveReleased
      BY <3>1 DEF ReceiveReleased
    <3>2. CASE ReceiveCompletion
      <4>1. Head(done).err = None => Head(done).drv \in view
        BY <2>2, <3>2 DEF ReceiveCompletion
      <4>2. \A d \in Drvs :
              \/ state'[d] # "done" \/ state'[d] = state[d]
              \/ d = Head(done).drv /\ Head(done).err = None
        BY <1>0, <3>2 DEF ReceiveCompletion, LeaveSchedule
      <4> QED BY <4>1, <4>2
    <3> QED BY <1>4, <3>1, <3>2 DEF Receive
  <2> QED BY <2>1, <2>3, <2>4
<1>5. CASE BeginIteration
  <2>1. /\ UNCHANGED <<done, tasks, local, selected, view>>
        /\ \A d \in Drvs : state'[d] = "done" => state[d] = "done"
    BY <1>0, <1>5 DEF BeginIteration, publicationVars
  <2> QED BY <2>1 DEF Completions
<1>6. CASE Settle \/ PeriodicExit
  BY <1>1, <1>6 DEF Settle, PeriodicExit, loopVars, publicationVars
<1>7. CASE Flush
  BY <1>7 DEF Flush, Completions
<1>8. CASE PeriodicStart \/ PeriodicEnd
  <2>1. \A t \in tasks : t.stage # "publish"
    BY <1>8 DEF PeriodicStart, PeriodicEnd, Exclusion
  <2>2. UNCHANGED <<state, done, tasks, local>> /\ view \subseteq view'
    BY <1>8 DEF PeriodicStart, PeriodicEnd, loopVars
  <2> QED BY <2>1, <2>2 DEF Completions
<1>9. CASE UNCHANGED <<bookVars, publicationVars>>
  BY <1>1, <1>9 DEF bookVars, publicationVars
<1> QED BY <1>2, <1>3, <1>4, <1>5, <1>6, <1>7, <1>8, <1>9, StepKinds

\* What is done stays done, so inputs taken later are complete.
LEMMA InputsStep ==
  TypeOK /\ Owners /\ Results /\ Inputs /\ [Next]_vars => Inputs'
<1> SUFFICES ASSUME TypeOK, Owners, Results, Inputs, [Next]_vars
             PROVE  Inputs'
  OBVIOUS
<1> USE DEF Inputs
<1>0. /\ tasks \subseteq TaskType
      /\ \A t \in TaskType : t.drv \in Drvs
      /\ state \in [Drvs -> {"unassigned", "running", "done", "failed"}]
      /\ \A d \in Drvs : Deps[d] \subseteq Drvs
  BY DEF TypeOK, LoopType, TaskType, Deps, PoolDependencies
<1>1. CASE UNCHANGED <<state, tasks>>
  BY <1>1
<1>2. ASSUME NEW t \in tasks, Execute(t) \/ Lock(t) PROVE Inputs'
  <2>1. UNCHANGED state
    BY <1>2, GoroutineStep DEF loopVars
  <2>2. CASE Ends(t)
    BY <2>1, <2>2 DEF Ends
  <2>3. ASSUME NEW u \in TaskType,
               SameAssignment(t, u), Become(t, u), Advances(t, u)
        PROVE  Inputs'
    <3>1. Deps[t.drv] \subseteq view
      BY <1>0 DEF Results
    <3>2. u.omitted = {}
      BY <2>3, <3>1 DEF Advances
    <3> QED BY <2>1, <2>3, <3>2 DEF Become, SameAssignment
  <2> QED BY <1>2, <2>2, <2>3, PublicationStep
<1>3. ASSUME NEW r \in Runners, NEW d \in Drvs, Assign(r, d) PROVE Inputs'
  <2> DEFINE i == IF r = 0 THEN NoInstance ELSE status[r].instance
             new == Task(r, sequences[r] + 1, d, i)
  <2>1. /\ tasks' = tasks \cup {new}
        /\ state' = [state EXCEPT ![d] = "running"]
        /\ state[d] = "unassigned" /\ \A e \in Deps[d] : state[e] = "done"
    BY <1>3 DEF Assign, Preferred, Candidates, Ready
  <2>2. new.drv = d /\ new.omitted = {}
    BY DEF Task
  <2> HIDE DEF new
  <2> QED BY <1>0, <2>1, <2>2
<1>4. CASE Receive
  <2>1. UNCHANGED tasks
    BY <1>4 DEF Receive, ReceiveReleased, ReceiveCompletion
  <2>2. \A d \in Drvs : state[d] = "done" => state'[d] = "done"
    <3>1. CASE ReceiveReleased
      BY <3>1 DEF ReceiveReleased
    <3>2. CASE ReceiveCompletion
      <4>1. state[Head(done).drv] = "running"
        <5>1. 1 \in Completions /\ Head(done) = done[1]
          BY <3>2, ReceivedCompletions DEF ReceiveCompletion
        <5> QED BY <5>1 DEF Owners
      <4> QED BY <1>0, <3>2, <4>1 DEF ReceiveCompletion, LeaveSchedule
    <3> QED BY <1>4, <3>1, <3>2 DEF Receive
  <2> QED BY <1>0, <2>1, <2>2
<1>5. CASE BeginIteration
  <2>1. /\ UNCHANGED tasks
        /\ \A d \in Drvs : state[d] = "done" => state'[d] = "done"
    BY <1>0, <1>5 DEF BeginIteration, Abandoned
  <2> QED BY <1>0, <2>1
<1>6. CASE Settle \/ Flush \/ PeriodicStart \/ PeriodicEnd \/ PeriodicExit
  BY <1>1, <1>6
     DEF Settle, Flush, PeriodicStart, PeriodicEnd, PeriodicExit, loopVars
<1>7. CASE UNCHANGED <<bookVars, publicationVars>>
  BY <1>1, <1>7 DEF bookVars
<1> QED BY <1>2, <1>3, <1>4, <1>5, <1>6, <1>7, StepKinds

\* The inductive invariant of the publication order.
Invariant == TypeOK /\ Owners /\ Exclusion /\ Results /\ Inputs

LEMMA InvariantHolds == Spec => []Invariant
<1>1. Init => Invariant
  BY TypeInit
     DEF Init, Invariant, Owners, Exclusion, Results, Inputs, Completions
<1>2. Invariant /\ [Next]_vars => Invariant'
  BY TypeStep, OwnersStep, ExclusionStep, ResultsStep, InputsStep
     DEF Invariant
<1> QED BY <1>1, <1>2, PTL DEF Spec

\* An assignment sent to a helper carries every dependency, although the
\* runner that built a dependency was freed before its result was published.
THEOREM InputsComplete == Spec => []InputsPublished
<1>1. Invariant => InputsPublished
  <2> SUFFICES ASSUME Invariant, NEW t \in tasks
               PROVE  Deps[t.drv] \subseteq view /\ t.omitted = {}
    BY DEF InputsPublished
  <2>1. Deps[t.drv] \subseteq Drvs
    BY DEF Invariant, TypeOK, TaskType, Deps, PoolDependencies
  <2> QED BY <2>1 DEF Invariant, Inputs, Results
<1> QED BY <1>1, InvariantHolds, PTL

-----------------------------------------------------------------------------
(***************************************************************************)
(* The pool keeps the promises of BuildOrder.                              *)
(***************************************************************************)

\* The events the loop receives decide derivations as BuildOrder allows.
LEMMA ReceiveRefines ==
  ASSUME Invariant, Receive
  PROVE  Promise!Next \/ UNCHANGED <<state, view>>
<1>1. UNCHANGED view
  BY DEF Receive, ReceiveReleased, ReceiveCompletion, publicationVars
<1>2. CASE ReceiveReleased
  BY <1>1, <1>2 DEF ReceiveReleased
<1>3. CASE ReceiveCompletion
  <2> DEFINE e == Head(done)
  <2>1. 1 \in Completions /\ e = done[1] /\ e \in EventType
    BY <1>3, ReceivedCompletions DEF ReceiveCompletion, Invariant
  <2>2. /\ e.drv \in Drvs /\ state[e.drv] = "running"
        /\ e.err = None => e.drv \in view
    BY <2>1 DEF EventType, Invariant, Owners, Results
  <2>3. \/ UNCHANGED state
        \/ e.err = None /\ state' = [state EXCEPT ![e.drv] = "done"]
        \/ state' = [state EXCEPT ![e.drv] = "unassigned"]
        \/ state' = [state EXCEPT ![e.drv] = "failed"]
    BY <1>3 DEF ReceiveCompletion
  <2>4. \/ UNCHANGED state
        \/ Promise!Finish(e.drv) \/ Promise!Retry(e.drv) \/ Promise!Fail(e.drv)
    BY <1>1, <2>2, <2>3
       DEF Promise!Finish, Promise!Retry, Promise!Fail, Promise!Set
  <2> QED BY <1>1, <2>2, <2>4 DEF Promise!Next
<1> QED BY <1>2, <1>3 DEF Receive

LEMMA StepRefines ==
  ASSUME Invariant, [Next]_vars
  PROVE  Promise!Next \/ UNCHANGED <<state, view>>
<1>0. \A d \in Drvs : Deps[d] \subseteq Drvs
  BY DEF Deps, PoolDependencies
<1>1. ASSUME UNCHANGED state, view \subseteq view', view' \subseteq Drvs
      PROVE  Promise!Next
  <2>1. view' = view \cup view'
    BY <1>1
  <2> QED BY <1>1, <2>1 DEF Promise!Next, Promise!Publish
<1>2. view' \subseteq Drvs
  BY TypeStep DEF Invariant, TypeOK, PublicationType
<1>3. ASSUME NEW t \in tasks, Execute(t) \/ Lock(t)
      PROVE  Promise!Next \/ UNCHANGED <<state, view>>
  <2>1. view \subseteq view'
    BY <1>3, PublicationStep DEF Invariant, Advances, publishedVars
  <2>2. UNCHANGED state
    BY <1>3, GoroutineStep DEF Invariant, loopVars
  <2> QED BY <1>1, <1>2, <2>1, <2>2
<1>4. ASSUME NEW r \in Runners, NEW d \in Drvs, Assign(r, d)
      PROVE  Promise!Next
  <2>1. /\ state[d] = "unassigned" /\ \A e \in Deps[d] : state[e] = "done"
        /\ state' = [state EXCEPT ![d] = "running"] /\ UNCHANGED view
    BY <1>4 DEF Assign, Preferred, Candidates, Ready, publicationVars
  <2>2. \A e \in Deps[d] : e \in view
    BY <1>0, <2>1 DEF Invariant, Results
  <2>3. Promise!Start(d)
    BY <2>1, <2>2 DEF Promise!Start, Promise!Set
  <2> QED BY <2>3 DEF Promise!Next
<1>5. CASE BeginIteration
  <2>1. CASE UNCHANGED <<state, view>>
    BY <2>1
  <2>2. ASSUME NEW S \in SUBSET Drvs, Abandoned(S),
               state' = [d \in Drvs |-> IF d \in S THEN "failed" ELSE state[d]]
        PROVE  Promise!Abandon(S)
    <3>1. UNCHANGED view
      BY <1>5 DEF BeginIteration, publicationVars
    <3>2. \A d \in S : /\ state[d] = "unassigned"
                      /\ \E e \in Deps[d] : state[e] = "failed" \/ e \in S
      BY <2>2 DEF Abandoned
    <3> QED BY <2>2, <3>1, <3>2 DEF Promise!Abandon
  <2> QED BY <1>5, <2>1, <2>2 DEF BeginIteration, Promise!Next, publicationVars
<1>6. CASE Settle \/ PeriodicStart \/ PeriodicExit
  BY <1>6 DEF Settle, PeriodicStart, PeriodicExit, loopVars, publicationVars
<1>7. CASE Flush \/ PeriodicEnd
  BY <1>1, <1>2, <1>7 DEF Flush, PeriodicEnd, loopVars
<1>8. CASE UNCHANGED <<bookVars, publicationVars>>
  BY <1>8 DEF bookVars, publicationVars
<1> QED BY <1>3, <1>4, <1>5, <1>6, <1>7, <1>8, ReceiveRefines, StepKinds

\* schedule and build, with any helpers, failures and refreshes, do only what
\* BuildOrder allows: order, one attempt at a time, published before finished.
THEOREM PoolImplementsBuildOrder == Spec => ImplementsBuildOrder
<1>1. Init => Promise!Init
  BY DEF Init, Promise!Init
<1>2. Invariant /\ [Next]_vars => [Promise!Next]_(Promise!vars)
  BY StepRefines DEF Promise!vars
<1> QED
  BY <1>1, <1>2, InvariantHolds, PTL DEF Spec, ImplementsBuildOrder, Promise!Spec

-----------------------------------------------------------------------------

(***************************************************************************)
(* What build returns. The loop has no result while it runs; when it       *)
(* leaves, the result says why; then nothing changes the decisions, and    *)
(* build flushes the store after the last goroutine has ended.             *)
(***************************************************************************)
Deciding == pc \in {"start", "loop", "assign", "settle", "select"}

Reasons ==
  /\ Deciding <=> result = None
  /\ result \in {"built", "failed"} =>
       \A d \in Drvs : state[d] \in {"done", "failed"}
  /\ result = "built" => ~failure
  /\ result = "cancelled" => cause # None

Failures == \A d \in Drvs : state[d] = "failed" => failure

Ended == pc \in {"start", "flush", "returned"} => tasks = {}

Flushed ==
  pc = "returned" /\ result # "publication" =>
    cause = None /\ result \in {"built", "failed"} /\ local \subseteq view

Outcome == Reasons /\ Failures /\ Ended /\ Flushed

\* What is given up in an iteration depends, in the end, on something that failed:
\* a plan without cycles has no derivations that only wait for one another.
LEMMA AbandonedFailed ==
  ASSUME Failures, NEW S \in SUBSET Drvs, Abandoned(S), S # {}
  PROVE  failure
<1>1. PICK d \in S : Deps[d] \cap S = {}
  BY AcyclicPlan
<1>2. state[d] = "unassigned" /\ \E e \in Deps[d] : state[e] = "failed" \/ e \in S
  BY DEF Abandoned
<1>3. Deps[d] \subseteq Drvs
  BY DEF Deps, PoolDependencies
<1> QED BY <1>1, <1>2, <1>3 DEF Failures

\* A goroutine may cancel build's context, never revive it.
LEMMA StaysCancelled ==
  ASSUME NEW t \in tasks, Execute(t) \/ Lock(t)
  PROVE  cause # None => cause' # None
<1> USE DEF None
<1>1. CASE ExecuteCancelled(t) \/ BuildLocally(t) \/ PublishInputs(t)
  BY <1>1 DEF ExecuteCancelled, BuildLocally, PublishInputs, publicationVars
<1>2. CASE RemoteSucceeds(t) \/ RemoteFails(t) \/ Release(t)
  BY <1>2 DEF RemoteSucceeds, RemoteFails, Release, publicationVars
<1>3. CASE Publish(t) \/ Complete(t) \/ Lock(t)
  BY <1>3 DEF Publish, Complete, Lock, publicationVars
<1> QED BY <1>1, <1>2, <1>3 DEF Execute

\* The loop's own steps before it leaves: it decides, and has no result.
LEMMA OutcomeLoop ==
  ASSUME TypeOK, Outcome, Loop \/ Tick \/ Receive
  PROVE  Outcome'
<1> USE DEF Outcome, Deciding, None
<1>0. state \in [Drvs -> {"unassigned", "running", "done", "failed"}]
  BY DEF TypeOK, LoopType
<1>1. CASE FirstRefresh
  BY <1>1 DEF FirstRefresh, Reasons, Failures, Ended, Flushed, publicationVars
<1>2. CASE BeginIteration
  <2>1. UNCHANGED <<failure, tasks, cause, local, view>> /\ pc = "loop"
    BY <1>2 DEF BeginIteration, publicationVars
  <2>2. CASE Cancelled
    <3>1. cause # None
      BY <2>1, <2>2 DEF Cancelled, BuildCancelled
    <3>2. pc' = "join" /\ result' = "cancelled" /\ state' = state
      BY <1>2, <2>2 DEF BeginIteration, LeaveSchedule
    <3> QED BY <2>1, <3>1, <3>2 DEF Reasons, Failures, Ended, Flushed
  <2>3. CASE ~Cancelled
    <3>1. PICK S \in SUBSET Drvs :
            /\ Abandoned(S)
            /\ state' = [d \in Drvs |-> IF d \in S THEN "failed" ELSE state[d]]
      BY <1>2, <2>3 DEF BeginIteration
    <3>2. pc' = "assign" /\ result' = result
      BY <1>2, <2>3 DEF BeginIteration
    <3>3. Failures'
      BY <2>1, <3>1, AbandonedFailed DEF Failures
    <3> QED BY <2>1, <3>2, <3>3 DEF Reasons, Ended, Flushed
  <2> QED BY <2>2, <2>3
<1>3. CASE Settle
  <2>1. UNCHANGED <<state, failure, tasks, cause, local, view>> /\ pc = "settle"
    BY <1>3 DEF Settle, publicationVars
  <2>2. CASE Active \/ Unassigned
    BY <1>3, <2>1, <2>2 DEF Settle, Reasons, Failures, Ended, Flushed
  <2>3. CASE ~(Active \/ Unassigned)
    <3>1. pc' = "join" /\ result' = IF failure THEN "failed" ELSE "built"
      BY <1>3, <2>3 DEF Settle, LeaveSchedule
    <3>2. \A d \in Drvs : state[d] \in {"done", "failed"}
      BY <1>0, <2>3 DEF Active, Unassigned
    <3> QED BY <2>1, <3>1, <3>2 DEF Reasons, Failures, Ended, Flushed
  <2> QED BY <2>2, <2>3
<1>4. ASSUME NEW r \in Runners, Turn(r) PROVE Outcome'
  <2>1. /\ UNCHANGED <<failure, result, cause, local, view>>
        /\ pc = "assign" /\ pc' \in {"assign", "settle"}
        /\ \A d \in Drvs : state'[d] = "failed" => state[d] = "failed"
    <3>1. CASE RetireTurn(r) \/ SkipTurn(r) \/ NothingForTurn(r)
      BY <3>1 DEF RetireTurn, SkipTurn, NothingForTurn, NextTurn, publicationVars
    <3>2. ASSUME NEW d \in Drvs, Assign(r, d)
          PROVE  /\ UNCHANGED <<failure, result, cause, local, view>>
                 /\ pc = "assign" /\ pc' \in {"assign", "settle"}
                 /\ state' = [state EXCEPT ![d] = "running"]
      BY <3>2 DEF Assign, NextTurn, publicationVars
    <3> QED BY <1>0, <1>4, <3>1, <3>2 DEF Turn
  <2> QED BY <2>1 DEF Reasons, Failures, Ended, Flushed
<1>5. CASE SelectCancelled
  <2>1. cause # None
    BY <1>5 DEF SelectCancelled, Cancelled, BuildCancelled
  <2> QED BY <1>5, <2>1
      DEF SelectCancelled, LeaveSchedule, Reasons, Failures, Ended, Flushed, publicationVars
<1>6. CASE Join
  BY <1>6 DEF Join, loopVars, publicationVars, Reasons, Failures, Ended, Flushed
<1>7. CASE Flush
  <2>1. /\ UNCHANGED <<state, failure, tasks, cause, local>>
        /\ pc = "flush" /\ pc' = "returned"
        /\ result' \in {result, "publication"}
    BY <1>7 DEF Flush
  <2>2. result' # "publication" =>
          result' = result /\ cause = None /\ local \subseteq view'
    BY <1>7 DEF Flush, PublicationFailed
  <2>3. Reasons'
    BY <2>1 DEF Reasons
  <2>4. result \in {None, "built", "failed", "publication", "cancelled"}
    BY DEF TypeOK, LoopType
  <2> QED BY <2>1, <2>2, <2>3, <2>4 DEF Reasons, Failures, Ended, Flushed
<1>8. CASE Tick \/ ReceiveReleased
  BY <1>8 DEF Tick, ReceiveReleased, loopVars, publicationVars,
              Reasons, Failures, Ended, Flushed
<1>9. CASE ReceiveCompletion
  <2>1. /\ UNCHANGED <<tasks, cause, local, view>> /\ pc = "select"
        /\ \/ pc' = "loop" /\ result' = result
           \/ pc' = "join" /\ result' = "publication"
    BY <1>9 DEF ReceiveCompletion, LeaveSchedule, publicationVars
  <2>2. \/ failure'
        \/ /\ failure' = failure
           /\ \A d \in Drvs : state'[d] = "failed" => state[d] = "failed"
    BY <1>0, <1>9 DEF ReceiveCompletion
  <2> QED BY <2>1, <2>2 DEF Reasons, Failures, Ended, Flushed
<1> QED BY <1>1, <1>2, <1>3, <1>4, <1>5, <1>6, <1>7, <1>8, <1>9 DEF Loop, Receive

\* The goroutines end before build looks at what they left.
LEMMA OutcomeStep == TypeOK /\ Outcome /\ [Next]_vars => Outcome'
<1> SUFFICES ASSUME TypeOK, Outcome, [Next]_vars PROVE Outcome'
  OBVIOUS
<1> USE DEF Outcome, Deciding, None
<1>1. CASE Loop \/ Tick \/ Receive
  BY <1>1, OutcomeLoop
<1>2. ASSUME NEW t \in tasks, Execute(t) \/ Lock(t) PROVE Outcome'
  <2>1. UNCHANGED <<pc, state, failure, result>>
    BY <1>2, GoroutineStep DEF loopVars
  <2>2. cause # None => cause' # None
    BY <1>2, StaysCancelled
  <2>3. pc \notin {"start", "flush", "returned"}
    BY DEF Ended
  <2> QED BY <2>1, <2>2, <2>3 DEF Reasons, Failures, Ended, Flushed
<1>3. CASE PeriodicStart \/ PeriodicEnd \/ PeriodicExit
  <2>1. /\ UNCHANGED <<pc, state, failure, result, tasks, local>>
        /\ view \subseteq view'
        /\ cause # None => cause' # None
        /\ pc = "returned" => cause' = cause
    BY <1>3 DEF PeriodicStart, PeriodicEnd, PeriodicExit, loopVars, BuildCancelled
  <2> QED BY <2>1 DEF Reasons, Failures, Ended, Flushed
<1>4. ASSUME UNCHANGED <<pc, loopVars, tasks, publicationVars>> PROVE Outcome'
  BY <1>4 DEF loopVars, publicationVars, Reasons, Failures, Ended, Flushed
<1>5. ASSUME NEW h \in Helpers, Helper(h) PROVE Outcome'
  BY <1>4, <1>5 DEF Helper, SeeBusy, SeeResult, Expire, Renew, SeeReady, See
<1>6. CASE StartupDeadline \/ Returned \/ UNCHANGED vars
  BY <1>4, <1>6 DEF StartupDeadline, Returned, vars
<1> QED BY <1>1, <1>2, <1>3, <1>5, <1>6 DEF Next

\* HonestResult for any helpers, plan without cycles and failures: build returns
\* "built" only with every output published, "failed" only with everything decided
\* and what was built published, and nothing but an error once a publication failed.
THEOREM ResultsAreHonest == Spec => []HonestResult
<1>1. Init => Outcome
  BY DEF Init, Outcome, Reasons, Deciding, Failures, Ended, Flushed, None
<1>2. Spec => []Outcome
  BY <1>1, OutcomeStep, TypeCorrect, PTL DEF Spec
<1>3. Invariant /\ Outcome => HonestResult
  <2> SUFFICES ASSUME Invariant, Outcome, pc = "returned", result # "publication"
               PROVE  /\ \A d \in Drvs : state[d] \in {"done", "failed"}
                      /\ result = "built" =>
                           \A d \in Drvs : d \in view /\ state[d] = "done"
    BY DEF HonestResult, Outcome, Flushed
  <2> QED BY DEF Outcome, Reasons, Failures, Flushed, Invariant, Results
<1> QED BY <1>2, <1>3, InvariantHolds, PTL

-----------------------------------------------------------------------------
(***************************************************************************)
(* One refresh at a time. LivePublication has one refresher, and Flush     *)
(* publishes without the lock: the goroutines and the periodic refresher   *)
(* hold it one at a time, give it back, and are done before build flushes  *)
(* (publicationMu, schedule's group.Wait, build's wait for `periodic').    *)
(***************************************************************************)
Refreshing == { t \in tasks : t.stage = "publish" }

OneRefresh ==
  /\ \A t, u \in Refreshing : t = u
  /\ Refreshing # {} => periodic # "refreshing"
  /\ mutex = "free" <=> Refreshing = {} /\ periodic # "refreshing"
  /\ pc = "returned" \/ (pc = "flush" /\ periodic = "exited") => mutex = "free"

\* A lock that is held has a holder, and the refresher runs inside build.
Holder ==
  /\ mutex = "task" => Refreshing # {}
  /\ mutex = "periodic" => periodic = "refreshing"
  /\ pc \in {"start", "returned"} => periodic # "refreshing"

\* A step of a goroutine takes the lock, leaves it alone or gives it back.
LEMMA HolderGoroutine ==
  ASSUME TypeOK, Exclusion, Holder, NEW t \in tasks, Execute(t) \/ Lock(t)
  PROVE  Holder'
<1>1. pc' = pc
  BY GoroutineStep DEF loopVars
<1>2. CASE t.stage = "publish"
  <2>1. Publish(t)
    BY <1>2 DEF Execute, ExecuteCancelled, BuildLocally, PublishInputs,
                RemoteSucceeds, RemoteFails, Release, Complete, Lock, At
  <2>2. mutex' = "free" /\ periodic' = periodic
    BY <2>1 DEF Publish
  <2> QED BY <1>1, <2>2 DEF Holder
<1>3. CASE t.stage # "publish" /\ Ends(t) /\ UNCHANGED publishedVars
  BY <1>1, <1>3 DEF Holder, Refreshing, Ends, publishedVars
<1>4. ASSUME t.stage # "publish",
             NEW u \in TaskType, Become(t, u), Advances(t, u)
      PROVE  Holder'
  <2>1. tasks' = (tasks \ {t}) \cup {u} /\ periodic' = periodic
    BY <1>4 DEF Become, Advances, publishedVars
  <2>2. \/ u.stage = "publish" /\ mutex' = "task"
        \/ mutex' = mutex
    BY <1>4 DEF Advances, publishedVars
  <2>3. u.stage = "publish" => u \in Refreshing'
    BY <2>1 DEF Refreshing
  <2>4. Refreshing # {} => Refreshing' # {}
    BY <1>4, <2>1 DEF Refreshing
  <2> QED BY <1>1, <2>1, <2>2, <2>3, <2>4 DEF Holder
<1> QED BY <1>2, <1>3, <1>4, PublicationStep

\* The steps of the loop and of the refresher: build returns only after it has
\* waited for the refresher, which starts only while build runs.
LEMMA HolderStep ==
  TypeOK /\ Exclusion /\ Holder /\ [Next]_vars => Holder'
<1> SUFFICES ASSUME TypeOK, Exclusion, Holder, [Next]_vars PROVE Holder'
  OBVIOUS
<1>1. ASSUME NEW t \in tasks, Execute(t) \/ Lock(t) PROVE Holder'
  BY <1>1, HolderGoroutine
<1>2. CASE PeriodicStart \/ PeriodicEnd \/ PeriodicExit
  BY <1>2 DEF PeriodicStart, PeriodicEnd, PeriodicExit, Running, Holder,
              Exclusion, Refreshing
<1>3. ASSUME UNCHANGED <<tasks, mutex, periodic>>,
             pc' \in {"start", "returned"} =>
               pc \in {"start", "returned"} \/ periodic # "refreshing"
      PROVE  Holder'
  BY <1>3 DEF Holder, Refreshing
<1>4. CASE FirstRefresh \/ Flush
  BY <1>3, <1>4 DEF FirstRefresh, Flush, publicationVars
<1>5. CASE BeginIteration \/ Settle
  BY <1>3, <1>5 DEF BeginIteration, Settle, LeaveSchedule, publicationVars
<1>6. ASSUME NEW r \in Runners, Turn(r) PROVE Holder'
  <2>1. CASE RetireTurn(r) \/ SkipTurn(r) \/ NothingForTurn(r)
    BY <1>3, <2>1
       DEF RetireTurn, SkipTurn, NothingForTurn, NextTurn, publicationVars
  <2>2. ASSUME NEW d \in Drvs, Assign(r, d) PROVE Holder'
    <3> DEFINE new == Task(r, sequences[r] + 1, d,
                        IF r = 0 THEN NoInstance ELSE status[r].instance)
    <3>1. new.stage = "begin"
      BY DEF Task
    <3>2. tasks' = tasks \cup {new}
      BY <2>2 DEF Assign
    <3> HIDE DEF new
    <3>3. Refreshing' = Refreshing
      BY <3>1, <3>2 DEF Refreshing
    <3>4. mutex' = mutex /\ periodic' = periodic
          /\ pc' \notin {"start", "returned"}
      BY <2>2 DEF Assign, NextTurn, publicationVars
    <3> QED BY <3>3, <3>4 DEF Holder
  <2> QED BY <1>6, <2>1, <2>2 DEF Turn
<1>7. CASE SelectCancelled \/ Join \/ Tick
  BY <1>3, <1>7 DEF SelectCancelled, Join, Tick, LeaveSchedule, publicationVars
<1>8. CASE Receive
  BY <1>3, <1>8 DEF Receive, ReceiveReleased, ReceiveCompletion, LeaveSchedule,
                    publicationVars
<1>9. ASSUME NEW h \in Helpers, Helper(h) PROVE Holder'
  <2>1. UNCHANGED <<pc, tasks, publicationVars>>
    BY <1>9 DEF Helper, SeeBusy, SeeResult, Expire, Renew, SeeReady, See
  <2> QED BY <1>3, <2>1 DEF publicationVars
<1>10. CASE StartupDeadline \/ Returned \/ UNCHANGED vars
  BY <1>3, <1>10 DEF StartupDeadline, Returned, vars, publicationVars
<1> QED BY <1>1, <1>2, <1>4, <1>5, <1>6, <1>7, <1>8, <1>9, <1>10 DEF Next, Loop

\* Refreshes never overlap, the lock is free whenever nobody refreshes, however
\* goroutines and build are cancelled, and nobody does when build flushes or has
\* returned: the one refresher at a time that LivePublication starts from.
THEOREM RefreshesExclusive == Spec => []OneRefresh
<1>1. Init => Outcome /\ Holder
  BY DEF Init, Outcome, Reasons, Deciding, Failures, Ended, Flushed, None,
         Holder, Refreshing
<1>2. Spec => [](Outcome /\ Holder)
  <2>1. Invariant /\ Outcome /\ Holder /\ [Next]_vars => (Outcome /\ Holder)'
    BY OutcomeStep, HolderStep DEF Invariant
  <2> QED BY <1>1, <2>1, InvariantHolds, PTL DEF Spec
<1>3. Invariant /\ Outcome /\ Holder => OneRefresh
  <2> SUFFICES ASSUME Invariant, Outcome, Holder PROVE OneRefresh
    OBVIOUS
  <2>1. mutex \in {"free", "task", "periodic"}
        /\ periodic \in {"idle", "refreshing", "exited"}
    BY DEF Invariant, TypeOK, PublicationType
  <2>2. pc \in {"flush", "returned"} => Refreshing = {}
    BY DEF Outcome, Ended, Refreshing
  <2>3. \A t \in Refreshing :
          mutex = "task" /\ \A u \in Refreshing : u = t
    BY DEF Invariant, Exclusion, Refreshing
  <2>4. periodic = "refreshing" => mutex = "periodic"
    BY DEF Invariant, Exclusion
  <2>5. mutex = "free" <=> Refreshing = {} /\ periodic # "refreshing"
    BY <2>1, <2>3, <2>4 DEF Holder
  <2> QED BY <2>2, <2>3, <2>4, <2>5 DEF OneRefresh, Holder
<1> QED BY <1>2, <1>3, InvariantHolds, PTL

-----------------------------------------------------------------------------
(***************************************************************************)
(* The books are exact. A running derivation, and an assignment counted in *)
(* `pending', belong to a goroutine or to a completion in the channel; only *)
(* a cancelled goroutine goes without leaving a completion.                *)
(***************************************************************************)
Attempted ==
  ~Cancelled => \A d \in Drvs : state[d] = "running" =>
    (\E t \in tasks : t.drv = d) \/ (\E k \in Completions : done[k].drv = d)

TasksOf(r) == { t \in tasks : t.runner = r }
CompletionsOf(r) == { k \in Completions : done[k].runner = r }
Outstanding(r) == Cardinality(TasksOf(r)) + Cardinality(CompletionsOf(r))

Counted ==
  /\ IsFiniteSet(tasks)
  /\ \A r \in Runners :
       /\ pending[r] <= Limit /\ Outstanding(r) <= pending[r]
       /\ ~Cancelled => Outstanding(r) = pending[r]

\* A finished context stays so (cancel is called once, schedule returns once).
LEMMA CancelledStays == [Next]_vars => (Cancelled => Cancelled')
<1> SUFFICES ASSUME [Next]_vars, Cancelled PROVE Cancelled'
  OBVIOUS
<1> USE DEF Cancelled, BuildCancelled, None
<1>1. CASE Loop
  <2>1. CASE FirstRefresh \/ BeginIteration \/ Settle
    BY <2>1 DEF FirstRefresh, BeginIteration, LeaveSchedule, Settle, publicationVars
  <2>2. ASSUME NEW r \in Runners, Turn(r) PROVE Cancelled'
    BY <2>2 DEF Turn, RetireTurn, SkipTurn, NothingForTurn, Assign, publicationVars, NextTurn
  <2>3. CASE SelectCancelled \/ Join \/ Flush
    BY <2>3 DEF SelectCancelled, LeaveSchedule, Join, Flush, publicationVars
  <2> QED BY <1>1, <2>1, <2>2, <2>3 DEF Loop
<1>2. CASE Tick \/ Receive
  BY <1>2 DEF Tick, Receive, ReceiveReleased, ReceiveCompletion, publicationVars
<1>3. ASSUME NEW t \in tasks, Execute(t) \/ Lock(t) PROVE Cancelled'
  <2>1. pc' = pc
    BY <1>3 DEF Execute, ExecuteCancelled, BuildLocally, PublishInputs, RemoteSucceeds,
                RemoteFails, Release, Publish, Complete, Lock
  <2> QED BY <1>3, <2>1, StaysCancelled
<1>4. CASE PeriodicStart \/ PeriodicEnd \/ PeriodicExit
  BY <1>4 DEF PeriodicStart, PeriodicEnd, PeriodicExit
<1>5. ASSUME NEW h \in Helpers, Helper(h) PROVE Cancelled'
  BY <1>5 DEF Helper, SeeBusy, SeeResult, Expire, Renew, SeeReady, See, publicationVars
<1>6. CASE StartupDeadline \/ Returned \/ UNCHANGED vars
  BY <1>6 DEF StartupDeadline, Returned, vars, publicationVars
<1> QED BY <1>1, <1>2, <1>3, <1>4, <1>5, <1>6 DEF Next

\* The completions in the channel after an event of t was sent.
LEMMA SentExactly ==
  ASSUME TypeOK, NEW t \in tasks, NEW released \in BOOLEAN,
         done' = Append(done, Event(t, released))
  PROVE  /\ Completions' = IF released THEN Completions
                           ELSE Completions \cup {Len(done) + 1}
         /\ \A k \in Completions : done'[k] = done[k]
         /\ Len(done) + 1 \notin Completions
         /\ done'[Len(done) + 1].drv = t.drv
         /\ done'[Len(done) + 1].runner = t.runner
<1>1. /\ Event(t, released) \in EventType
      /\ Event(t, released).drv = t.drv /\ Event(t, released).runner = t.runner
      /\ Event(t, released).released = released
  BY SentEvent DEF TypeOK
<1>2. /\ done \in Seq(EventType) /\ done' \in Seq(EventType)
      /\ Len(done') = Len(done) + 1 /\ Len(done) \in Nat
      /\ DOMAIN done = 1..Len(done) /\ DOMAIN done' = 1..Len(done) + 1
      /\ \A k \in 1..Len(done) : done'[k] = done[k]
      /\ done'[Len(done) + 1] = Event(t, released)
  BY <1>1, AppendProperties, LenProperties DEF TypeOK
<1>3. DOMAIN done' = DOMAIN done \cup {Len(done) + 1}
  BY <1>2
<1>4. Completions' = { k \in DOMAIN done' : ~done'[k].released }
  BY DEF Completions
<1> QED BY <1>1, <1>2, <1>3, <1>4 DEF Completions

\* The completions after the first event was received: the others move up.
LEMMA ReceivedExactly ==
  ASSUME TypeOK, done # <<>>, done' = Tail(done)
  PROVE  /\ Completions \subseteq Nat \ {0}
         /\ Completions' = { k \in Nat \ {0} : k + 1 \in Completions }
         /\ \A k \in Completions' : done'[k] = done[k + 1]
         /\ 1 \in Completions <=> ~Head(done).released
         /\ Head(done) = done[1] /\ Head(done) \in EventType
<1>1. /\ done \in Seq(EventType) /\ done' \in Seq(EventType)
      /\ Len(done) \in Nat \ {0} /\ Len(done') = Len(done) - 1
      /\ DOMAIN done = 1..Len(done) /\ DOMAIN done' = 1..Len(done) - 1
      /\ \A k \in 1..Len(done) - 1 : done'[k] = done[k + 1]
      /\ Head(done) = done[1]
  BY HeadTailProperties, LenProperties DEF TypeOK
<1>2. \A k : k \in DOMAIN done' <=> k \in Nat \ {0} /\ k + 1 \in DOMAIN done
  BY <1>1
<1>3. Completions' = { k \in DOMAIN done' : ~done'[k].released }
  BY DEF Completions
<1>4. Completions \subseteq Nat \ {0} /\ 1 \in DOMAIN done
  BY <1>1 DEF Completions
<1> QED BY <1>1, <1>2, <1>3, <1>4 DEF Completions

\* Positions that move up by one are as many as those after the first.
LEMMA Shifted ==
  ASSUME NEW K \in SUBSET (Nat \ {0}), IsFiniteSet(K),
         NEW L, L = { k \in Nat \ {0} : k + 1 \in K }
  PROVE  Cardinality(L) = Cardinality(K \ {1})
<1> DEFINE f == [k \in K \ {1} |-> k - 1]
<1>1. f \in [K \ {1} -> L]
  OBVIOUS
<1>2. \A a, b \in K \ {1} : f[a] = f[b] => a = b
  OBVIOUS
<1>3. \A l \in L : \E k \in K \ {1} : f[k] = l
  <2> TAKE l \in L
  <2>1. l + 1 \in K \ {1} /\ f[l + 1] = l
    OBVIOUS
  <2> QED BY <2>1
<1> HIDE DEF f
<1>4. f \in Bijection(K \ {1}, L)
  BY <1>1, <1>2, <1>3, Fun_IsBij
<1>5. IsFiniteSet(K \ {1})
  BY FS_RemoveElement
<1> QED BY <1>4, <1>5, FS_Bijection DEF ExistsBijection

\* A derivation that runs is not forgotten: its goroutine ends only once its
\* completion is sent, and its completion is received only to decide it.
LEMMA AttemptedStep ==
  TypeOK /\ Owners /\ Attempted /\ [Next]_vars => Attempted'
<1> SUFFICES ASSUME TypeOK, Owners, Attempted, [Next]_vars, ~Cancelled'
             PROVE  \A d \in Drvs : state'[d] = "running" =>
                      \/ \E t \in tasks' : t.drv = d
                      \/ \E k \in Completions' : done'[k].drv = d
  BY DEF Attempted
<1> DEFINE Held == \A d \in Drvs : state[d] = "running" =>
                      \/ \E t \in tasks : t.drv = d
                      \/ \E k \in Completions : done[k].drv = d
           Goal == \A d \in Drvs : state'[d] = "running" =>
                      \/ \E t \in tasks' : t.drv = d
                      \/ \E k \in Completions' : done'[k].drv = d
<1>0. ~Cancelled /\ Held
  BY CancelledStays DEF Attempted
<1>a. state \in [Drvs -> {"unassigned", "running", "done", "failed"}]
  BY DEF TypeOK, LoopType
<1>1. CASE UNCHANGED <<state, done, tasks>>
  BY <1>0, <1>1 DEF Completions
<1>2. ASSUME NEW t \in tasks, Execute(t) \/ Lock(t) PROVE Goal
  <2>1. state' = state
    BY <1>2, GoroutineStep DEF loopVars
  <2>2. \A released \in BOOLEAN : done' = Append(done, Event(t, released)) =>
          \A k \in Completions : k \in Completions' /\ done'[k] = done[k]
    BY SentExactly
  <2>3. CASE Moves(t)
    <3>1. PICK u : /\ u.drv = t.drv /\ tasks' = (tasks \ {t}) \cup {u}
                   /\ done' = done \/ done' = Append(done, Event(t, TRUE))
      BY <2>3 DEF Moves, SameAssignment, Become, Send
    <3>2. \A k \in Completions : k \in Completions' /\ done'[k] = done[k]
      BY <2>2, <3>1 DEF Completions
    <3> QED BY <1>0, <2>1, <3>1, <3>2
  <2>4. CASE Ends(t)
    <3>1. done' = Append(done, Event(t, FALSE)) /\ tasks' = tasks \ {t}
      BY <1>0, <2>4 DEF Ends, Send
    <3>2. \E k \in Completions' : done'[k].drv = t.drv
      BY <3>1, SentExactly
    <3> QED BY <1>0, <2>1, <2>2, <3>1, <3>2
  <2> QED BY <1>2, <2>3, <2>4, GoroutineStep
<1>3. ASSUME NEW r \in Runners, NEW d \in Drvs, Assign(r, d) PROVE Goal
  <2> DEFINE new == Task(r, sequences[r] + 1, d,
                         IF r = 0 THEN NoInstance ELSE status[r].instance)
  <2>1. /\ tasks' = tasks \cup {new} /\ done' = done
        /\ state' = [state EXCEPT ![d] = "running"]
    BY <1>3 DEF Assign
  <2>2. new.drv = d
    BY DEF Task
  <2> HIDE DEF new
  <2> QED BY <1>0, <1>a, <2>1, <2>2 DEF Completions
<1>4. CASE Receive
  <2>1. done # <<>> /\ done' = Tail(done) /\ tasks' = tasks
    BY <1>4 DEF Receive, ReceiveReleased, ReceiveCompletion
  <2>2. \A k \in Completions : k # 1 =>
          k - 1 \in Completions' /\ done'[k - 1] = done[k]
    <3> SUFFICES ASSUME NEW k \in Completions, k # 1
                 PROVE  k - 1 \in Completions' /\ done'[k - 1] = done[k]
      OBVIOUS
    <3>1. k - 1 \in Nat \ {0} /\ (k - 1) + 1 = k
      BY <2>1, ReceivedExactly
    <3>2. k - 1 \in Completions'
      BY <2>1, <3>1, ReceivedExactly
    <3> QED BY <2>1, <3>1, <3>2, ReceivedExactly
  <2>3. CASE ReceiveReleased
    <3>1. 1 \notin Completions /\ state' = state
      BY <2>1, <2>3, ReceivedExactly DEF ReceiveReleased
    <3>2. \A k \in Completions : \E j \in Completions' : done'[j].drv = done[k].drv
      BY <2>2, <3>1
    <3> QED BY <1>0, <2>1, <3>1, <3>2
  <2>4. CASE ReceiveCompletion
    <3>1. Head(done) = done[1]
      BY <2>1, ReceivedExactly
    <3>2. \/ pc' = "join"
          \/ \E s \in {"done", "unassigned", "failed"} :
               state' = [state EXCEPT ![Head(done).drv] = s]
      BY <2>4 DEF ReceiveCompletion, LeaveSchedule
    <3>3. pc' # "join"
      BY DEF Cancelled
    <3>4. \A d \in Drvs : state'[d] = "running" =>
            state[d] = "running" /\ d # done[1].drv
      BY <1>a, <3>1, <3>2, <3>3
    <3>5. \A d \in Drvs : (\E k \in Completions : done[k].drv = d) /\ d # done[1].drv =>
            \E k \in Completions' : done'[k].drv = d
      BY <2>2
    <3> QED BY <1>0, <2>1, <3>4, <3>5
  <2> QED BY <1>4, <2>3, <2>4 DEF Receive
<1>5. CASE BeginIteration
  <2>1. /\ UNCHANGED <<done, tasks>>
        /\ \A d \in Drvs : state'[d] = "running" => state[d] = "running"
    BY <1>a, <1>5 DEF BeginIteration
  <2> QED BY <1>0, <2>1 DEF Completions
<1>6. CASE Settle \/ Flush \/ PeriodicStart \/ PeriodicEnd \/ PeriodicExit
  BY <1>1, <1>6
     DEF Settle, Flush, PeriodicStart, PeriodicEnd, PeriodicExit, loopVars
<1>7. CASE UNCHANGED <<bookVars, publicationVars>>
  BY <1>1, <1>7 DEF bookVars
<1> QED BY <1>2, <1>3, <1>4, <1>5, <1>6, <1>7, StepKinds

\* Sets of which any two members are equal have at most one.
LEMMA AtMostOne ==
  ASSUME NEW S, \A x, y \in S : x = y
  PROVE  /\ IsFiniteSet(S)
         /\ Cardinality(S) = IF S = {} THEN 0 ELSE 1
<1>1. CASE S = {}
  BY <1>1, FS_EmptySet
<1>2. CASE S # {}
  <2>1. PICK x : S = {x}
    BY <1>2
  <2> QED BY <1>2, <2>1, FS_Singleton
<1> QED BY <1>1, <1>2

\* OneAttempt for any plan, helpers and failures: one goroutine or one completion
\* for a running derivation, none for any other.
THEOREM AttemptedOnce == Spec => []OneAttempt
<1>1. Init => Attempted
  BY DEF Init, Attempted
<1>2. Spec => []Attempted
  BY <1>1, AttemptedStep, InvariantHolds, PTL DEF Spec, Invariant
<1>3. Invariant /\ Attempted => OneAttempt
  <2> SUFFICES ASSUME Invariant, Attempted, NEW d \in Drvs
               PROVE  LET running == IF state[d] = "running" THEN 1 ELSE 0
                          attempts == Cardinality({ t \in tasks : t.drv = d })
                                + Cardinality({ k \in Completions : done[k].drv = d })
                      IN  attempts <= running /\ (~Cancelled => attempts = running)
    BY DEF OneAttempt, Attempts
  <2> DEFINE T == { t \in tasks : t.drv = d }
             K == { k \in Completions : done[k].drv = d }
  <2>1. /\ \A t, u \in T : t = u
        /\ \A j, k \in K : j = k
        /\ T = {} \/ K = {}
        /\ T # {} \/ K # {} => state[d] = "running"
        /\ ~Cancelled /\ state[d] = "running" => T # {} \/ K # {}
    BY DEF Invariant, Owners, Attempted
  <2> HIDE DEF T, K
  <2>2. /\ Cardinality(T) = IF T = {} THEN 0 ELSE 1
        /\ Cardinality(K) = IF K = {} THEN 0 ELSE 1
    BY <2>1, AtMostOne
  <2>3. LET running == IF state[d] = "running" THEN 1 ELSE 0
            attempts == Cardinality(T) + Cardinality(K)
        IN  attempts <= running /\ (~Cancelled => attempts = running)
    BY <2>1, <2>2
  <2> QED BY <2>3 DEF T, K
<1> QED BY <1>2, <1>3, InvariantHolds, PTL

\* What is counted is finite.
LEMMA CountsAreNumbers ==
  ASSUME TypeOK, IsFiniteSet(tasks), NEW r
  PROVE  /\ IsFiniteSet(TasksOf(r)) /\ Cardinality(TasksOf(r)) \in Nat
         /\ IsFiniteSet(CompletionsOf(r)) /\ Cardinality(CompletionsOf(r)) \in Nat
<1>1. TasksOf(r) \in SUBSET tasks
  BY DEF TasksOf
<1>2. CompletionsOf(r) \in SUBSET (1..Len(done)) /\ Len(done) \in Nat
  BY LenProperties DEF CompletionsOf, Completions, TypeOK
<1>3. IsFiniteSet(1..Len(done))
  BY <1>2, FS_Interval
<1> QED BY <1>1, <1>2, <1>3, FS_Subset, FS_CardinalityType

\* A goroutine that moves stays one of its runner; one that ends leaves its
\* completion in its place.
LEMMA GoroutineCounted ==
  ASSUME TypeOK, Owners, IsFiniteSet(tasks), NEW r \in Runners,
         NEW t \in tasks, Moves(t) \/ Ends(t)
  PROVE  /\ IsFiniteSet(tasks') /\ Outstanding(r)' \in Int
         /\ Outstanding(r)' <= Outstanding(r)
         /\ ~Cancelled => Outstanding(r)' = Outstanding(r)
<1>0. /\ IsFiniteSet(TasksOf(r)) /\ Cardinality(TasksOf(r)) \in Nat
      /\ IsFiniteSet(CompletionsOf(r)) /\ Cardinality(CompletionsOf(r)) \in Nat
  BY CountsAreNumbers
<1>1. CASE Moves(t)
  <2>1. PICK u : /\ u.drv = t.drv /\ u.runner = t.runner
                 /\ tasks' = (tasks \ {t}) \cup {u}
                 /\ done' = done \/ done' = Append(done, Event(t, TRUE))
    BY <1>1 DEF Moves, SameAssignment, Become, Send
  <2>2. u \notin tasks \ {t}
    BY <2>1 DEF Owners
  <2>3. Cardinality(TasksOf(r)') = Cardinality(TasksOf(r))
    <3>1. CASE t.runner = r
      <4>1. TasksOf(r)' = (TasksOf(r) \ {t}) \cup {u} /\ t \in TasksOf(r)
        BY <2>1, <3>1 DEF TasksOf
      <4>2. u \notin TasksOf(r) \ {t}
        BY <2>2 DEF TasksOf
      <4>3. /\ IsFiniteSet(TasksOf(r) \ {t})
            /\ Cardinality(TasksOf(r) \ {t}) = Cardinality(TasksOf(r)) - 1
        BY <1>0, <4>1, FS_RemoveElement
      <4>4. Cardinality((TasksOf(r) \ {t}) \cup {u}) = Cardinality(TasksOf(r) \ {t}) + 1
        BY <4>2, <4>3, FS_AddElement
      <4> QED BY <1>0, <4>1, <4>3, <4>4
    <3>2. CASE t.runner # r
      <4>1. TasksOf(r)' = TasksOf(r)
        BY <2>1, <3>2 DEF TasksOf
      <4> QED BY <4>1
    <3> QED BY <3>1, <3>2
  <2>4. CompletionsOf(r)' = CompletionsOf(r)
    <3>1. CASE done' = done
      BY <3>1 DEF CompletionsOf, Completions
    <3>2. CASE done' = Append(done, Event(t, TRUE))
      BY <3>2, SentExactly DEF CompletionsOf
    <3> QED BY <2>1, <3>1, <3>2
  <2>5. IsFiniteSet(tasks')
    BY <2>1, FS_RemoveElement, FS_AddElement
  <2>6. Outstanding(r)' = Outstanding(r)
    BY <2>3, <2>4 DEF Outstanding
  <2>7. Outstanding(r) \in Nat
    BY <1>0 DEF Outstanding
  <2> QED BY <2>5, <2>6, <2>7
<1>2. CASE Ends(t)
  <2>1. tasks' = tasks \ {t} /\ Send(Event(t, FALSE))
    BY <1>2 DEF Ends
  <2>2. IsFiniteSet(tasks')
    BY <2>1, FS_RemoveElement
  <2>3. Cardinality(TasksOf(r)') =
          IF t.runner = r THEN Cardinality(TasksOf(r)) - 1 ELSE Cardinality(TasksOf(r))
    <3>1. TasksOf(r)' = TasksOf(r) \ {t} /\ (t \in TasksOf(r) <=> t.runner = r)
      BY <2>1 DEF TasksOf
    <3> QED BY <1>0, <3>1, FS_RemoveElement
  <2>4. CASE done' = Append(done, Event(t, FALSE))
    <3>1. Len(done) + 1 \notin CompletionsOf(r)
      BY <2>4, SentExactly DEF CompletionsOf
    <3>2. CompletionsOf(r)' = IF t.runner = r THEN CompletionsOf(r) \cup {Len(done) + 1}
                              ELSE CompletionsOf(r)
      BY <2>4, SentExactly DEF CompletionsOf
    <3>3. Cardinality(CompletionsOf(r) \cup {Len(done) + 1})
            = Cardinality(CompletionsOf(r)) + 1
      BY <1>0, <3>1, FS_AddElement
    <3>4. Outstanding(r)' = Outstanding(r)
      BY <1>0, <2>3, <3>2, <3>3 DEF Outstanding
    <3>5. Outstanding(r) \in Nat
      BY <1>0 DEF Outstanding
    <3> QED BY <2>2, <3>4, <3>5
  <2>5. CASE Cancelled /\ done' = done
    <3>1. CompletionsOf(r)' = CompletionsOf(r)
      BY <2>5 DEF CompletionsOf, Completions
    <3>2. Outstanding(r)' <= Outstanding(r) /\ Outstanding(r)' \in Int
      BY <1>0, <2>3, <3>1 DEF Outstanding
    <3> QED BY <2>2, <2>5, <3>2
  <2> QED BY <2>1, <2>4, <2>5 DEF Send
<1> QED BY <1>1, <1>2

\* A received completion is no longer counted, for the runner it is of; an event
\* that only frees the runner changes no count.
LEMMA ReceiptCounted ==
  ASSUME TypeOK, IsFiniteSet(tasks), NEW r \in Runners,
         done # <<>>, done' = Tail(done), tasks' = tasks
  PROVE  Outstanding(r)' = IF ~Head(done).released /\ Head(done).runner = r
                           THEN Outstanding(r) - 1 ELSE Outstanding(r)
<1>0. /\ Cardinality(TasksOf(r)) \in Nat
      /\ IsFiniteSet(CompletionsOf(r)) /\ Cardinality(CompletionsOf(r)) \in Nat
  BY CountsAreNumbers
<1>1. /\ CompletionsOf(r) \in SUBSET (Nat \ {0})
      /\ CompletionsOf(r)' = { k \in Nat \ {0} : k + 1 \in CompletionsOf(r) }
      /\ 1 \in CompletionsOf(r) <=> ~Head(done).released /\ Head(done).runner = r
  <2>1. CompletionsOf(r)' = { k \in Completions' : done'[k].runner = r }
    BY DEF CompletionsOf
  <2> QED BY <2>1, ReceivedExactly DEF CompletionsOf
<1>2. Cardinality(CompletionsOf(r)') = Cardinality(CompletionsOf(r) \ {1})
  BY <1>0, <1>1, Shifted
<1>3. Cardinality(CompletionsOf(r) \ {1}) =
        IF 1 \in CompletionsOf(r) THEN Cardinality(CompletionsOf(r)) - 1
        ELSE Cardinality(CompletionsOf(r))
  BY <1>0, FS_RemoveElement
<1>4. TasksOf(r)' = TasksOf(r)
  BY DEF TasksOf
<1> QED BY <1>0, <1>1, <1>2, <1>3, <1>4 DEF Outstanding

\* pending grows with an assignment, which a full runner does not get, and shrinks
\* with the receipt of its completion.
LEMMA CountedStep ==
  TypeOK /\ Owners /\ Counted /\ [Next]_vars => Counted'
<1> SUFFICES ASSUME TypeOK, Owners, Counted, [Next]_vars PROVE Counted'
  OBVIOUS
<1>0. /\ IsFiniteSet(tasks) /\ pending \in [Runners -> Int]
      /\ \A r \in Runners :
           /\ pending[r] <= Limit /\ Outstanding(r) <= pending[r]
           /\ ~Cancelled => Outstanding(r) = pending[r]
           /\ Outstanding(r) \in Nat
      /\ ~Cancelled' => ~Cancelled
  BY CountsAreNumbers, CancelledStays DEF Counted, TypeOK, LoopType, Outstanding
<1>1. CASE UNCHANGED <<pending, done, tasks>>
  <2>1. \A r \in Runners : Outstanding(r)' = Outstanding(r)
    BY <1>1 DEF Outstanding, TasksOf, CompletionsOf, Completions
  <2> QED BY <1>0, <1>1, <2>1 DEF Counted
<1>2. ASSUME NEW t \in tasks, Execute(t) \/ Lock(t) PROVE Counted'
  <2>1. pending' = pending /\ (Moves(t) \/ Ends(t))
    BY <1>2, GoroutineStep DEF loopVars
  <2>2. IsFiniteSet(tasks')
    <3>1. 0 \in Runners
      BY SchedulerAssumption DEF Runners
    <3> QED BY <1>0, <2>1, <3>1, GoroutineCounted
  <2>3. ASSUME NEW r \in Runners
        PROVE  /\ pending'[r] <= Limit /\ Outstanding(r)' <= pending'[r]
               /\ ~Cancelled' => Outstanding(r)' = pending'[r]
    <3>1. /\ Outstanding(r)' <= Outstanding(r) /\ Outstanding(r)' \in Int
          /\ ~Cancelled => Outstanding(r)' = Outstanding(r)
      BY <1>0, <2>1, GoroutineCounted
    <3> QED BY <1>0, <2>1, <3>1
  <2> QED BY <2>2, <2>3 DEF Counted
<1>3. ASSUME NEW s \in Runners, NEW d \in Drvs, Assign(s, d) PROVE Counted'
  <2> DEFINE new == Task(s, sequences[s] + 1, d,
                         IF s = 0 THEN NoInstance ELSE status[s].instance)
  <2>1. /\ tasks' = tasks \cup {new} /\ done' = done
        /\ pending' = [pending EXCEPT ![s] = @ + 1]
        /\ pending[s] < Limit /\ state[d] = "unassigned"
    BY <1>3 DEF Assign, Available, Preferred, Candidates, Ready
  <2>2. new.drv = d /\ new.runner = s
    BY DEF Task
  <2> HIDE DEF new
  <2>3. new \notin tasks
    BY <2>1, <2>2 DEF Owners
  <2>4. IsFiniteSet(tasks')
    BY <1>0, <2>1, FS_AddElement
  <2>5. ASSUME NEW r \in Runners
        PROVE  Outstanding(r)' = IF r = s THEN Outstanding(r) + 1 ELSE Outstanding(r)
    <3>1. CompletionsOf(r)' = CompletionsOf(r)
      BY <2>1 DEF CompletionsOf, Completions
    <3>2. TasksOf(r)' = IF r = s THEN TasksOf(r) \cup {new} ELSE TasksOf(r)
      BY <2>1, <2>2 DEF TasksOf
    <3>3. new \notin TasksOf(r)
      BY <2>3 DEF TasksOf
    <3>4. /\ IsFiniteSet(TasksOf(r)) /\ Cardinality(TasksOf(r)) \in Nat
          /\ Cardinality(CompletionsOf(r)) \in Nat
      BY <1>0, CountsAreNumbers
    <3>5. Cardinality(TasksOf(r) \cup {new}) = Cardinality(TasksOf(r)) + 1
      BY <3>3, <3>4, FS_AddElement
    <3> QED BY <3>1, <3>2, <3>4, <3>5 DEF Outstanding
  <2> QED BY <1>0, <2>1, <2>4, <2>5 DEF Counted, Limit
<1>4. CASE Receive
  <2>1. done # <<>> /\ done' = Tail(done) /\ tasks' = tasks
    BY <1>4 DEF Receive, ReceiveReleased, ReceiveCompletion
  <2>2. Head(done).runner \in Runners
    BY <2>1, ReceivedExactly DEF EventType
  <2>3. CASE ReceiveReleased
    <3>1. pending' = pending /\ Head(done).released
      BY <2>3 DEF ReceiveReleased
    <3>2. \A r \in Runners : Outstanding(r)' = Outstanding(r)
      BY <1>0, <2>1, <3>1, ReceiptCounted
    <3> QED BY <1>0, <2>1, <3>1, <3>2 DEF Counted
  <2>4. CASE ReceiveCompletion
    <3>1. /\ pending' = [pending EXCEPT ![Head(done).runner] = @ - 1]
          /\ ~Head(done).released
      BY <2>4 DEF ReceiveCompletion
    <3>2. \A r \in Runners :
            Outstanding(r)' = IF Head(done).runner = r
                              THEN Outstanding(r) - 1 ELSE Outstanding(r)
      BY <1>0, <2>1, <3>1, ReceiptCounted
    <3> QED BY <1>0, <2>1, <2>2, <3>1, <3>2 DEF Counted, Limit
  <2> QED BY <1>4, <2>3, <2>4 DEF Receive
<1>5. CASE BeginIteration \/ Settle
  BY <1>1, <1>5 DEF BeginIteration, Settle
<1>6. CASE Flush \/ PeriodicStart \/ PeriodicEnd \/ PeriodicExit
  BY <1>1, <1>6 DEF Flush, PeriodicStart, PeriodicEnd, PeriodicExit, loopVars
<1>7. CASE UNCHANGED <<bookVars, publicationVars>>
  BY <1>1, <1>7 DEF bookVars
<1> QED BY <1>2, <1>3, <1>4, <1>5, <1>6, <1>7, StepKinds

\* BoundedBacklog for any plan, helpers and failures: `pending' is what is really
\* outstanding of a runner, and at most one build and one publication.
THEOREM BacklogIsBounded == Spec => []BoundedBacklog
<1>1. Init => Counted
  <2> SUFFICES ASSUME Init PROVE Counted
    OBVIOUS
  <2>1. /\ tasks = {} /\ done = <<>> /\ pending = [r \in Runners |-> 0]
    BY DEF Init
  <2>2. \A r \in Runners : TasksOf(r) = {} /\ CompletionsOf(r) = {}
    BY <2>1 DEF TasksOf, CompletionsOf, Completions
  <2>3. \A r \in Runners : Outstanding(r) = 0
    BY <2>2, FS_EmptySet DEF Outstanding
  <2> QED BY <2>1, <2>3, FS_EmptySet DEF Counted, Limit
<1>2. Spec => []Counted
  BY <1>1, CountedStep, InvariantHolds, PTL DEF Spec, Invariant
<1>3. Counted => BoundedBacklog
  <2> SUFFICES ASSUME Counted, NEW r \in Runners
               PROVE  LET attempts == Cardinality({ t \in tasks : t.runner = r })
                                + Cardinality({ k \in Completions : done[k].runner = r })
                      IN  /\ pending[r] <= Limit /\ attempts <= pending[r]
                          /\ ~Cancelled => attempts = pending[r]
    BY DEF BoundedBacklog, Attempts
  <2> QED BY DEF Counted, Outstanding, TasksOf, CompletionsOf
<1> QED BY <1>2, <1>3, PTL

=============================================================================
