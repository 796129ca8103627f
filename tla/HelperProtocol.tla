--------------------------- MODULE HelperProtocol ---------------------------
(***************************************************************************)
(* One helper and its coordinator: servePoolBuilder against remoteTask and *)
(* the heartbeat and status goroutines of BuildPool, over three mailboxes  *)
(* of the coordination store (poolBus). The store may lose a write, report *)
(* a failure for a write it kept, answer with an older record or fail a    *)
(* read; both processes may die, and a new helper may take a dead one's    *)
(* place.                                                                  *)
(*                                                                         *)
(* Time: every timestamp is kept as its age, which Tick increases up to    *)
(* the bound beyond which the code no longer tells ages apart. The clocks  *)
(* of the two machines agree.                                              *)
(***************************************************************************)
EXTENDS Integers, Sequences, FiniteSets

CONSTANTS
  MaxTasks,      \* assignments the scheduler makes to this helper at most
  MaxInstances,  \* incarnations of the helper
  Visible,       \* newest unread records of a mailbox a lookup may answer with
  Lease, Heartbeat, Startup,  \* timing.lease, .heartbeat, .startup, in ticks
  LeaseRead      \* max(timing.poll, timing.heartbeat / 2)

ASSUME ProtocolAssumption ==
  /\ {MaxTasks, MaxInstances, Visible, Lease, Heartbeat, Startup, LeaseRead}
       \subseteq Nat \ {0}
  /\ Heartbeat < Lease /\ LeaseRead < Lease

None == 0        \* no sequence, no instance, no finish announced
Never == -1      \* the zero time of lastPublished
NoRecord == [age |-> Lease]

VARIABLES
  alive,       \* the coordinator process runs
  sequence,    \* sequences[runner] of schedule
  task,        \* the remoteTask in progress
  retired,     \* retired[runner] of schedule
  registered,  \* instances[runner] of schedule
  finish,      \* p.finish: Finish[runner], once announced
  announced,   \* p.finish is set
  stop,        \* p.stop
  seen,        \* p.statuses[runner]: the newest status of this session
  accepted,    \* results remoteTask returned, as <<instance, sequence>>
  leases, assignments, statuses,  \* the mailboxes: unread records, oldest first
  phase,       \* the helper: "lease" | "publish" | "receive" | "wait" | an end
  instance,    \* its nonce
  coordinator, \* the coordinator record it holds
  assigned,    \* the assignment record its bus holds
  joined,      \* status.Session is set
  served,      \* status.Sequence
  state,       \* status.State
  started,     \* age of `started'
  published,   \* age of lastPublished, or Never
  leaseRead,   \* time left until nextLeaseRead
  running,     \* sequence of the build that runs, or None
  stopping,
  polled,      \* the helper went through its loop since the last tick
  builds       \* history: what each <<instance, sequence>> came to

coordinatorVars ==
  <<alive, sequence, task, retired, registered, finish, announced, stop, seen,
    accepted>>
boxes == <<leases, assignments, statuses>>
helperVars ==
  <<phase, instance, coordinator, assigned, joined, served, state, started,
    published, leaseRead, running, stopping, polled, builds>>
vars == <<coordinatorVars, boxes, helperVars>>

NoTask == [stage |-> "none"]
Ends == {"finished", "failed"}
Alive == phase \notin Ends
Fresh(record) == record.age < Lease

Init ==
  /\ alive = TRUE /\ sequence = 0 /\ task = NoTask /\ retired = FALSE
  /\ registered = None /\ finish = 0 /\ announced = FALSE /\ stop = FALSE
  /\ seen = NoRecord /\ accepted = {}
  /\ leases = <<>> /\ assignments = <<>> /\ statuses = <<>>
  /\ phase = "lease" /\ instance = 1
  /\ coordinator = NoRecord /\ assigned = NoRecord
  /\ joined = FALSE /\ served = 0 /\ state = "ready"
  /\ started = 0 /\ published = Never /\ leaseRead = 0
  /\ running = None /\ stopping = FALSE /\ polled = FALSE
  /\ builds = [i \in 1..MaxInstances |-> [n \in 1..MaxTasks |-> "none"]]

-----------------------------------------------------------------------------
(***************************************************************************)
(* The coordination store. A reader's bus remembers the newest record it   *)
(* has read and ignores older ones, so of a mailbox only the records newer *)
(* than that matter: an older answer leaves the record held.               *)
(***************************************************************************)
Put(box, record) ==
  LET all == Append(box, record)
  IN  IF Len(all) > Visible THEN Tail(all) ELSE all

After(box, k) == SubSeq(box, k + 1, Len(box))

-----------------------------------------------------------------------------
(***************************************************************************)
(* The coordinator.                                                        *)
(***************************************************************************)

Lifeline(s) == [age |-> 0, stop |-> s, announced |-> announced, finish |-> finish]

\* The heartbeat goroutine, at a tick or a wake. A write that is lost changes
\* nothing.
WriteLease ==
  /\ alive
  /\ leases' = Put(leases, Lifeline(stop))
  /\ UNCHANGED <<coordinatorVars, assignments, statuses, helperVars>>

\* The status goroutine. p.statuses only advances.
ReadStatus ==
  /\ alive
  /\ \E k \in DOMAIN statuses :
       /\ seen' = statuses[k]
       /\ statuses' = After(statuses, k)
  /\ UNCHANGED <<alive, sequence, task, retired, registered, finish, announced,
                 stop, accepted, leases, assignments, helperVars>>

\* schedule gives the helper its next task (module Scheduler has the rest of
\* the decision).
AssignTask ==
  /\ alive /\ task = NoTask /\ ~retired /\ ~announced /\ ~stop
  /\ sequence < MaxTasks
  /\ Fresh(seen) /\ seen.state # "busy"
  /\ registered \in {None, seen.instance}
  /\ registered' = seen.instance
  /\ sequence' = sequence + 1
  /\ task' = [stage |-> "new", sequence |-> sequence + 1,
              instance |-> seen.instance, age |-> 0, acknowledged |-> FALSE]
  /\ UNCHANGED <<alive, retired, finish, announced, stop, seen, accepted, boxes,
                 helperVars>>

EndTask(failed) ==
  /\ task' = NoTask
  /\ retired' = (retired \/ failed)
  /\ UNCHANGED <<alive, sequence, registered, finish, announced, stop, seen>>

\* remoteTask sends the assignment; when the write is reported failed, the
\* store may have kept it all the same.
SendAssignment ==
  /\ alive /\ task.stage = "new"
  /\ \/ /\ assignments' = Put(assignments, [sequence |-> task.sequence,
                                            instance |-> task.instance])
        /\ \/ /\ task' = [task EXCEPT !.stage = "sent", !.age = 0]
              /\ UNCHANGED <<alive, sequence, retired, registered, finish,
                             announced, stop, seen>>
           \/ EndTask(TRUE)
     \/ EndTask(TRUE) /\ UNCHANGED assignments
  /\ UNCHANGED <<accepted, leases, statuses, helperVars>>

SeenOfTask == Fresh(seen) /\ seen.instance = task.instance

\* Mutant of SeenResult: any idle status after the assignment is its result.
SeenResultOfAny(s) == SeenOfTask /\ seen.state = s

SeenResult(s) ==
  SeenOfTask /\ seen.sequence = task.sequence /\ seen.state = s

Acknowledge ==
  /\ alive /\ task.stage = "sent" /\ ~task.acknowledged /\ SeenResult("busy")
  /\ task' = [task EXCEPT !.acknowledged = TRUE]
  /\ UNCHANGED <<alive, sequence, retired, registered, finish, announced, stop,
                 seen, accepted, boxes, helperVars>>

AcceptResult ==
  /\ alive /\ task.stage = "sent" /\ SeenResult("done")
  /\ accepted' = accepted \cup {<<task.instance, task.sequence>>}
  /\ EndTask(FALSE)
  /\ UNCHANGED <<boxes, helperVars>>

\* Mutant of Unacknowledged: a helper that is alive is waited for.
UnacknowledgedNever == FALSE

\* A helper that keeps publishing other statuses never got the assignment.
Unacknowledged ==
  ~task.acknowledged /\ ~SeenResult("busy") /\ task.age >= Lease

\* The lease or the instance is lost, the sequence overtaken, the task failed,
\* the result unusable, or nobody acknowledged the assignment in a lease.
AbandonTask ==
  /\ alive /\ task.stage = "sent"
  /\ \/ ~SeenOfTask
     \/ SeenOfTask /\ seen.sequence > task.sequence
     \/ SeenResult("failed") \/ SeenResult("done")
     \/ Unacknowledged
  /\ EndTask(TRUE)
  /\ UNCHANGED <<accepted, boxes, helperVars>>

\* schedule has assigned everything: the last numbers are announced.
Announce ==
  /\ alive /\ ~announced
  /\ announced' = TRUE /\ finish' = sequence
  /\ UNCHANGED <<alive, sequence, task, retired, registered, stop, seen,
                 accepted, boxes, helperVars>>

\* Drain: all derivations are decided, or the pool is not used after all.
Drain ==
  /\ alive /\ task = NoTask /\ ~stop
  /\ stop' = TRUE
  /\ UNCHANGED <<alive, sequence, task, retired, registered, finish, announced,
                 seen, accepted, boxes, helperVars>>

\* The coordinator's memory goes with its process.
CoordinatorGone ==
  /\ alive' = FALSE /\ task' = NoTask /\ seen' = NoRecord
  /\ UNCHANGED <<sequence, retired, registered, finish, announced, stop,
                 accepted, assignments, statuses, helperVars>>

\* Close, when execute has returned, whether or not it came as far as Drain: the
\* last lease says stop and announces nothing.
Close ==
  /\ alive /\ task = NoTask
  /\ CoordinatorGone
  /\ leases' \in {leases, Put(leases, [age |-> 0, stop |-> TRUE,
                                       announced |-> FALSE, finish |-> 0])}

CoordinatorDies == alive /\ CoordinatorGone /\ UNCHANGED leases

-----------------------------------------------------------------------------
(***************************************************************************)
(* The helper: one iteration of servePoolBuilder's loop is lease, publish, *)
(* receive, wait.                                                          *)
(***************************************************************************)

LeaseReadDue == running = None \/ leaseRead = 0 \/ ~Fresh(coordinator)

\* The reads of the coordinator's mailbox an iteration may make: 0 stands for no
\* read, one that fails and one that is answered with an older record.
LeaseReads == IF LeaseReadDue THEN 0..Len(leases) ELSE {0}

Held(k) == IF k = 0 THEN coordinator ELSE leases[k]

\* The record a new bus may be answered with before the unread ones.
Unread(record, box) ==
  IF record = NoRecord \/ Len(box) = Visible THEN box ELSE <<record>> \o box

\* The helper's memory goes with its process; the records it has read are still
\* there for the next.
HelperGone(end, record, unread) ==
  /\ phase' = end
  /\ leases' = Unread(record, unread)
  /\ assignments' = Unread(assigned, assignments)
  /\ coordinator' = NoRecord /\ assigned' = NoRecord
  /\ joined' = FALSE /\ served' = 0 /\ state' = "ready"
  /\ started' = 0 /\ published' = Never /\ leaseRead' = 0
  /\ running' = None /\ stopping' = FALSE /\ polled' = FALSE
  /\ UNCHANGED <<instance, builds>>

\* Told to stop, or done with the last assignment announced.
NothingLeft(record) == record.stop \/ (record.announced /\ served >= record.finish)

\* Mutant of LeaseStart: reading a record again renews the lease.
LeaseStartOnRead(record) == 0

\* A lease starts when its record was sent.
LeaseStart(record) == record.age

\* Mutant of LeaseEnded: only the startup is timed.
LeaseEndedStartup == ~joined /\ started >= Startup

LeaseEnded == (joined /\ started >= Lease) \/ (~joined /\ started >= Startup)

\* The lease part of an iteration, with what the read k has answered.
HoldLease(k) ==
  /\ phase = "lease"
  /\ Fresh(Held(k)) \/ ~LeaseEnded
  /\ coordinator' = Held(k) /\ leases' = After(leases, k)
  /\ leaseRead' = IF LeaseReadDue THEN LeaseRead ELSE leaseRead
  /\ IF Fresh(Held(k))
     THEN /\ joined' = TRUE
          /\ stopping' = (stopping \/ NothingLeft(Held(k)))
          /\ started' = LeaseStart(Held(k))
     ELSE UNCHANGED <<joined, stopping, started>>
  /\ phase' = "publish"
  /\ UNCHANGED <<coordinatorVars, assignments, statuses, instance, assigned,
                 served, state, published, running, polled, builds>>

\* The helper gives up; a build that runs is cancelled and joined.
LoseLease(k) ==
  /\ phase = "lease"
  /\ ~Fresh(Held(k)) /\ LeaseEnded
  /\ HelperGone("failed", Held(k), After(leases, k))
  /\ UNCHANGED <<coordinatorVars, statuses>>

CheckLease == \E k \in LeaseReads : HoldLease(k) \/ LoseLease(k)

StatusRecord ==
  [age |-> 0, instance |-> instance, sequence |-> served, state |-> state]

HeartbeatDue == joined /\ (published = Never \/ published >= Heartbeat)

\* Mutant of MayExit: the last status need not have been published.
MayExitUnpublished(time) == stopping /\ running = None

MayExit(time) == stopping /\ running = None /\ time # Never

\* The heartbeat, due or not; a write reported failed may have been kept. The
\* helper exits once it is stopping and its last status is published.
PublishStatus ==
  /\ phase = "publish"
  /\ \E kept, reported \in IF HeartbeatDue THEN BOOLEAN ELSE {FALSE} :
       LET time == IF reported THEN 0 ELSE published IN
       /\ reported => kept
       /\ statuses' = IF kept THEN Put(statuses, StatusRecord) ELSE statuses
       /\ IF MayExit(time)
          THEN HelperGone("finished", coordinator, leases)
          ELSE /\ published' = time /\ phase' = "receive"
               /\ UNCHANGED <<leases, assignments, instance, coordinator,
                              assigned, joined, served, state, started,
                              leaseRead, running, stopping, polled, builds>>
  /\ UNCHANGED coordinatorVars

\* Mutant of NewAssignment: the assignment held is taken again.
NewAssignmentAgain(a) == a.instance = instance /\ a.sequence >= served

NewAssignment(a) == a.instance = instance /\ a.sequence > served

Receiving == joined /\ ~stopping /\ running = None

\* The assignment record the helper holds after a read that succeeds.
HoldAssignment(k) ==
  /\ assigned' = IF k = 0 THEN assigned ELSE assignments[k]
  /\ assignments' = IF k = 0 THEN assignments ELSE After(assignments, k)

ReceiveTask ==
  /\ phase = "receive" /\ Receiving
  /\ \E k \in 0..Len(assignments) : HoldAssignment(k)
  /\ assigned' # NoRecord /\ NewAssignment(assigned')
  /\ served' = assigned'.sequence /\ running' = assigned'.sequence
  /\ state' = "busy" /\ published' = Never
  /\ builds' = [builds EXCEPT ![instance][assigned'.sequence] =
                  IF @ = "none" THEN "running" ELSE "repeated"]
  /\ phase' = "wait"
  /\ UNCHANGED <<coordinatorVars, leases, statuses, instance, coordinator, joined,
                 started, leaseRead, stopping, polled>>

\* No assignment to take: not now, the read failed, or it is not a new one.
ReceiveNothing ==
  /\ phase = "receive"
  /\ \/ UNCHANGED <<assigned, assignments>>
     \/ /\ Receiving
        /\ \E k \in 1..Len(assignments) : HoldAssignment(k)
        /\ ~NewAssignment(assigned')
  /\ phase' = "wait"
  /\ UNCHANGED <<coordinatorVars, leases, statuses, instance, coordinator, joined,
                 served, state, started, published, leaseRead, running, stopping,
                 polled, builds>>

\* The select: a poll tick, or the end of the build.
PollTick ==
  /\ phase = "wait"
  /\ phase' = "lease" /\ polled' = TRUE
  /\ UNCHANGED <<coordinatorVars, boxes, instance, coordinator, assigned, joined,
                 served, state, started, published, leaseRead, running, stopping,
                 builds>>

BuildEnds ==
  /\ phase = "wait" /\ running # None
  /\ \E s \in {"done", "failed"} :
       /\ state' = s
       /\ builds' = [builds EXCEPT ![instance][running] = IF @ = "running" THEN s ELSE @]
  /\ running' = None /\ published' = Never
  /\ phase' = "lease"
  /\ UNCHANGED <<coordinatorVars, boxes, instance, coordinator, assigned, joined,
                 served, started, leaseRead, stopping, polled>>

HelperDies ==
  /\ Alive
  /\ HelperGone("failed", coordinator, leases)
  /\ UNCHANGED <<coordinatorVars, statuses>>

\* The job of a dead helper starts again, with a nonce and a bus of its own; its
\* startup time is 0 since HelperGone.
HelperReplaced ==
  /\ phase = "failed" /\ instance < MaxInstances
  /\ phase' = "lease" /\ instance' = instance + 1
  /\ UNCHANGED <<coordinatorVars, boxes, coordinator, assigned, joined, served,
                 state, started, published, leaseRead, running, stopping, polled,
                 builds>>

-----------------------------------------------------------------------------
Older(age, bound) == IF age < bound THEN age + 1 ELSE age

Aged(record) == [record EXCEPT !.age = Older(@, Lease)]

\* Time passes. An iteration of the helper's loop takes less than a tick.
Tick ==
  /\ Alive => phase = "wait" /\ polled
  /\ polled' = FALSE
  /\ seen' = Aged(seen) /\ coordinator' = Aged(coordinator)
  /\ leases' = [k \in DOMAIN leases |-> Aged(leases[k])]
  /\ statuses' = [k \in DOMAIN statuses |-> Aged(statuses[k])]
  /\ task' = IF task = NoTask THEN task ELSE Aged(task)
  /\ started' = IF Alive
                THEN Older(started, IF Lease > Startup THEN Lease ELSE Startup)
                ELSE started
  /\ published' = IF published = Never THEN Never ELSE Older(published, Heartbeat)
  /\ leaseRead' = IF leaseRead = 0 THEN 0 ELSE leaseRead - 1
  /\ UNCHANGED <<alive, sequence, retired, registered, finish, announced, stop,
                 accepted, assignments, phase, instance, assigned, joined, served,
                 state, running, stopping, builds>>

Coordinator ==
  \/ AssignTask \/ SendAssignment \/ Acknowledge \/ AcceptResult \/ AbandonTask
  \/ Announce \/ Drain \/ Close

Helper ==
  CheckLease \/ PublishStatus \/ ReceiveTask \/ ReceiveNothing \/ PollTick

Next ==
  \/ WriteLease \/ ReadStatus \/ Coordinator \/ CoordinatorDies
  \/ Helper \/ BuildEnds \/ HelperDies \/ HelperReplaced
  \/ Tick

Spec == Init /\ [][Next]_vars

(***************************************************************************)
(* Time passes, a loop that is scheduled goes on, a build ends. Nothing is *)
(* assumed of the store.                                                   *)
(***************************************************************************)
Fairness ==
  /\ WF_vars(Helper) /\ SF_vars(BuildEnds) /\ SF_vars(Tick)
  /\ WF_vars(SendAssignment) /\ WF_vars(AcceptResult \/ AbandonTask)

FairSpec == Spec /\ Fairness

-----------------------------------------------------------------------------
(***************************************************************************)
(* Properties.                                                             *)
(***************************************************************************)

\* No assignment is executed twice, whatever the mailbox answers, and none by
\* an incarnation it was not made to.
ExecutesOnce ==
  \A i \in 1..MaxInstances, n \in 1..MaxTasks :
    builds[i][n] # "none" =>
      builds[i][n] # "repeated" /\ i = registered /\ n <= sequence

\* A result that remoteTask returns is that of the assignment it was called
\* for: that incarnation built that assignment, and the build succeeded.
AcceptsOwnResults ==
  \A i \in 1..MaxInstances, n \in 1..MaxTasks :
    <<i, n>> \in accepted => builds[i][n] = "done"

LastStatus == IF statuses = <<>> THEN seen ELSE statuses[Len(statuses)]

\* A helper that exits normally leaves nothing behind: if the coordinator still
\* waits for a task of it, the store has the task's final status (the race of
\* the Finish vector with the final assignment, and of the exit with the last
\* status).
ExitsServed ==
  phase = "finished" /\ task # NoTask /\ task.instance = instance =>
    /\ LastStatus # NoRecord
    /\ LastStatus.instance = instance /\ LastStatus.sequence = task.sequence
    /\ LastStatus.state \in {"done", "failed"}

LastLease == IF leases = <<>> THEN coordinator ELSE leases[Len(leases)]

\* A helper does not outlive the last lease the coordinator published by more
\* than the poll that finds it ended: until then only may a retired helper
\* compete with the retry of its task.
OrphanStops ==
  Alive /\ joined /\ ~Fresh(LastLease) =>
    phase = "lease" \/ (phase = "wait" /\ ~polled)

\* remoteTask ends, although the store may lose every message: the scheduler
\* never waits for a helper for ever.
TaskEnds == task # NoTask ~> (task = NoTask \/ ~alive)

\* Without a coordinator every helper stops, busy or idle.
HelperEnds == ~alive ~> ~Alive
=============================================================================
