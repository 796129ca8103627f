------------------------- MODULE CoordinationProofs -------------------------
(***************************************************************************)
(* Proofs about the protocol of a helper and about the client of the store *)
(* it runs over, which share no state.                                     *)
(***************************************************************************)
EXTENDS HelperProtocol, ActionsCache, SequenceTheorems, FiniteSetTheorems, TLAPS

(***************************************************************************)
(* HelperProtocol, for any number of assignments and incarnations, any     *)
(* visibility of the store and any timing. First, that assignments are     *)
(* executed once and results are those of their assignments: deadlines and *)
(* leases play no part in that, so that proof never looks at them. Then    *)
(* what they are for: a helper stops when its coordinator is gone, and     *)
(* does not exit before its last status is known. Last, what the           *)
(* coordinator sees of a helper is what module Scheduler lets it see.      *)
(***************************************************************************)
Instances == 1..MaxInstances
Sequences0 == 0..MaxTasks
TaskNumbers == 1..MaxTasks
States == {"ready", "busy", "done", "failed"}
Outcomes == {"none", "running", "done", "failed", "repeated"}

\* The assignments that were made: to the registered incarnation, by number.
Made == { a \in [sequence : TaskNumbers, instance : Instances] :
            a.instance = registered /\ a.sequence <= sequence }
TaskType == [stage : {"new", "sent"}, sequence : TaskNumbers, instance : Instances,
             age : Nat, acknowledged : BOOLEAN]
\* The statuses that are true: what they call done was built.
TrueStatus == { s \in [age : Nat, instance : Instances, sequence : Sequences0, state : States] :
            s.state = "done" => s.sequence # 0 /\ builds[s.instance][s.sequence] = "done" }

ProtocolType ==
  /\ sequence \in Sequences0 /\ registered \in 0..MaxInstances
  /\ task = NoTask \/ (task \in TaskType /\ task.instance = registered
                         /\ task.sequence <= sequence)
  /\ seen = NoRecord \/ seen \in TrueStatus
  /\ statuses \in Seq(TrueStatus)
  /\ assigned = NoRecord \/ assigned \in Made
  /\ assignments \in Seq(Made)
  /\ phase \in {"lease", "publish", "receive", "wait"} \cup Ends
  /\ instance \in Instances /\ served \in Sequences0 /\ running \in Sequences0
  /\ state \in States
  /\ builds \in [Instances -> [TaskNumbers -> Outcomes]]

(***************************************************************************)
(* What was built was assigned, and what this incarnation has not served   *)
(* it has not built. Its state is that of the assignment it served last.   *)
(***************************************************************************)
Ordered ==
  /\ registered = None => sequence = 0
  /\ \A i \in Instances, n \in TaskNumbers :
       builds[i][n] # "none" =>
         builds[i][n] # "repeated" /\ i = registered /\ n <= sequence /\ i <= instance
  /\ Alive => \A n \in TaskNumbers : n > served => builds[instance][n] = "none"
  /\ ~Alive => state = "ready" /\ running = None
  /\ running # None => running = served /\ builds[instance][served] = "running"
  /\ state = "done" => served # 0 /\ builds[instance][served] = "done"

ProtocolInv == ProtocolType /\ Ordered /\ AcceptsOwnResults

tracked ==
  <<sequence, task, registered, seen, accepted, statuses, assigned, assignments,
    phase, instance, served, running, state, builds>>

(***************************************************************************)
(* Mailboxes of records of some set.                                       *)
(***************************************************************************)
\* Writing to a mailbox, reading from it and starting to read again.
LEMMA BoxFacts ==
  ASSUME NEW S, NEW box \in Seq(S)
  PROVE  /\ \A r \in S : Put(box, r) \in Seq(S)
         /\ \A k \in 0..Len(box) : After(box, k) \in Seq(S)
         /\ \A k \in 1..Len(box) : box[k] \in S
         /\ \A r : r = NoRecord \/ r \in S => Unread(r, box) \in Seq(S)
         /\ \A T : S \subseteq T => box \in Seq(T)
<1>1. \A r \in S : Put(box, r) \in Seq(S)
  <2> TAKE r \in S
  <2> DEFINE all == Append(box, r)
  <2>1. all \in Seq(S) /\ all # << >>
    BY AppendProperties
  <2> HIDE DEF all
  <2>2. Tail(all) \in Seq(S)
    BY <2>1, HeadTailProperties
  <2> QED BY <2>1, <2>2 DEF Put, all
<1>2. \A k \in 0..Len(box) : After(box, k) \in Seq(S)
  BY SubSeqProperties DEF After
<1>3. \A k \in 1..Len(box) : box[k] \in S
  OBVIOUS
<1>4. \A r : r = NoRecord \/ r \in S => Unread(r, box) \in Seq(S)
  <2> SUFFICES ASSUME NEW r, r = NoRecord \/ r \in S PROVE Unread(r, box) \in Seq(S)
    OBVIOUS
  <2>1. r \in S => <<r>> \in Seq(S)
    OBVIOUS
  <2>2. r \in S => <<r>> \o box \in Seq(S)
    BY <2>1, ConcatProperties
  <2> QED BY <2>2 DEF Unread
<1>5. \A T : S \subseteq T => box \in Seq(T)
  OBVIOUS
<1> QED BY <1>1, <1>2, <1>3, <1>4, <1>5

\* The numbers, with and without none.
LEMMA Numbers ==
  /\ \A i \in Instances : i \in 0..MaxInstances
  /\ TaskNumbers \subseteq Sequences0
  /\ \A n \in Sequences0 : n # 0 => n \in TaskNumbers
  BY ProtocolAssumption DEF Instances, Sequences0, TaskNumbers

\* What a true status says that is done was built.
LEMMA DoneIsBuilt ==
  ASSUME NEW s \in TrueStatus, s.state = "done"
  PROVE  s.sequence \in TaskNumbers /\ s.instance \in Instances
           /\ builds[s.instance][s.sequence] = "done"
  BY Numbers DEF TrueStatus

\* The initial state.
LEMMA ProtocolInitInv == Init => ProtocolInv
<1> SUFFICES ASSUME Init PROVE ProtocolInv
  OBVIOUS
<1>1. {MaxTasks, MaxInstances} \subseteq Nat \ {0}
  BY ProtocolAssumption
<1>2. /\ builds \in [Instances -> [TaskNumbers -> Outcomes]]
      /\ \A i \in Instances, n \in TaskNumbers : builds[i][n] = "none"
  BY DEF Init, Instances, TaskNumbers, Outcomes
<1>3. ProtocolType
  BY <1>1, <1>2 DEF Init, ProtocolType, Sequences0, Instances, States, None
<1>4. Ordered /\ AcceptsOwnResults
  BY <1>1, <1>2 DEF Init, Ordered, AcceptsOwnResults, Instances, TaskNumbers, None
<1> QED BY <1>3, <1>4 DEF ProtocolInv

\* Leases alone change nothing.
LEMMA TrackedSame == ProtocolInv /\ UNCHANGED tracked => ProtocolInv'
<1> SUFFICES ASSUME ProtocolInv, UNCHANGED tracked PROVE ProtocolInv'
  OBVIOUS
<1>1. Made' = Made /\ TrueStatus' = TrueStatus
  BY DEF Made, TrueStatus, tracked
<1> QED BY <1>1
    DEF ProtocolInv, ProtocolType, Ordered, AcceptsOwnResults, tracked, Alive

(***************************************************************************)
(* The coordinator.                                                        *)
(***************************************************************************)
\* What the coordinator holds or loses of its own.
LEMMA CoordinatorSame ==
  ASSUME ProtocolInv,
         UNCHANGED <<sequence, registered, statuses, assigned, phase, instance, served,
                     running, state, builds>>,
         assignments' \in Seq(Made),
         seen' = NoRecord \/ seen' \in TrueStatus,
         task' = NoTask \/ (task' \in TaskType /\ task'.instance = registered
                              /\ task'.sequence <= sequence),
         \A i \in Instances, n \in TaskNumbers :
           <<i, n>> \in accepted' => builds[i][n] = "done"
  PROVE  ProtocolInv'
<1>1. Made' = Made /\ TrueStatus' = TrueStatus
  BY DEF Made, TrueStatus
<1> QED BY <1>1
    DEF ProtocolInv, ProtocolType, Ordered, AcceptsOwnResults, Alive,
        Instances, TaskNumbers

\* Reading a status, and what a task in progress does short of its result.
LEMMA CoordinatorReads ==
  ASSUME ProtocolInv,
         \/ ReadStatus \/ SendAssignment \/ Acknowledge \/ AbandonTask
         \/ CoordinatorDies \/ Close
  PROVE  ProtocolInv'
<1> USE DEF ProtocolInv, ProtocolType
<1>1. \A i \in Instances, n \in TaskNumbers :
        <<i, n>> \in accepted => builds[i][n] = "done"
  BY DEF AcceptsOwnResults, Instances, TaskNumbers
<1>2. CASE ReadStatus
  <2>1. PICK k \in DOMAIN statuses :
          seen' = statuses[k] /\ statuses' = After(statuses, k)
    BY <1>2 DEF ReadStatus
  <2>2. k \in 1..Len(statuses) /\ k \in 0..Len(statuses)
    BY <2>1
  <2>3. seen' \in TrueStatus /\ statuses' \in Seq(TrueStatus)
    BY <2>1, <2>2, BoxFacts
  <2>4. UNCHANGED <<sequence, task, registered, accepted, assigned, assignments, phase,
                    instance, served, running, state, builds>>
    BY <1>2 DEF ReadStatus, helperVars
  <2>5. Made' = Made /\ TrueStatus' = TrueStatus
    BY <2>4 DEF Made, TrueStatus
  <2> QED BY <2>3, <2>4, <2>5 DEF Ordered, AcceptsOwnResults, Alive
<1>3. CASE SendAssignment
  <2>1. /\ UNCHANGED <<sequence, registered, accepted, seen, statuses, assigned, phase,
                       instance, served, running, state, builds>>
        /\ \/ task' = NoTask
           \/ task' = [task EXCEPT !.stage = "sent", !.age = 0]
        /\ \/ assignments' = assignments
           \/ assignments' = Put(assignments, [sequence |-> task.sequence,
                                               instance |-> task.instance])
    BY <1>3 DEF SendAssignment, EndTask, helperVars
  <2>2. task # NoTask /\ task.stage = "new"
    BY <1>3 DEF SendAssignment, NoTask
  <2>3. task' = NoTask \/ (task' \in TaskType /\ task'.instance = registered
                             /\ task'.sequence <= sequence)
    <3> DEFINE sent == [task EXCEPT !.stage = "sent", !.age = 0]
    <3>1. sent \in TaskType /\ sent.instance = registered /\ sent.sequence <= sequence
      BY <2>2 DEF TaskType
    <3> HIDE DEF sent
    <3> QED BY <2>1, <3>1 DEF sent
  <2>4. [sequence |-> task.sequence, instance |-> task.instance] \in Made
    BY <2>2 DEF TaskType, Made
  <2>5. assignments' \in Seq(Made)
    <3> DEFINE a == [sequence |-> task.sequence, instance |-> task.instance]
    <3>1. a \in Made /\ (assignments' = assignments \/ assignments' = Put(assignments, a))
      BY <2>1, <2>4
    <3> HIDE DEF a
    <3> QED BY <3>1, BoxFacts
  <2> QED BY <1>1, <2>1, <2>3, <2>5, CoordinatorSame
<1>4. CASE Acknowledge
  <2>1. /\ UNCHANGED <<sequence, registered, accepted, seen, statuses, assigned,
                       assignments, phase, instance, served, running, state, builds>>
        /\ task' = [task EXCEPT !.acknowledged = TRUE] /\ task.stage = "sent"
    BY <1>4 DEF Acknowledge, helperVars, boxes
  <2>2. task # NoTask
    BY <2>1 DEF NoTask
  <2>3. task' \in TaskType /\ task'.instance = registered /\ task'.sequence <= sequence
    BY <2>1, <2>2 DEF TaskType
  <2> QED BY <1>1, <2>1, <2>3, CoordinatorSame
<1>5. CASE AbandonTask
  <2>1. /\ UNCHANGED <<sequence, registered, accepted, seen, statuses, assigned,
                       assignments, phase, instance, served, running, state, builds>>
        /\ task' = NoTask
    BY <1>5 DEF AbandonTask, EndTask, helperVars, boxes
  <2> QED BY <1>1, <2>1, CoordinatorSame
<1>6. CASE CoordinatorDies \/ Close
  <2>1. /\ UNCHANGED <<sequence, registered, accepted, statuses, assigned,
                       assignments, phase, instance, served, running, state, builds>>
        /\ task' = NoTask /\ seen' = NoRecord
    BY <1>6 DEF CoordinatorDies, Close, CoordinatorGone, helperVars
  <2> QED BY <1>1, <2>1, CoordinatorSame
<1> QED BY <1>2, <1>3, <1>4, <1>5, <1>6

\* A result is accepted from a status that is true.
LEMMA AcceptStep ==
  ASSUME ProtocolInv, AcceptResult
  PROVE  ProtocolInv'
<1> USE DEF ProtocolInv, ProtocolType
<1>1. /\ UNCHANGED <<sequence, registered, seen, statuses, assigned,
                     assignments, phase, instance, served, running, state, builds>>
      /\ task' = NoTask /\ task.stage = "sent"
      /\ accepted' = accepted \cup {<<task.instance, task.sequence>>}
      /\ Fresh(seen) /\ seen.instance = task.instance /\ seen.sequence = task.sequence
      /\ seen.state = "done"
  BY DEF AcceptResult, EndTask, SeenResult, SeenOfTask, helperVars, boxes
<1>2. seen # NoRecord
  BY <1>1, ProtocolAssumption DEF Fresh, NoRecord
<1>3. builds[task.instance][task.sequence] = "done"
  BY <1>1, <1>2 DEF TrueStatus
<1>4. \A i \in Instances, n \in TaskNumbers :
        <<i, n>> \in accepted' => builds[i][n] = "done"
  BY <1>1, <1>3 DEF AcceptsOwnResults, Instances, TaskNumbers
<1> QED BY <1>1, <1>4, CoordinatorSame

\* An assignment is made to the registered incarnation, or registers the first one.
LEMMA AssignStep ==
  ASSUME ProtocolInv, AssignTask
  PROVE  ProtocolInv'
<1> USE DEF ProtocolInv, ProtocolType
<1>1. /\ sequence < MaxTasks /\ Fresh(seen) /\ registered \in {None, seen.instance}
      /\ registered' = seen.instance /\ sequence' = sequence + 1
      /\ task' = [stage |-> "new", sequence |-> sequence + 1,
                  instance |-> seen.instance, age |-> 0, acknowledged |-> FALSE]
      /\ UNCHANGED <<accepted, seen, statuses, assigned, assignments, phase,
                     instance, served, running, state, builds>>
  BY DEF AssignTask, helperVars, boxes
<1>2. seen \in TrueStatus
  BY <1>1, ProtocolAssumption DEF Fresh, NoRecord
<1>3. registered' \in Instances /\ sequence' \in TaskNumbers
  BY <1>1, <1>2, ProtocolAssumption DEF TrueStatus, Sequences0, TaskNumbers
<1>4. Made \subseteq Made'
  BY <1>1, <1>3 DEF Made, Ordered, None, Sequences0, TaskNumbers
<1>5. TrueStatus' = TrueStatus
  BY <1>1 DEF TrueStatus
<1>6. assignments' \in Seq(Made') /\ (assigned' = NoRecord \/ assigned' \in Made')
  BY <1>1, <1>4, BoxFacts
<1>7. task' \in TaskType /\ task'.instance = registered' /\ task'.sequence <= sequence'
  BY <1>1, <1>2, <1>3 DEF TaskType, TrueStatus, Sequences0
<1>8. Ordered'
  BY <1>1, <1>3 DEF Ordered, Alive, None, Instances, Sequences0, TaskNumbers
<1>9. registered' \in 0..MaxInstances /\ sequence' \in Sequences0
  BY <1>3, Numbers
<1> QED BY <1>1, <1>2, <1>5, <1>6, <1>7, <1>8, <1>9 DEF AcceptsOwnResults

(***************************************************************************)
(* The helper.                                                             *)
(***************************************************************************)
\* A helper that is gone has forgotten what it read, which is there to read again.
LEMMA GoneStep ==
  ASSUME ProtocolInv, NEW end \in Ends, NEW record, NEW unread,
         HelperGone(end, record, unread),
         UNCHANGED <<sequence, task, registered, seen, accepted>>,
         statuses' \in Seq(TrueStatus)
  PROVE  ProtocolInv'
<1> USE DEF ProtocolInv, ProtocolType
<1>1. /\ phase' = end /\ assigned' = NoRecord
      /\ assignments' = Unread(assigned, assignments)
      /\ served' = 0 /\ state' = "ready" /\ running' = None
      /\ UNCHANGED <<instance, builds>>
  BY DEF HelperGone
<1>2. Made' = Made /\ TrueStatus' = TrueStatus
  BY <1>1 DEF Made, TrueStatus
<1>3. assignments' \in Seq(Made)
  BY <1>1, BoxFacts
<1>4. 0 \in Sequences0 /\ None \in Sequences0
  BY ProtocolAssumption DEF Sequences0, None
<1>5. ProtocolType'
  BY <1>1, <1>2, <1>3, <1>4 DEF States
<1>6. Ordered' /\ AcceptsOwnResults'
  BY <1>1 DEF Ordered, AcceptsOwnResults, Alive
<1> QED BY <1>5, <1>6

\* Steps of the loop that serve nothing: leases, polls, an empty read.
LEMMA LoopSteps ==
  ASSUME ProtocolInv, CheckLease \/ ReceiveNothing \/ PollTick \/ HelperReplaced
                        \/ HelperDies
  PROVE  ProtocolInv'
<1> USE DEF ProtocolInv, ProtocolType
<1>1. ASSUME Alive, Alive',
             UNCHANGED <<sequence, task, registered, seen, accepted, statuses,
                         instance, served, running, state, builds>>,
             phase' \in {"lease", "publish", "receive", "wait"},
             assigned' = NoRecord \/ assigned' \in Made, assignments' \in Seq(Made)
      PROVE  ProtocolInv'
  <2>1. Made' = Made /\ TrueStatus' = TrueStatus
    BY <1>1 DEF Made, TrueStatus
  <2> QED BY <1>1, <2>1 DEF Ordered, AcceptsOwnResults
<1>2. CASE CheckLease
  <2>1. PICK k : HoldLease(k) \/ LoseLease(k)
    BY <1>2 DEF CheckLease
  <2>2. CASE HoldLease(k)
    BY <1>1, <2>2 DEF HoldLease, coordinatorVars, Alive, Ends
  <2>3. CASE LoseLease(k)
    <3>1. /\ HelperGone("failed", Held(k), After(leases, k))
          /\ UNCHANGED <<sequence, task, registered, seen, accepted, statuses>>
      BY <2>3 DEF LoseLease, coordinatorVars
    <3> QED BY <3>1, GoneStep DEF Ends
  <2> QED BY <2>1, <2>2, <2>3
<1>3. CASE ReceiveNothing
  <2>1. /\ assigned' = NoRecord \/ assigned' \in Made
        /\ assignments' \in Seq(Made)
    <3>1. CASE UNCHANGED <<assigned, assignments>>
      BY <3>1
    <3>2. ASSUME NEW k \in 1..Len(assignments), HoldAssignment(k)
          PROVE  assigned' \in Made /\ assignments' \in Seq(Made)
      <4>1. k # 0 /\ k \in 0..Len(assignments)
        OBVIOUS
      <4>2. assigned' = assignments[k] /\ assignments' = After(assignments, k)
        BY <3>2, <4>1 DEF HoldAssignment
      <4> QED BY <4>1, <4>2, BoxFacts
    <3> QED BY <1>3, <3>1, <3>2 DEF ReceiveNothing
  <2>2. /\ phase = "receive" /\ phase' = "wait"
        /\ UNCHANGED <<sequence, task, registered, seen, accepted, statuses,
                       instance, served, running, state, builds>>
    BY <1>3 DEF ReceiveNothing, coordinatorVars
  <2> QED BY <1>1, <2>1, <2>2 DEF Alive, Ends
<1>4. CASE PollTick
  BY <1>1, <1>4 DEF PollTick, coordinatorVars, boxes, Alive, Ends
<1>5. CASE HelperReplaced
  <2>1. /\ phase = "failed" /\ phase' = "lease" /\ instance < MaxInstances
        /\ instance' = instance + 1
        /\ UNCHANGED <<sequence, task, registered, seen, accepted, statuses, assigned,
                       assignments, served, running, state, builds>>
    BY <1>5 DEF HelperReplaced, coordinatorVars, boxes
  <2>2. instance' \in Instances
    BY <2>1, ProtocolAssumption DEF Instances
  <2>3. Made' = Made /\ TrueStatus' = TrueStatus
    BY <2>1 DEF Made, TrueStatus
  <2>4. state = "ready" /\ running = None
    BY <2>1 DEF Ordered, Alive, Ends
  <2>5. Ordered'
    BY <2>1, <2>2, <2>4 DEF Ordered, Alive, Ends, Instances
  <2> QED BY <2>1, <2>2, <2>3, <2>5 DEF AcceptsOwnResults
<1>6. CASE HelperDies
  <2>1. /\ HelperGone("failed", coordinator, leases)
        /\ UNCHANGED <<sequence, task, registered, seen, accepted, statuses>>
    BY <1>6 DEF HelperDies, coordinatorVars
  <2> QED BY <2>1, GoneStep DEF Ends
<1> QED BY <1>2, <1>3, <1>4, <1>5, <1>6

\* What the helper publishes of its state is true.
LEMMA PublishStep ==
  ASSUME ProtocolInv, PublishStatus
  PROVE  ProtocolInv'
<1> USE DEF ProtocolInv, ProtocolType
<1>1. /\ UNCHANGED <<sequence, task, registered, seen, accepted>> /\ phase = "publish"
      /\ statuses' = statuses \/ statuses' = Put(statuses, StatusRecord)
  BY DEF PublishStatus, coordinatorVars
<1>2. StatusRecord \in TrueStatus
  BY DEF StatusRecord, TrueStatus, Ordered
<1>3. statuses' \in Seq(TrueStatus)
  BY <1>1, <1>2, BoxFacts
<1>4. \/ HelperGone("finished", coordinator, leases)
      \/ /\ phase' = "receive"
         /\ UNCHANGED <<assignments, instance, assigned, served, state, running, builds>>
  BY DEF PublishStatus
<1>5. CASE HelperGone("finished", coordinator, leases)
  BY <1>1, <1>3, <1>5, GoneStep DEF Ends
<1>6. CASE /\ phase' = "receive"
           /\ UNCHANGED <<assignments, instance, assigned, served, state, running, builds>>
  <2>1. Made' = Made /\ TrueStatus' = TrueStatus
    BY <1>1, <1>6 DEF Made, TrueStatus
  <2>2. Alive /\ Alive'
    BY <1>1, <1>6 DEF Alive, Ends
  <2> QED BY <1>1, <1>3, <1>6, <2>1, <2>2 DEF Ordered, AcceptsOwnResults
<1> QED BY <1>4, <1>5, <1>6

\* A new assignment was never executed: it is newer than all that was served.
LEMMA ReceiveStep ==
  ASSUME ProtocolInv, ReceiveTask
  PROVE  ProtocolInv'
<1> USE DEF ProtocolInv, ProtocolType
<1>1. PICK k \in 0..Len(assignments) : HoldAssignment(k)
  BY DEF ReceiveTask
<1>2. PICK n : n = assigned'.sequence
  OBVIOUS
<1>3. /\ UNCHANGED <<sequence, task, registered, seen, accepted, statuses, instance>>
      /\ assigned' # NoRecord /\ assigned'.instance = instance /\ n > served
      /\ served' = n /\ running' = n /\ state' = "busy"
      /\ builds' = [builds EXCEPT ![instance][n] =
                      IF @ = "none" THEN "running" ELSE "repeated"]
      /\ phase = "receive" /\ phase' = "wait"
  BY <1>2 DEF ReceiveTask, NewAssignment, coordinatorVars
<1>4. assigned' \in Made /\ assignments' \in Seq(Made)
  <2>1. CASE k = 0
    BY <1>1, <1>3, <2>1 DEF HoldAssignment
  <2>2. CASE k # 0
    <3>1. k \in 1..Len(assignments)
      BY <2>2
    <3>2. assigned' = assignments[k] /\ assignments' = After(assignments, k)
      BY <1>1, <2>2 DEF HoldAssignment
    <3> QED BY <3>1, <3>2, BoxFacts
  <2> QED BY <2>1, <2>2
<1>5. n \in TaskNumbers /\ n <= sequence /\ instance = registered
  BY <1>2, <1>3, <1>4 DEF Made
<1>6. builds[instance][n] = "none"
  BY <1>3, <1>5 DEF Ordered, Alive, Ends
<1>7. /\ builds' \in [Instances -> [TaskNumbers -> Outcomes]]
      /\ \A i \in Instances, m \in TaskNumbers :
           builds'[i][m] = IF i = instance /\ m = n THEN "running" ELSE builds[i][m]
  BY <1>3, <1>5, <1>6 DEF Outcomes
<1>8. Made' = Made
  BY <1>3 DEF Made
<1>9. TrueStatus \subseteq TrueStatus'
  <2> SUFFICES ASSUME NEW s \in TrueStatus PROVE s \in TrueStatus'
    OBVIOUS
  <2>1. s.state = "done" => s.sequence \in TaskNumbers /\ s.instance \in Instances
                              /\ builds[s.instance][s.sequence] = "done"
    BY DoneIsBuilt
  <2>2. s.state = "done" => builds'[s.instance][s.sequence] = "done"
    BY <1>6, <1>7, <2>1
  <2> QED BY <2>2 DEF TrueStatus
<1>10. statuses' \in Seq(TrueStatus') /\ (seen' = NoRecord \/ seen' \in TrueStatus')
  <2>1. statuses \in Seq(TrueStatus') /\ statuses' = statuses
    BY <1>3, <1>9, BoxFacts
  <2>2. seen' = NoRecord \/ seen' \in TrueStatus'
    BY <1>3, <1>9
  <2> QED BY <2>1, <2>2
<1>11. n \in Sequences0 /\ n # None
  BY <1>5, ProtocolAssumption DEF TaskNumbers, Sequences0, None
<1>12. ProtocolType'
  BY <1>3, <1>4, <1>7, <1>8, <1>10, <1>11 DEF States
<1>13. Ordered'
  BY <1>3, <1>5, <1>7, <1>11 DEF Ordered, Alive, Ends, TaskNumbers, Sequences0, None
<1>14. AcceptsOwnResults'
  <2> SUFFICES ASSUME NEW i \in Instances, NEW m \in TaskNumbers, <<i, m>> \in accepted
               PROVE  builds'[i][m] = "done"
    BY <1>3 DEF AcceptsOwnResults, Instances, TaskNumbers
  <2>1. builds[i][m] = "done"
    BY DEF AcceptsOwnResults, Instances, TaskNumbers
  <2> QED BY <1>6, <1>7, <2>1
<1> QED BY <1>12, <1>13, <1>14

\* The build that ends is the one that was served, once.
LEMMA BuildStep ==
  ASSUME ProtocolInv, BuildEnds
  PROVE  ProtocolInv'
<1> USE DEF ProtocolInv, ProtocolType
<1>1. PICK s \in {"done", "failed"} :
        /\ state' = s
        /\ builds' = [builds EXCEPT ![instance][running] =
                        IF @ = "running" THEN s ELSE @]
  BY DEF BuildEnds
<1>2. /\ phase = "wait" /\ phase' = "lease" /\ running # None /\ running' = None
      /\ UNCHANGED <<sequence, task, registered, seen, accepted, statuses, instance,
                     assigned, assignments, served>>
  BY DEF BuildEnds, coordinatorVars, boxes
<1>3. running \in TaskNumbers /\ running = served /\ builds[instance][running] = "running"
  BY <1>2, ProtocolAssumption DEF Ordered, Sequences0, TaskNumbers, None
<1>4. /\ builds' \in [Instances -> [TaskNumbers -> Outcomes]]
      /\ \A i \in Instances, m \in TaskNumbers :
           builds'[i][m] = IF i = instance /\ m = running THEN s ELSE builds[i][m]
  BY <1>1, <1>3 DEF Outcomes
<1>5. Made' = Made
  BY <1>2 DEF Made
<1>6. TrueStatus \subseteq TrueStatus'
  <2> SUFFICES ASSUME NEW t \in TrueStatus PROVE t \in TrueStatus'
    OBVIOUS
  <2>1. t.state = "done" => t.sequence \in TaskNumbers /\ t.instance \in Instances
                              /\ builds[t.instance][t.sequence] = "done"
    BY DoneIsBuilt
  <2>2. t.state = "done" => builds'[t.instance][t.sequence] = "done"
    BY <1>3, <1>4, <2>1
  <2> QED BY <2>2 DEF TrueStatus
<1>7. statuses' \in Seq(TrueStatus') /\ (seen' = NoRecord \/ seen' \in TrueStatus')
  <2>1. statuses \in Seq(TrueStatus') /\ statuses' = statuses
    BY <1>2, <1>6, BoxFacts
  <2>2. seen' = NoRecord \/ seen' \in TrueStatus'
    BY <1>2, <1>6
  <2> QED BY <2>1, <2>2
<1>8. ProtocolType'
  BY <1>1, <1>2, <1>4, <1>5, <1>7, ProtocolAssumption DEF States, Sequences0, None
<1>9. Ordered'
  <2>1. \A i \in Instances, n \in TaskNumbers :
          builds'[i][n] # "none" => builds[i][n] # "none" /\ builds'[i][n] # "repeated"
    BY <1>1, <1>3, <1>4 DEF Ordered
  <2>2. \A n \in TaskNumbers : n > served => builds'[instance][n] = "none"
    <3> SUFFICES ASSUME NEW n \in TaskNumbers, n > served
                 PROVE  builds'[instance][n] = "none"
      OBVIOUS
    <3>1. builds[instance][n] = "none" /\ n # running
      BY <1>2, <1>3 DEF Ordered, Alive, Ends, TaskNumbers
    <3> QED BY <1>4, <3>1
  <2>3. builds'[instance][served] = state' /\ served # 0
    BY <1>1, <1>2, <1>3, <1>4 DEF TaskNumbers
  <2> QED BY <1>1, <1>2, <2>1, <2>2, <2>3 DEF Ordered, Alive, Ends
<1>10. AcceptsOwnResults'
  BY <1>2, <1>3, <1>4 DEF AcceptsOwnResults, Instances, TaskNumbers
<1> QED BY <1>8, <1>9, <1>10

(***************************************************************************)
(* Time, and what touches nothing of this.                                 *)
(***************************************************************************)
\* A record that grows older says the same.
LEMMA AgedFacts ==
  /\ Aged(NoRecord) = NoRecord
  /\ \A r \in TrueStatus : Aged(r) \in TrueStatus
  /\ \A t \in TaskType :
       Aged(t) \in TaskType /\ Aged(t).sequence = t.sequence
         /\ Aged(t).instance = t.instance
<1>1. Lease \in Nat /\ \A a \in Nat : Older(a, Lease) \in Nat
  BY ProtocolAssumption DEF Older
<1>2. Aged(NoRecord) = NoRecord
  BY <1>1 DEF Aged, NoRecord, Older
<1>3. \A r \in TrueStatus : Aged(r) \in TrueStatus
  <2> SUFFICES ASSUME NEW r \in TrueStatus PROVE Aged(r) \in TrueStatus
    OBVIOUS
  <2>1. r \in [age : Nat, instance : Instances, sequence : Sequences0, state : States]
    BY DEF TrueStatus
  <2>2. Aged(r) = [r EXCEPT !.age = Older(r.age, Lease)]
    BY <2>1 DEF Aged
  <2>3. /\ Aged(r) \in [age : Nat, instance : Instances, sequence : Sequences0,
                        state : States]
        /\ Aged(r).instance = r.instance /\ Aged(r).sequence = r.sequence
        /\ Aged(r).state = r.state
    BY <1>1, <2>1, <2>2
  <2> QED BY <2>3 DEF TrueStatus
<1>4. \A t \in TaskType :
        Aged(t) \in TaskType /\ Aged(t).sequence = t.sequence
          /\ Aged(t).instance = t.instance
  <2> SUFFICES ASSUME NEW t \in TaskType
               PROVE  Aged(t) \in TaskType /\ Aged(t).sequence = t.sequence
                        /\ Aged(t).instance = t.instance
    OBVIOUS
  <2>1. Aged(t) = [t EXCEPT !.age = Older(t.age, Lease)]
    BY DEF Aged, TaskType
  <2> QED BY <1>1, <2>1 DEF TaskType
<1> QED BY <1>2, <1>3, <1>4

\* Time makes no status untrue.
LEMMA TickStep ==
  ASSUME ProtocolInv, Tick
  PROVE  ProtocolInv'
<1> USE DEF ProtocolInv, ProtocolType
<1>1. /\ UNCHANGED <<sequence, registered, accepted, assignments, phase, instance,
                     assigned, served, state, running, builds>>
      /\ seen' = Aged(seen)
      /\ statuses' = [k \in DOMAIN statuses |-> Aged(statuses[k])]
      /\ task' = IF task = NoTask THEN task ELSE Aged(task)
  BY DEF Tick
<1>2. Made' = Made /\ TrueStatus' = TrueStatus
  BY <1>1 DEF Made, TrueStatus
<1>3. seen' = NoRecord \/ seen' \in TrueStatus
  BY <1>1, AgedFacts
<1>4. task' = NoTask \/ (task' \in TaskType /\ task'.instance = registered
                           /\ task'.sequence <= sequence)
  BY <1>1, AgedFacts
<1>5. statuses' \in Seq(TrueStatus)
  <2>1. DOMAIN statuses = 1..Len(statuses) /\ Len(statuses) \in Nat
          /\ \A k \in 1..Len(statuses) : statuses[k] \in TrueStatus
    OBVIOUS
  <2>2. statuses' \in [1..Len(statuses) -> TrueStatus]
    BY <1>1, <2>1, AgedFacts
  <2> DEFINE n == Len(statuses)
  <2>3. n \in Nat /\ statuses' \in [1..n -> TrueStatus]
    BY <2>1, <2>2
  <2> HIDE DEF n
  <2> QED BY <2>3
<1>6. ProtocolType'
  BY <1>1, <1>2, <1>3, <1>4, <1>5
<1>7. Ordered' /\ AcceptsOwnResults'
  BY <1>1 DEF Ordered, AcceptsOwnResults, Alive
<1> QED BY <1>6, <1>7

(***************************************************************************)
(* Every step, and the theorems.                                           *)
(***************************************************************************)
LEMMA ProtocolStep == ProtocolInv /\ [Next]_vars => ProtocolInv'
<1> SUFFICES ASSUME ProtocolInv, [Next]_vars PROVE ProtocolInv'
  OBVIOUS
<1>1. CASE WriteLease \/ Announce \/ Drain \/ UNCHANGED vars
  <2>1. UNCHANGED tracked
    BY <1>1 DEF WriteLease, Announce, Drain, tracked, vars, coordinatorVars,
                helperVars, boxes
  <2> QED BY <2>1, TrackedSame
<1>2. CASE AssignTask
  BY <1>2, AssignStep
<1>3. CASE AcceptResult
  BY <1>3, AcceptStep
<1>4. CASE \/ ReadStatus \/ SendAssignment \/ Acknowledge \/ AbandonTask
           \/ CoordinatorDies \/ Close
  BY <1>4, CoordinatorReads
<1>5. CASE \/ CheckLease \/ ReceiveNothing \/ PollTick \/ HelperReplaced
           \/ HelperDies
  BY <1>5, LoopSteps
<1>6. CASE PublishStatus
  BY <1>6, PublishStep
<1>7. CASE ReceiveTask
  BY <1>7, ReceiveStep
<1>8. CASE BuildEnds
  BY <1>8, BuildStep
<1>9. CASE Tick
  BY <1>9, TickStep
<1> QED
  BY <1>1, <1>2, <1>3, <1>4, <1>5, <1>6, <1>7, <1>8, <1>9
  DEF Next, Coordinator, Helper

LEMMA ProtocolInvariant == Spec => []ProtocolInv
  BY ProtocolInitInv, ProtocolStep, PTL DEF Spec

\* For any number of assignments and incarnations, however old the records the
\* store answers with and whenever the processes die: servePoolBuilder executes
\* no assignment twice and none that was made to another incarnation.
THEOREM AssignmentsExecuteOnce == Spec => []ExecutesOnce
<1>1. ProtocolInv => ExecutesOnce
  BY DEF ProtocolInv, Ordered, ExecutesOnce, Instances, TaskNumbers
<1> QED BY <1>1, ProtocolInvariant, PTL

\* And a result that remoteTask returns is that of the assignment it made, which
\* its helper built.
THEOREM ResultsAreOwn == Spec => []AcceptsOwnResults
<1>1. ProtocolInv => AcceptsOwnResults
  BY DEF ProtocolInv
<1> QED BY <1>1, ProtocolInvariant, PTL

-----------------------------------------------------------------------------
(***************************************************************************)
(* The records of a mailbox, one by one.                                   *)
(***************************************************************************)
\* The newest record there is: of a mailbox, or held by its reader.
Newest(box, record) == IF box = <<>> THEN record ELSE box[Len(box)]

\* A record is put last, and may push out the first.
LEMMA PutShape ==
  ASSUME NEW S, NEW box \in Seq(S), NEW r \in S
  PROVE  \E o \in {0, 1} :
           /\ Len(Put(box, r)) = Len(box) + 1 - o /\ Len(Put(box, r)) \in Nat \ {0}
           /\ \A i \in 1..Len(Put(box, r)) :
                Put(box, r)[i] = IF i = Len(Put(box, r)) THEN r ELSE box[i + o]
<1> DEFINE all == Append(box, r)
<1>1. /\ all \in Seq(S) /\ Len(all) = Len(box) + 1 /\ all # <<>>
      /\ \A i \in 1..Len(all) : all[i] = IF i <= Len(box) THEN box[i] ELSE r
  BY AppendProperties
<1>2. Visible \in Nat \ {0} /\ Len(box) \in Nat
  BY ProtocolAssumption
<1> HIDE DEF all
<1>3. CASE Len(all) > Visible
  <2>1. /\ Len(Tail(all)) = Len(all) - 1
        /\ \A i \in 1..Len(all) - 1 : Tail(all)[i] = all[i + 1]
    BY <1>1, HeadTailProperties
  <2>2. Put(box, r) = Tail(all)
    BY <1>3 DEF Put, all
  <2>3. Len(Put(box, r)) = Len(box) + 1 - 1 /\ Len(Put(box, r)) \in Nat \ {0}
    BY <1>1, <1>2, <1>3, <2>1, <2>2
  <2>4. ASSUME NEW i \in 1..Len(Put(box, r))
        PROVE  Put(box, r)[i] = IF i = Len(Put(box, r)) THEN r ELSE box[i + 1]
    <3>1. i \in 1..Len(all) - 1 /\ i + 1 \in 1..Len(all) /\ i \in Int
      BY <1>1, <1>2, <2>3
    <3>2. Put(box, r)[i] = all[i + 1]
      BY <2>1, <2>2, <3>1
    <3> QED BY <1>1, <1>2, <2>3, <3>1, <3>2
  <2> QED BY <2>3, <2>4
<1>4. CASE ~(Len(all) > Visible)
  <2>1. Put(box, r) = all
    BY <1>4 DEF Put, all
  <2>2. Len(all) = Len(box) + 1 - 0 /\ Len(all) \in Nat \ {0}
    BY <1>1, <1>2
  <2>3. \A i \in 1..Len(all) : all[i] = IF i = Len(all) THEN r ELSE box[i + 0]
    BY <1>1, <1>2
  <2> QED BY <2>1, <2>2, <2>3
<1> QED BY <1>3, <1>4

\* A read takes the first records.
LEMMA AfterShape ==
  ASSUME NEW S, NEW box \in Seq(S), NEW k \in 0..Len(box)
  PROVE  /\ Len(After(box, k)) = Len(box) - k
         /\ \A i \in 1..Len(box) - k : After(box, k)[i] = box[k + i]
  BY SubSeqProperties DEF After

\* A new bus may first be answered with the record the old one held.
LEMMA UnreadShape ==
  ASSUME NEW S, NEW box \in Seq(S), NEW r, r = NoRecord \/ r \in S
  PROVE  \/ Unread(r, box) = box /\ (r = NoRecord \/ Len(box) # 0)
         \/ /\ Len(Unread(r, box)) = Len(box) + 1 /\ Unread(r, box)[1] = r
            /\ \A i \in 1..Len(box) : Unread(r, box)[i + 1] = box[i]
<1>1. Visible \in Nat \ {0} /\ Len(box) \in Nat
  BY ProtocolAssumption
<1>2. CASE r = NoRecord \/ Len(box) = Visible
  BY <1>1, <1>2 DEF Unread
<1>3. CASE ~(r = NoRecord \/ Len(box) = Visible)
  <2> DEFINE both == <<r>> \o box
  <2>1. <<r>> \in Seq(S) /\ Len(<<r>>) = 1 /\ <<r>>[1] = r
    BY <1>3
  <2>2. /\ Len(both) = 1 + Len(box)
        /\ \A i \in 1..1 + Len(box) :
             both[i] = IF i <= 1 THEN <<r>>[i] ELSE box[i - 1]
    BY <1>1, <2>1, ConcatProperties
  <2>3. Unread(r, box) = both
    BY <1>3 DEF Unread
  <2> HIDE DEF both
  <2>4. both[1] = r
    BY <1>1, <2>1, <2>2
  <2>5. ASSUME NEW i \in 1..Len(box)
        PROVE  both[i + 1] = box[i]
    <3>1. i + 1 \in 1..1 + Len(box) /\ ~(i + 1 <= 1) /\ (i + 1) - 1 = i
      BY <1>1
    <3> QED BY <2>2, <3>1
  <2> QED BY <1>1, <2>2, <2>3, <2>4, <2>5
<1> QED BY <1>2, <1>3

\* A record just written is the newest; reading changes what is the newest as
\* little as a new bus does.
LEMMA NewestFacts ==
  ASSUME NEW S, NEW box \in Seq(S)
  PROVE  /\ \A r \in S : \A e : Newest(Put(box, r), e) = r
         /\ \A k \in 1..Len(box) : \A e :
              Newest(After(box, k), box[k]) = Newest(box, e)
         /\ \A e : e = NoRecord \/ e \in S =>
              /\ Newest(box, e) = NoRecord \/ Newest(box, e) \in S
              /\ Newest(Unread(e, box), NoRecord) = Newest(box, e)
<1>1. Len(box) \in Nat /\ (box = <<>> <=> Len(box) = 0)
  BY EmptySeq
<1>2. ASSUME NEW r \in S, NEW e
      PROVE  Newest(Put(box, r), e) = r
  <2>1. /\ Len(Put(box, r)) \in 1..Len(Put(box, r))
        /\ Put(box, r)[Len(Put(box, r))] = r
    <3>1. PICK o \in {0, 1} :
             /\ Len(Put(box, r)) \in Nat \ {0}
             /\ \A i \in 1..Len(Put(box, r)) :
                  Put(box, r)[i] = IF i = Len(Put(box, r)) THEN r ELSE box[i + o]
      BY PutShape
    <3>2. Len(Put(box, r)) \in 1..Len(Put(box, r))
      BY <3>1
    <3> QED BY <3>1, <3>2
  <2>2. Put(box, r) # <<>>
    BY <2>1
  <2> QED BY <2>1, <2>2 DEF Newest
<1>3. ASSUME NEW k \in 1..Len(box), NEW e
      PROVE  Newest(After(box, k), box[k]) = Newest(box, e)
  <2> DEFINE rest == After(box, k)
  <2>1. k \in 0..Len(box) /\ box # <<>>
    BY <1>1
  <2>2. /\ Len(rest) = Len(box) - k /\ rest \in Seq(S)
        /\ \A i \in 1..Len(box) - k : rest[i] = box[k + i]
    BY <2>1, AfterShape, BoxFacts
  <2> HIDE DEF rest
  <2>3. CASE Len(box) = k
    <3>1. rest = <<>>
      BY <1>1, <2>2, <2>3, EmptySeq
    <3> QED BY <2>1, <2>3, <3>1 DEF Newest, rest
  <2>4. CASE Len(box) # k
    <3>1. Len(rest) \in 1..Len(box) - k /\ rest # <<>> /\ k + Len(rest) = Len(box)
      BY <1>1, <2>2, <2>4
    <3>2. rest[Len(rest)] = box[Len(box)]
      BY <2>2, <3>1
    <3> QED BY <2>1, <3>1, <3>2 DEF Newest, rest
  <2> QED BY <2>3, <2>4
<1>4. ASSUME NEW e, e = NoRecord \/ e \in S
      PROVE  Newest(box, e) = NoRecord \/ Newest(box, e) \in S
  <2>1. Len(box) # 0 => Len(box) \in 1..Len(box)
    BY <1>1
  <2> QED BY <1>1, <1>4, <2>1 DEF Newest
<1>5. ASSUME NEW e, e = NoRecord \/ e \in S
      PROVE  Newest(Unread(e, box), NoRecord) = Newest(box, e)
  <2> DEFINE new == Unread(e, box)
  <2>1. CASE new = box /\ (e = NoRecord \/ Len(box) # 0)
    BY <1>1, <2>1 DEF Newest
  <2>2. CASE /\ Len(new) = Len(box) + 1 /\ new[1] = e
             /\ \A i \in 1..Len(box) : new[i + 1] = box[i]
    <3>1. new # <<>>
      BY <1>1, <2>2
    <3> HIDE DEF new
    <3>2. Len(box) = 0 => Newest(new, NoRecord) = Newest(box, e)
      BY <1>1, <2>2, <3>1 DEF Newest
    <3>3. Len(box) # 0 => Newest(new, NoRecord) = Newest(box, e)
      <4>1. Len(box) # 0 => Len(box) \in 1..Len(box)
        BY <1>1
      <4>2. Len(box) # 0 => new[Len(new)] = box[Len(box)]
        BY <2>2, <4>1
      <4> QED BY <1>1, <3>1, <4>2 DEF Newest
    <3> QED BY <3>2, <3>3 DEF new
  <2> QED BY <1>5, <2>1, <2>2, UnreadShape
<1> QED BY <1>2, <1>3, <1>4, <1>5

(***************************************************************************)
(* Leases. What a lease says is true of its coordinator, records are in    *)
(* the order they were sent, and a helper's own clock is not behind the    *)
(* age of the lease it holds.                                              *)
(***************************************************************************)
LeaseType == [age : 0..Lease, stop : BOOLEAN, announced : BOOLEAN, finish : Sequences0]
TrueLease == { r \in LeaseType : /\ r.stop => stop \/ ~alive
                                 /\ r.announced => announced /\ r.finish = sequence }

\* No record of a mailbox is older than the one before it or than the one held.
InOrder(box, record) ==
  /\ \A k \in 1..Len(box) : box[k].age <= record.age
  /\ \A i, k \in 1..Len(box) : i <= k => box[k].age <= box[i].age

LeaseInv ==
  /\ stop \in BOOLEAN /\ announced \in BOOLEAN /\ finish \in Sequences0
  /\ announced => finish = sequence
  /\ ~Alive => ~joined
  /\ coordinator = NoRecord \/ coordinator \in TrueLease
  /\ leases \in Seq(TrueLease)
  /\ InOrder(leases, coordinator)
  /\ started \in Nat
  /\ joined => coordinator.age <= started
  /\ OrphanStops

\* The ages of records.
LEMMA LeaseAges ==
  /\ Lease \in Nat \ {0} /\ NoRecord.age = Lease
  /\ \A r \in LeaseType : r.age \in 0..Lease /\ r # NoRecord
  /\ \A r : Fresh(r) <=> r.age < Lease
  /\ TrueLease \subseteq LeaseType
  /\ \A box \in Seq(TrueLease) : box \in Seq(LeaseType)
<1>1. Lease \in Nat \ {0} /\ NoRecord.age = Lease
  BY ProtocolAssumption DEF NoRecord
<1>2. ASSUME NEW r \in LeaseType
      PROVE  r.age \in 0..Lease /\ r # NoRecord
  BY DEF LeaseType, NoRecord
<1>3. ASSUME NEW box \in Seq(TrueLease)
      PROVE  box \in Seq(LeaseType)
  <2>1. TrueLease \subseteq LeaseType
    BY DEF TrueLease
  <2> QED BY <2>1, BoxFacts
<1> QED BY <1>1, <1>2, <1>3 DEF Fresh, TrueLease

\* The newest record is the youngest.
LEMMA NewestIsYoungest ==
  ASSUME NEW box \in Seq(LeaseType), NEW record, record = NoRecord \/ record \in LeaseType,
         InOrder(box, record)
  PROVE  /\ Newest(box, record).age \in 0..Lease
         /\ Newest(box, record).age <= record.age
<1>1. Len(box) \in Nat /\ (box = <<>> <=> Len(box) = 0)
  BY EmptySeq
<1>2. record.age \in 0..Lease
  BY LeaseAges
<1>3. CASE Len(box) = 0
  BY <1>1, <1>2, <1>3 DEF Newest
<1>4. CASE Len(box) # 0
  <2>1. Len(box) \in 1..Len(box) /\ Newest(box, record) = box[Len(box)]
    BY <1>1, <1>4 DEF Newest
  <2>2. box[Len(box)] \in LeaseType /\ box[Len(box)].age <= record.age
    BY <2>1 DEF InOrder
  <2> QED BY <2>1, <2>2, LeaseAges
<1> QED BY <1>3, <1>4

\* Records stay in order when one is written, read or left to the next helper.
LEMMA OrderKept ==
  ASSUME NEW box \in Seq(LeaseType), NEW record, record = NoRecord \/ record \in LeaseType,
         InOrder(box, record)
  PROVE  /\ \A r \in LeaseType : r.age = 0 => InOrder(Put(box, r), record)
         /\ \A k \in 1..Len(box) : InOrder(After(box, k), box[k])
         /\ InOrder(Unread(record, box), NoRecord)
<1>1. Len(box) \in Nat /\ record.age \in 0..Lease /\ Lease \in Nat
  BY LeaseAges
<1>2. \A i \in 1..Len(box) : box[i] \in LeaseType /\ box[i].age \in 0..Lease
  BY LeaseAges
<1>3. ASSUME NEW r \in LeaseType, r.age = 0 PROVE InOrder(Put(box, r), record)
  <2> DEFINE new == Put(box, r)
  <2>1. PICK o \in {0, 1} :
           /\ Len(new) = Len(box) + 1 - o /\ Len(new) \in Nat \ {0}
           /\ \A i \in 1..Len(new) : new[i] = IF i = Len(new) THEN r ELSE box[i + o]
    BY PutShape
  <2> HIDE DEF new
  <2>2. \A i \in 1..Len(new) : i # Len(new) => i + o \in 1..Len(box)
    BY <1>1, <2>1
  <2>3. \A i \in 1..Len(new) : new[i].age <= record.age
    BY <1>1, <1>2, <1>3, <2>1, <2>2 DEF InOrder
  <2>4. \A i \in 1..Len(new) : new[i].age \in Nat
    BY <1>1, <1>2, <1>3, <2>1, <2>2
  <2>5. ASSUME NEW i \in 1..Len(new), NEW k \in 1..Len(new), i <= k
        PROVE  new[k].age <= new[i].age
    <3>1. CASE k = Len(new)
      BY <1>3, <2>1, <2>4, <3>1
    <3>2. CASE k # Len(new)
      <4>1. i # Len(new) /\ i + o <= k + o
        BY <2>1, <2>5, <3>2
      <4>2. i + o \in 1..Len(box) /\ k + o \in 1..Len(box)
        BY <2>2, <3>2, <4>1
      <4>3. new[i] = box[i + o] /\ new[k] = box[k + o]
        BY <2>1, <3>2, <4>1
      <4> QED BY <4>1, <4>2, <4>3 DEF InOrder
    <3> QED BY <3>1, <3>2
  <2>6. InOrder(new, record)
    BY <2>3, <2>5 DEF InOrder
  <2> QED BY <2>6 DEF new
<1>4. ASSUME NEW k \in 1..Len(box) PROVE InOrder(After(box, k), box[k])
  <2> DEFINE rest == After(box, k)
  <2>1. Len(rest) = Len(box) - k /\ \A i \in 1..Len(box) - k : rest[i] = box[k + i]
    <3>1. k \in 0..Len(box)
      BY <1>1
    <3> QED BY <3>1, AfterShape
  <2> HIDE DEF rest
  <2>2. \A i \in 1..Len(rest) : k + i \in 1..Len(box) /\ k <= k + i /\ rest[i] = box[k + i]
    BY <1>1, <2>1
  <2>3. \A i \in 1..Len(rest) : rest[i].age <= box[k].age
    BY <2>2 DEF InOrder
  <2>4. \A i, j \in 1..Len(rest) : i <= j => k + i <= k + j
    OBVIOUS
  <2>5. \A i, j \in 1..Len(rest) : i <= j => rest[j].age <= rest[i].age
    BY <2>2, <2>4 DEF InOrder
  <2>6. InOrder(rest, box[k])
    BY <2>3, <2>5 DEF InOrder
  <2> QED BY <2>6 DEF rest
<1>5. InOrder(Unread(record, box), NoRecord)
  <2> DEFINE new == Unread(record, box)
  <2>1. \/ new = box
        \/ /\ Len(new) = Len(box) + 1 /\ new[1] = record
           /\ \A i \in 1..Len(box) : new[i + 1] = box[i]
    BY UnreadShape
  <2> HIDE DEF new
  <2>2. new = box => InOrder(new, NoRecord)
    BY <1>1, <1>2, LeaseAges DEF InOrder
  <2>3. ASSUME Len(new) = Len(box) + 1, new[1] = record,
               \A i \in 1..Len(box) : new[i + 1] = box[i]
        PROVE  InOrder(new, NoRecord)
    <3>1. ASSUME NEW i \in 1..Len(new)
          PROVE  i = 1 \/ (i - 1 \in 1..Len(box) /\ new[i] = box[i - 1])
      <4>1. i # 1 => i - 1 \in 1..Len(box) /\ (i - 1) + 1 = i
        BY <1>1, <2>3
      <4> QED BY <2>3, <4>1
    <3>2. \A i \in 1..Len(new) : new[i].age \in 0..Lease /\ new[i].age <= record.age
      <4> TAKE i \in 1..Len(new)
      <4>1. CASE i = 1
        BY <1>1, <2>3, <4>1
      <4>2. CASE i # 1
        BY <1>2, <3>1, <4>2 DEF InOrder
      <4> QED BY <4>1, <4>2
    <3>3. ASSUME NEW i \in 1..Len(new), NEW k \in 1..Len(new), i <= k
          PROVE  new[k].age <= new[i].age
      <4>1. CASE i = 1
        BY <2>3, <3>2, <4>1
      <4>2. CASE i # 1
        <5>1. i - 1 \in 1..Len(box) /\ k - 1 \in 1..Len(box) /\ i - 1 <= k - 1
                /\ new[i] = box[i - 1] /\ new[k] = box[k - 1]
          BY <3>1, <3>3, <4>2
        <5> QED BY <5>1 DEF InOrder
      <4> QED BY <4>1, <4>2
    <3>4. \A i \in 1..Len(new) : new[i].age <= NoRecord.age
      BY <1>1, <3>2, LeaseAges
    <3> QED BY <3>3, <3>4 DEF InOrder
  <2>4. InOrder(new, NoRecord)
    BY <2>1, <2>2, <2>3
  <2> QED BY <2>4 DEF new
<1> QED BY <1>3, <1>4, <1>5

\* At the beginning nothing is published.
LEMMA LeaseInit == Init => LeaseInv
<1> SUFFICES ASSUME Init PROVE LeaseInv
  OBVIOUS
<1>1. 0 \in Sequences0
  BY ProtocolAssumption DEF Sequences0
<1>2. InOrder(leases, coordinator)
  BY DEF Init, InOrder
<1>3. leases \in Seq(TrueLease)
  BY EmptySeq DEF Init
<1>4. announced = FALSE /\ stop = FALSE /\ joined = FALSE /\ finish = 0 /\ started = 0
        /\ coordinator = NoRecord
  BY DEF Init
<1> QED BY <1>1, <1>2, <1>3, <1>4 DEF LeaseInv, OrphanStops

\* A step that leaves the leases and the helper's clock alone, and does not enter
\* the part of the loop that runs under a lease.
LEMMA LeaseSame ==
  ASSUME LeaseInv, TrueLease \subseteq TrueLease',
         UNCHANGED <<leases, coordinator, joined, started>>,
         stop' \in BOOLEAN, announced' \in BOOLEAN, finish' \in Sequences0,
         announced' => finish' = sequence',
         \/ UNCHANGED <<phase, polled>> \/ phase' = "lease"
         \/ Alive /\ Alive' /\ phase \notin {"lease", "wait"}
  PROVE  LeaseInv'
<1>1. leases' \in Seq(TrueLease') /\ (coordinator' = NoRecord \/ coordinator' \in TrueLease')
  <2>1. leases \in Seq(TrueLease) /\ (coordinator = NoRecord \/ coordinator \in TrueLease)
    BY DEF LeaseInv
  <2> QED BY <2>1, BoxFacts
<1>2. OrphanStops'
  BY DEF LeaseInv, OrphanStops, Alive, LastLease, Fresh
<1>3. InOrder(leases', coordinator') /\ started' \in Nat /\ (joined' => coordinator'.age <= started')
  BY DEF LeaseInv
<1>4. ~Alive' => ~joined'
  BY DEF LeaseInv, Alive, Ends
<1> QED BY <1>1, <1>2, <1>3, <1>4 DEF LeaseInv

\* A lease that was just written is the newest, and fresh.
LEMMA LeaseWritten ==
  ASSUME LeaseInv, TrueLease \subseteq TrueLease', NEW r \in TrueLease', r \in LeaseType,
         r.age = 0, leases' = Put(leases, r),
         UNCHANGED <<coordinator, joined, started, phase, polled, stop, announced,
                     finish, sequence>>
  PROVE  LeaseInv'
<1>1. /\ leases \in Seq(TrueLease) /\ leases \in Seq(LeaseType)
      /\ coordinator = NoRecord \/ (coordinator \in TrueLease /\ coordinator \in LeaseType)
      /\ InOrder(leases, coordinator)
  BY LeaseAges DEF LeaseInv
<1>2. leases' \in Seq(TrueLease')
  <2>1. leases \in Seq(TrueLease')
    BY <1>1, BoxFacts
  <2> QED BY <2>1, BoxFacts
<1>3. coordinator' = NoRecord \/ coordinator' \in TrueLease'
  BY <1>1
<1>4. InOrder(leases', coordinator')
  BY <1>1, OrderKept
<1>5. Newest(leases', coordinator) = r
  BY <1>1, NewestFacts
<1>6. OrphanStops'
  BY <1>5, LeaseAges DEF OrphanStops, LastLease, Newest, Fresh
<1> QED BY <1>2, <1>3, <1>4, <1>6 DEF LeaseInv, Alive

\* What the helper reads and holds next, which may be what it holds already.
LEMMA ReadLease ==
  ASSUME LeaseInv, NEW k \in LeaseReads
  PROVE  /\ Held(k) = NoRecord \/ Held(k) \in TrueLease
         /\ After(leases, k) \in Seq(TrueLease)
         /\ InOrder(After(leases, k), Held(k))
         /\ Newest(After(leases, k), Held(k)) = LastLease
         /\ Held(k).age \in 0..Lease /\ Held(k).age <= coordinator.age
         /\ coordinator.age \in 0..Lease
<1>1. /\ leases \in Seq(TrueLease) /\ (coordinator = NoRecord \/ coordinator \in TrueLease)
      /\ InOrder(leases, coordinator)
      /\ LastLease = Newest(leases, coordinator)
      /\ Len(leases) \in Nat
  BY DEF LeaseInv, LastLease, Newest
<1>2. coordinator.age \in 0..Lease
  BY <1>1, LeaseAges
<1>3. k \in 0..Len(leases)
  BY <1>1 DEF LeaseReads
<1>4. CASE k = 0
  <2>1. Held(k) = coordinator
    BY <1>4 DEF Held
  <2>2. After(leases, k) = leases
    BY <1>1, <1>4, SubSeqFull DEF After
  <2> QED BY <1>1, <1>2, <2>1, <2>2
<1>5. CASE k # 0
  <2>1. k \in 1..Len(leases) /\ Held(k) = leases[k]
    BY <1>3, <1>5 DEF Held
  <2>2. leases[k] \in TrueLease /\ leases[k].age <= coordinator.age
    BY <1>1, <2>1 DEF InOrder
  <2>3. /\ After(leases, k) \in Seq(TrueLease)
        /\ InOrder(After(leases, k), leases[k])
        /\ Newest(After(leases, k), leases[k]) = LastLease
    <3>1. After(leases, k) \in Seq(TrueLease)
      BY <1>1, <1>3, BoxFacts
    <3>2. InOrder(After(leases, k), leases[k])
      BY <1>1, <2>1, LeaseAges, OrderKept
    <3>3. Newest(After(leases, k), leases[k]) = Newest(leases, coordinator)
      BY <1>1, <2>1, NewestFacts
    <3> QED BY <1>1, <3>1, <3>2, <3>3
  <2> QED BY <1>2, <2>1, <2>2, <2>3, LeaseAges
<1> QED BY <1>4, <1>5

\* A lease is held while it is fresh, and until then it has not ended: what is
\* held when it ends is as old as the lease.
LEMMA HoldLeaseStep ==
  ASSUME LeaseInv, NEW k \in LeaseReads, HoldLease(k)
  PROVE  LeaseInv'
<1>1. /\ UNCHANGED <<alive, stop, announced, finish, sequence>> /\ Alive'
      /\ coordinator' = Held(k) /\ leases' = After(leases, k)
      /\ Fresh(Held(k)) \/ ~LeaseEnded
      /\ \/ Fresh(Held(k)) /\ joined' = TRUE /\ started' = Held(k).age
         \/ ~Fresh(Held(k)) /\ UNCHANGED <<joined, started>>
  BY DEF HoldLease, coordinatorVars, LeaseStart, Alive, Ends
<1>2. TrueLease' = TrueLease
  BY <1>1 DEF TrueLease
<1>3. /\ Held(k) = NoRecord \/ Held(k) \in TrueLease
      /\ After(leases, k) \in Seq(TrueLease)
      /\ InOrder(After(leases, k), Held(k))
      /\ Held(k).age \in 0..Lease /\ Held(k).age <= coordinator.age
      /\ coordinator.age \in 0..Lease
      /\ Newest(After(leases, k), Held(k)).age <= Held(k).age
      /\ Newest(After(leases, k), Held(k)).age \in 0..Lease
  <2>1. /\ Held(k) = NoRecord \/ Held(k) \in TrueLease
        /\ After(leases, k) \in Seq(TrueLease)
        /\ InOrder(After(leases, k), Held(k))
        /\ Held(k).age \in 0..Lease /\ Held(k).age <= coordinator.age
        /\ coordinator.age \in 0..Lease
    BY ReadLease
  <2>2. /\ Held(k) = NoRecord \/ Held(k) \in LeaseType
        /\ After(leases, k) \in Seq(LeaseType)
    BY <2>1, LeaseAges
  <2> QED BY <2>1, <2>2, NewestIsYoungest
<1>4. LastLease' = Newest(After(leases, k), Held(k))
  BY <1>1 DEF LastLease, Newest
<1>5. Fresh(Held(k)) => Fresh(LastLease')
  BY <1>3, <1>4, LeaseAges
<1>6. ~Fresh(Held(k)) => ~joined
  BY <1>1, <1>3, LeaseAges DEF LeaseEnded, LeaseInv
<1>7. (joined' => coordinator'.age <= started') /\ started' \in Nat
  BY <1>1, <1>3, <1>6 DEF LeaseInv
<1>8. OrphanStops'
  BY <1>1, <1>5, <1>6 DEF OrphanStops, Fresh
<1> QED BY <1>1, <1>2, <1>3, <1>7, <1>8 DEF LeaseInv

\* A helper that ends leaves the record it held, and what it has not read, to
\* the next.
LEMMA GoneLeases ==
  ASSUME LeaseInv, NEW end, NEW record, NEW unread, HelperGone(end, record, unread),
         record = NoRecord \/ record \in TrueLease, unread \in Seq(TrueLease),
         InOrder(unread, record),
         UNCHANGED <<alive, stop, announced, finish, sequence>>
  PROVE  LeaseInv'
<1>1. /\ leases' = Unread(record, unread) /\ coordinator' = NoRecord
      /\ joined' = FALSE /\ started' = 0
  BY DEF HelperGone
<1>2. TrueLease' = TrueLease
  BY DEF TrueLease
<1>3. Unread(record, unread) \in Seq(TrueLease) /\ InOrder(Unread(record, unread), NoRecord)
  BY BoxFacts, LeaseAges, OrderKept
<1>4. OrphanStops'
  BY <1>1 DEF OrphanStops
<1> QED BY <1>1, <1>2, <1>3, <1>4 DEF LeaseInv

\* A record that grows older says the same, and none overtakes another.
LEMMA AgedLeases ==
  /\ Lease \in Nat \ {0} /\ Aged(NoRecord) = NoRecord
  /\ \A r \in TrueLease : Aged(r) \in TrueLease /\ Aged(r).age = Older(r.age, Lease)
  /\ \A a, b \in Nat : a <= b => Older(a, Lease) <= Older(b, Lease)
  /\ \A a, b, m \in Nat : a <= b /\ Lease <= m /\ a <= Lease => Older(a, Lease) <= Older(b, m)
<1>1. Lease \in Nat \ {0}
  BY ProtocolAssumption
<1>2. ASSUME NEW r \in TrueLease
      PROVE  Aged(r) \in TrueLease /\ Aged(r).age = Older(r.age, Lease)
  <2>1. r \in LeaseType
    BY DEF TrueLease
  <2>2. r.age \in 0..Lease /\ Older(r.age, Lease) \in 0..Lease
    BY <1>1, <2>1 DEF LeaseType, Older
  <2>3. Aged(r) = [r EXCEPT !.age = Older(r.age, Lease)]
    BY <2>1 DEF Aged, LeaseType
  <2>4. /\ Aged(r) \in LeaseType /\ Aged(r).age = Older(r.age, Lease)
        /\ Aged(r).stop = r.stop /\ Aged(r).announced = r.announced
        /\ Aged(r).finish = r.finish
    BY <2>1, <2>2, <2>3 DEF LeaseType
  <2> QED BY <2>4 DEF TrueLease
<1>3. \A a, b \in Nat : a <= b => Older(a, Lease) <= Older(b, Lease)
  BY <1>1 DEF Older
<1>4. \A a, b, m \in Nat : a <= b /\ Lease <= m /\ a <= Lease => Older(a, Lease) <= Older(b, m)
  BY <1>1 DEF Older
<1> QED BY <1>1, <1>2, <1>3, <1>4, AgedFacts

\* While time passes the helper waits, and has not polled since.
LEMMA TickLeases ==
  ASSUME LeaseInv, Tick
  PROVE  LeaseInv'
<1>1. /\ UNCHANGED <<alive, stop, announced, finish, sequence, joined, phase>>
      /\ coordinator' = Aged(coordinator)
      /\ leases' = [k \in DOMAIN leases |-> Aged(leases[k])]
      /\ started' = IF Alive
                    THEN Older(started, IF Lease > Startup THEN Lease ELSE Startup)
                    ELSE started
      /\ Alive => phase = "wait"
      /\ polled' = FALSE
  BY DEF Tick
<1>2. TrueLease' = TrueLease
  BY <1>1 DEF TrueLease
<1>3. /\ coordinator = NoRecord \/ coordinator \in TrueLease
      /\ leases \in Seq(TrueLease) /\ InOrder(leases, coordinator)
      /\ coordinator.age \in 0..Lease
      /\ DOMAIN leases = 1..Len(leases) /\ Len(leases) \in Nat
      /\ \A k \in 1..Len(leases) : leases[k] \in TrueLease
  BY LeaseAges DEF LeaseInv
<1>4. /\ coordinator' = NoRecord \/ coordinator' \in TrueLease
      /\ coordinator'.age = Older(coordinator.age, Lease)
  BY <1>1, <1>3, AgedLeases, LeaseAges DEF Older
<1>5. leases' \in Seq(TrueLease) /\ Len(leases') = Len(leases)
  <2>1. leases' \in [1..Len(leases) -> TrueLease]
    BY <1>1, <1>3, AgedLeases
  <2> DEFINE n == Len(leases)
  <2>2. n \in Nat /\ leases' \in [1..n -> TrueLease]
    BY <1>3, <2>1
  <2> HIDE DEF n
  <2>3. leases' \in Seq(TrueLease) /\ Len(leases') = n
    BY <2>2
  <2> QED BY <2>3 DEF n
<1>6. \A k \in 1..Len(leases) :
        leases[k].age \in Nat /\ leases'[k].age = Older(leases[k].age, Lease)
  BY <1>1, <1>3, AgedLeases, LeaseAges
<1>7. InOrder(leases', coordinator')
  <2>1. \A k \in 1..Len(leases) : leases'[k].age <= coordinator'.age
    BY <1>3, <1>4, <1>6, AgedLeases DEF InOrder
  <2>2. \A i, k \in 1..Len(leases) : i <= k => leases'[k].age <= leases'[i].age
    BY <1>3, <1>6, AgedLeases DEF InOrder
  <2> QED BY <1>5, <2>1, <2>2 DEF InOrder
<1>8. started' \in Nat /\ (joined' => coordinator'.age <= started')
  <2> DEFINE m == IF Lease > Startup THEN Lease ELSE Startup
  <2>1. /\ m \in Nat /\ Lease <= m
        /\ started' = Older(started, m) \/ (~joined /\ started' = started)
    BY <1>1, ProtocolAssumption DEF LeaseInv
  <2> HIDE DEF m
  <2>2. started \in Nat /\ (joined => coordinator.age <= started)
    BY DEF LeaseInv
  <2>3. started' \in Nat
    BY <2>1, <2>2 DEF Older
  <2>4. joined => Older(coordinator.age, Lease) <= Older(started, m)
    BY <1>3, <2>1, <2>2, AgedLeases
  <2>5. joined' => joined /\ started' = Older(started, m)
    BY <1>1, <2>1
  <2> QED BY <1>4, <2>3, <2>4, <2>5
<1>9. OrphanStops'
  BY <1>1 DEF OrphanStops, Alive
<1> QED BY <1>1, <1>2, <1>4, <1>5, <1>7, <1>8, <1>9 DEF LeaseInv, Alive

\* What the coordinator does to its leases, and to what they say.
LEMMA CoordinatorLeases ==
  ASSUME ProtocolInv, LeaseInv, WriteLease \/ ReadStatus \/ Coordinator \/ CoordinatorDies
  PROVE  LeaseInv'
<1> DEFINE same == UNCHANGED <<coordinator, joined, started, phase, polled>>
<1>1. CASE WriteLease
  <2>1. /\ leases' = Put(leases, Lifeline(stop)) /\ same
        /\ UNCHANGED <<alive, stop, announced, finish, sequence>>
    BY <1>1 DEF WriteLease, coordinatorVars, helperVars
  <2>2. Lifeline(stop) \in TrueLease /\ Lifeline(stop).age = 0
    BY LeaseAges DEF Lifeline, TrueLease, LeaseType, LeaseInv
  <2>3. TrueLease' = TrueLease /\ Lifeline(stop) \in LeaseType
    BY <2>1, <2>2 DEF TrueLease
  <2> DEFINE last == Lifeline(stop)
  <2>4. /\ leases' = Put(leases, last) /\ last \in TrueLease' /\ last \in LeaseType
        /\ last.age = 0
    BY <2>1, <2>2, <2>3
  <2> HIDE DEF last
  <2> QED BY <2>1, <2>3, <2>4, LeaseWritten
<1>2. CASE Close /\ leases' # leases
  <2> DEFINE last == [age |-> 0, stop |-> TRUE, announced |-> FALSE, finish |-> 0]
  <2>1. /\ leases' = Put(leases, last) /\ same /\ alive' = FALSE
        /\ UNCHANGED <<stop, announced, finish, sequence>>
    BY <1>2 DEF Close, CoordinatorGone, helperVars
  <2>2. last \in LeaseType /\ last.age = 0
    BY LeaseAges, ProtocolAssumption DEF LeaseType, Sequences0
  <2>3. last \in TrueLease' /\ TrueLease \subseteq TrueLease'
    BY <2>1, <2>2 DEF TrueLease
  <2> HIDE DEF last
  <2> QED BY <2>1, <2>2, <2>3, LeaseWritten
<1>3. CASE AssignTask
  <2>1. /\ same /\ UNCHANGED <<alive, leases, stop, announced, finish>> /\ ~announced
    BY <1>3 DEF AssignTask, boxes, helperVars
  <2>2. TrueLease \subseteq TrueLease'
    BY <2>1 DEF TrueLease
  <2> QED BY <2>1, <2>2, LeaseSame DEF LeaseInv
<1>4. CASE Announce
  <2>1. /\ same /\ UNCHANGED <<alive, leases, stop, sequence>> /\ ~announced
        /\ announced' = TRUE /\ finish' = sequence
    BY <1>4 DEF Announce, boxes, helperVars
  <2>2. TrueLease \subseteq TrueLease'
    BY <2>1 DEF TrueLease
  <2> QED BY <2>1, <2>2, LeaseSame DEF LeaseInv, ProtocolInv, ProtocolType
<1>5. CASE Drain
  <2>1. /\ same /\ UNCHANGED <<alive, leases, announced, finish, sequence>> /\ stop' = TRUE
    BY <1>5 DEF Drain, boxes, helperVars
  <2>2. TrueLease \subseteq TrueLease'
    BY <2>1 DEF TrueLease
  <2> QED BY <2>1, <2>2, LeaseSame DEF LeaseInv
<1>6. CASE \/ ReadStatus \/ SendAssignment \/ Acknowledge \/ AcceptResult \/ AbandonTask
           \/ CoordinatorDies \/ (Close /\ leases' = leases)
  <2>1. /\ same /\ UNCHANGED <<leases, stop, announced, finish, sequence>>
        /\ alive' = alive \/ alive' = FALSE
    BY <1>6 DEF ReadStatus, SendAssignment, Acknowledge, AcceptResult, AbandonTask,
                CoordinatorDies, Close, CoordinatorGone, EndTask, boxes, helperVars
  <2>2. TrueLease \subseteq TrueLease'
    BY <2>1 DEF TrueLease
  <2> QED BY <2>1, <2>2, LeaseSame DEF LeaseInv
<1> QED BY <1>1, <1>2, <1>3, <1>4, <1>5, <1>6 DEF Coordinator

\* What the helper does under its leases.
LEMMA HelperLeases ==
  ASSUME LeaseInv, Helper \/ BuildEnds \/ HelperDies \/ HelperReplaced
  PROVE  LeaseInv'
<1>1. ASSUME NEW k \in LeaseReads, HoldLease(k) PROVE LeaseInv'
  BY <1>1, HoldLeaseStep
<1>2. ASSUME NEW k \in LeaseReads, LoseLease(k) PROVE LeaseInv'
  <2>1. HelperGone("failed", Held(k), After(leases, k))
          /\ UNCHANGED <<alive, stop, announced, finish, sequence>>
    BY <1>2 DEF LoseLease, coordinatorVars
  <2>2. /\ Held(k) = NoRecord \/ Held(k) \in TrueLease
        /\ After(leases, k) \in Seq(TrueLease) /\ InOrder(After(leases, k), Held(k))
    BY ReadLease
  <2> QED BY <2>1, <2>2, GoneLeases
<1>3. ASSUME NEW end, HelperGone(end, coordinator, leases),
             UNCHANGED <<alive, stop, announced, finish, sequence>>
      PROVE  LeaseInv'
  BY <1>3, GoneLeases DEF LeaseInv
<1>4. ASSUME \/ PublishStatus /\ phase' = "receive" /\ UNCHANGED leases
                  /\ UNCHANGED <<coordinator, joined, started>>
             \/ ReceiveTask \/ ReceiveNothing \/ PollTick \/ BuildEnds \/ HelperReplaced
      PROVE  LeaseInv'
  <2>1. UNCHANGED <<leases, coordinator, joined, started, alive, stop, announced, finish,
                  sequence>>
    BY <1>4 DEF PublishStatus, ReceiveTask, ReceiveNothing, PollTick, BuildEnds,
                HelperReplaced, boxes, coordinatorVars
  <2>2. phase' = "lease" \/ (Alive /\ Alive' /\ phase \notin {"lease", "wait"})
    BY <1>4 DEF PublishStatus, ReceiveTask, ReceiveNothing, PollTick, BuildEnds,
                HelperReplaced, Alive, Ends
  <2>3. TrueLease' = TrueLease
    BY <2>1 DEF TrueLease
  <2> QED BY <2>1, <2>2, <2>3, LeaseSame DEF LeaseInv
<1>5. CASE PublishStatus
  <2>1. UNCHANGED <<alive, stop, announced, finish, sequence>>
    BY <1>5 DEF PublishStatus, coordinatorVars
  <2>2. \/ HelperGone("finished", coordinator, leases)
        \/ phase' = "receive" /\ UNCHANGED leases /\ UNCHANGED <<coordinator, joined, started>>
    BY <1>5 DEF PublishStatus
  <2> QED BY <1>3, <1>4, <1>5, <2>1, <2>2
<1>6. CASE HelperDies
  BY <1>3, <1>6 DEF HelperDies, coordinatorVars
<1> QED BY <1>1, <1>2, <1>4, <1>5, <1>6 DEF Helper, CheckLease

LEMMA LeaseStep == ProtocolInv /\ LeaseInv /\ [Next]_vars => LeaseInv'
<1> SUFFICES ASSUME ProtocolInv, LeaseInv, [Next]_vars PROVE LeaseInv'
  OBVIOUS
<1>1. CASE WriteLease \/ ReadStatus \/ Coordinator \/ CoordinatorDies
  BY <1>1, CoordinatorLeases
<1>2. CASE Helper \/ BuildEnds \/ HelperDies \/ HelperReplaced
  BY <1>2, HelperLeases
<1>3. CASE Tick
  BY <1>3, TickLeases
<1>4. CASE UNCHANGED vars
  <2>1. UNCHANGED <<leases, coordinator, joined, started, alive, stop, announced, finish,
                    sequence, phase, polled>>
    BY <1>4 DEF vars, coordinatorVars, helperVars, boxes
  <2>2. TrueLease' = TrueLease
    BY <2>1 DEF TrueLease
  <2> QED BY <2>1, <2>2, LeaseSame DEF LeaseInv
<1> QED BY <1>1, <1>2, <1>3, <1>4 DEF Next

LEMMA LeaseInvariant == Spec => []LeaseInv
  BY LeaseInit, LeaseStep, ProtocolInvariant, PTL DEF Spec

\* For any lease, heartbeat and startup times, whatever records the store loses
\* or answers with: a helper outlives the last lease of its coordinator by no
\* more than the poll that finds it ended (servePoolBuilder's deadline).
THEOREM OrphansStop == Spec => []OrphanStops
<1>1. LeaseInv => OrphanStops
  BY DEF LeaseInv
<1> QED BY <1>1, LeaseInvariant, PTL

(***************************************************************************)
(* Exits. A helper that is stopping has served all that is announced, or   *)
(* the pool needs nothing more, and the status it knows to be published is *)
(* the newest there is.                                                    *)
(***************************************************************************)
Reported ==
  /\ LastStatus # NoRecord
  /\ LastStatus.instance = instance /\ LastStatus.sequence = served
  /\ LastStatus.state = state

ExitInv ==
  /\ published \in Nat \cup {Never}
  /\ task # NoTask => alive /\ ~stop /\ task.sequence = sequence
  /\ served <= sequence
  /\ running = None /\ served # 0 => state \in {"done", "failed"}
  /\ stopping => stop \/ ~alive \/ (announced /\ served >= sequence)
  /\ phase = "finished" => stop \/ ~alive \/ announced
  /\ ~Alive => published = Never /\ served = 0 /\ ~stopping
  /\ alive /\ published # Never => Reported
  /\ ExitsServed

\* What the helper knows of itself, and how it stands with its coordinator.
standing == <<alive, sequence, stop, announced>>
self == <<phase, instance, served, state, running, stopping, published>>

LEMMA ExitInit == Init => ExitInv
  BY DEF Init, ExitInv, ExitsServed, NoTask, Alive, Ends, Never, None

\* A task that goes on, or ends, while the newest status stays what it is.
LEMMA ExitSame ==
  ASSUME ExitInv, UNCHANGED standing, UNCHANGED self, LastStatus' = LastStatus,
         \/ task' = NoTask
         \/ task # NoTask /\ task'.sequence = task.sequence /\ task'.instance = task.instance
  PROVE  ExitInv'
<1>1. Reported' <=> Reported
  BY DEF Reported, self
<1>2. ExitsServed'
  BY DEF ExitInv, ExitsServed, self
<1> QED BY <1>1, <1>2 DEF ExitInv, Alive, standing, self

\* No task is assigned once the last one is announced, and none is left when the
\* coordinator stops or goes.
LEMMA CoordinatorExits ==
  ASSUME ProtocolInv, ExitInv, WriteLease \/ ReadStatus \/ Coordinator \/ CoordinatorDies
  PROVE  ExitInv'
<1>1. CASE ReadStatus
  <2>1. /\ UNCHANGED standing /\ UNCHANGED self /\ task' = task
        /\ \E k \in DOMAIN statuses : seen' = statuses[k] /\ statuses' = After(statuses, k)
    BY <1>1 DEF ReadStatus, standing, self, helperVars
  <2>2. PICK k \in DOMAIN statuses : seen' = statuses[k] /\ statuses' = After(statuses, k)
    BY <2>1
  <2>3. statuses \in Seq(TrueStatus) /\ k \in 1..Len(statuses)
    BY <2>2 DEF ProtocolInv, ProtocolType
  <2>4. Newest(After(statuses, k), statuses[k]) = Newest(statuses, seen)
    BY <2>3, NewestFacts
  <2>5. LastStatus' = LastStatus
    BY <2>2, <2>4 DEF LastStatus, Newest
  <2> QED BY <2>1, <2>5, ExitSame
<1>2. CASE WriteLease \/ SendAssignment \/ Acknowledge \/ AcceptResult \/ AbandonTask
  <2>1. UNCHANGED standing /\ UNCHANGED self /\ UNCHANGED <<seen, statuses>>
    BY <1>2 DEF WriteLease, SendAssignment, Acknowledge, AcceptResult, AbandonTask,
                EndTask, standing, self, coordinatorVars, helperVars, boxes
  <2>2. task' = NoTask \/ task' = task \/ (task.stage \in {"new", "sent"}
          /\ task' \in {[task EXCEPT !.stage = "sent", !.age = 0],
                        [task EXCEPT !.acknowledged = TRUE]})
    BY <1>2 DEF WriteLease, SendAssignment, Acknowledge, AcceptResult, AbandonTask,
                EndTask, coordinatorVars
  <2>3. \/ task' = NoTask
        \/ task # NoTask /\ task'.sequence = task.sequence /\ task'.instance = task.instance
    <3>1. task = NoTask \/ task \in TaskType
      BY DEF ProtocolInv, ProtocolType
    <3>2. task.stage \in {"new", "sent"} => task # NoTask
      BY DEF NoTask
    <3>3. CASE task \in TaskType
      <4>1. /\ [task EXCEPT !.stage = "sent", !.age = 0].sequence = task.sequence
            /\ [task EXCEPT !.stage = "sent", !.age = 0].instance = task.instance
            /\ [task EXCEPT !.acknowledged = TRUE].sequence = task.sequence
            /\ [task EXCEPT !.acknowledged = TRUE].instance = task.instance
        BY <3>3 DEF TaskType
      <4>2. task = NoTask => task' = NoTask
        BY <2>2, <3>2
      <4> QED BY <2>2, <4>1, <4>2
    <3>4. task = NoTask => task' = NoTask
      BY <2>2, <3>2
    <3> QED BY <3>1, <3>3, <3>4
  <2>4. LastStatus' = LastStatus
    BY <2>1 DEF LastStatus
  <2> QED BY <2>1, <2>3, <2>4, ExitSame
<1>3. CASE AssignTask
  <2>1. /\ UNCHANGED <<alive, stop, announced, seen, statuses>> /\ UNCHANGED self
        /\ alive /\ ~stop /\ ~announced
        /\ sequence' = sequence + 1 /\ task'.sequence = sequence + 1
    BY <1>3 DEF AssignTask, self, helperVars, boxes
  <2>2. phase # "finished" /\ ~stopping /\ sequence \in Nat /\ served \in Nat
    BY <2>1, ProtocolAssumption DEF ExitInv, ProtocolInv, ProtocolType, Sequences0
  <2>3. Reported' <=> Reported
    BY <2>1 DEF Reported, LastStatus, self
  <2>4. ExitsServed'
    BY <2>1, <2>2 DEF ExitsServed, self
  <2>5. served' <= sequence'
    BY <2>1, <2>2 DEF ExitInv, self
  <2> QED BY <2>1, <2>2, <2>3, <2>4, <2>5 DEF ExitInv, Alive, self
<1>4. CASE Announce \/ Drain
  <2>1. /\ UNCHANGED <<alive, sequence, task, seen, statuses>> /\ UNCHANGED self
    BY <1>4 DEF Announce, Drain, self, helperVars, boxes
  <2>2. (stop => stop') /\ (announced => announced') /\ (stop' => stop \/ task = NoTask)
    BY <1>4 DEF Announce, Drain
  <2>3. Reported' <=> Reported
    BY <2>1 DEF Reported, LastStatus, self
  <2>4. ExitsServed'
    BY <2>1 DEF ExitInv, ExitsServed, LastStatus, self
  <2> QED BY <2>1, <2>2, <2>3, <2>4 DEF ExitInv, Alive, self
<1>5. CASE Close \/ CoordinatorDies
  <2>1. UNCHANGED <<sequence, stop, announced>> /\ UNCHANGED self
          /\ alive' = FALSE /\ task' = NoTask
    BY <1>5 DEF Close, CoordinatorDies, CoordinatorGone, self, helperVars
  <2> QED BY <2>1 DEF ExitInv, ExitsServed, Alive, self
<1> QED BY <1>1, <1>2, <1>3, <1>4, <1>5 DEF Coordinator

\* A lease says truly that nothing is left.
LEMMA HoldExits ==
  ASSUME ProtocolInv, LeaseInv, ExitInv, NEW k \in LeaseReads, HoldLease(k)
  PROVE  ExitInv'
<1>1. /\ UNCHANGED standing /\ UNCHANGED <<task, seen, statuses>>
      /\ UNCHANGED <<instance, served, state, running, published>>
      /\ phase = "lease" /\ phase' = "publish"
      /\ \/ Fresh(Held(k)) /\ stopping' = (stopping \/ NothingLeft(Held(k)))
         \/ stopping' = stopping
  BY DEF HoldLease, standing, coordinatorVars
<1>2. Alive /\ Alive'
  BY <1>1 DEF Alive, Ends
<1>3. Fresh(Held(k)) => Held(k) \in TrueLease
  BY ReadLease, LeaseAges
<1>4. Fresh(Held(k)) /\ NothingLeft(Held(k)) => stop \/ ~alive \/ (announced /\ served >= sequence)
  BY <1>3 DEF NothingLeft, TrueLease
<1>5. stopping' => stop' \/ ~alive' \/ (announced' /\ served' >= sequence')
  BY <1>1, <1>4 DEF ExitInv, standing
<1>6. Reported' <=> Reported
  BY <1>1 DEF Reported, LastStatus
<1>7. ExitsServed'
  BY <1>1 DEF ExitsServed
<1> QED BY <1>1, <1>2, <1>5, <1>6, <1>7 DEF ExitInv, standing

\* A helper that fails promises nothing.
LEMMA FailedExits ==
  ASSUME ProtocolInv, ExitInv, NEW record, NEW unread,
         HelperGone("failed", record, unread), UNCHANGED <<task, seen>>, UNCHANGED standing
  PROVE  ExitInv'
<1>1. /\ phase' = "failed" /\ served' = 0 /\ state' = "ready" /\ running' = None
      /\ stopping' = FALSE /\ published' = Never
  BY DEF HelperGone
<1>2. sequence \in Nat
  BY ProtocolAssumption DEF ProtocolInv, ProtocolType, Sequences0
<1>3. ExitsServed'
  BY <1>1 DEF ExitsServed
<1> QED BY <1>1, <1>2, <1>3 DEF ExitInv, Alive, Ends, standing

\* The status published last is that of the last assignment served, so it is
\* there when the helper exits.
LEMMA PublishExits ==
  ASSUME ProtocolInv, ExitInv, PublishStatus
  PROVE  ExitInv'
<1>1. /\ UNCHANGED standing /\ UNCHANGED <<task, seen>> /\ phase = "publish"
      /\ Alive
  BY DEF PublishStatus, coordinatorVars, standing, Alive, Ends
<1>2. PICK kept, reported \in BOOLEAN :
        LET time == IF reported THEN 0 ELSE published IN
        /\ reported => kept
        /\ statuses' = IF kept THEN Put(statuses, StatusRecord) ELSE statuses
        /\ IF MayExit(time)
           THEN HelperGone("finished", coordinator, leases)
           ELSE /\ published' = time /\ phase' = "receive"
                /\ UNCHANGED <<instance, served, state, running, stopping>>
  BY DEF PublishStatus
<1>3. StatusRecord \in TrueStatus /\ StatusRecord # NoRecord
  BY DEF ProtocolInv, ProtocolType, StatusRecord, TrueStatus, Ordered, NoRecord
<1>4. kept => LastStatus' = StatusRecord
  <2>1. statuses \in Seq(TrueStatus)
    BY DEF ProtocolInv, ProtocolType
  <2>2. Newest(Put(statuses, StatusRecord), seen') = StatusRecord
    BY <1>3, <2>1, NewestFacts
  <2> QED BY <1>2, <2>2 DEF LastStatus, Newest
<1>5. ~kept => LastStatus' = LastStatus
  BY <1>1, <1>2 DEF LastStatus
<1> DEFINE time == IF reported THEN 0 ELSE published
           Now == /\ LastStatus' # NoRecord
                  /\ LastStatus'.instance = instance /\ LastStatus'.sequence = served
                  /\ LastStatus'.state = state
<1>6. alive /\ time # Never => Now
  <2>1. kept => Now
    BY <1>3, <1>4 DEF StatusRecord
  <2>2. ~kept /\ alive /\ time # Never => Now
    BY <1>2, <1>5 DEF ExitInv, Reported
  <2> QED BY <2>1, <2>2
<1>7. CASE MayExit(time)
  <2>1. /\ phase' = "finished" /\ served' = 0 /\ state' = "ready" /\ running' = None
        /\ stopping' = FALSE /\ published' = Never /\ instance' = instance
    BY <1>2, <1>7 DEF HelperGone
  <2>2. stopping /\ running = None /\ time # Never
    BY <1>7 DEF MayExit
  <2>3. sequence \in Nat /\ served \in Nat
    BY ProtocolAssumption DEF ProtocolInv, ProtocolType, Sequences0
  <2>4. stop \/ ~alive \/ (announced /\ served >= sequence)
    BY <2>2 DEF ExitInv
  <2>5. ExitsServed'
    <3> SUFFICES ASSUME task # NoTask, task.instance = instance
                 PROVE  /\ LastStatus' # NoRecord
                        /\ LastStatus'.instance = instance
                        /\ LastStatus'.sequence = task.sequence
                        /\ LastStatus'.state \in {"done", "failed"}
      BY <1>1, <2>1 DEF ExitsServed
    <3>1. alive /\ ~stop /\ task.sequence = sequence /\ served = sequence
      BY <2>3, <2>4 DEF ExitInv
    <3>2. sequence # 0
      <4>1. task \in TaskType
        BY DEF ProtocolInv, ProtocolType
      <4>2. task.sequence \in TaskNumbers
        BY <4>1 DEF TaskType
      <4> QED BY <3>1, <4>2 DEF TaskNumbers
    <3>3. state \in {"done", "failed"}
      BY <2>2, <3>1, <3>2 DEF ExitInv
    <3> QED BY <1>6, <2>2, <3>1, <3>3
  <2> QED BY <1>1, <2>1, <2>3, <2>4, <2>5 DEF ExitInv, Alive, Ends, standing
<1>8. CASE ~MayExit(time)
  <2>1. /\ published' = time /\ phase' = "receive"
        /\ UNCHANGED <<instance, served, state, running, stopping>>
    BY <1>2, <1>8
  <2>2. alive' /\ published' # Never => Reported'
    BY <1>1, <1>6, <2>1 DEF Reported, standing
  <2>3. published' \in Nat \cup {Never}
    BY <2>1 DEF ExitInv
  <2>4. ExitsServed' /\ Alive' /\ phase' # "finished"
    BY <2>1 DEF ExitsServed, Alive, Ends
  <2> QED BY <1>1, <2>1, <2>2, <2>3, <2>4 DEF ExitInv, standing
<1> QED BY <1>7, <1>8

\* What it serves next, it publishes anew.
LEMMA ServeExits ==
  ASSUME ProtocolInv, ExitInv,
         ReceiveTask \/ ReceiveNothing \/ PollTick \/ BuildEnds \/ HelperReplaced
  PROVE  ExitInv'
<1>1. UNCHANGED standing /\ UNCHANGED <<task, seen, statuses>> /\ phase' \in {"lease", "wait"}
  BY DEF ReceiveTask, ReceiveNothing, PollTick, BuildEnds, HelperReplaced, standing,
         coordinatorVars, boxes
<1>2. Alive' /\ phase' # "finished" /\ ExitsServed' /\ LastStatus' = LastStatus
  BY <1>1 DEF Alive, Ends, ExitsServed, LastStatus
<1>3. CASE ReceiveNothing \/ PollTick
  <2>1. UNCHANGED <<instance, served, state, running, stopping, published>> /\ Alive
    BY <1>3 DEF ReceiveNothing, PollTick, Alive, Ends
  <2>2. Reported' <=> Reported
    BY <1>2, <2>1 DEF Reported
  <2> QED BY <1>1, <1>2, <2>1, <2>2 DEF ExitInv, standing
<1>4. CASE HelperReplaced
  <2>1. UNCHANGED <<served, state, running, stopping, published>> /\ ~Alive
    BY <1>4 DEF HelperReplaced, Alive, Ends
  <2> QED BY <1>1, <1>2, <2>1 DEF ExitInv, standing
<1>5. CASE ReceiveTask
  <2>1. /\ served' = assigned'.sequence /\ running' = assigned'.sequence
        /\ published' = Never /\ stopping' = stopping /\ ~stopping
        /\ assigned' # NoRecord
    BY <1>5 DEF ReceiveTask, Receiving
  <2>2. assigned' \in Made'
    BY <1>5, <2>1, ReceiveStep DEF ProtocolInv, ProtocolType
  <2>3. served' <= sequence' /\ running' # None
    BY <2>1, <2>2 DEF Made, TaskNumbers, None
  <2> QED BY <1>1, <1>2, <2>1, <2>3 DEF ExitInv, standing
<1>6. CASE BuildEnds
  <2>1. /\ state' \in {"done", "failed"} /\ published' = Never
        /\ UNCHANGED <<served, stopping>>
    BY <1>6 DEF BuildEnds
  <2>2. Alive
    BY <1>6 DEF BuildEnds, Alive, Ends
  <2> QED BY <1>1, <1>2, <2>1, <2>2 DEF ExitInv, standing
<1> QED BY <1>3, <1>4, <1>5, <1>6

\* A status that grows older says the same.
LEMMA AgedStatus ==
  /\ Aged(NoRecord) = NoRecord
  /\ \A r \in TrueStatus :
       /\ Aged(r) # NoRecord /\ r # NoRecord
       /\ Aged(r).instance = r.instance /\ Aged(r).sequence = r.sequence
       /\ Aged(r).state = r.state
<1>1. ASSUME NEW r \in TrueStatus
      PROVE  /\ Aged(r) # NoRecord /\ r # NoRecord
             /\ Aged(r).instance = r.instance /\ Aged(r).sequence = r.sequence
             /\ Aged(r).state = r.state
  <2>1. r \in [age : Nat, instance : Instances, sequence : Sequences0, state : States]
    BY DEF TrueStatus
  <2>2. /\ Aged(r).instance = r.instance /\ Aged(r).sequence = r.sequence
        /\ Aged(r).state = r.state
    BY <2>1 DEF Aged
  <2>3. \A s \in TrueStatus : s # NoRecord
    BY DEF TrueStatus, NoRecord
  <2>4. Aged(r) \in TrueStatus
    BY AgedFacts
  <2> QED BY <2>2, <2>3, <2>4
<1> QED BY <1>1, AgedFacts

LEMMA TickExits ==
  ASSUME ProtocolInv, ExitInv, Tick
  PROVE  ExitInv'
<1>1. /\ UNCHANGED standing
      /\ UNCHANGED <<phase, instance, served, state, running, stopping>>
      /\ seen' = Aged(seen)
      /\ statuses' = [k \in DOMAIN statuses |-> Aged(statuses[k])]
      /\ task' = IF task = NoTask THEN task ELSE Aged(task)
      /\ published' = IF published = Never THEN Never ELSE Older(published, Heartbeat)
  BY DEF Tick, standing
<1>2. /\ seen = NoRecord \/ seen \in TrueStatus
      /\ statuses \in Seq(TrueStatus)
      /\ task = NoTask \/ task \in TaskType
  BY DEF ProtocolInv, ProtocolType
<1>3. LastStatus' = Aged(LastStatus)
  <2>1. DOMAIN statuses = 1..Len(statuses) /\ Len(statuses) \in Nat
    BY <1>2
  <2>2. DOMAIN statuses' = 1..Len(statuses)
    BY <1>1, <2>1
  <2>3. CASE statuses = <<>>
    <3>1. statuses' = <<>>
      BY <1>1, <2>3
    <3> QED BY <1>1, <2>3, <3>1 DEF LastStatus
  <2>4. CASE statuses # <<>>
    <3>1. Len(statuses) \in 1..Len(statuses)
      BY <1>2, <2>1, <2>4, EmptySeq
    <3>2. statuses' # <<>> /\ Len(statuses') = Len(statuses)
      <4> DEFINE n == Len(statuses)
      <4>1. n \in Nat /\ statuses' \in [1..n -> TrueStatus]
        BY <1>1, <1>2, <2>1, AgedFacts
      <4> HIDE DEF n
      <4>2. statuses' \in Seq(TrueStatus) /\ Len(statuses') = n
        BY <4>1
      <4> QED BY <3>1, <4>2, EmptySeq DEF n
    <3>3. statuses'[Len(statuses)] = Aged(statuses[Len(statuses)])
      BY <1>1, <2>1, <3>1
    <3> QED BY <2>4, <3>2, <3>3 DEF LastStatus
  <2> QED BY <2>3, <2>4
<1>4. LastStatus = NoRecord \/ LastStatus \in TrueStatus
  BY <1>2, NewestFacts DEF LastStatus, Newest
<1>5. /\ LastStatus # NoRecord => LastStatus' # NoRecord
      /\ LastStatus # NoRecord =>
           /\ LastStatus'.instance = LastStatus.instance
           /\ LastStatus'.sequence = LastStatus.sequence
           /\ LastStatus'.state = LastStatus.state
  BY <1>3, <1>4, AgedStatus
<1>6. Reported => Reported'
  BY <1>1, <1>5 DEF Reported
<1>7. /\ published' \in Nat \cup {Never} /\ (published' # Never => published # Never)
      /\ published = Never => published' = Never
  BY <1>1, ProtocolAssumption DEF ExitInv, Older, Never
<1>8. task' # NoTask => /\ task # NoTask /\ task'.sequence = task.sequence
                        /\ task'.instance = task.instance
  BY <1>1, <1>2, AgedFacts
<1>9. ExitsServed'
  BY <1>1, <1>5, <1>8 DEF ExitInv, ExitsServed
<1> QED BY <1>1, <1>6, <1>7, <1>8, <1>9 DEF ExitInv, Alive, standing

LEMMA ExitStep == ProtocolInv /\ LeaseInv /\ ExitInv /\ [Next]_vars => ExitInv'
<1> SUFFICES ASSUME ProtocolInv, LeaseInv, ExitInv, [Next]_vars PROVE ExitInv'
  OBVIOUS
<1>1. CASE WriteLease \/ ReadStatus \/ Coordinator \/ CoordinatorDies
  BY <1>1, CoordinatorExits
<1>2. ASSUME NEW k \in LeaseReads, HoldLease(k) PROVE ExitInv'
  BY <1>2, HoldExits
<1>3. ASSUME NEW k \in LeaseReads, LoseLease(k) PROVE ExitInv'
  <2>1. HelperGone("failed", Held(k), After(leases, k)) /\ UNCHANGED <<task, seen>>
          /\ UNCHANGED standing
    BY <1>3 DEF LoseLease, coordinatorVars, standing
  <2> QED BY <2>1, FailedExits
<1>4. CASE HelperDies
  <2>1. HelperGone("failed", coordinator, leases) /\ UNCHANGED <<task, seen>>
          /\ UNCHANGED standing
    BY <1>4 DEF HelperDies, coordinatorVars, standing
  <2> QED BY <2>1, FailedExits
<1>5. CASE PublishStatus
  BY <1>5, PublishExits
<1>6. CASE ReceiveTask \/ ReceiveNothing \/ PollTick \/ BuildEnds \/ HelperReplaced
  BY <1>6, ServeExits
<1>7. CASE Tick
  BY <1>7, TickExits
<1>8. CASE UNCHANGED vars
  <2>1. UNCHANGED standing /\ UNCHANGED self /\ UNCHANGED <<task, seen, statuses>>
    BY <1>8 DEF vars, coordinatorVars, helperVars, boxes, standing, self
  <2>2. LastStatus' = LastStatus
    BY <2>1 DEF LastStatus
  <2> QED BY <2>1, <2>2, ExitSame
<1> QED BY <1>1, <1>2, <1>3, <1>4, <1>5, <1>6, <1>7, <1>8 DEF Next, Helper, CheckLease

LEMMA ExitInvariant == Spec => []ExitInv
  BY ExitInit, ExitStep, ProtocolInvariant, LeaseInvariant, PTL DEF Spec

\* However late or lost the leases, assignments and statuses are: a helper that
\* exits normally while its coordinator waits for its task has published the
\* final status of that task (the Finish vector and the last heartbeat).
THEOREM ExitsAreServed == Spec => []ExitsServed
<1>1. ExitInv => ExitsServed
  BY DEF ExitInv
<1> QED BY <1>1, ExitInvariant, PTL

-----------------------------------------------------------------------------
(***************************************************************************)
(* What the coordinator sees. Module Scheduler knows a helper only through *)
(* its status and lets it change in three ways: a new incarnation, ready;  *)
(* the task in progress, taken; that task, finished. The mailbox, in which *)
(* statuses are lost and held back, allows no other.                       *)
(***************************************************************************)
Final == {"done", "failed"}

\* Status r is that of no later moment than status s.
Before(r, s) ==
  \/ r.instance < s.instance
  \/ r.instance = s.instance /\ r.sequence < s.sequence
  \/ /\ r.instance = s.instance /\ r.sequence = s.sequence
     /\ r.state = s.state \/ (r.state = "busy" /\ s.state \in Final)

\* A new incarnation comes into sight before it has taken anything (SeeReady).
FirstSeen ==
  /\ seen'.sequence = 0 /\ seen'.state = "ready"
  /\ seen # NoRecord => seen.instance < seen'.instance

\* The same status, however old, or its task has ended (SeeResult).
StaysOrEnds ==
  /\ seen # NoRecord
  /\ seen'.instance = seen.instance /\ seen'.sequence = seen.sequence
  /\ seen'.state = seen.state \/ (seen.state = "busy" /\ seen'.state \in Final)

\* The assignment in progress was taken (SeeBusy), unless its helper is given up.
TaskTaken ==
  /\ seen # NoRecord
  /\ seen'.instance = seen.instance /\ seen.sequence < seen'.sequence
  /\ seen'.state \in {"busy"} \cup Final
  /\ \/ retired
     \/ /\ task.stage = "sent"
        /\ task.instance = seen'.instance /\ task.sequence = seen'.sequence

SeenAdvances == seen' # NoRecord => FirstSeen \/ StaysOrEnds \/ TaskTaken

(***************************************************************************)
(* The statuses on their way are in order, none is ahead of its helper,    *)
(* and each is of an assignment that was sent.                             *)
(***************************************************************************)
\* The last assignment that may have been sent.
Sent == IF task.stage = "new" THEN sequence - 1 ELSE sequence

Told(r) ==
  /\ r.sequence # 0 => r.instance = registered /\ r.sequence <= Sent
  /\ r.sequence = 0 <=> r.state = "ready"
  /\ r.instance <= instance
  /\ Alive => Before(r, StatusRecord)

Arriving ==
  /\ seen # NoRecord =>
       Told(seen) /\ \A k \in 1..Len(statuses) : Before(seen, statuses[k])
  /\ \A k \in 1..Len(statuses) : Told(statuses[k])
  /\ \A j, k \in 1..Len(statuses) : j <= k => Before(statuses[j], statuses[k])

ServesSent ==
  /\ served # 0 => instance = registered /\ served <= Sent
  /\ served = 0 <=> state = "ready"
  /\ running # None <=> state = "busy"
  /\ assigned # NoRecord => assigned.sequence <= Sent
  /\ \A k \in 1..Len(assignments) : assignments[k].sequence <= Sent

\* The coordinator has seen its helper, and the end of every task but the last.
Follows ==
  /\ alive /\ registered # None => seen # NoRecord /\ registered <= seen.instance
  /\ alive /\ ~retired /\ registered # None /\ seen.instance = registered =>
       IF task = NoTask THEN sequence <= seen.sequence
                        ELSE sequence <= seen.sequence + 1

StatusInv == Arriving /\ ServesSent /\ Follows

AnyStatus == [age : Nat, instance : Nat, sequence : Nat, state : States]

\* Statuses carry numbers that can be compared.
LEMMA StatusFacts ==
  /\ TrueStatus \subseteq AnyStatus
  /\ \A r \in TrueStatus : r.instance \in Nat /\ r.sequence \in Nat /\ r.state \in States
                             /\ r # NoRecord
  /\ ProtocolInv => StatusRecord \in TrueStatus /\ Sent \in Nat /\ Sent <= sequence
                      /\ sequence \in Nat /\ registered \in Nat /\ instance \in Nat
                      /\ served \in Nat
<1>1. \A r \in TrueStatus : r.instance \in Nat /\ r.sequence \in Nat /\ r.state \in States
                             /\ r # NoRecord
  BY ProtocolAssumption DEF TrueStatus, Instances, Sequences0, NoRecord
<1>0. TrueStatus \subseteq AnyStatus
  BY ProtocolAssumption DEF TrueStatus, AnyStatus, Instances, Sequences0
<1>2. ASSUME ProtocolInv
      PROVE  /\ StatusRecord \in TrueStatus /\ sequence \in Nat /\ registered \in Nat
             /\ instance \in Nat /\ served \in Nat
  BY <1>2, ProtocolAssumption
     DEF ProtocolInv, ProtocolType, StatusRecord, TrueStatus, Ordered, Instances,
         Sequences0
<1>3. ASSUME ProtocolInv
      PROVE  Sent \in Nat /\ Sent <= sequence
  <2>1. task.stage = "new" => task # NoTask
    BY DEF NoTask
  <2>2. task \in TaskType => task.sequence \in Nat \ {0}
    BY DEF TaskType, TaskNumbers
  <2>3. task.stage = "new" => sequence \in Nat /\ sequence >= 1
    BY <1>2, <1>3, <2>1, <2>2 DEF ProtocolInv, ProtocolType
  <2> QED BY <1>2, <1>3, <2>3 DEF Sent
<1> QED BY <1>0, <1>1, <1>2, <1>3

\* The order of statuses, which their age has no part in.
LEMMA BeforeOrder ==
  /\ \A r \in AnyStatus : Before(r, r)
  /\ \A r, s, t \in AnyStatus : Before(r, s) /\ Before(s, t) => Before(r, t)
  /\ \A r, s \in TrueStatus :
       Before(Aged(r), s) = Before(r, s) /\ Before(r, Aged(s)) = Before(r, s)
<1>1. \A r \in AnyStatus : Before(r, r)
  BY DEF Before
<1>2. ASSUME NEW r \in AnyStatus, NEW s \in AnyStatus, NEW t \in AnyStatus,
             Before(r, s), Before(s, t)
      PROVE  Before(r, t)
  <2>1. /\ r.instance \in Nat /\ s.instance \in Nat /\ t.instance \in Nat
        /\ r.sequence \in Nat /\ s.sequence \in Nat /\ t.sequence \in Nat
    BY DEF AnyStatus
  <2> QED BY <1>2, <2>1 DEF Before, Final
<1>3. \A r, s \in TrueStatus :
        Before(Aged(r), s) = Before(r, s) /\ Before(r, Aged(s)) = Before(r, s)
  BY AgedStatus DEF Before
<1> QED BY <1>1, <1>2, <1>3

\* Every status there is, one by one.
LEMMA Statuses ==
  ASSUME ProtocolInv
  PROVE  /\ Len(statuses) \in Nat
         /\ \A k \in 1..Len(statuses) : statuses[k] \in TrueStatus
         /\ seen # NoRecord => seen \in TrueStatus
<1>1. statuses \in Seq(TrueStatus) /\ (seen = NoRecord \/ seen \in TrueStatus)
  BY DEF ProtocolInv, ProtocolType
<1> QED BY <1>1

(***************************************************************************)
(* The coordinator. Its assignments only add to what was sent.             *)
(***************************************************************************)
LEMMA CoordinatorView ==
  ASSUME ProtocolInv, ProtocolInv', StatusInv,
         UNCHANGED <<phase, instance, served, state, running, statuses, assigned>>,
         seen' \in {seen, NoRecord}, Sent' \in Nat, Sent <= Sent',
         registered' = registered \/ Sent = 0,
         \A k \in 1..Len(assignments') : assignments'[k].sequence <= Sent'
  PROVE  Arriving' /\ ServesSent'
<1>1. Sent \in Nat /\ served \in Nat /\ StatusRecord' = StatusRecord
      /\ Alive' = Alive
  BY StatusFacts DEF StatusRecord, Alive
<1>2. ASSUME NEW r \in TrueStatus, Told(r)
      PROVE  Told(r)'
  <2>1. r.sequence \in Nat
    BY StatusFacts
  <2> QED BY <1>1, <1>2, <2>1 DEF Told
<1>3. Arriving'
  BY <1>2, Statuses DEF StatusInv, Arriving
<1>4. assigned # NoRecord => assigned.sequence \in Nat
  BY DEF ProtocolInv, ProtocolType, Made, TaskNumbers
<1>5. ServesSent'
  BY <1>1, <1>4 DEF StatusInv, ServesSent
<1> QED BY <1>3, <1>5

\* Assignments in the mailbox were sent.
LEMMA SentAssignments ==
  ASSUME ProtocolInv, StatusInv, assignments' = assignments, Sent <= Sent', Sent' \in Nat
  PROVE  \A k \in 1..Len(assignments') : assignments'[k].sequence <= Sent'
<1>1. assignments \in Seq(Made) /\ Sent \in Nat
  BY StatusFacts DEF ProtocolInv, ProtocolType
<1>2. \A k \in 1..Len(assignments) : assignments[k].sequence \in Nat
  BY <1>1 DEF Made, TaskNumbers
<1> QED BY <1>1, <1>2 DEF StatusInv, ServesSent

\* What the coordinator decides about the task in progress.
LEMMA DecisionView ==
  ASSUME ProtocolInv, ProtocolInv', ExitInv, StatusInv,
         \/ WriteLease \/ Acknowledge \/ AcceptResult \/ AbandonTask
         \/ Announce \/ Drain \/ Close \/ CoordinatorDies
  PROVE  StatusInv'
<1>1. /\ UNCHANGED <<phase, instance, served, state, running, statuses, assigned>>
      /\ UNCHANGED <<sequence, registered, assignments>>
      /\ seen' \in {seen, NoRecord}
  BY DEF WriteLease, Acknowledge, AcceptResult, AbandonTask, Announce, Drain, Close,
         CoordinatorDies, CoordinatorGone, EndTask, coordinatorVars, helperVars, boxes
<1>2. task' = NoTask \/ task' = task
        \/ (task.stage = "sent" /\ task' = [task EXCEPT !.acknowledged = TRUE])
  BY DEF WriteLease, Acknowledge, AcceptResult, AbandonTask, Announce, Drain, Close,
         CoordinatorDies, CoordinatorGone, EndTask, coordinatorVars
<1>3. /\ task'.stage = "new" => task.stage = "new"
      /\ task # NoTask /\ task' # task => task' = NoTask \/ task'.stage = "sent"
  <2> DEFINE acknowledged == [task EXCEPT !.acknowledged = TRUE]
  <2>1. CASE task.stage = "sent"
    <3>1. task \in TaskType
      BY <2>1 DEF ProtocolInv, ProtocolType, NoTask
    <3>2. acknowledged.stage = "sent"
      BY <2>1, <3>1 DEF TaskType
    <3>3. task' = NoTask \/ task' = task \/ task' = acknowledged
      BY <1>2
    <3> HIDE DEF acknowledged
    <3> QED BY <2>1, <3>2, <3>3 DEF NoTask
  <2>2. CASE task.stage # "sent"
    BY <1>2, <2>2 DEF NoTask
  <2> QED BY <2>1, <2>2
<1>4. Sent \in Nat /\ Sent' \in Nat /\ Sent <= Sent'
  <2>1. Sent \in Nat /\ sequence \in Nat
    BY StatusFacts
  <2> QED BY <1>1, <1>3, <2>1 DEF Sent
<1>5. Arriving' /\ ServesSent'
  BY <1>1, <1>4, CoordinatorView, SentAssignments
<1>6. Follows'
  <2>1. CASE Close \/ CoordinatorDies
    BY <2>1 DEF Follows, Close, CoordinatorDies, CoordinatorGone
  <2>2. CASE WriteLease \/ Announce \/ Drain
    BY <2>2 DEF StatusInv, Follows, WriteLease, Announce, Drain, coordinatorVars
  <2>3. CASE Acknowledge
    <3>1. task # NoTask /\ task' # NoTask /\ UNCHANGED <<alive, retired, seen>>
      <4>1. task.stage = "sent" /\ task' = [task EXCEPT !.acknowledged = TRUE]
            /\ UNCHANGED <<alive, retired, seen>>
        BY <2>3 DEF Acknowledge
      <4>2. task \in TaskType /\ task # NoTask
        BY <4>1 DEF ProtocolInv, ProtocolType, NoTask
      <4>3. task'.stage = "sent"
        BY <4>1, <4>2 DEF TaskType
      <4> QED BY <4>1, <4>2, <4>3 DEF NoTask
    <3> QED BY <1>1, <3>1 DEF StatusInv, Follows
  <2>4. CASE AbandonTask
    BY <1>1, <2>4 DEF StatusInv, Follows, AbandonTask, EndTask
  <2>5. CASE AcceptResult
    <3>1. /\ seen.sequence = task.sequence /\ task.stage = "sent"
          /\ UNCHANGED <<alive, seen>> /\ alive /\ (retired' => retired)
          /\ (~retired' => ~retired)
      BY <2>5 DEF AcceptResult, EndTask, SeenResult
    <3>2. seen.sequence = sequence /\ sequence \in Nat
      BY <3>1, StatusFacts DEF ExitInv, NoTask
    <3> QED BY <1>1, <3>1, <3>2 DEF StatusInv, Follows
  <2> QED BY <2>1, <2>2, <2>3, <2>4, <2>5
<1> QED BY <1>5, <1>6 DEF StatusInv

\* A task is new until its assignment may be in the mailbox.
LEMMA AssignView ==
  ASSUME ProtocolInv, ProtocolInv', ExitInv, StatusInv, AssignTask
  PROVE  StatusInv'
<1>1. /\ UNCHANGED <<phase, instance, served, state, running, statuses, assigned>>
      /\ UNCHANGED <<alive, retired, seen, assignments>>
      /\ task = NoTask /\ task' # NoTask /\ task'.stage = "new"
      /\ sequence' = sequence + 1 /\ registered' = seen.instance
      /\ registered \in {None, seen.instance} /\ Fresh(seen) /\ alive /\ ~retired
  BY DEF AssignTask, helperVars, boxes, NoTask
<1>2. seen # NoRecord
  BY <1>1, ProtocolAssumption DEF Fresh, NoRecord
<1>3. seen \in TrueStatus /\ sequence \in Nat
  BY <1>2, Statuses, StatusFacts
<1>4. Sent = sequence /\ Sent' = sequence
  BY <1>1, <1>3 DEF Sent, NoTask
<1>5. registered' = registered \/ sequence = 0
  BY <1>1 DEF ProtocolInv, Ordered
<1>6. Arriving' /\ ServesSent'
  BY <1>1, <1>3, <1>4, <1>5, CoordinatorView, SentAssignments
<1>7. sequence <= seen.sequence
  <2>1. seen.sequence \in Nat
    BY <1>3, StatusFacts
  <2>2. registered # None => registered = seen.instance
    BY <1>1
  <2> QED BY <1>1, <1>3, <1>5, <2>1, <2>2 DEF StatusInv, Follows, ProtocolInv, Ordered
<1>8. Follows'
  <2>1. seen.sequence \in Nat /\ seen.instance \in Nat
    BY <1>3, StatusFacts
  <2> QED BY <1>1, <1>2, <1>3, <1>7, <2>1 DEF Follows
<1> QED BY <1>6, <1>8 DEF StatusInv

LEMMA SendView ==
  ASSUME ProtocolInv, ProtocolInv', ExitInv, StatusInv, SendAssignment
  PROVE  StatusInv'
<1>1. /\ UNCHANGED <<phase, instance, served, state, running, statuses, assigned>>
      /\ UNCHANGED <<alive, sequence, registered, seen>> /\ task.stage = "new"
      /\ \/ assignments' = assignments
         \/ assignments' = Put(assignments, [sequence |-> task.sequence,
                                             instance |-> task.instance])
      /\ \/ task' = NoTask /\ retired'
         \/ task' = [task EXCEPT !.stage = "sent", !.age = 0] /\ retired' = retired
  BY DEF SendAssignment, EndTask, helperVars
<1>2. task \in TaskType /\ task # NoTask /\ task.sequence = sequence /\ sequence \in Nat
  BY <1>1, StatusFacts DEF ProtocolInv, ProtocolType, ExitInv, NoTask
<1>3. task'.stage # "new" /\ (task' # NoTask \/ retired')
  <2> DEFINE sent == [task EXCEPT !.stage = "sent", !.age = 0]
  <2>1. sent.stage = "sent"
    BY <1>2 DEF TaskType
  <2>2. (task' = NoTask /\ retired') \/ task' = sent
    BY <1>1
  <2> HIDE DEF sent
  <2> QED BY <2>1, <2>2 DEF NoTask
<1>4. Sent = sequence - 1 /\ Sent' = sequence
  BY <1>1, <1>3 DEF Sent
<1>5. ASSUME NEW k \in 1..Len(assignments')
      PROVE  assignments'[k].sequence <= Sent'
  <2>1. CASE assignments' = assignments
    BY <1>2, <1>4, <1>5, <2>1, SentAssignments
  <2>2. CASE assignments' = Put(assignments, [sequence |-> task.sequence,
                                              instance |-> task.instance])
    <3> DEFINE a == [sequence |-> task.sequence, instance |-> task.instance]
    <3>1. assignments \in Seq(Made) /\ a \in Made /\ a.sequence = sequence
      BY <1>2 DEF ProtocolInv, ProtocolType, Made, TaskType
    <3>2. assignments' = Put(assignments, a)
      BY <2>2
    <3> HIDE DEF a
    <3>3. PICK o \in {0, 1} :
            /\ Len(Put(assignments, a)) = Len(assignments) + 1 - o
            /\ \A i \in 1..Len(Put(assignments, a)) :
                 Put(assignments, a)[i] = IF i = Len(Put(assignments, a)) THEN a
                                          ELSE assignments[i + o]
      BY <3>1, PutShape
    <3>4. CASE k = Len(assignments')
      BY <1>2, <1>4, <3>1, <3>2, <3>3, <3>4
    <3>5. CASE k # Len(assignments')
      <4>1. Len(assignments) \in Nat
        BY <3>1
      <4>2. k + o \in 1..Len(assignments) /\ assignments'[k] = assignments[k + o]
        BY <3>2, <3>3, <3>5, <4>1
      <4>3. assignments[k + o].sequence \in Nat /\ assignments[k + o].sequence <= Sent
        BY <3>1, <4>2 DEF StatusInv, ServesSent, Made, TaskNumbers
      <4> QED BY <1>2, <1>4, <4>2, <4>3
    <3> QED BY <3>4, <3>5
  <2> QED BY <1>1, <2>1, <2>2
<1>6. Arriving' /\ ServesSent'
  BY <1>1, <1>2, <1>4, <1>5, CoordinatorView
<1>7. Follows'
  BY <1>1, <1>2, <1>3 DEF StatusInv, Follows
<1> QED BY <1>6, <1>7 DEF StatusInv

\* A read leaves out statuses, and sees no earlier one.
LEMMA ReadView ==
  ASSUME ProtocolInv, StatusInv, ReadStatus
  PROVE  StatusInv'
<1>1. /\ UNCHANGED <<alive, sequence, task, retired, registered, phase, instance, served,
                     state, running, assigned, assignments>>
      /\ \E k \in DOMAIN statuses : seen' = statuses[k] /\ statuses' = After(statuses, k)
  BY DEF ReadStatus, helperVars
<1>2. PICK k \in DOMAIN statuses : seen' = statuses[k] /\ statuses' = After(statuses, k)
  BY <1>1
<1>3. /\ statuses \in Seq(TrueStatus) /\ k \in 1..Len(statuses) /\ k \in 0..Len(statuses)
      /\ Len(statuses) \in Nat
  BY <1>2 DEF ProtocolInv, ProtocolType
<1>4. /\ Len(statuses') = Len(statuses) - k
      /\ \A i \in 1..Len(statuses') :
           k + i \in 1..Len(statuses) /\ statuses'[i] = statuses[k + i]
  <2>1. /\ Len(After(statuses, k)) = Len(statuses) - k
        /\ \A i \in 1..Len(statuses) - k : After(statuses, k)[i] = statuses[k + i]
    BY <1>3, AfterShape
  <2> QED BY <1>2, <1>3, <2>1
<1>5. \A r : Told(r)' <=> Told(r)
  BY <1>1 DEF Told, Sent, StatusRecord, Alive
<1>6. Arriving'
  <2>1. seen' # NoRecord /\ Told(seen')
    BY <1>2, <1>3, Statuses, StatusFacts DEF StatusInv, Arriving
  <2>2. ASSUME NEW i \in 1..Len(statuses')
        PROVE  Told(statuses'[i]) /\ Before(seen', statuses'[i])
    <3>1. k + i \in 1..Len(statuses) /\ k <= k + i
      BY <1>3, <1>4
    <3> QED BY <1>2, <1>3, <1>4, <3>1 DEF StatusInv, Arriving
  <2>3. ASSUME NEW i \in 1..Len(statuses'), NEW j \in 1..Len(statuses'), i <= j
        PROVE  Before(statuses'[i], statuses'[j])
    <3>1. k + i \in 1..Len(statuses) /\ k + j \in 1..Len(statuses) /\ k + i <= k + j
      BY <1>3, <1>4, <2>3
    <3> QED BY <1>4, <3>1 DEF StatusInv, Arriving
  <2> QED BY <1>5, <2>1, <2>2, <2>3 DEF Arriving
<1>7. ServesSent'
  BY <1>1 DEF StatusInv, ServesSent, Sent
<1>8. Follows'
  <2>1. seen # NoRecord => Before(seen, seen')
    BY <1>2, <1>3 DEF StatusInv, Arriving
  <2>2. seen' \in TrueStatus /\ seen' # NoRecord /\ seen'.instance \in Nat
        /\ seen'.sequence \in Nat
    BY <1>2, <1>3, Statuses, StatusFacts
  <2>3. seen # NoRecord => seen.instance \in Nat /\ seen.sequence \in Nat
    BY Statuses, StatusFacts
  <2>4. sequence \in Nat /\ registered \in Nat
    BY StatusFacts
  <2>5. alive /\ registered # None => registered <= seen'.instance
    BY <2>1, <2>2, <2>3, <2>4 DEF StatusInv, Follows, Before
  <2>6. alive /\ registered # None /\ seen'.instance = registered =>
          seen.instance = registered /\ seen.sequence <= seen'.sequence
    BY <2>1, <2>2, <2>3, <2>4 DEF StatusInv, Follows, Before
  <2>7. ASSUME alive, ~retired, registered # None, seen'.instance = registered
        PROVE  IF task = NoTask THEN sequence <= seen'.sequence
                                ELSE sequence <= seen'.sequence + 1
    <3>1. seen # NoRecord /\ seen.sequence \in Nat /\ seen.sequence <= seen'.sequence
      BY <2>3, <2>6, <2>7 DEF StatusInv, Follows
    <3>2. IF task = NoTask THEN sequence <= seen.sequence
                           ELSE sequence <= seen.sequence + 1
      BY <2>6, <2>7 DEF StatusInv, Follows
    <3> QED BY <2>2, <2>4, <3>1, <3>2
  <2> QED BY <1>1, <2>2, <2>5, <2>7 DEF Follows
<1> QED BY <1>6, <1>7, <1>8 DEF StatusInv

(***************************************************************************)
(* The helper. It publishes what it is, and moves on from there.           *)
(***************************************************************************)
\* A status it publishes comes after all others, and may push out the oldest.
LEMMA PublishedView ==
  ASSUME ProtocolInv, StatusInv,
         statuses' = statuses \/ (Alive /\ statuses' = Put(statuses, StatusRecord))
  PROVE  /\ \A k \in 1..Len(statuses') :
              /\ statuses'[k] \in TrueStatus /\ Told(statuses'[k])
              /\ seen # NoRecord => Before(seen, statuses'[k])
         /\ \A j, k \in 1..Len(statuses') : j <= k => Before(statuses'[j], statuses'[k])
<1>1. CASE statuses' = statuses
  BY <1>1, Statuses DEF StatusInv, Arriving
<1>2. CASE Alive /\ statuses' = Put(statuses, StatusRecord)
  <2>1. StatusRecord \in TrueStatus /\ statuses \in Seq(TrueStatus) /\ Len(statuses) \in Nat
    BY StatusFacts, Statuses DEF ProtocolInv, ProtocolType
  <2>2. PICK o \in {0, 1} :
          /\ Len(statuses') = Len(statuses) + 1 - o
          /\ \A i \in 1..Len(statuses') :
               statuses'[i] = IF i = Len(statuses') THEN StatusRecord ELSE statuses[i + o]
    BY <1>2, <2>1, PutShape
  <2>3. \A i \in 1..Len(statuses') : i # Len(statuses') => i + o \in 1..Len(statuses)
    BY <2>1, <2>2
  <2>4. Told(StatusRecord)
    <3>1. instance \in Nat /\ Before(StatusRecord, StatusRecord)
      BY <2>1, BeforeOrder, StatusFacts
    <3> DEFINE r == StatusRecord
    <3>2. r.instance = instance /\ r.sequence = served /\ r.state = state
      BY DEF StatusRecord
    <3> HIDE DEF r
    <3>3. Told(r)
      BY <3>1, <3>2 DEF StatusInv, ServesSent, Told, r
    <3> QED BY <3>3 DEF r
  <2>5. ASSUME NEW r, Told(r)
        PROVE  Before(r, StatusRecord)
    BY <1>2, <2>5 DEF Told
  <2>6. ASSUME NEW i \in 1..Len(statuses')
        PROVE  /\ statuses'[i] \in TrueStatus /\ Told(statuses'[i])
               /\ seen # NoRecord => Before(seen, statuses'[i])
    <3>1. CASE i = Len(statuses')
      BY <2>1, <2>2, <2>4, <2>5, <3>1 DEF StatusInv, Arriving
    <3>2. CASE i # Len(statuses')
      <4>1. statuses'[i] = statuses[i + o] /\ i + o \in 1..Len(statuses)
        BY <2>2, <2>3, <3>2
      <4> QED BY <4>1, Statuses DEF StatusInv, Arriving
    <3> QED BY <3>1, <3>2
  <2>7. ASSUME NEW i \in 1..Len(statuses'), NEW j \in 1..Len(statuses'), i <= j
        PROVE  Before(statuses'[i], statuses'[j])
    <3>1. CASE j = Len(statuses')
      BY <2>2, <2>5, <2>6, <3>1
    <3>2. CASE j # Len(statuses')
      <4>1. Len(statuses') \in Nat /\ i # Len(statuses')
        BY <2>1, <2>2, <2>7, <3>2
      <4>2. /\ statuses'[i] = statuses[i + o] /\ i + o \in 1..Len(statuses)
            /\ statuses'[j] = statuses[j + o] /\ j + o \in 1..Len(statuses)
        BY <2>2, <2>3, <3>2, <4>1
      <4>3. i + o <= j + o
        BY <2>1, <2>7
      <4> QED BY <4>2, <4>3 DEF StatusInv, Arriving
    <3> QED BY <3>1, <3>2
  <2> QED BY <2>6, <2>7
<1> QED BY <1>1, <1>2

\* A helper that moves on leaves behind what it has said.
LEMMA HelperView ==
  ASSUME ProtocolInv, StatusInv, StatusRecord' \in AnyStatus,
         UNCHANGED <<alive, sequence, task, retired, registered, seen>>,
         statuses' = statuses \/ (Alive /\ statuses' = Put(statuses, StatusRecord)),
         instance' \in Nat, instance <= instance',
         Alive' => instance < instance' \/ (Alive /\ Before(StatusRecord, StatusRecord'))
  PROVE  Arriving' /\ Follows'
<1>1. StatusRecord \in AnyStatus /\ instance \in Nat /\ StatusRecord'.instance = instance'
  BY StatusFacts DEF StatusRecord
<1>2. ASSUME NEW r \in TrueStatus, Told(r)
      PROVE  Told(r)'
  <2>1. r.instance \in Nat /\ r.instance <= instance
    BY <1>2, StatusFacts DEF Told
  <2>2. r.instance <= instance'
    BY <1>1, <2>1
  <2>3. instance < instance' => Before(r, StatusRecord')
    BY <1>1, <2>1 DEF Before
  <2>4. Alive /\ Before(StatusRecord, StatusRecord') => Before(r, StatusRecord')
    BY <1>1, <1>2, BeforeOrder, StatusFacts DEF Told
  <2>5. Alive' => Before(r, StatusRecord')
    BY <2>3, <2>4
  <2> QED BY <1>2, <2>2, <2>5 DEF Told, Sent
<1>3. Arriving'
  <2>1. seen # NoRecord => seen \in TrueStatus
    BY Statuses
  <2>2. \A k \in 1..Len(statuses') :
          statuses'[k] \in TrueStatus /\ Told(statuses'[k])
    BY PublishedView
  <2>3. \A j, k \in 1..Len(statuses') : j <= k => Before(statuses'[j], statuses'[k])
    BY PublishedView
  <2>4. seen # NoRecord => \A k \in 1..Len(statuses') : Before(seen, statuses'[k])
    BY PublishedView
  <2> QED BY <1>2, <2>1, <2>2, <2>3, <2>4 DEF StatusInv, Arriving
<1>4. Follows'
  BY DEF StatusInv, Follows
<1> QED BY <1>3, <1>4

\* What the helper holds of its mailbox was sent.
LEMMA HeldSent ==
  ASSUME ProtocolInv, StatusInv, NEW k \in 0..Len(assignments), HoldAssignment(k)
  PROVE  /\ assigned' # NoRecord => assigned'.sequence <= Sent
         /\ \A i \in 1..Len(assignments') : assignments'[i].sequence <= Sent
<1>1. CASE k = 0
  BY <1>1 DEF HoldAssignment, StatusInv, ServesSent
<1>2. CASE k # 0
  <2>1. assignments \in Seq(Made) /\ Len(assignments) \in Nat /\ k \in 1..Len(assignments)
    BY <1>2 DEF ProtocolInv, ProtocolType
  <2>2. assigned' = assignments[k] /\ assignments' = After(assignments, k)
    BY <1>2 DEF HoldAssignment
  <2>3. /\ Len(assignments') = Len(assignments) - k
        /\ \A i \in 1..Len(assignments) - k : assignments'[i] = assignments[k + i]
    BY <2>1, <2>2, AfterShape
  <2>4. \A i \in 1..Len(assignments) - k : k + i \in 1..Len(assignments)
    BY <2>1
  <2> QED BY <2>1, <2>2, <2>3, <2>4 DEF StatusInv, ServesSent
<1> QED BY <1>1, <1>2

\* A helper that is gone says nothing more; what it held may be read again.
LEMMA GoneView ==
  ASSUME ProtocolInv, StatusInv, NEW end \in Ends, NEW record, NEW unread,
         HelperGone(end, record, unread),
         UNCHANGED <<alive, sequence, task, retired, registered, seen>>,
         statuses' = statuses \/ (Alive /\ statuses' = Put(statuses, StatusRecord))
  PROVE  StatusInv'
<1>1. /\ phase' = end /\ assigned' = NoRecord
      /\ assignments' = Unread(assigned, assignments)
      /\ served' = 0 /\ state' = "ready" /\ running' = None
      /\ instance' = instance
  BY DEF HelperGone
<1>2. ~Alive' /\ instance \in Nat /\ Sent \in Nat /\ Sent' = Sent
  BY <1>1, StatusFacts DEF Alive, Sent
<1>3. StatusRecord' \in AnyStatus
  BY <1>1, <1>2 DEF StatusRecord, AnyStatus, States
<1>4. Arriving' /\ Follows'
  BY <1>1, <1>2, <1>3, HelperView
<1>5. \A i \in 1..Len(assignments') : assignments'[i].sequence <= Sent
  <2>1. assignments \in Seq(Made) /\ (assigned = NoRecord \/ assigned \in Made)
        /\ Len(assignments) \in Nat
    BY DEF ProtocolInv, ProtocolType
  <2>2. \/ assignments' = assignments
        \/ /\ Len(assignments') = Len(assignments) + 1 /\ assignments'[1] = assigned
           /\ assigned # NoRecord
           /\ \A i \in 1..Len(assignments) : assignments'[i + 1] = assignments[i]
    <3>1. assigned = NoRecord => assignments' = assignments
      BY <1>1 DEF Unread
    <3> QED BY <1>1, <2>1, <3>1, UnreadShape
  <2>3. CASE assignments' = assignments
    BY <2>3 DEF StatusInv, ServesSent
  <2>4. ASSUME Len(assignments') = Len(assignments) + 1, assignments'[1] = assigned,
               assigned # NoRecord,
               \A i \in 1..Len(assignments) : assignments'[i + 1] = assignments[i],
               NEW j \in 1..Len(assignments')
        PROVE  assignments'[j].sequence <= Sent
    <3>1. CASE j = 1
      BY <2>4, <3>1 DEF StatusInv, ServesSent
    <3>2. CASE j # 1
      <4>1. j - 1 \in 1..Len(assignments) /\ (j - 1) + 1 = j
        BY <2>1, <2>4, <3>2
      <4>2. assignments'[j] = assignments[j - 1]
        BY <2>4, <4>1
      <4> QED BY <4>1, <4>2 DEF StatusInv, ServesSent
    <3> QED BY <3>1, <3>2
  <2> QED BY <2>2, <2>3, <2>4
<1>6. ServesSent'
  BY <1>1, <1>2, <1>5 DEF ServesSent, None
<1> QED BY <1>4, <1>6 DEF StatusInv

\* The loop, but for what it serves.
LEMMA LoopView ==
  ASSUME ProtocolInv, StatusInv, CheckLease \/ ReceiveNothing \/ PollTick \/ HelperDies
  PROVE  StatusInv'
<1>0. StatusRecord \in AnyStatus /\ Before(StatusRecord, StatusRecord) /\ instance \in Nat
  BY StatusFacts, BeforeOrder
<1>1. ASSUME UNCHANGED <<alive, sequence, task, retired, registered, seen, statuses,
                         instance, served, state, running>>,
             Alive,
             assigned' # NoRecord => assigned'.sequence <= Sent,
             \A i \in 1..Len(assignments') : assignments'[i].sequence <= Sent
      PROVE  StatusInv'
  <2>1. StatusRecord' = StatusRecord
    BY <1>1 DEF StatusRecord
  <2>2. Arriving' /\ Follows'
    BY <1>0, <1>1, <2>1, HelperView
  <2>3. ServesSent'
    BY <1>1 DEF StatusInv, ServesSent, Sent
  <2> QED BY <2>2, <2>3 DEF StatusInv
<1>2. ASSUME NEW k \in LeaseReads, HoldLease(k) PROVE StatusInv'
  <2>1. /\ UNCHANGED <<alive, sequence, task, retired, registered, seen, statuses,
                       instance, served, state, running, assigned, assignments>>
        /\ Alive
    BY <1>2 DEF HoldLease, coordinatorVars, Alive, Ends
  <2> QED BY <1>1, <2>1 DEF StatusInv, ServesSent
<1>3. ASSUME NEW k \in LeaseReads, LoseLease(k) PROVE StatusInv'
  <2>1. /\ HelperGone("failed", Held(k), After(leases, k))
        /\ UNCHANGED <<alive, sequence, task, retired, registered, seen, statuses>>
    BY <1>3 DEF LoseLease, coordinatorVars
  <2> QED BY <2>1, GoneView DEF Ends
<1>4. CASE ReceiveNothing
  <2>1. /\ UNCHANGED <<alive, sequence, task, retired, registered, seen, statuses,
                       instance, served, state, running>>
        /\ Alive
    BY <1>4 DEF ReceiveNothing, coordinatorVars, Alive, Ends
  <2>2. CASE UNCHANGED <<assigned, assignments>>
    BY <1>1, <2>1, <2>2 DEF StatusInv, ServesSent
  <2>3. ASSUME NEW k \in 1..Len(assignments), HoldAssignment(k) PROVE StatusInv'
    <3>1. k \in 0..Len(assignments)
      OBVIOUS
    <3> QED BY <1>1, <2>1, <2>3, <3>1, HeldSent
  <2> QED BY <1>4, <2>2, <2>3 DEF ReceiveNothing
<1>5. CASE PollTick
  <2>1. /\ UNCHANGED <<alive, sequence, task, retired, registered, seen, statuses,
                       instance, served, state, running, assigned, assignments>>
        /\ Alive
    BY <1>5 DEF PollTick, coordinatorVars, boxes, Alive, Ends
  <2> QED BY <1>1, <2>1 DEF StatusInv, ServesSent
<1>6. CASE HelperDies
  <2>1. /\ HelperGone("failed", coordinator, leases)
        /\ UNCHANGED <<alive, sequence, task, retired, registered, seen, statuses>>
    BY <1>6 DEF HelperDies, coordinatorVars
  <2> QED BY <2>1, GoneView DEF Ends
<1> QED BY <1>2, <1>3, <1>4, <1>5, <1>6 DEF CheckLease

\* What it publishes, whether it goes on or exits with it.
LEMMA PublishView ==
  ASSUME ProtocolInv, StatusInv, PublishStatus
  PROVE  StatusInv'
<1>1. /\ UNCHANGED <<alive, sequence, task, retired, registered, seen>> /\ Alive
      /\ statuses' = statuses \/ statuses' = Put(statuses, StatusRecord)
  BY DEF PublishStatus, coordinatorVars, Alive, Ends
<1>2. \/ HelperGone("finished", coordinator, leases)
      \/ UNCHANGED <<assignments, instance, assigned, served, state, running>>
  BY DEF PublishStatus
<1>3. CASE HelperGone("finished", coordinator, leases)
  BY <1>1, <1>3, GoneView DEF Ends
<1>4. CASE UNCHANGED <<assignments, instance, assigned, served, state, running>>
  <2>1. StatusRecord' = StatusRecord /\ instance \in Nat /\ StatusRecord \in AnyStatus
        /\ Before(StatusRecord, StatusRecord)
    BY <1>4, StatusFacts, BeforeOrder DEF StatusRecord
  <2>2. Arriving' /\ Follows'
    BY <1>1, <1>4, <2>1, HelperView
  <2>3. ServesSent'
    BY <1>1, <1>4 DEF StatusInv, ServesSent, Sent
  <2> QED BY <2>2, <2>3 DEF StatusInv
<1> QED BY <1>2, <1>3, <1>4

\* The next assignment, its end, and the next incarnation.
LEMMA ServeView ==
  ASSUME ProtocolInv, ProtocolInv', StatusInv, ReceiveTask \/ BuildEnds \/ HelperReplaced
  PROVE  StatusInv'
<1>1. UNCHANGED <<alive, sequence, task, retired, registered, seen, statuses>>
  BY DEF ReceiveTask, BuildEnds, HelperReplaced, coordinatorVars, boxes
<1>2. instance \in Nat /\ served \in Nat
  BY StatusFacts
<1>3. CASE ReceiveTask
  <2>1. PICK k \in 0..Len(assignments) : HoldAssignment(k)
    BY <1>3 DEF ReceiveTask
  <2>2. /\ assigned' # NoRecord /\ assigned'.instance = instance
        /\ assigned'.sequence > served /\ served' = assigned'.sequence
        /\ running' = assigned'.sequence /\ state' = "busy" /\ instance' = instance
        /\ Alive
    BY <1>3 DEF ReceiveTask, NewAssignment, Alive, Ends
  <2>3. assigned' \in Made'
    BY <2>2 DEF ProtocolInv, ProtocolType
  <2>4. served' \in Nat /\ served' # 0 /\ instance = registered
    BY <1>1, <2>2, <2>3 DEF Made, TaskNumbers
  <2>5. StatusRecord' \in AnyStatus /\ Before(StatusRecord, StatusRecord')
    BY <1>2, <2>2, <2>4 DEF StatusRecord, AnyStatus, States, Before
  <2>6. Arriving' /\ Follows'
    BY <1>1, <1>2, <2>2, <2>5, HelperView
  <2>7. /\ assigned'.sequence <= Sent
        /\ \A i \in 1..Len(assignments') : assignments'[i].sequence <= Sent
    BY <2>1, <2>2, HeldSent
  <2>8. ServesSent'
    BY <1>1, <2>2, <2>4, <2>7 DEF ServesSent, Sent, None
  <2> QED BY <2>6, <2>8 DEF StatusInv
<1>4. CASE BuildEnds
  <2>1. /\ UNCHANGED <<instance, served, assigned, assignments>> /\ Alive
        /\ running # None /\ running' = None /\ state' \in Final
    BY <1>4 DEF BuildEnds, boxes, Final, Alive, Ends
  <2>2. state = "busy" /\ served # 0
    BY <2>1 DEF StatusInv, ServesSent
  <2>3. StatusRecord' \in AnyStatus /\ Before(StatusRecord, StatusRecord')
    BY <1>2, <2>1, <2>2 DEF StatusRecord, AnyStatus, States, Before, Final
  <2>4. Arriving' /\ Follows'
    BY <1>1, <1>2, <2>1, <2>3, HelperView
  <2>5. ServesSent'
    BY <1>1, <2>1, <2>2 DEF StatusInv, ServesSent, Sent, Final
  <2> QED BY <2>4, <2>5 DEF StatusInv
<1>5. CASE HelperReplaced
  <2>1. /\ UNCHANGED <<served, state, running, assigned, assignments>> /\ ~Alive
        /\ instance' = instance + 1
    BY <1>5 DEF HelperReplaced, boxes, Alive, Ends
  <2>2. state = "ready" /\ served = 0
    BY <2>1 DEF ProtocolInv, Ordered, StatusInv, ServesSent
  <2>3. StatusRecord' \in AnyStatus
    BY <1>2, <2>1, <2>2 DEF StatusRecord, AnyStatus, States
  <2>4. instance' \in Nat /\ instance <= instance' /\ instance < instance'
    BY <1>2, <2>1
  <2>5. Arriving' /\ Follows'
    BY <1>1, <2>3, <2>4, HelperView
  <2>6. ServesSent'
    BY <1>1, <2>1, <2>2 DEF StatusInv, ServesSent, Sent
  <2> QED BY <2>5, <2>6 DEF StatusInv
<1> QED BY <1>3, <1>4, <1>5

\* Time changes no order.
LEMMA TickView ==
  ASSUME ProtocolInv, StatusInv, Tick
  PROVE  StatusInv'
<1>1. /\ UNCHANGED <<alive, sequence, retired, registered, phase, instance, served, state,
                     running, assigned, assignments>>
      /\ seen' = Aged(seen)
      /\ statuses' = [k \in DOMAIN statuses |-> Aged(statuses[k])]
      /\ task' = IF task = NoTask THEN task ELSE Aged(task)
  BY DEF Tick
<1>2. Len(statuses) \in Nat /\ DOMAIN statuses = 1..Len(statuses)
      /\ statuses \in Seq(TrueStatus)
  BY DEF ProtocolInv, ProtocolType
<1>3. /\ Len(statuses') = Len(statuses)
      /\ \A k \in 1..Len(statuses) : statuses'[k] = Aged(statuses[k])
  <2> DEFINE n == Len(statuses)
  <2>1. n \in Nat /\ statuses' \in [1..n -> TrueStatus]
    BY <1>1, <1>2, AgedFacts
  <2>2. \A k \in 1..n : statuses'[k] = Aged(statuses[k])
    BY <1>1, <1>2
  <2> HIDE DEF n
  <2>3. Len(statuses') = n
    BY <2>1
  <2> QED BY <2>2, <2>3 DEF n
<1>4. /\ task'.stage = task.stage
      /\ task' = NoTask <=> task = NoTask
  <2>1. CASE task = NoTask
    BY <1>1, <2>1
  <2>2. CASE task # NoTask
    <3>1. task \in TaskType /\ task' = Aged(task)
      BY <1>1, <2>2 DEF ProtocolInv, ProtocolType
    <3>2. Aged(task).stage = task.stage
      BY <3>1 DEF Aged, TaskType
    <3>3. task.stage \in {"new", "sent"}
      BY <3>1 DEF TaskType
    <3> QED BY <2>2, <3>1, <3>2, <3>3 DEF NoTask
  <2> QED BY <2>1, <2>2
<1>5. Sent' = Sent /\ StatusRecord' = StatusRecord /\ Alive' = Alive
  BY <1>1, <1>4 DEF Sent, StatusRecord, Alive
<1>6. \A r \in TrueStatus : Told(r) => Told(Aged(r))
  BY AgedStatus DEF Told, Before
<1>7. \A r : Told(r)' <=> Told(r)
  BY <1>1, <1>5 DEF Told
<1>8. Arriving'
  <2>1. \A k \in 1..Len(statuses') : Told(statuses'[k])
    BY <1>3, <1>6, Statuses DEF StatusInv, Arriving
  <2>2. seen' # NoRecord =>
          /\ seen # NoRecord /\ Told(seen')
          /\ \A k \in 1..Len(statuses') : Before(seen', statuses'[k])
    <3>1. seen = NoRecord => seen' = NoRecord
      BY <1>1, AgedFacts
    <3>2. ASSUME seen # NoRecord, NEW k \in 1..Len(statuses')
          PROVE  Before(seen', statuses'[k])
      <4>1. seen \in TrueStatus /\ statuses[k] \in TrueStatus /\ Before(seen, statuses[k])
        BY <1>3, <3>2, Statuses DEF StatusInv, Arriving
      <4>2. Aged(seen) \in TrueStatus
        BY <4>1, AgedFacts
      <4> QED BY <1>1, <1>3, <4>1, <4>2, BeforeOrder
    <3>3. seen # NoRecord => Told(seen')
      BY <1>1, <1>6, Statuses DEF StatusInv, Arriving
    <3> QED BY <3>1, <3>2, <3>3
  <2>3. ASSUME NEW j \in 1..Len(statuses'), NEW k \in 1..Len(statuses'), j <= k
        PROVE  Before(statuses'[j], statuses'[k])
    <3>1. statuses[j] \in TrueStatus /\ statuses[k] \in TrueStatus
          /\ Before(statuses[j], statuses[k])
      BY <1>3, <2>3, Statuses DEF StatusInv, Arriving
    <3>2. Aged(statuses[j]) \in TrueStatus
      BY <3>1, AgedFacts
    <3> QED BY <1>3, <3>1, <3>2, BeforeOrder
  <2> QED BY <1>7, <2>1, <2>2, <2>3 DEF Arriving
<1>9. ServesSent'
  BY <1>1, <1>5 DEF StatusInv, ServesSent
<1>10. Follows'
  <2>1. seen # NoRecord => seen' # NoRecord /\ seen'.instance = seen.instance
                             /\ seen'.sequence = seen.sequence
    BY <1>1, Statuses, AgedStatus
  <2> QED BY <1>1, <1>4, <2>1 DEF StatusInv, Follows
<1> QED BY <1>8, <1>9, <1>10 DEF StatusInv

LEMMA StatusStep ==
  ProtocolInv /\ ProtocolInv' /\ ExitInv /\ StatusInv /\ [Next]_vars => StatusInv'
<1> SUFFICES ASSUME ProtocolInv, ProtocolInv', ExitInv, StatusInv, [Next]_vars
             PROVE  StatusInv'
  OBVIOUS
<1>1. CASE \/ WriteLease \/ Acknowledge \/ AcceptResult \/ AbandonTask
           \/ Announce \/ Drain \/ Close \/ CoordinatorDies
  BY <1>1, DecisionView
<1>2. CASE AssignTask
  BY <1>2, AssignView
<1>3. CASE SendAssignment
  BY <1>3, SendView
<1>4. CASE ReadStatus
  BY <1>4, ReadView
<1>5. CASE CheckLease \/ ReceiveNothing \/ PollTick \/ HelperDies
  BY <1>5, LoopView
<1>6. CASE PublishStatus
  BY <1>6, PublishView
<1>7. CASE ReceiveTask \/ BuildEnds \/ HelperReplaced
  BY <1>7, ServeView
<1>8. CASE Tick
  BY <1>8, TickView
<1>9. CASE UNCHANGED vars
  <2>1. UNCHANGED <<alive, sequence, task, retired, registered, seen, statuses, assigned,
                    assignments, phase, instance, served, state, running>>
    BY <1>9 DEF vars, coordinatorVars, helperVars, boxes
  <2>2. StatusRecord' = StatusRecord /\ Sent' = Sent /\ Alive' = Alive
    BY <2>1 DEF StatusRecord, Sent, Alive
  <2>3. \A r : Told(r)' <=> Told(r)
    BY <2>1, <2>2 DEF Told
  <2>4. Arriving'
    BY <2>1, <2>3 DEF StatusInv, Arriving
  <2> QED BY <2>1, <2>2, <2>4 DEF StatusInv, ServesSent, Follows
<1> QED
  BY <1>1, <1>2, <1>3, <1>4, <1>5, <1>6, <1>7, <1>8, <1>9 DEF Next, Coordinator, Helper

LEMMA StatusInitInv == Init => StatusInv
<1> SUFFICES ASSUME Init PROVE StatusInv
  OBVIOUS
<1>1. statuses = <<>> /\ assignments = <<>> /\ seen = NoRecord /\ registered = None
      /\ served = 0 /\ state = "ready" /\ running = None /\ assigned = NoRecord
  BY DEF Init
<1> QED BY <1>1 DEF StatusInv, Arriving, ServesSent, Follows, None

LEMMA StatusInvariant == Spec => []StatusInv
<1>1. ProtocolInv /\ ProtocolInv' /\ ExitInv /\ StatusInv /\ [Next]_vars => StatusInv'
  BY StatusStep
<1> QED BY <1>1, StatusInitInv, ProtocolInvariant, ExitInvariant, PTL DEF Spec

\* What Scheduler takes from the protocol, with any mailbox: a helper's status is
\* first that of a new incarnation that is ready; it advances, in that incarnation,
\* only to the assignment in progress and to the end of it, and never goes back
\* (read keeps the newest record, remoteTask and schedule their own numbers).
THEOREM StatusesAdvance == Spec => [][SeenAdvances]_vars
<1>1. ASSUME ProtocolInv, ExitInv, StatusInv, ReadStatus
      PROVE  SeenAdvances
  <2>1. PICK k \in DOMAIN statuses : seen' = statuses[k]
    BY <1>1 DEF ReadStatus
  <2> DEFINE r == statuses[k]
  <2>2. k \in 1..Len(statuses)
    BY <1>1, <2>1 DEF ProtocolInv, ProtocolType
  <2>3. /\ r \in TrueStatus /\ Told(r) /\ seen' = r /\ alive
        /\ seen # NoRecord => seen \in TrueStatus /\ Before(seen, r)
    BY <1>1, <2>1, <2>2, Statuses DEF StatusInv, Arriving, ReadStatus
  <2> HIDE DEF r
  <2>4. /\ r.instance \in Nat /\ r.sequence \in Nat /\ r.state \in States
        /\ seen # NoRecord => seen.instance \in Nat /\ seen.sequence \in Nat
        /\ sequence \in Nat /\ registered \in Nat /\ Sent \in Nat /\ Sent <= sequence
    BY <1>1, <2>3, StatusFacts
  <2>5. r.sequence # 0 =>
          /\ seen # NoRecord /\ registered # None /\ registered = r.instance
          /\ registered <= seen.instance /\ r.sequence <= Sent
          /\ r.state \in {"busy"} \cup Final
    <3>1. r.sequence # 0 =>
            registered = r.instance /\ r.sequence <= Sent /\ r.state # "ready"
      BY <2>3 DEF Told
    <3>2. registered = None => sequence = 0
      BY <1>1 DEF ProtocolInv, Ordered
    <3>3. r.sequence # 0 => registered # None
      BY <2>4, <3>1, <3>2
    <3> QED BY <1>1, <2>3, <2>4, <3>1, <3>3 DEF StatusInv, Follows, States, Final
  <2>6. CASE seen = NoRecord \/ seen.instance < r.instance
    <3>1. r.sequence = 0
      BY <2>4, <2>5, <2>6
    <3> QED BY <2>3, <2>6, <3>1 DEF SeenAdvances, FirstSeen, Told
  <2>7. CASE /\ seen # NoRecord
             /\ seen.instance = r.instance /\ seen.sequence < r.sequence
    <3>1. r.sequence # 0
      BY <2>4, <2>7
    <3>2. ASSUME ~retired
          PROVE  /\ task.stage = "sent"
                 /\ task.instance = r.instance /\ task.sequence = r.sequence
      <4>1. IF task = NoTask THEN sequence <= seen.sequence
                             ELSE sequence <= seen.sequence + 1
        BY <1>1, <2>3, <2>5, <2>7, <3>1, <3>2 DEF StatusInv, Follows
      <4>2. task # NoTask /\ r.sequence = sequence /\ Sent = sequence
        BY <2>4, <2>5, <2>7, <3>1, <4>1
      <4>3. task \in TaskType /\ task.instance = registered /\ task.sequence = sequence
        BY <1>1, <4>2 DEF ProtocolInv, ProtocolType, ExitInv
      <4>4. task.stage # "new"
        BY <2>4, <4>2 DEF Sent
      <4> QED BY <2>5, <3>1, <4>2, <4>3, <4>4 DEF TaskType
    <3> QED BY <2>3, <2>5, <2>7, <3>1, <3>2 DEF SeenAdvances, TaskTaken
  <2>8. CASE /\ seen # NoRecord
             /\ seen.instance = r.instance /\ seen.sequence = r.sequence
             /\ seen.state = r.state \/ (seen.state = "busy" /\ r.state \in Final)
    BY <2>3, <2>8 DEF SeenAdvances, StaysOrEnds
  <2> QED BY <2>3, <2>6, <2>7, <2>8 DEF Before
<1>2. ASSUME ProtocolInv, Tick
      PROVE  SeenAdvances
  <2>1. seen' = Aged(seen)
    BY <1>2 DEF Tick
  <2>2. CASE seen = NoRecord
    BY <2>1, <2>2, AgedFacts DEF SeenAdvances
  <2>3. CASE seen # NoRecord
    BY <1>2, <2>1, <2>3, Statuses, AgedStatus DEF SeenAdvances, StaysOrEnds
  <2> QED BY <2>2, <2>3
<1>3. ASSUME seen' \in {seen, NoRecord}
      PROVE  SeenAdvances
  BY <1>3 DEF SeenAdvances, StaysOrEnds
<1>4. ASSUME [Next]_vars, ~ReadStatus, ~Tick
      PROVE  seen' \in {seen, NoRecord}
  <2>1. CASE WriteLease \/ Coordinator \/ CoordinatorDies
    BY <2>1 DEF WriteLease, Coordinator, AssignTask, SendAssignment, Acknowledge,
                AcceptResult, AbandonTask, Announce, Drain, Close, CoordinatorDies,
                CoordinatorGone, EndTask, coordinatorVars
  <2>2. CASE Helper \/ BuildEnds \/ HelperDies \/ HelperReplaced \/ UNCHANGED vars
    BY <2>2 DEF Helper, CheckLease, HoldLease, LoseLease, PublishStatus, ReceiveTask,
                ReceiveNothing, PollTick, BuildEnds, HelperDies, HelperReplaced,
                coordinatorVars, vars
  <2> QED BY <1>4, <2>1, <2>2 DEF Next
<1>5. ProtocolInv /\ ExitInv /\ StatusInv /\ [Next]_vars => SeenAdvances
  BY <1>1, <1>2, <1>3, <1>4
<1>6. ProtocolInv /\ ExitInv /\ StatusInv /\ [Next]_vars => [SeenAdvances]_vars
  BY <1>5
<1> QED BY <1>6, ProtocolInvariant, ExitInvariant, StatusInvariant, PTL DEF Spec

-----------------------------------------------------------------------------
(***************************************************************************)
(* ActionsCache, for any goroutines, delays and attempts: writers take     *)
(* turns, and a pause is respected.                                        *)
(***************************************************************************)
Queued == {"idle", "slot", "pace"}
Requests == Uploads \cup {"lookup", "download"}
CallType == [op : Queued \cup Requests, stage : {"none", "check", "send", "sent", "pause"},
             attempt : Nat, left : Nat, wait : Nat]

ActionsType ==
  /\ cooldown \in Nat /\ taken \in BOOLEAN /\ nextWrite \in Nat
  /\ call \in [Callers -> CallType]
  /\ asked \in Nat /\ late \in [Callers -> Nat] /\ since \in Nat

(***************************************************************************)
(* A request is at a stage, and only writers queue, upload or have the      *)
(* slot. One of them has it while it is taken, and the time to the next    *)
(* write, kept or being waited for, makes up for what has not passed since *)
(* the last one.                                                           *)
(***************************************************************************)
Staged == \A c \in Callers :
  /\ call[c].op \in Queued <=> call[c].stage = "none"
  /\ c \in Readers => call[c].op \in {"idle", "lookup", "download"}
OneSlot ==
  /\ taken <=> \E w \in Writers : HasSlot(w)
  /\ \A v, w \in Writers : HasSlot(v) /\ HasSlot(w) => v = w
Paced ==
  /\ nextWrite + since >= Interval
  /\ \A w \in Writers : call[w].op = "pace" => call[w].wait + since >= Interval
TurnsInv == ActionsType /\ Staged /\ OneSlot /\ Paced

(***************************************************************************)
(* The cooldown is the pause asked for. A request that is about to be sent *)
(* was checked when there was none, and nothing was sent since.            *)
(***************************************************************************)
Cooled ==
  /\ cooldown = asked
  /\ asked = 0 => \A c \in Callers : late[c] = 0
  /\ \A c \in Callers : late[c] <= 1 /\ (call[c].stage = "send" => late[c] = 0)
PauseInv == TurnsInv /\ Cooled

\* A request follows another of its kind.
LEMMA FollowingType ==
  \A op \in Requests : \A following \in Following[op] :
    /\ op \in Uploads <=> following \in Uploads
    /\ following \in Requests
  BY DEF Following, Requests, Uploads

\* A writer is not a reader.
LEMMA CallerKinds ==
  /\ Callers = Writers \cup Readers /\ Writers \cap Readers = {}
  /\ Interval \in Nat /\ MaxDelay \in Nat /\ Deadline \in Nat
  BY ClientAssumption DEF Callers

\* The initial state.
LEMMA ActionsInitInv == ActionsInit => PauseInv
<1> SUFFICES ASSUME ActionsInit PROVE PauseInv
  OBVIOUS
<1>1. Idle \in CallType
  BY DEF Idle, CallType, Queued
<1>2. ActionsType
  BY <1>1, CallerKinds DEF ActionsInit, ActionsType
<1>3. \A w \in Writers : ~HasSlot(w) /\ call[w].op = "idle"
  BY CallerKinds DEF ActionsInit, HasSlot, Idle, Uploads
<1> QED BY <1>2, <1>3, CallerKinds
    DEF ActionsInit, TurnsInv, PauseInv, Staged, OneSlot, Paced, Cooled, Idle, Queued

\* Every step keeps the types.
LEMMA ActionsTypeStep ==
  ASSUME ActionsType, Staged, [ActionsNext]_actionsVars
  PROVE  ActionsType'
<1> USE DEF ActionsType
<1>0. Idle \in CallType
  BY DEF Idle, CallType, Queued
<1>1. CASE UNCHANGED actionsVars
  BY <1>1 DEF actionsVars, history
<1>2. ASSUME NEW c \in Callers, Return(c) PROVE /\ call' \in [Callers -> CallType]
                                               /\ taken' \in BOOLEAN
  BY <1>0, <1>2 DEF Return
<1>3. ASSUME NEW w \in Writers, TakeSlot(w) \/ LetThrough(w) PROVE ActionsType'
  <2>1. w \in Callers /\ call[w] \in CallType
    BY CallerKinds
  <2>2. CASE TakeSlot(w)
    BY <2>1, <2>2 DEF TakeSlot, CallType, Queued, history
  <2>3. CASE LetThrough(w)
    BY <2>1, <2>3, CallerKinds DEF LetThrough, Request, CallType, Requests, Uploads
  <2> QED BY <1>3, <2>2, <2>3
<1>4. ASSUME NEW c \in Callers,
             \/ Call(c) \/ TimeOut(c) \/ CheckCooldown(c) \/ Send(c)
             \/ Succeed(c) \/ Fail(c) \/ Resume(c) \/ Refused(c) \/ Limited(c)
      PROVE  ActionsType'
  <2>1. call[c] \in CallType
    OBVIOUS
  <2>2. CASE Call(c)
    <3>1. ASSUME NEW op \in {"slot", "lookup"}, FirstRequest(c, op)
          PROVE  call' \in [Callers -> CallType]
      BY <3>1, CallerKinds DEF FirstRequest, Idle, CallType, Queued, Requests
    <3> QED BY <2>2, <3>1 DEF Call, history
  <2>3. CASE TimeOut(c)
    BY <1>2, <2>3 DEF TimeOut, history
  <2>4. CASE CheckCooldown(c)
    BY <1>2, <2>1, <2>4 DEF CheckCooldown, CallType, history
  <2>5. CASE Send(c)
    BY <2>1, <2>5 DEF Send, CallType
  <2>6. CASE Succeed(c)
    <3>1. call[c].op \in Requests
      BY <2>1, <2>6 DEF Succeed, Staged, CallType
    <3>2. ASSUME NEW op \in Following[call[c].op], Request(c, op), UNCHANGED taken,
                 UNCHANGED <<cooldown, nextWrite, history>>
          PROVE  ActionsType'
      BY <2>1, <3>1, <3>2, FollowingType DEF Request, CallType, history
    <3> QED BY <1>2, <2>6, <3>2 DEF Succeed, history
  <2>7. CASE Fail(c)
    <3>1. call[c].attempt + 1 \in Nat
      BY <2>1 DEF CallType
    <3> DEFINE record == [call[c] EXCEPT !.stage = "pause", !.attempt = call[c].attempt + 1,
                                         !.wait = call[c].attempt + 1]
    <3>2. record \in CallType
      BY <2>1, <3>1 DEF CallType
    <3>3. CASE call' = [call EXCEPT ![c] = record] /\ UNCHANGED taken
      BY <2>7, <3>2, <3>3 DEF Fail, history
    <3>4. CASE Return(c)
      BY <1>2, <2>7, <3>4 DEF Fail, history
    <3> QED BY <2>7, <3>3, <3>4 DEF Fail
  <2>8. CASE Resume(c)
    BY <2>1, <2>8 DEF Resume, CallType, history
  <2>9. CASE Refused(c)
    BY <1>2, <2>9 DEF Refused, history
  <2>10. CASE Limited(c)
    BY <1>2, <2>10, CallerKinds DEF Limited, Later
  <2> QED BY <1>4, <2>2, <2>3, <2>4, <2>5, <2>6, <2>7, <2>8, <2>9, <2>10
<1>5. CASE ActionsTick
  <2>1. \A n \in Nat : Less(n) \in Nat
    BY DEF Less
  <2>2. \A c \in Callers :
          [call[c] EXCEPT !.left = Less(@), !.wait = Less(@)] \in CallType
    BY <2>1 DEF CallType
  <2>3. call' \in [Callers -> CallType]
    BY <1>5, <2>2 DEF ActionsTick
  <2>4. cooldown' \in Nat /\ nextWrite' \in Nat /\ asked' \in Nat
    BY <1>5, <2>1 DEF ActionsTick
  <2>5. taken' \in BOOLEAN /\ late' \in [Callers -> Nat]
    <3>1. late' = (IF asked <= 1 THEN [c \in Callers |-> 0] ELSE late) /\ taken' = taken
      BY <1>5 DEF ActionsTick
    <3>2. [c \in Callers |-> 0] \in [Callers -> Nat]
      OBVIOUS
    <3> QED BY <3>1, <3>2
  <2>6. since' \in Nat
    <3>1. since' = IF since < Interval THEN since + 1 ELSE since
      BY <1>5 DEF ActionsTick
    <3> QED BY <3>1
  <2> QED BY <2>3, <2>4, <2>5, <2>6
<1> QED BY <1>1, <1>3, <1>4, <1>5 DEF ActionsNext

-----------------------------------------------------------------------------
(***************************************************************************)
(* Turns.                                                                  *)
(***************************************************************************)
\* One goroutine moves on with the slot or without it.
LEMMA SameSlot ==
  ASSUME TurnsInv, NEW c \in Callers, NEW record \in CallType,
         call' = [call EXCEPT ![c] = record], taken' = taken,
         nextWrite' = nextWrite, since' = since,
         record.op \in Queued <=> record.stage = "none",
         c \in Readers => record.op \in {"idle", "lookup", "download"},
         record.op \in {"pace"} \cup Uploads <=> HasSlot(c),
         record.op # "pace"
  PROVE  Staged' /\ OneSlot' /\ Paced'
<1>1. \A d \in Callers : call'[d] = IF d = c THEN record ELSE call[d]
  BY DEF TurnsInv, ActionsType
<1>2. \A w \in Writers : HasSlot(w)' <=> HasSlot(w)
  BY <1>1, CallerKinds DEF HasSlot
<1>3. Staged'
  BY <1>1 DEF TurnsInv, Staged
<1>4. OneSlot'
  BY <1>2 DEF TurnsInv, OneSlot
<1>5. Paced'
  BY <1>1, CallerKinds DEF TurnsInv, Paced
<1> QED BY <1>3, <1>4, <1>5

\* A call that ends gives the slot back if it has it.
LEMMA ReturnTurns ==
  ASSUME TurnsInv, NEW c \in Callers, Return(c), nextWrite' = nextWrite, since' = since
  PROVE  Staged' /\ OneSlot' /\ Paced'
<1>1. \A d \in Callers : call'[d] = IF d = c THEN Idle ELSE call[d]
  BY DEF TurnsInv, ActionsType, Return
<1>2. Idle.op = "idle" /\ Idle.stage = "none"
  BY DEF Idle
<1>3. Staged'
  BY <1>1, <1>2 DEF TurnsInv, Staged, Queued
<1>4. Paced'
  BY <1>1, <1>2, CallerKinds DEF TurnsInv, Paced
<1>5. \A w \in Writers : HasSlot(w)' <=> HasSlot(w) /\ w # c
  BY <1>1, <1>2, CallerKinds DEF HasSlot, Uploads
<1>6. taken' = (taken /\ ~HasSlot(c))
  BY DEF Return, Releases
<1>7. HasSlot(c) => c \in Writers
  BY CallerKinds DEF TurnsInv, Staged, HasSlot, Uploads
<1>8. OneSlot'
  BY <1>5, <1>6, <1>7 DEF TurnsInv, OneSlot
<1> QED BY <1>3, <1>4, <1>8

\* Every step.
LEMMA TurnsStep ==
  ASSUME TurnsInv, [ActionsNext]_actionsVars
  PROVE  TurnsInv'
<1>0. ActionsType'
  BY ActionsTypeStep DEF TurnsInv
<1> SUFFICES Staged' /\ OneSlot' /\ Paced'
  BY <1>0 DEF TurnsInv
<1> DEFINE Goal == Staged' /\ OneSlot' /\ Paced'
<1>1. CASE UNCHANGED actionsVars
  BY <1>1 DEF actionsVars, history, TurnsInv, Staged, OneSlot, Paced, HasSlot
<1>2. ASSUME NEW w \in Writers, TakeSlot(w) PROVE Goal
  <2> DEFINE record == [call[w] EXCEPT !.op = "pace", !.wait = nextWrite]
  <2>1. w \in Callers /\ call[w] \in CallType /\ nextWrite \in Nat
    BY CallerKinds DEF TurnsInv, ActionsType
  <2>2. record.op = "pace" /\ record.wait = nextWrite /\ record.stage = call[w].stage
    BY <2>1 DEF CallType
  <2>3. \A d \in Callers : call'[d] = IF d = w THEN record ELSE call[d]
    BY <1>2 DEF TakeSlot, TurnsInv, ActionsType
  <2>4. call[w].op = "slot" /\ call[w].stage = "none" /\ w \notin Readers
    BY <1>2, <2>1, CallerKinds DEF TakeSlot, TurnsInv, Staged, Queued
  <2>5. \A v \in Writers : ~HasSlot(v) /\ (HasSlot(v)' <=> v = w)
    <3>1. \A v \in Writers : ~HasSlot(v)
      BY <1>2 DEF TakeSlot, TurnsInv, OneSlot
    <3>2. ASSUME NEW v \in Writers PROVE HasSlot(v)' <=> v = w
      <4> HIDE DEF record
      <4> QED BY <2>1, <2>2, <2>3, <3>1, CallerKinds DEF HasSlot, Uploads
    <3> QED BY <3>1, <3>2
  <2> HIDE DEF record
  <2>6. Staged'
    BY <2>2, <2>3, <2>4 DEF TurnsInv, Staged, Queued
  <2>7. OneSlot'
    BY <1>2, <2>5 DEF TakeSlot, OneSlot
  <2>8. Paced'
    BY <1>2, <2>2, <2>3, CallerKinds DEF TakeSlot, TurnsInv, Paced, history
  <2> QED BY <2>6, <2>7, <2>8
<1>3. ASSUME NEW w \in Writers, LetThrough(w) PROVE Goal
  <2> DEFINE record == [call[w] EXCEPT !.op = "create", !.stage = "check", !.attempt = 0,
                                       !.wait = 0]
  <2>1. w \in Callers /\ call[w] \in CallType
    BY CallerKinds DEF TurnsInv, ActionsType
  <2>2. record.op = "create" /\ record.stage = "check"
    BY <2>1 DEF CallType
  <2>3. \A d \in Callers : call'[d] = IF d = w THEN record ELSE call[d]
    BY <1>3 DEF LetThrough, Request, TurnsInv, ActionsType
  <2>4. HasSlot(w) /\ w \notin Readers
    BY <1>3, CallerKinds DEF LetThrough, HasSlot
  <2> HIDE DEF record
  <2>5. \A v \in Writers : HasSlot(v)' <=> HasSlot(v)
    BY <2>1, <2>2, <2>3, <2>4, CallerKinds DEF HasSlot, Uploads
  <2>6. Staged'
    BY <2>2, <2>3, <2>4 DEF TurnsInv, Staged, Queued
  <2>7. OneSlot'
    BY <1>3, <2>5 DEF LetThrough, TurnsInv, OneSlot
  <2>8. \A v \in Writers : call'[v].op # "pace"
    <3> SUFFICES ASSUME NEW v \in Writers, call'[v].op = "pace" PROVE FALSE
      OBVIOUS
    <3>1. v # w /\ call[v].op = "pace"
      BY <2>2, <2>3, CallerKinds
    <3> QED BY <2>4, <3>1 DEF TurnsInv, OneSlot, HasSlot
  <2>9. Paced'
    BY <1>3, <2>8, CallerKinds DEF LetThrough, Paced
  <2> QED BY <2>6, <2>7, <2>9
<1>4. ASSUME NEW c \in Callers, Call(c) PROVE Goal
  <2>1. call[c].op = "idle" /\ ~HasSlot(c)
    BY <1>4 DEF Call, HasSlot, Uploads
  <2>2. ASSUME NEW op \in {"slot", "lookup"}, c \in Readers => op = "lookup",
               FirstRequest(c, op)
        PROVE  Goal
    <3> DEFINE record == [Idle EXCEPT !.op = op, !.left = Deadline,
                            !.stage = IF op = "slot" THEN "none" ELSE "check"]
    <3>1. record.op = op /\ record.stage = (IF op = "slot" THEN "none" ELSE "check")
      BY DEF Idle
    <3>2. record \in CallType
      BY CallerKinds DEF Idle, CallType, Queued, Requests
    <3>3. call' = [call EXCEPT ![c] = record]
      BY <2>2 DEF FirstRequest
    <3> HIDE DEF record
    <3>4. record.op \in Queued <=> record.stage = "none"
      BY <3>1 DEF Queued
    <3>5. record.op \notin {"pace"} \cup Uploads
      BY <3>1 DEF Uploads
    <3> QED BY <1>4, <2>1, <2>2, <3>1, <3>2, <3>3, <3>4, <3>5, SameSlot DEF Call, history
  <2> QED BY <1>4, <2>2, CallerKinds DEF Call
<1>5. ASSUME NEW c \in Callers, Return(c), UNCHANGED <<nextWrite, since>> PROVE Goal
  BY <1>5, ReturnTurns
<1>6. ASSUME NEW c \in Callers, NEW stage \in {"check", "send", "sent"}, taken' = taken,
             call[c].stage # "none", UNCHANGED <<nextWrite, since>>,
             call' = [call EXCEPT ![c].stage = stage]
      PROVE  Goal
  <2> DEFINE record == [call[c] EXCEPT !.stage = stage]
  <2>1. call[c] \in CallType
    BY DEF TurnsInv, ActionsType
  <2>2. record \in CallType /\ record.op = call[c].op /\ record.stage = stage
    BY <2>1 DEF CallType
  <2>3. call' = [call EXCEPT ![c] = record]
    BY <1>6
  <2>4. call[c].op \notin Queued /\ call[c].op # "pace"
    BY <1>6 DEF TurnsInv, Staged, Queued
  <2>5. c \in Readers => call[c].op \in {"idle", "lookup", "download"}
    BY DEF TurnsInv, Staged
  <2> HIDE DEF record
  <2> QED BY <1>6, <2>2, <2>3, <2>4, <2>5, SameSlot DEF HasSlot
<1>7. ASSUME NEW c \in Callers, Succeed(c) PROVE Goal
  <2>1. call[c].stage = "sent" /\ call[c] \in CallType
    BY <1>7 DEF Succeed, TurnsInv, ActionsType
  <2>2. call[c].op \notin Queued /\ call[c].op \in Requests
    BY <2>1 DEF TurnsInv, Staged, CallType
  <2>3. ASSUME NEW op \in Following[call[c].op], Request(c, op), UNCHANGED taken
        PROVE  Goal
    <3> DEFINE record == [call[c] EXCEPT !.op = op, !.stage = "check", !.attempt = 0,
                                         !.wait = 0]
    <3>1. (call[c].op \in Uploads <=> op \in Uploads) /\ op \in Requests
      BY <2>2, <2>3, FollowingType
    <3>2. record \in CallType /\ record.op = op /\ record.stage = "check"
      BY <2>1, <3>1 DEF CallType
    <3>3. call' = [call EXCEPT ![c] = record]
      BY <2>3 DEF Request
    <3> HIDE DEF record
    <3>4. op \notin Queued
      BY <3>1 DEF Requests, Queued, Uploads
    <3>5. c \in Readers => op \in {"lookup", "download"}
      BY <2>2, <3>1 DEF TurnsInv, Staged, Requests, Uploads
    <3>6. (op \in {"pace"} \cup Uploads <=> HasSlot(c)) /\ op # "pace"
      BY <2>2, <3>1, <3>4 DEF HasSlot, Queued
    <3> QED BY <1>7, <2>3, <3>2, <3>3, <3>4, <3>5, <3>6, SameSlot DEF Succeed, history
  <2> QED BY <1>5, <1>7, <2>3 DEF Succeed, history
<1>8. ASSUME NEW c \in Callers, Fail(c) PROVE Goal
  <2> DEFINE failures == call[c].attempt + 1
             record == [call[c] EXCEPT !.stage = "pause", !.attempt = failures,
                                       !.wait = failures]
  <2>1. call[c].stage = "sent" /\ call[c] \in CallType
    BY <1>8 DEF Fail, TurnsInv, ActionsType
  <2>2. record \in CallType /\ record.op = call[c].op /\ record.stage = "pause"
    <3>1. failures \in Nat
      BY <2>1 DEF CallType
    <3> QED BY <2>1, <3>1 DEF CallType
  <2>3. call[c].op \notin Queued /\ call[c].op # "pace"
    BY <2>1 DEF TurnsInv, Staged, Queued
  <2>4. c \in Readers => call[c].op \in {"idle", "lookup", "download"}
    BY DEF TurnsInv, Staged
  <2>5. CASE call' = [call EXCEPT ![c] = record] /\ UNCHANGED taken
    <3> HIDE DEF record
    <3> QED BY <1>8, <2>2, <2>3, <2>4, <2>5, SameSlot DEF Fail, HasSlot, history
  <2> QED BY <1>5, <1>8, <2>5 DEF Fail, history
<1>9. CASE ActionsTick
  <2>1. \A c \in Callers :
          /\ call'[c].op = call[c].op /\ call'[c].stage = call[c].stage
          /\ call'[c].wait = Less(call[c].wait)
    BY <1>9 DEF ActionsTick, TurnsInv, ActionsType, CallType
  <2>2. Staged'
    BY <2>1 DEF TurnsInv, Staged
  <2>3. OneSlot'
    <3>1. \A w \in Writers : HasSlot(w)' <=> HasSlot(w)
      BY <2>1, CallerKinds DEF HasSlot
    <3>2. taken' = taken
      BY <1>9 DEF ActionsTick
    <3> QED BY <3>1, <3>2 DEF TurnsInv, OneSlot
  <2>4. \A n \in Nat : n + since >= Interval => Less(n) + since' >= Interval
    <3>1. since' = IF since < Interval THEN since + 1 ELSE since
      BY <1>9 DEF ActionsTick
    <3> QED BY <3>1, CallerKinds DEF Less, TurnsInv, ActionsType
  <2>5. nextWrite \in Nat /\ \A c \in Callers : call[c].wait \in Nat
    BY DEF TurnsInv, ActionsType, CallType
  <2>6. Paced'
    <3>1. /\ nextWrite + since >= Interval
          /\ \A w \in Writers : call[w].op = "pace" => call[w].wait + since >= Interval
      BY DEF TurnsInv, Paced
    <3>2. nextWrite' + since' >= Interval
      BY <1>9, <2>4, <2>5, <3>1 DEF ActionsTick
    <3>3. ASSUME NEW w \in Writers, call'[w].op = "pace"
          PROVE  call'[w].wait + since' >= Interval
      <4>1. w \in Callers
        BY CallerKinds
      <4>2. call[w].wait + since >= Interval
        BY <2>1, <3>1, <3>3, <4>1
      <4> QED BY <2>1, <2>4, <2>5, <4>1, <4>2
    <3> QED BY <3>2, <3>3 DEF Paced
  <2> QED BY <2>2, <2>3, <2>6
<1>10. ASSUME NEW c \in Callers, CheckCooldown(c) \/ Send(c) \/ Resume(c) PROVE Goal
  BY <1>5, <1>6, <1>10 DEF CheckCooldown, Send, Resume, history
<1>11. ASSUME NEW c \in Callers, TimeOut(c) \/ Refused(c) \/ Limited(c) PROVE Goal
  BY <1>5, <1>11 DEF TimeOut, Refused, Limited, history
<1> QED BY <1>1, <1>2, <1>3, <1>4, <1>7, <1>8, <1>9, <1>10, <1>11 DEF ActionsNext

\* WritersTakeTurns for any goroutines and delays: the slot is neither shared nor
\* lost, and writes are an interval apart.
THEOREM TurnsTaken == ActionsSpec => []WritersTakeTurns
<1>1. TurnsInv => WritersTakeTurns
  <2> SUFFICES ASSUME TurnsInv PROVE WritersTakeTurns
    OBVIOUS
  <2> DEFINE H == {w \in Writers : HasSlot(w)}
  <2>1. CASE taken
    <3>1. PICK w \in Writers : HasSlot(w)
      BY <2>1 DEF TurnsInv, OneSlot
    <3>2. H = {w}
      BY <3>1 DEF TurnsInv, OneSlot
    <3> HIDE DEF H
    <3>3. Cardinality(H) = 1
      BY <3>2, FS_Singleton
    <3> QED BY <2>1, <3>3 DEF H, WritersTakeTurns, TurnsInv, Paced
  <2>2. CASE ~taken
    <3>1. H = {}
      BY <2>2 DEF TurnsInv, OneSlot
    <3> HIDE DEF H
    <3>2. Cardinality(H) = 0
      BY <3>1, FS_EmptySet
    <3> QED BY <2>2, <3>2 DEF H, WritersTakeTurns, TurnsInv, Paced
  <2> QED BY <2>1, <2>2
<1>2. ActionsInit => TurnsInv
  BY ActionsInitInv DEF PauseInv
<1>3. TurnsInv /\ [ActionsNext]_actionsVars => TurnsInv'
  BY TurnsStep
<1> QED BY <1>1, <1>2, <1>3, PTL DEF ActionsSpec

-----------------------------------------------------------------------------
(***************************************************************************)
(* Pauses.                                                                 *)
(***************************************************************************)
\* Nothing is sent and no pause asked for; no request passes the check.
LEMMA SamePause ==
  ASSUME Cooled, UNCHANGED <<cooldown, asked, late>>,
         \A c \in Callers : call'[c].stage = "send" => call[c].stage = "send"
  PROVE  Cooled'
  BY DEF Cooled

\* Every step.
LEMMA PauseStep ==
  ASSUME ActionsType, Staged, Cooled, [ActionsNext]_actionsVars
  PROVE  Cooled'
<1>0. \A c \in Callers : call[c] \in CallType
  BY DEF ActionsType
<1>1. CASE UNCHANGED actionsVars
  BY <1>1, SamePause DEF actionsVars, history
<1>2. ASSUME NEW c \in Callers, Return(c), UNCHANGED <<cooldown, asked, late>>
      PROVE  Cooled'
  <2>1. \A d \in Callers : call'[d] = IF d = c THEN Idle ELSE call[d]
    BY <1>2 DEF Return, ActionsType
  <2> QED BY <1>2, <2>1, SamePause DEF Idle
<1>3. ASSUME NEW w \in Writers, TakeSlot(w) \/ LetThrough(w) PROVE Cooled'
  <2>1. w \in Callers /\ call[w] \in CallType
    BY <1>0, CallerKinds
  <2>2. CASE TakeSlot(w)
    <3>1. call' = [call EXCEPT ![w] = [@ EXCEPT !.op = "pace", !.wait = nextWrite]]
      BY <2>2 DEF TakeSlot
    <3>2. \A d \in Callers : call'[d].stage = call[d].stage
      BY <2>1, <3>1 DEF ActionsType, CallType
    <3> QED BY <2>2, <3>2, SamePause DEF TakeSlot, history
  <2>3. CASE LetThrough(w)
    <3>1. \A d \in Callers : call'[d].stage \in {call[d].stage, "check"}
      BY <2>1, <2>3 DEF LetThrough, Request, ActionsType, CallType
    <3> QED BY <2>3, <3>1, SamePause DEF LetThrough
  <2> QED BY <1>3, <2>2, <2>3
<1>4. ASSUME NEW c \in Callers, Call(c) PROVE Cooled'
  <2>1. \A d \in Callers : call'[d].stage \in {call[d].stage, "check", "none"}
    <3>1. PICK op \in {"slot", "lookup"} : FirstRequest(c, op)
      BY <1>4 DEF Call
    <3> DEFINE first == [Idle EXCEPT !.op = op, !.left = Deadline,
                                     !.stage = IF op = "slot" THEN "none" ELSE "check"]
    <3>2. first.stage \in {"check", "none"}
      BY DEF Idle
    <3>3. call' = [call EXCEPT ![c] = first]
      BY <3>1 DEF FirstRequest
    <3> HIDE DEF first
    <3> QED BY <3>2, <3>3 DEF ActionsType
  <2> QED BY <1>4, <2>1, SamePause DEF Call, history
<1>5. ASSUME NEW c \in Callers, CheckCooldown(c) PROVE Cooled'
  <2>1. CASE Return(c)
    BY <1>2, <1>5, <2>1 DEF CheckCooldown, history
  <2>2. CASE cooldown = 0 /\ call' = [call EXCEPT ![c].stage = "send"]
    <3>1. \A d \in Callers : late[d] = 0
      BY <2>2 DEF Cooled
    <3> QED BY <1>5, <2>2, <3>1 DEF CheckCooldown, Cooled, history
  <2> QED BY <1>5, <2>1, <2>2 DEF CheckCooldown, MayAttempt
<1>6. ASSUME NEW c \in Callers, Send(c) PROVE Cooled'
  <2>1. \A d \in Callers : call'[d].stage = IF d = c THEN "sent" ELSE call[d].stage
    BY <1>0, <1>6 DEF Send, ActionsType, CallType
  <2>2. late[c] = 0
    BY <1>6 DEF Send, Cooled
  <2>3. CASE asked > 0
    <3>1. late' = [late EXCEPT ![c] = @ + 1]
      BY <1>6, <2>3 DEF Send
    <3>2. \A d \in Callers : late'[d] = IF d = c THEN 1 ELSE late[d]
      BY <2>2, <3>1 DEF ActionsType
    <3> QED BY <1>6, <2>1, <2>3, <3>2 DEF Send, Cooled, ActionsType
  <2>4. CASE ~(asked > 0)
    BY <1>6, <2>1, <2>4, SamePause DEF Send
  <2> QED BY <2>3, <2>4
<1>7. ASSUME NEW c \in Callers, Succeed(c) \/ Fail(c) \/ Resume(c) PROVE Cooled'
  <2>1. CASE Return(c)
    BY <1>2, <1>7, <2>1 DEF Succeed, Fail, Resume, history
  <2>2. CASE \A d \in Callers : call'[d].stage \in {call[d].stage, "check", "pause"}
    BY <1>7, <2>2, SamePause DEF Succeed, Fail, Resume, history
  <2>3. ASSUME NEW op, Request(c, op)
        PROVE  \A d \in Callers : call'[d].stage \in {call[d].stage, "check", "pause"}
    BY <1>0, <2>3 DEF Request, ActionsType, CallType
  <2>4. ASSUME Fail(c), ~Return(c)
        PROVE  \A d \in Callers : call'[d].stage \in {call[d].stage, "check", "pause"}
    <3>1. PICK failures : call' = [call EXCEPT ![c] = [@ EXCEPT !.stage = "pause",
                                               !.attempt = failures, !.wait = failures]]
      BY <2>4 DEF Fail
    <3> QED BY <1>0, <3>1 DEF ActionsType, CallType
  <2>5. ASSUME Resume(c)
        PROVE  \A d \in Callers : call'[d].stage \in {call[d].stage, "check", "pause"}
    BY <1>0, <2>5 DEF Resume, ActionsType, CallType
  <2> QED BY <1>7, <2>1, <2>2, <2>3, <2>4, <2>5 DEF Succeed
<1>8. ASSUME NEW c \in Callers, TimeOut(c) \/ Refused(c) PROVE Cooled'
  BY <1>2, <1>8 DEF TimeOut, Refused, history
<1>9. ASSUME NEW c \in Callers, Limited(c) PROVE Cooled'
  <2>1. PICK delay \in 1..MaxDelay : /\ cooldown' = Later(cooldown, delay)
                                     /\ asked' = Later(asked, delay)
    BY <1>9 DEF Limited
  <2>2. cooldown' = asked' /\ asked' # 0
    BY <2>1, CallerKinds DEF Later, Cooled, ActionsType
  <2>3. \A d \in Callers : call'[d].stage \in {call[d].stage, "none"}
    BY <1>9 DEF Limited, Return, Idle, ActionsType
  <2> QED BY <1>9, <2>2, <2>3 DEF Limited, Cooled
<1>10. CASE ActionsTick
  <2>1. \A d \in Callers : call'[d].stage = call[d].stage
    BY <1>0, <1>10 DEF ActionsTick, CallType
  <2>2. cooldown' = asked' /\ asked' = Less(asked) /\ asked \in Nat
    BY <1>10 DEF ActionsTick, Cooled, ActionsType
  <2>3. CASE asked <= 1
    <3>1. \A d \in Callers : late'[d] = 0
      BY <1>10, <2>3 DEF ActionsTick
    <3> QED BY <2>2, <3>1 DEF Cooled
  <2>4. CASE ~(asked <= 1)
    <3>1. late' = late
      BY <1>10, <2>4 DEF ActionsTick
    <3>2. asked' # 0
      BY <2>2, <2>4 DEF Less
    <3> QED BY <2>1, <2>2, <3>1, <3>2 DEF Cooled
  <2> QED BY <2>3, <2>4
<1> QED BY <1>1, <1>3, <1>4, <1>5, <1>6, <1>7, <1>8, <1>9, <1>10 DEF ActionsNext

\* PauseRespected for any goroutines and delays: during a pause each sends at most
\* the request it had checked before.
THEOREM PausesRespected == ActionsSpec => []PauseRespected
<1>1. ActionsInit => PauseInv
  BY ActionsInitInv
<1>2. PauseInv /\ [ActionsNext]_actionsVars => PauseInv'
  BY TurnsStep, PauseStep DEF PauseInv, TurnsInv
<1>3. PauseInv => PauseRespected
  BY DEF PauseInv, Cooled, PauseRespected
<1> QED BY <1>1, <1>2, <1>3, PTL DEF ActionsSpec
=============================================================================
