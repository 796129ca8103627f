---------------------------- MODULE ActionsCache ----------------------------
(***************************************************************************)
(* actionsCache: the client of the coordination store, below poolBus.      *)
(* Goroutines of one process write records, one at a time and paced, and   *)
(* read them; their requests share a cooldown, are retried while the       *)
(* service fails, and end with the deadline of their call. Every time is   *)
(* what is left of it; ActionsTick lets time pass. What the service does   *)
(* with a record is left out: any request may succeed, fail, be refused or *)
(* be limited.                                                             *)
(***************************************************************************)
EXTENDS Naturals, FiniteSets

CONSTANTS
  Writers, Readers,  \* goroutines that publish records, and that look them up
  Deadline,          \* time of a call
  Interval,          \* writeInterval
  MaxDelay,          \* longest pause the service asks for
  Attempts           \* of a request

ASSUME ClientAssumption ==
  /\ Writers \cap Readers = {}
  /\ {Deadline, Interval, MaxDelay, Attempts} \subseteq Nat \ {0}

VARIABLES
  cooldown,   \* until c.cooldown
  taken,      \* c.writes is full
  nextWrite,  \* until c.nextWrite
  call,       \* what each goroutine is at
  asked,      \* history: until the last pause the service asked for ends
  late,       \* history: requests each goroutine sent in spite of it
  since       \* history: time since a writer was last let through

history == <<asked, late, since>>
actionsVars == <<cooldown, taken, nextWrite, call, history>>

Callers == Writers \cup Readers
Uploads == {"create", "put", "finalize"}
Idle == [op |-> "idle", stage |-> "none", attempt |-> 0, left |-> 0, wait |-> 0]
Later(s, t) == IF s > t THEN s ELSE t
Less(t) == IF t = 0 THEN 0 ELSE t - 1

ActionsInit ==
  /\ cooldown = 0 /\ taken = FALSE /\ nextWrite = 0
  /\ call = [c \in Callers |-> Idle]
  /\ asked = 0 /\ late = [c \in Callers |-> 0] /\ since = Interval

-----------------------------------------------------------------------------
(***************************************************************************)
(* A call: Write takes the slot, waits for its turn and makes three        *)
(* requests; Read makes one or two.                                        *)
(***************************************************************************)
FirstRequest(c, op) ==
  call' = [call EXCEPT ![c] = [Idle EXCEPT !.op = op, !.left = Deadline,
                               !.stage = IF op = "slot" THEN "none" ELSE "check"]]

Call(c) ==
  /\ call[c].op = "idle"
  /\ \/ c \in Writers /\ FirstRequest(c, "slot")
     \/ c \in Readers /\ FirstRequest(c, "lookup")
  /\ UNCHANGED <<cooldown, taken, nextWrite, history>>

Request(c, op) ==
  call' = [call EXCEPT ![c] = [@ EXCEPT !.op = op, !.stage = "check", !.attempt = 0,
                                        !.wait = 0]]

HasSlot(c) == call[c].op \in {"pace"} \cup Uploads

\* Mutant of Releases: a writer that timed out before it had the slot releases
\* it too.
ReleasesQueued(c) == call[c].op = "slot" \/ HasSlot(c)

Releases(c) == HasSlot(c)

\* The call returns; a writer leaves the slot.
Return(c) ==
  /\ call' = [call EXCEPT ![c] = Idle]
  /\ taken' = (taken /\ ~Releases(c))

\* beginWrite: the slot, then the time of the next write.
TakeSlot(w) ==
  /\ call[w].op = "slot" /\ ~taken
  /\ taken' = TRUE
  /\ call' = [call EXCEPT ![w] = [@ EXCEPT !.op = "pace", !.wait = nextWrite]]
  /\ UNCHANGED <<cooldown, nextWrite, history>>

LetThrough(w) ==
  /\ call[w].op = "pace" /\ call[w].wait = 0
  /\ nextWrite' = Interval /\ since' = 0
  /\ Request(w, "create")
  /\ UNCHANGED <<cooldown, taken, asked, late>>

\* The deadline, while waiting for the slot, for the turn or to try again.
TimeOut(c) ==
  /\ call[c].left = 0
  /\ call[c].op \in {"slot", "pace"} \/ call[c].stage = "pause"
  /\ Return(c)
  /\ UNCHANGED <<cooldown, nextWrite, history>>

-----------------------------------------------------------------------------
(***************************************************************************)
(* A request. Nothing is held between looking at the cooldown and sending. *)
(***************************************************************************)
\* Mutant of MayAttempt: only the first attempt looks at the cooldown.
MayAttemptAgain(c) == cooldown = 0 \/ call[c].attempt > 0

MayAttempt(c) == cooldown = 0

CheckCooldown(c) ==
  /\ call[c].stage = "check"
  /\ IF MayAttempt(c)
     THEN call' = [call EXCEPT ![c].stage = "send"] /\ UNCHANGED taken
     ELSE Return(c)
  /\ UNCHANGED <<cooldown, nextWrite, history>>

Send(c) ==
  /\ call[c].stage = "send"
  /\ call' = [call EXCEPT ![c].stage = "sent"]
  /\ late' = IF asked > 0 THEN [late EXCEPT ![c] = @ + 1] ELSE late
  /\ UNCHANGED <<cooldown, taken, nextWrite, asked, since>>

\* The expected answer: the next request of the call, or its end. A lookup may
\* find nothing, or what the caller has.
Following ==
  [create |-> {"put"}, put |-> {"finalize"}, finalize |-> {}, lookup |-> {"download"},
   download |-> {}]

Succeed(c) ==
  /\ call[c].stage = "sent"
  /\ \/ \E op \in Following[call[c].op] : Request(c, op) /\ UNCHANGED taken
     \/ call[c].op \in {"finalize", "lookup", "download"} /\ Return(c)
  /\ UNCHANGED <<cooldown, nextWrite, history>>

\* The transport or the service failed: another attempt, after a pause.
Fail(c) ==
  /\ call[c].stage = "sent"
  /\ IF call[c].attempt < Attempts - 1
     THEN LET failures == call[c].attempt + 1
          IN  /\ call' = [call EXCEPT ![c] = [@ EXCEPT !.stage = "pause",
                                               !.attempt = failures, !.wait = failures]]
              /\ UNCHANGED taken
     ELSE Return(c)
  /\ UNCHANGED <<cooldown, nextWrite, history>>

Resume(c) ==
  /\ call[c].stage = "pause" /\ call[c].wait = 0
  /\ call' = [call EXCEPT ![c].stage = "check"]
  /\ UNCHANGED <<cooldown, taken, nextWrite, history>>

\* Another status, an answer that is not ok or one that cannot be read.
Refused(c) ==
  /\ call[c].stage = "sent"
  /\ Return(c)
  /\ UNCHANGED <<cooldown, nextWrite, history>>

\* The service asks everybody to pause.
Limited(c) ==
  /\ call[c].stage = "sent"
  /\ \E delay \in 1..MaxDelay :
       /\ cooldown' = Later(cooldown, delay)
       /\ asked' = Later(asked, delay)
  /\ Return(c)
  /\ UNCHANGED <<nextWrite, late, since>>

-----------------------------------------------------------------------------
ActionsTick ==
  /\ cooldown' = Less(cooldown) /\ nextWrite' = Less(nextWrite)
  /\ call' = [c \in Callers |-> [call[c] EXCEPT !.left = Less(@), !.wait = Less(@)]]
  /\ asked' = Less(asked)
  /\ late' = IF asked <= 1 THEN [c \in Callers |-> 0] ELSE late
  /\ since' = IF since < Interval THEN since + 1 ELSE since
  /\ UNCHANGED taken

ActionsNext ==
  \/ \E w \in Writers : TakeSlot(w) \/ LetThrough(w)
  \/ \E c \in Callers :
       \/ Call(c) \/ TimeOut(c) \/ CheckCooldown(c) \/ Send(c)
       \/ Succeed(c) \/ Fail(c) \/ Resume(c) \/ Refused(c) \/ Limited(c)
  \/ ActionsTick

ActionsSpec == ActionsInit /\ [][ActionsNext]_actionsVars

-----------------------------------------------------------------------------
(***************************************************************************)
(* Properties.                                                             *)
(***************************************************************************)

\* The slot is taken exactly while one writer has it, however calls time out,
\* so it is neither shared nor lost; and whoever has it is let through a
\* writeInterval after the writer before, or later, whatever became of that one.
WritersTakeTurns ==
  /\ Cardinality({w \in Writers : HasSlot(w)}) = IF taken THEN 1 ELSE 0
  /\ \A w \in Writers : call[w].op = "pace" => call[w].wait + since >= Interval

\* A pause the service asks of one goroutine holds for all: each sends at most
\* the one request it had checked before, also if it is retrying.
PauseRespected == \A c \in Callers : late[c] <= 1
=============================================================================
