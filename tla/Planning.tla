------------------------------ MODULE Planning ------------------------------
(***************************************************************************)
(* Plan.Batches: the topological order in which a plan's missing           *)
(* derivations are built and which rejects a cyclic plan and one that does *)
(* not hold all its inputs, for every graph over Nodes and every set of    *)
(* missing derivations; and, of the graphs it accepts, the scheduler's     *)
(* view of them (module Scheduling).                                       *)
(*                                                                         *)
(* Derivations are numbers, ordered as their names are.                    *)
(***************************************************************************)
EXTENDS Scheduling, Sequences

CONSTANTS Nodes,   \* the derivations of the plan, a set of numbers
          Absent,  \* derivations it may name as inputs but does not hold
          Limit    \* the size of a batch

ASSUME PlanAssumption ==
  /\ Nodes \in SUBSET Nat /\ IsFiniteSet(Nodes) /\ Absent \cap Nodes = {}
  /\ Limit \in Nat \ {0}

VARIABLES inputDrvs,  \* the plan: Derivations[drv].InputDrvs
          missing,    \* the derivations to build
          counts,     \* inputs not yet visited
          ready,      \* derivations all of whose inputs were visited
          ordered,    \* missing derivations in visiting order
          visited,    \* how many derivations were visited
          pc          \* "visit" | "ordered" | "cyclic" | "incomplete"

vars == <<inputDrvs, missing, counts, ready, ordered, visited, pc>>

HoldsInputs == \A d \in Nodes : inputDrvs[d] \subseteq Nodes

\* A plan that does not hold an input is an error before the first visit,
\* whatever is missing of it.
Init ==
  /\ inputDrvs \in [Nodes -> SUBSET (Nodes \cup Absent)]
  /\ \/ HoldsInputs /\ missing \in SUBSET Nodes /\ pc = "visit"
     \/ ~HoldsInputs /\ missing = {} /\ pc = "incomplete"
  /\ counts = [d \in Nodes |-> Cardinality(inputDrvs[d])]
  /\ ready = { d \in Nodes : inputDrvs[d] = {} }
  /\ ordered = <<>> /\ visited = 0

\* Mutant of BecomesReady: one visited input is enough.
BecomesReadyEarly(c) == counts[c] > 0

\* The last unvisited input of c is being visited.
BecomesReady(c) == counts[c] = 1

Visit ==
  /\ pc = "visit" /\ ready # {}
  /\ LET d == CHOOSE m \in ready : \A o \in ready : m <= o
         consumers == Consumers(inputDrvs, d)
     IN  /\ counts' = [c \in Nodes |->
                         IF c \in consumers THEN counts[c] - 1 ELSE counts[c]]
         /\ ready' = (ready \ {d}) \cup { c \in consumers : BecomesReady(c) }
         /\ ordered' = IF d \in missing THEN Append(ordered, d) ELSE ordered
  /\ visited' = visited + 1
  /\ UNCHANGED <<inputDrvs, missing, pc>>

\* Mutant of IsComplete: a plan is accepted once the missing derivations are in
\* the order.
IsCompleteMissing == Len(ordered) = Cardinality(missing)

IsComplete == visited = Cardinality(Nodes)

Stop ==
  /\ pc = "visit" /\ ready = {}
  /\ pc' = IF IsComplete THEN "ordered" ELSE "cyclic"
  /\ UNCHANGED <<inputDrvs, missing, counts, ready, ordered, visited>>

Finished == pc # "visit" /\ UNCHANGED vars

Next == Visit \/ Stop \/ Finished

Spec == Init /\ [][Next]_vars

\* The order cut into batches of at most Limit derivations.
BatchCount == (Len(ordered) + Limit - 1) \div Limit
Batch(k) == SubSeq(ordered, (k - 1) * Limit + 1,
                   IF k * Limit <= Len(ordered) THEN k * Limit ELSE Len(ordered))

-----------------------------------------------------------------------------
Deps == [d \in missing |-> PoolDependencies(inputDrvs, missing, d)]

\* e is reached from d in the graph (reference definition: a set of nodes that
\* contains d's inputs and is closed under inputs contains e).
Reaches(graph, d, e) ==
  \A S \in SUBSET DOMAIN graph :
    graph[d] \subseteq S /\ (\A x \in S : graph[x] \subseteq S) => e \in S

\* Of the plans that hold their inputs the cyclic ones are rejected, cycles of
\* cached derivations included, and no other: otherwise a build would wait for
\* itself, or a sound plan would not be built (reference definition: a plan is
\* cyclic when some derivations each take another of them as an input).
RejectsExactlyCycles ==
  pc \in {"ordered", "cyclic"} =>
    (pc = "cyclic" <=> \E S \in (SUBSET Nodes) \ {{}} :
                          \A d \in S : inputDrvs[d] \cap S # {})

\* Batches are built one after the other by nix: whatever a derivation of a
\* batch needs, through cached derivations too, is in that batch or before it,
\* and every missing derivation is in exactly one batch.
BatchesInOrder ==
  pc = "ordered" =>
    /\ \A d \in missing :
         Cardinality({ k \in 1..BatchCount :
                         \E i \in DOMAIN Batch(k) : Batch(k)[i] = d }) = 1
    /\ \A k, l \in 1..BatchCount :
         \A i \in DOMAIN Batch(k), j \in DOMAIN Batch(l) :
           Reaches(inputDrvs, Batch(k)[i], Batch(l)[j]) => l <= k

\* Waiting for the nearest scheduled derivations is waiting for all of them:
\* what a derivation needs through any chain of inputs, cached ones included, is
\* needed through a chain of waits, and nothing else is waited for.
WaitsForEveryInput ==
  pc = "ordered" =>
    \A d, e \in missing : Reaches(inputDrvs, d, e) <=> Reaches(Deps, d, e)

\* The priority of a derivation is the length of the longest chain of waits
\* that starts at it, so a derivation is always more urgent than what waits for
\* it (reference definition: the largest set linearly ordered by waiting).
PrioritiesAreChains ==
  pc = "ordered" =>
    \A d \in missing :
      LET waits == { p \in missing \X missing : Reaches(Deps, p[1], p[2]) }
          chains == { S \in SUBSET missing :
                        /\ d \in S
                        /\ \A x \in S : x = d \/ <<x, d>> \in waits
                        /\ \A x, y \in S :
                             x = y \/ <<x, y>> \in waits \/ <<y, x>> \in waits }
          sizes == { Cardinality(S) : S \in chains }
      IN  PoolPriorities(Deps)[d] \in sizes
            /\ \A n \in sizes : n <= PoolPriorities(Deps)[d]
=============================================================================
