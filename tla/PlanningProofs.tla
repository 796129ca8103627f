--------------------------- MODULE PlanningProofs ---------------------------
(***************************************************************************)
(* Proofs about Planning, for every plan: of those that hold their inputs  *)
(* Plan.Batches rejects the cyclic ones and no other, which is what        *)
(* Scheduler assumes of its plan.                                          *)
(***************************************************************************)
EXTENDS Planning, Induction

\* Derivations each of which takes another of them as an input.
Cycle(S) == \A d \in S : inputDrvs[d] \cap S # {}

(***************************************************************************)
(* V is the set of visited derivations: closed under inputs, so disjoint   *)
(* from every cycle. `counts' has what is left of the inputs.              *)
(***************************************************************************)
Progress(V) ==
  /\ visited = Cardinality(V)
  /\ ready = { d \in Nodes \ V : inputDrvs[d] \subseteq V }
  /\ counts = [d \in Nodes |-> Cardinality(inputDrvs[d] \ V)]
  /\ \A d \in V : inputDrvs[d] \subseteq V
  /\ \A S \in SUBSET Nodes : Cycle(S) => S \cap V = {}

\* The order so far: the missing derivations visited, each after all it needs.
Ordered(V) ==
  /\ ordered \in Seq(missing)
  /\ \A d \in missing : d \in V <=> \E i \in 1..Len(ordered) : ordered[i] = d
  /\ \A i, j \in 1..Len(ordered) :
       /\ ordered[i] = ordered[j] => i = j
       /\ Reaches(inputDrvs, ordered[i], ordered[j]) => j < i

Verdict ==
  /\ pc \in {"visit", "ordered", "cyclic"}
  /\ pc # "visit" => ready = {} /\ (pc = "ordered" <=> IsComplete)

PlanInv ==
  pc # "incomplete" =>
    /\ inputDrvs \in [Nodes -> SUBSET Nodes] /\ missing \in SUBSET Nodes
    /\ \E V \in SUBSET Nodes : Progress(V) /\ Ordered(V)
    /\ Verdict

\* Something ready is the first by name.
LEMMA FirstIsReady ==
  ASSUME NEW R \in SUBSET Nodes, R # {}
  PROVE  (CHOOSE m \in R : \A o \in R : m <= o) \in R
<1>1. R \in SUBSET Nat
  BY PlanAssumption
<1>2. \E m \in R : \A o \in R : m <= o
  BY <1>1, LeastNumber
<1> QED BY <1>2

\* At first nothing is visited, and what has no inputs is ready.
LEMMA PlanInit == Init => PlanInv
<1> SUFFICES ASSUME Init, pc # "incomplete" PROVE PlanInv
  BY DEF PlanInv
<1>1. /\ inputDrvs \in [Nodes -> SUBSET Nodes] /\ missing \in SUBSET Nodes
      /\ Ordered({}) /\ Verdict
  BY DEF Init, HoldsInputs, Verdict, Ordered
<1>2. Progress({})
  <2>1. Cardinality({}) = 0
    BY FS_EmptySet
  <2>2. \A d \in Nodes : inputDrvs[d] \ {} = inputDrvs[d]
    OBVIOUS
  <2> QED BY <2>1, <2>2 DEF Init, Progress
<1> QED BY <1>1, <1>2 DEF PlanInv

\* A visit adds the first ready derivation to those visited.
LEMMA VisitStep ==
  ASSUME PlanInv, Visit
  PROVE  PlanInv'
<1> pc # "incomplete"
  BY DEF Visit
<1>1. PICK V \in SUBSET Nodes : Progress(V) /\ Ordered(V)
  BY DEF PlanInv
<1>2. ready \in SUBSET Nodes /\ ready # {}
  BY <1>1 DEF Progress, Visit
<1>3. PICK d \in ready : d = CHOOSE m \in ready : \A o \in ready : m <= o
  BY <1>2, FirstIsReady
<1>4. /\ inputDrvs \in [Nodes -> SUBSET Nodes]
      /\ inputDrvs' = inputDrvs /\ pc' = "visit" /\ visited' = visited + 1
      /\ missing' = missing /\ missing \in SUBSET Nodes
      /\ ordered' = IF d \in missing THEN Append(ordered, d) ELSE ordered
      /\ counts' = [c \in Nodes |-> IF c \in Consumers(inputDrvs, d)
                                    THEN counts[c] - 1 ELSE counts[c]]
      /\ ready' = (ready \ {d}) \cup { c \in Consumers(inputDrvs, d) : BecomesReady(c) }
  BY <1>3 DEF Visit, PlanInv
<1>0. PICK W : W = V \cup {d}
  OBVIOUS
<1>5. /\ d \in Nodes /\ d \notin V /\ inputDrvs[d] \subseteq V
      /\ Consumers(inputDrvs, d) = { c \in Nodes : d \in inputDrvs[c] }
  BY <1>1, <1>3, <1>4 DEF Progress, Consumers
<1>6. IsFiniteSet(V) /\ \A c \in Nodes : IsFiniteSet(inputDrvs[c] \ V)
  <2>1. \A T \in SUBSET Nodes : IsFiniteSet(T)
    BY PlanAssumption, FS_Subset
  <2> QED BY <1>4, <2>1
<1>7. visited' = Cardinality(W)
  BY <1>0, <1>1, <1>4, <1>5, <1>6, FS_AddElement DEF Progress
<1>8. \A c \in Nodes : d \in inputDrvs[c] =>
        Cardinality(inputDrvs[c] \ W) = Cardinality(inputDrvs[c] \ V) - 1
  <2> SUFFICES ASSUME NEW c \in Nodes, d \in inputDrvs[c]
               PROVE  Cardinality(inputDrvs[c] \ W) = Cardinality(inputDrvs[c] \ V) - 1
    OBVIOUS
  <2>1. inputDrvs[c] \ W = (inputDrvs[c] \ V) \ {d} /\ d \in inputDrvs[c] \ V
    BY <1>0, <1>5
  <2>2. Cardinality((inputDrvs[c] \ V) \ {d}) = Cardinality(inputDrvs[c] \ V) - 1
    BY <1>6, <2>1, FS_RemoveElement
  <2> QED BY <2>1, <2>2
<1>9. \A c \in Nodes : d \notin inputDrvs[c] => inputDrvs[c] \ W = inputDrvs[c] \ V
  BY <1>0
<1>10. counts' = [c \in Nodes |-> Cardinality(inputDrvs[c] \ W)]
  <2> DEFINE New == [c \in Nodes |-> Cardinality(inputDrvs[c] \ W)]
  <2>1. \A c \in Nodes : counts'[c] = New[c]
    BY <1>1, <1>4, <1>5, <1>8, <1>9 DEF Progress
  <2>2. counts' = [c \in Nodes |-> counts'[c]]
    BY <1>4
  <2> QED BY <2>1, <2>2
<1>11. \A c \in Nodes : d \in inputDrvs[c] =>
         (BecomesReady(c) <=> c \notin W /\ inputDrvs[c] \subseteq W)
  <2> SUFFICES ASSUME NEW c \in Nodes, d \in inputDrvs[c]
               PROVE  BecomesReady(c) <=> c \notin W /\ inputDrvs[c] \subseteq W
    OBVIOUS
  <2>1. c \notin W
    BY <1>0, <1>1, <1>5 DEF Progress
  <2>2. BecomesReady(c) <=> Cardinality(inputDrvs[c] \ W) = 0
    <3>1. Cardinality(inputDrvs[c] \ V) \in Nat
      BY <1>6, FS_CardinalityType
    <3>2. counts[c] = Cardinality(inputDrvs[c] \ V)
      BY <1>1 DEF Progress
    <3> QED BY <1>8, <3>1, <3>2 DEF BecomesReady
  <2>3. IsFiniteSet(inputDrvs[c] \ W)
    <3>1. inputDrvs[c] \ W \in SUBSET (inputDrvs[c] \ V)
      BY <1>0
    <3> QED BY <1>6, <3>1, FS_Subset
  <2>4. Cardinality(inputDrvs[c] \ W) = 0 <=> inputDrvs[c] \subseteq W
    BY <2>3, FS_EmptySet
  <2> QED BY <2>1, <2>2, <2>4
<1>12. ready' = { c \in Nodes \ W : inputDrvs[c] \subseteq W }
  <2>1. ready = { c \in Nodes \ V : inputDrvs[c] \subseteq V }
    BY <1>1 DEF Progress
  <2>2. \A c \in Nodes : d \notin inputDrvs[c] =>
          (c \in ready \ {d} <=> c \notin W /\ inputDrvs[c] \subseteq W)
    BY <1>0, <2>1
  <2>3. \A c \in Nodes : d \in inputDrvs[c] => c \notin ready
    BY <1>5, <2>1
  <2>4. ready' = (ready \ {d}) \cup { c \in Nodes : d \in inputDrvs[c] /\ BecomesReady(c) }
    BY <1>4, <1>5
  <2> QED BY <1>0, <1>2, <1>11, <2>2, <2>3, <2>4
<1>13. \A c \in W : inputDrvs[c] \subseteq W
  BY <1>0, <1>1, <1>5 DEF Progress
<1>14. \A S \in SUBSET Nodes : Cycle(S) => S \cap W = {}
  <2> SUFFICES ASSUME NEW S \in SUBSET Nodes, Cycle(S) PROVE S \cap W = {}
    OBVIOUS
  <2>1. S \cap V = {}
    BY <1>1 DEF Progress
  <2>2. d \notin S
    BY <1>5, <2>1 DEF Cycle
  <2> QED BY <1>0, <2>1, <2>2
<1>15. W \in SUBSET Nodes
  BY <1>0, <1>5
<1>16. Progress(W)'
  BY <1>4, <1>7, <1>10, <1>12, <1>13, <1>14 DEF Progress, Cycle
<1>17. Verdict'
  BY <1>4 DEF Verdict
<1>18. Ordered(W)'
  <2>1. \A e \in Nodes : Reaches(inputDrvs, d, e) => e \in V
    <3>1. \A x \in V : inputDrvs[x] \subseteq V
      BY <1>1 DEF Progress
    <3> QED BY <1>4, <1>5, <3>1 DEF Reaches
  <2>2. \A c \in V : \A e \in Nodes : Reaches(inputDrvs, c, e) => e \in V
    <3>1. \A x \in V : inputDrvs[x] \subseteq V
      BY <1>1 DEF Progress
    <3> QED BY <1>4, <3>1 DEF Reaches
  <2>3. CASE d \notin missing
    BY <1>0, <1>1, <1>4, <2>3 DEF Ordered
  <2>4. CASE d \in missing
    <3> DEFINE n == Len(ordered)
    <3>1. ordered \in Seq(missing) /\ n \in Nat /\ ordered' = Append(ordered, d)
      BY <1>1, <1>4, <2>4 DEF Ordered
    <3>2. /\ ordered' \in Seq(missing) /\ Len(ordered') = n + 1 /\ ordered'[n + 1] = d
          /\ \A i \in 1..n : ordered'[i] = ordered[i]
      BY <2>4, <3>1
    <3>3. \A i \in 1..n : ordered[i] \in V /\ ordered[i] # d /\ ordered[i] \in Nodes
      BY <1>1, <1>4, <1>5, <3>1 DEF Ordered
    <3>4. \A i \in 1..(n + 1) : i \in 1..n \/ i = n + 1
      BY <3>1
    <3>5. \A e \in missing : e \in W <=> \E i \in 1..(n + 1) : ordered'[i] = e
      <4>1. \A e \in missing : e \in V <=> \E i \in 1..n : ordered[i] = e
        BY <1>1 DEF Ordered
      <4> QED BY <1>0, <3>1, <3>2, <3>4, <4>1
    <3>6. ASSUME NEW i \in 1..(n + 1), NEW j \in 1..(n + 1)
          PROVE  /\ ordered'[i] = ordered'[j] => i = j
                 /\ Reaches(inputDrvs, ordered'[i], ordered'[j]) => j < i
      <4>1. CASE i \in 1..n /\ j \in 1..n
        BY <1>1, <3>2, <4>1 DEF Ordered
      <4>2. CASE i = n + 1 /\ j \in 1..n
        BY <3>1, <3>2, <3>3, <4>2
      <4>3. CASE i \in 1..n /\ j = n + 1
        <5>1. ~Reaches(inputDrvs, ordered[i], d)
          BY <1>5, <2>2, <3>3, <4>3
        <5> QED BY <3>2, <3>3, <4>3, <5>1
      <4>4. CASE i = n + 1 /\ j = n + 1
        <5>1. ~Reaches(inputDrvs, d, d)
          BY <1>5, <2>1
        <5> QED BY <3>2, <4>4, <5>1
      <4> QED BY <3>4, <4>1, <4>2, <4>3, <4>4
    <3> HIDE DEF n
    <3> QED BY <1>4, <3>2, <3>5, <3>6 DEF Ordered
  <2> QED BY <2>3, <2>4
<1> QED BY <1>4, <1>15, <1>16, <1>17, <1>18 DEF PlanInv

\* The verdict is taken when nothing is ready, and stays.
LEMMA PlanStep == PlanInv /\ [Next]_vars => PlanInv'
<1> SUFFICES ASSUME PlanInv, [Next]_vars PROVE PlanInv'
  OBVIOUS
<1>1. CASE Visit
  BY <1>1, VisitStep
<1>2. CASE Stop \/ Finished \/ UNCHANGED vars
  <2> SUFFICES ASSUME pc' # "incomplete" PROVE PlanInv'
    BY DEF PlanInv
  <2>1. /\ UNCHANGED <<inputDrvs, missing, counts, ready, ordered, visited>>
        /\ pc # "incomplete"
    BY <1>2 DEF Stop, Finished, vars
  <2>2. PICK V \in SUBSET Nodes : Progress(V) /\ Ordered(V)
    BY <2>1 DEF PlanInv
  <2>3. Progress(V)' /\ Ordered(V)'
    BY <2>1, <2>2 DEF Progress, Cycle, Ordered
  <2>4. Verdict'
    BY <1>2, <2>1 DEF PlanInv, Verdict, Stop, Finished, vars, IsComplete
  <2> QED BY <2>1, <2>3, <2>4 DEF PlanInv
<1> QED BY <1>1, <1>2 DEF Next

\* RejectsExactlyCycles for every plan that holds its inputs, cycles of cached
\* derivations included: when nothing is ready, each derivation not visited has an
\* input that is not either; and what is visited is in no cycle.
THEOREM CyclesRejected == Spec => []RejectsExactlyCycles
<1>1. PlanInv => RejectsExactlyCycles
  <2> SUFFICES ASSUME PlanInv, pc \in {"ordered", "cyclic"}
               PROVE  pc = "cyclic" <=> \E S \in (SUBSET Nodes) \ {{}} : Cycle(S)
    BY DEF RejectsExactlyCycles, Cycle
  <2>1. PICK V \in SUBSET Nodes : Progress(V)
    BY DEF PlanInv
  <2>2. pc = "ordered" <=> V = Nodes
    <3>1. Cardinality(V) = Cardinality(Nodes) <=> V = Nodes
      BY PlanAssumption, FS_Subset
    <3> QED BY <2>1, <3>1 DEF PlanInv, Verdict, IsComplete, Progress
  <2>3. Cycle(Nodes \ V)
    BY <2>1 DEF PlanInv, Verdict, Progress, Cycle
  <2>4. \A S \in SUBSET Nodes : Cycle(S) => S \cap V = {}
    BY <2>1 DEF Progress
  <2>5. pc = "cyclic" <=> V # Nodes
    BY <2>2 DEF PlanInv, Verdict
  <2>6. ASSUME V # Nodes PROVE \E S \in (SUBSET Nodes) \ {{}} : Cycle(S)
    <3>1. Nodes \ V \in (SUBSET Nodes) \ {{}}
      BY <2>6
    <3> QED BY <2>3, <3>1
  <2>7. ASSUME NEW S \in (SUBSET Nodes) \ {{}}, Cycle(S) PROVE V # Nodes
    <3>1. S \cap V = {} /\ S \subseteq Nodes /\ S # {}
      BY <2>4, <2>7
    <3> QED BY <3>1
  <2> QED BY <2>5, <2>6, <2>7
<1> QED BY <1>1, PlanInit, PlanStep, PTL DEF Spec

-----------------------------------------------------------------------------
(***************************************************************************)
(* Batches: the derivation at place p of the order is in the batch k with  *)
(* (k - 1) * Limit < p <= k * Limit.                                       *)
(***************************************************************************)
\* The quotient and the remainder.
LEMMA Division ==
  \A a \in Nat, b \in Nat \ {0} :
    a \div b \in Nat /\ (a \div b) * b <= a /\ a < (a \div b) * b + b
OBVIOUS

\* Multiples grow with their factors.
LEMMA Multiples ==
  /\ \A a, b, c \in Nat : a <= b => a * c <= b * c
  /\ \A a, c \in Int : (a + 1) * c = a * c + c
OBVIOUS

\* Places in order are in batches in order.
LEMMA BatchOrder ==
  ASSUME NEW k \in Nat \ {0}, NEW l \in Nat \ {0}, NEW p \in Nat, NEW q \in Nat,
         p <= k * Limit, (l - 1) * Limit < q, q <= p
  PROVE  l <= k
<1> SUFFICES ASSUME k <= l - 1 PROVE FALSE
  OBVIOUS
<1>1. k * Limit <= (l - 1) * Limit
  BY Multiples, PlanAssumption
<1>2. k * Limit \in Nat /\ (l - 1) * Limit \in Nat
  BY PlanAssumption
<1> QED BY <1>1, <1>2

\* The place of what is in a batch.
LEMMA BatchPlace ==
  ASSUME NEW S, ordered \in Seq(S), NEW k \in 1..BatchCount, NEW i \in DOMAIN Batch(k)
  PROVE  \E p \in 1..Len(ordered) :
           Batch(k)[i] = ordered[p] /\ (k - 1) * Limit < p /\ p <= k * Limit
<1> DEFINE low == (k - 1) * Limit
           high == IF k * Limit <= Len(ordered) THEN k * Limit ELSE Len(ordered)
<1>1. Limit \in Nat /\ Limit # 0 /\ k \in Nat /\ k # 0 /\ Len(ordered) \in Nat
  BY PlanAssumption
<1>2. low \in Nat /\ k * Limit \in Nat
  BY <1>1
<1> HIDE DEF low
<1>3. high \in Nat /\ high <= Len(ordered) /\ high <= k * Limit
  BY <1>1, <1>2
<1>4. Batch(k) = SubSeq(ordered, low + 1, high)
  BY DEF Batch, low
<1> HIDE DEF high
<1>5. i \in 1..(high - low) /\ Batch(k)[i] = ordered[low + i]
  BY <1>1, <1>2, <1>3, <1>4
<1>6. low + i \in 1..Len(ordered) /\ low < low + i /\ low + i <= k * Limit
  BY <1>1, <1>2, <1>3, <1>5
<1>7. (k - 1) * Limit < low + i
  BY <1>6 DEF low
<1> QED BY <1>5, <1>6, <1>7

\* The batch of a place.
LEMMA PlaceBatch ==
  ASSUME NEW S, ordered \in Seq(S), NEW p \in 1..Len(ordered)
  PROVE  \E k \in 1..BatchCount :
           /\ (k - 1) * Limit < p /\ p <= k * Limit
           /\ \E i \in DOMAIN Batch(k) : Batch(k)[i] = ordered[p]
<1> DEFINE before == (p - 1) \div Limit
           k == before + 1
           low == before * Limit
           high == IF k * Limit <= Len(ordered) THEN k * Limit ELSE Len(ordered)
<1>1. Limit \in Nat \ {0} /\ Len(ordered) \in Nat /\ p \in Nat /\ p - 1 \in Nat
  BY PlanAssumption
<1>2. before \in Nat /\ low \in Nat /\ low <= p - 1 /\ p - 1 < low + Limit
  BY <1>1, Division
<1>3. k * Limit = low + Limit /\ k \in Nat \ {0} /\ k - 1 = before
  <2> HIDE DEF before
  <2> QED BY <1>1, <1>2, Multiples
<1>4. k <= BatchCount
  <2> DEFINE most == Len(ordered) + Limit - 1
  <2>1. most \in Nat /\ k * Limit <= most
    <3> HIDE DEF before
    <3> QED BY <1>1, <1>2, <1>3
  <2>2. /\ most \div Limit \in Nat /\ most < (most \div Limit) * Limit + Limit
    BY <1>1, <2>1, Division
  <2>3. (most \div Limit + 1) * Limit = (most \div Limit) * Limit + Limit
    BY <1>1, <2>2, Multiples
  <2>4. BatchCount = most \div Limit
    BY DEF BatchCount
  <2> HIDE DEF most, before
  <2>5. ASSUME BatchCount + 1 <= k PROVE FALSE
    <3>1. (BatchCount + 1) * Limit <= k * Limit
      <4>1. BatchCount + 1 \in Nat /\ k \in Nat /\ Limit \in Nat
        BY <1>1, <1>3, <2>2, <2>4
      <4> QED BY <2>5, <4>1, Multiples
    <3>2. k * Limit \in Nat /\ (BatchCount + 1) * Limit \in Nat
      BY <1>1, <1>3, <2>2, <2>4
    <3> QED BY <2>1, <2>2, <2>3, <2>4, <3>1, <3>2
  <2> QED BY <1>3, <2>2, <2>4, <2>5
<1>5. Batch(k) = SubSeq(ordered, low + 1, high)
  BY <1>3 DEF Batch
<1> HIDE DEF before
<1>6. p <= high /\ high <= Len(ordered) /\ high \in Nat
  BY <1>1, <1>2, <1>3
<1>7. low < p /\ p <= k * Limit
  BY <1>1, <1>2, <1>3
<1> HIDE DEF high, low, k
<1>8. p - low \in DOMAIN Batch(k) /\ Batch(k)[p - low] = ordered[p]
  BY <1>1, <1>2, <1>5, <1>6, <1>7
<1>9. k \in 1..BatchCount
  BY <1>3, <1>4 DEF BatchCount
<1>10. (k - 1) * Limit < p
  BY <1>3, <1>7 DEF low
<1> QED BY <1>7, <1>8, <1>9, <1>10

\* BatchesInOrder for every plan and limit: the order has each missing derivation
\* once, after what it needs, and batches cut it.
THEOREM BatchesOrdered == Spec => []BatchesInOrder
<1>1. PlanInv => BatchesInOrder
  <2> SUFFICES ASSUME PlanInv, pc = "ordered" PROVE BatchesInOrder
    BY DEF BatchesInOrder
  <2>1. PICK V \in SUBSET Nodes : Progress(V) /\ Ordered(V)
    BY DEF PlanInv
  <2>2. V = Nodes
    BY <2>1, PlanAssumption, FS_Subset DEF PlanInv, Verdict, IsComplete, Progress
  <2>3. /\ ordered \in Seq(missing)
        /\ \A d \in missing : \E p \in 1..Len(ordered) : ordered[p] = d
        /\ \A p, q \in 1..Len(ordered) :
             /\ ordered[p] = ordered[q] => p = q
             /\ Reaches(inputDrvs, ordered[p], ordered[q]) => q < p
    BY <2>1, <2>2 DEF Ordered, PlanInv
  <2>4. \A k \in 1..BatchCount : k \in Nat \ {0}
    OBVIOUS
  <2>5. ASSUME NEW d \in missing
        PROVE  Cardinality({ k \in 1..BatchCount :
                               \E i \in DOMAIN Batch(k) : Batch(k)[i] = d }) = 1
    <3> DEFINE K == { k \in 1..BatchCount : \E i \in DOMAIN Batch(k) : Batch(k)[i] = d }
    <3>1. PICK p \in 1..Len(ordered) : ordered[p] = d
      BY <2>3
    <3>2. PICK k \in 1..BatchCount :
            /\ (k - 1) * Limit < p /\ p <= k * Limit
            /\ \E i \in DOMAIN Batch(k) : Batch(k)[i] = ordered[p]
      BY <2>3, PlaceBatch
    <3>3. ASSUME NEW l \in K PROVE l = k
      <4>1. PICK i \in DOMAIN Batch(l) : Batch(l)[i] = d
        OBVIOUS
      <4>2. PICK q \in 1..Len(ordered) :
              Batch(l)[i] = ordered[q] /\ (l - 1) * Limit < q /\ q <= l * Limit
        BY <2>3, <4>1, BatchPlace
      <4>3. q = p /\ p \in Nat
        BY <2>3, <3>1, <4>1, <4>2
      <4>4. l <= k
        BY <2>4, <3>2, <4>2, <4>3, BatchOrder
      <4>5. k <= l
        BY <2>4, <3>2, <4>2, <4>3, BatchOrder
      <4> QED BY <2>4, <4>4, <4>5
    <3>4. K = {k}
      BY <3>1, <3>2, <3>3
    <3> HIDE DEF K
    <3>5. Cardinality(K) = 1
      BY <3>4, FS_Singleton
    <3> QED BY <3>5 DEF K
  <2>6. ASSUME NEW k \in 1..BatchCount, NEW l \in 1..BatchCount,
               NEW i \in DOMAIN Batch(k), NEW j \in DOMAIN Batch(l),
               Reaches(inputDrvs, Batch(k)[i], Batch(l)[j])
        PROVE  l <= k
    <3>1. PICK p \in 1..Len(ordered) :
            Batch(k)[i] = ordered[p] /\ (k - 1) * Limit < p /\ p <= k * Limit
      BY <2>3, BatchPlace
    <3>2. PICK q \in 1..Len(ordered) :
            Batch(l)[j] = ordered[q] /\ (l - 1) * Limit < q /\ q <= l * Limit
      BY <2>3, BatchPlace
    <3>3. q < p /\ p \in Nat /\ q \in Nat
      <4>1. Reaches(inputDrvs, ordered[p], ordered[q])
        BY <2>6, <3>1, <3>2
      <4>2. q < p
        BY <2>3, <4>1
      <4> QED BY <4>2
    <3> QED BY <2>4, <3>1, <3>2, <3>3, BatchOrder
  <2> QED BY <2>5, <2>6 DEF BatchesInOrder
<1> QED BY <1>1, PlanInit, PlanStep, PTL DEF Spec

-----------------------------------------------------------------------------
(***************************************************************************)
(* What is reached in a graph over nodes N: its inputs, their inputs, and  *)
(* so on.                                                                  *)
(***************************************************************************)
IsGraph(G, N) == G \in [N -> SUBSET N]

\* Inputs are reached, and what is reached from what is reached.
LEMMA ReachesInputs ==
  ASSUME NEW N, NEW G, IsGraph(G, N), NEW d \in N
  PROVE  /\ \A e \in G[d] : Reaches(G, d, e)
         /\ \A e \in N, f \in N : Reaches(G, d, e) /\ Reaches(G, e, f) => Reaches(G, d, f)
<1>1. DOMAIN G = N
  BY DEF IsGraph
<1>2. \A e \in G[d] : Reaches(G, d, e)
  BY DEF Reaches
<1>3. ASSUME NEW e \in N, NEW f \in N, Reaches(G, d, e), Reaches(G, e, f),
             NEW S \in SUBSET N, G[d] \subseteq S, \A x \in S : G[x] \subseteq S
      PROVE  f \in S
  <2>1. e \in S
    BY <1>1, <1>3 DEF Reaches
  <2> QED BY <1>1, <1>3, <2>1 DEF Reaches
<1> QED BY <1>1, <1>2, <1>3 DEF Reaches

\* What is reached is an input of where it started, or of something reached.
LEMMA ReachesLast ==
  ASSUME NEW N, NEW G, IsGraph(G, N), NEW d \in N, NEW e \in N, Reaches(G, d, e)
  PROVE  \E c \in N : e \in G[c] /\ (c = d \/ Reaches(G, d, c))
<1> DEFINE S == { x \in N : \E c \in N : x \in G[c] /\ (c = d \/ Reaches(G, d, c)) }
<1>1. DOMAIN G = N /\ \A x \in N : G[x] \in SUBSET N
  BY DEF IsGraph
<1>2. G[d] \subseteq S
  BY <1>1
<1>3. ASSUME NEW x \in S PROVE G[x] \subseteq S
  <2>1. PICK c \in N : x \in G[c] /\ (c = d \/ Reaches(G, d, c))
    OBVIOUS
  <2>2. Reaches(G, d, x)
    BY <2>1, ReachesInputs
  <2> QED BY <1>1, <2>2
<1>4. S \in SUBSET DOMAIN G
  BY <1>1
<1> HIDE DEF S
<1>5. e \in S
  BY <1>2, <1>3, <1>4 DEF Reaches
<1> QED BY <1>5 DEF S

-----------------------------------------------------------------------------
(***************************************************************************)
(* The visit of poolDependencies.                                          *)
(***************************************************************************)
Further(G, M, S) == S \cup UNION { G[e] : e \in S \ M }
IsVisit(visit, G, M, d, last) ==
  visit = [n \in 0..last |-> IF n = 0 THEN G[d] ELSE Further(G, M, visit[n - 1])]

\* There is one.
LEMMA VisitExists ==
  ASSUME NEW G, NEW M, NEW d, NEW last \in Nat
  PROVE  \E visit : IsVisit(visit, G, M, d, last)
<1> DEFINE S == { k \in Nat : \E visit : IsVisit(visit, G, M, d, k) }
<1>1. 0 \in S
  <2> DEFINE v == [n \in 0..0 |-> G[d]]
  <2>1. IsVisit(v, G, M, d, 0)
    <3>1. \A n \in 0..0 : n = 0
      OBVIOUS
    <3> QED BY <3>1 DEF IsVisit
  <2> QED BY <2>1
<1>2. ASSUME NEW k \in S PROVE k + 1 \in S
  <2>1. k \in Nat
    OBVIOUS
  <2>2. PICK visit : IsVisit(visit, G, M, d, k)
    OBVIOUS
  <2> DEFINE Value(w, n) == IF n = 0 THEN G[d] ELSE Further(G, M, w[n - 1])
             v == [n \in 0..(k + 1) |-> Value(visit, n)]
  <2>3. \A n \in 0..k : visit[n] = Value(visit, n) /\ v[n] = Value(visit, n)
    <3>1. visit = [n \in 0..k |-> Value(visit, n)]
      BY <2>2 DEF IsVisit
    <3> HIDE DEF Value
    <3> QED BY <2>1, <3>1
  <2>4. ASSUME NEW n \in 0..(k + 1) PROVE Value(visit, n) = Value(v, n)
    <3>1. CASE n = 0
      BY <3>1
    <3>2. CASE n # 0
      <4>1. n - 1 \in 0..k
        BY <2>1, <3>2
      <4>2. visit[n - 1] = v[n - 1]
        <5> HIDE DEF Value, v
        <5> QED BY <2>3, <4>1
      <4> HIDE DEF v
      <4> QED BY <3>2, <4>2
    <3> QED BY <3>1, <3>2
  <2>5. v = [n \in 0..(k + 1) |-> Value(v, n)]
    <3> HIDE DEF Value
    <3> QED BY <2>4
  <2>6. \E w : w = [n \in 0..(k + 1) |-> Value(w, n)]
    <3> HIDE DEF Value, v
    <3> QED BY <2>5
  <2>7. \E w : IsVisit(w, G, M, d, k + 1)
    BY <2>6 DEF IsVisit
  <2> QED BY <2>1, <2>7
<1>3. S = Nat
  <2> HIDE DEF S
  <2>1. S \in SUBSET Nat
    BY DEF S
  <2> QED BY <1>1, <1>2, <2>1, NumberInduction
<1> QED BY <1>3

\* What it returns has the inputs, is closed under the inputs of what is not
\* scheduled, and is in every such set.
LEMMA VisitedClosed ==
  ASSUME NEW N, IsFiniteSet(N), NEW G, IsGraph(G, N), NEW M, NEW d \in N
  PROVE  LET V == Visited(G, M, d)
         IN  /\ V \in SUBSET N /\ G[d] \subseteq V
             /\ \A x \in V \ M : G[x] \subseteq V
             /\ \A S \in SUBSET N :
                  G[d] \subseteq S /\ (\A x \in S \ M : G[x] \subseteq S) => V \subseteq S
<1> DEFINE most == Cardinality(N)
           visit == CHOOSE w : IsVisit(w, G, M, d, most)
           Closed(S) == \A x \in S \ M : G[x] \subseteq S
<1>1. DOMAIN G = N /\ most \in Nat /\ \A x \in N : G[x] \in SUBSET N
  BY FS_CardinalityType DEF IsGraph
<1>2. IsVisit(visit, G, M, d, most)
  <2> HIDE DEF most
  <2> QED BY <1>1, VisitExists
<1>3. Visited(G, M, d) = visit[most]
  BY <1>1 DEF Visited, IsVisit, Further
<1> HIDE DEF most, visit
<1>4. visit[0] = G[d] /\ \A n \in 0..most : n # 0 => visit[n] = Further(G, M, visit[n - 1])
  BY <1>1, <1>2 DEF IsVisit
<1> DEFINE Good(n) == /\ visit[n] \in SUBSET N /\ G[d] \subseteq visit[n]
                      /\ Closed(visit[n]) \/ Cardinality(visit[n]) >= n
                      /\ \A S \in SUBSET N : G[d] \subseteq S /\ Closed(S) => visit[n] \subseteq S
           T == { n \in Nat : n <= most => Good(n) }
<1>5. 0 \in T
  <2>1. IsFiniteSet(G[d]) /\ Cardinality(G[d]) \in Nat
    BY <1>1, FS_Subset, FS_CardinalityType
  <2> QED BY <1>1, <1>4, <2>1
<1>6. ASSUME NEW n \in T PROVE n + 1 \in T
  <2>1. n \in Nat
    OBVIOUS
  <2> SUFFICES ASSUME n + 1 <= most PROVE Good(n + 1)
    BY <2>1
  <2>2. Good(n) /\ visit[n + 1] = Further(G, M, visit[n])
    <3>1. n + 1 \in 0..most /\ n + 1 # 0 /\ (n + 1) - 1 = n /\ n <= most
      BY <1>1, <2>1
    <3> QED BY <1>4, <3>1
  <2> DEFINE A == visit[n]
             B == Further(G, M, A)
  <2>3. B \in SUBSET N /\ A \subseteq B
    BY <1>1, <2>2 DEF Further
  <2>4. \A S \in SUBSET N : G[d] \subseteq S /\ Closed(S) => B \subseteq S
    BY <2>2 DEF Further
  <2>5. CASE Closed(A)
    <3>1. B = A
      BY <2>5 DEF Further
    <3> QED BY <2>2, <2>3, <2>4, <2>5, <3>1
  <2>6. CASE ~Closed(A)
    <3>1. PICK y \in B : y \notin A
      BY <2>6 DEF Further
    <3>2. IsFiniteSet(B) /\ IsFiniteSet(A)
      BY <2>2, <2>3, FS_Subset
    <3>3. Cardinality(A) \in Nat /\ Cardinality(B) \in Nat /\ Cardinality(A) >= n
      BY <2>2, <2>6, <3>2, FS_CardinalityType
    <3>4. Cardinality(A) < Cardinality(B)
      <4> HIDE DEF A, B
      <4>1. A \in SUBSET B /\ A # B
        BY <2>3, <3>1
      <4>2. Cardinality(A) <= Cardinality(B) /\ Cardinality(A) # Cardinality(B)
        BY <3>2, <4>1, FS_Subset
      <4> QED BY <3>3, <4>2
    <3>5. Cardinality(B) >= n + 1
      BY <2>1, <3>3, <3>4
    <3> QED BY <2>2, <2>3, <2>4, <3>5
  <2> QED BY <2>5, <2>6
<1>7. T = Nat
  <2> HIDE DEF T
  <2>1. T \in SUBSET Nat
    BY DEF T
  <2> QED BY <1>5, <1>6, <2>1, NumberInduction
<1>8. Good(most)
  BY <1>1, <1>7
<1>9. Closed(visit[most])
  <2>1. CASE Cardinality(visit[most]) >= most
    <3>1. visit[most] = N
      BY <1>1, <1>8, <2>1, FS_Subset, FS_CardinalityType DEF most
    <3> QED BY <1>1, <3>1
  <2> QED BY <1>8, <2>1
<1> QED BY <1>3, <1>8, <1>9

\* What the scheduled derivations wait for.
Waits(G, M) == [d \in M |-> PoolDependencies(G, M, d)]

\* A scheduled derivation is reached through inputs when it is through waits.
LEMMA WaitsReach ==
  ASSUME NEW N, IsFiniteSet(N), NEW G, IsGraph(G, N), NEW M \in SUBSET N
  PROVE  /\ IsGraph(Waits(G, M), M)
         /\ \A d, e \in M : Reaches(G, d, e) <=> Reaches(Waits(G, M), d, e)
<1> DEFINE W == Waits(G, M)
           V(d) == Visited(G, M, d)
<1>1. \A d \in M : W[d] = V(d) \cap M
  BY DEF Waits, PoolDependencies
<1>2. DOMAIN W = M /\ IsGraph(W, M) /\ DOMAIN G = N
  BY <1>1 DEF Waits, IsGraph, PoolDependencies
<1>3. \A d \in M : /\ V(d) \in SUBSET N /\ G[d] \subseteq V(d)
                   /\ \A x \in V(d) \ M : G[x] \subseteq V(d)
                   /\ \A S \in SUBSET N :
                        G[d] \subseteq S /\ (\A x \in S \ M : G[x] \subseteq S)
                          => V(d) \subseteq S
  BY VisitedClosed
<1> HIDE DEF W, V
<1>4. ASSUME NEW d \in M, NEW e \in M, Reaches(W, d, e),
             NEW S \in SUBSET N, G[d] \subseteq S, \A x \in S : G[x] \subseteq S
      PROVE  e \in S
  <2>1. \A x \in M : G[x] \subseteq S => W[x] \subseteq S
    BY <1>1, <1>3, <1>4
  <2>2. S \cap M \in SUBSET DOMAIN W
    BY <1>2
  <2>3. W[d] \subseteq S \cap M /\ \A x \in S \cap M : W[x] \subseteq S \cap M
    BY <1>1, <1>4, <2>1
  <2> QED BY <1>4, <2>2, <2>3 DEF Reaches
<1>5. ASSUME NEW d \in M, NEW e \in M, Reaches(G, d, e),
             NEW T \in SUBSET M, W[d] \subseteq T, \A x \in T : W[x] \subseteq T
      PROVE  e \in T
  <2> DEFINE S == { y \in N : \E z \in T \cup {d} : y \in V(z) }
  <2>1. S \in SUBSET DOMAIN G /\ G[d] \subseteq S
    BY <1>2, <1>3
  <2>2. ASSUME NEW y \in S PROVE G[y] \subseteq S
    <3>1. PICK z \in T \cup {d} : y \in V(z)
      OBVIOUS
    <3>2. CASE y \notin M
      BY <1>3, <3>1, <3>2
    <3>3. CASE y \in M
      <4>1. y \in T
        BY <1>1, <1>5, <3>1, <3>3
      <4> QED BY <1>3, <4>1
    <3> QED BY <3>2, <3>3
  <2> HIDE DEF S
  <2>3. e \in S
    BY <1>5, <2>1, <2>2 DEF Reaches
  <2>4. PICK z \in T \cup {d} : e \in V(z)
    BY <2>3 DEF S
  <2> QED BY <1>1, <1>5, <2>4
<1>6. ASSUME NEW d \in M, NEW e \in M PROVE Reaches(G, d, e) <=> Reaches(W, d, e)
  <2>1. Reaches(W, d, e) => Reaches(G, d, e)
    BY <1>2, <1>4 DEF Reaches
  <2>2. Reaches(G, d, e) => Reaches(W, d, e)
    BY <1>2, <1>5 DEF Reaches
  <2> QED BY <2>1, <2>2
<1> QED BY <1>2, <1>6 DEF W

\* WaitsForEveryInput for every plan: whatever a scheduled derivation needs, through
\* cached ones too, it needs through a chain of waits, and the reverse.
THEOREM EveryInputAwaited == Spec => []WaitsForEveryInput
<1>1. PlanInv => WaitsForEveryInput
  <2> SUFFICES ASSUME PlanInv, pc = "ordered" PROVE WaitsForEveryInput
    BY DEF WaitsForEveryInput
  <2>1. IsGraph(inputDrvs, Nodes) /\ missing \in SUBSET Nodes /\ IsFiniteSet(Nodes)
    BY PlanAssumption DEF PlanInv, IsGraph
  <2>2. Deps = Waits(inputDrvs, missing)
    BY DEF Deps, Waits
  <2> QED BY <2>1, <2>2, WaitsReach DEF WaitsForEveryInput
<1> QED BY <1>1, PlanInit, PlanStep, PTL DEF Spec

-----------------------------------------------------------------------------
(***************************************************************************)
(* The visit of poolPriorities, in a graph W over M whose nodes have ranks  *)
(* that fall along what is reached: the order of the plan gives them.       *)
(***************************************************************************)
Ranked(W, M, rank) ==
  /\ rank \in [M -> Nat]
  /\ \A a, b \in M : Reaches(W, a, b) => rank[b] < rank[a]

WithConsumers(W, T) == \A d \in T : Consumers(W, d) \subseteq T

Urgency(g, W, d) == 1 + Largest({0} \cup { g[c] : c \in Consumers(W, d) })
IsUrgency(g, W, T) == g = [d \in T |-> Urgency(g, W, d)]

\* Numbers with a bound have a largest one.
LEMMA LargestOf ==
  ASSUME NEW A \in SUBSET Nat, A # {}, NEW bound \in Nat, \A a \in A : a <= bound
  PROVE  Largest(A) \in A /\ \A a \in A : a <= Largest(A)
<1> DEFINE Gaps == { bound - a : a \in A }
<1>1. Gaps \in SUBSET Nat /\ Gaps # {}
  <2>1. \A a \in A : a \in Nat /\ bound - a \in Nat
    OBVIOUS
  <2> QED BY <2>1
<1>2. PICK gap \in Gaps : \A g \in Gaps : gap <= g
  BY <1>1, LeastNumber
<1>3. PICK n \in A : gap = bound - n
  OBVIOUS
<1>4. \A a \in A : a <= n
  <2> TAKE a \in A
  <2>1. bound - n <= bound - a
    BY <1>2, <1>3
  <2>2. a \in Nat /\ n \in Nat
    OBVIOUS
  <2> QED BY <2>1, <2>2
<1>5. \E k \in A : \A a \in A : a <= k
  BY <1>4
<1> QED BY <1>5 DEF Largest

\* Some node has the least rank; it is no consumer, and the others keep their
\* consumers.
LEMMA LeastRank ==
  ASSUME NEW M, NEW W, IsGraph(W, M), NEW rank, Ranked(W, M, rank),
         NEW T \in SUBSET M, T # {}
  PROVE  \E x \in T : /\ \A y \in T : rank[x] <= rank[y]
                      /\ \A y \in T : x \notin Consumers(W, y)
                      /\ WithConsumers(W, T) => WithConsumers(W, T \ {x})
<1> DEFINE Ranks == { rank[y] : y \in T }
<1>1. \A y \in M : rank[y] \in Nat
  BY DEF Ranked
<1>2. Ranks \in SUBSET Nat /\ Ranks # {}
  BY <1>1
<1>3. PICK n \in Ranks : \A m \in Ranks : n <= m
  BY <1>2, LeastNumber
<1>4. PICK x \in T : n = rank[x]
  OBVIOUS
<1>5. \A y \in T : rank[x] <= rank[y]
  BY <1>3, <1>4
<1>6. ASSUME NEW y \in T, x \in Consumers(W, y) PROVE FALSE
  <2>1. x \in M /\ y \in M /\ y \in W[x]
    BY <1>6 DEF Consumers
  <2>2. Reaches(W, x, y)
    BY <2>1, ReachesInputs
  <2>3. rank[y] < rank[x]
    BY <2>1, <2>2 DEF Ranked
  <2> QED BY <1>1, <1>5, <2>1, <2>3
<1>7. WithConsumers(W, T) => WithConsumers(W, T \ {x})
  BY <1>6 DEF WithConsumers
<1> QED BY <1>5, <1>6, <1>7

\* There is such a visit.
LEMMA UrgencyExists ==
  ASSUME NEW M, IsFiniteSet(M), NEW W, IsGraph(W, M), NEW rank, Ranked(W, M, rank)
  PROVE  \E g : IsUrgency(g, W, M)
<1> DEFINE F == { T \in SUBSET M : WithConsumers(W, T) => \E g : IsUrgency(g, W, T) }
<1>1. ASSUME NEW T \in SUBSET M, \A x \in T : T \ {x} \in F PROVE T \in F
  <2> SUFFICES ASSUME WithConsumers(W, T) PROVE \E g : IsUrgency(g, W, T)
    OBVIOUS
  <2>1. CASE T = {}
    <3> DEFINE g == [d \in {} |-> 0]
    <3>1. g = [d \in {} |-> Urgency(g, W, d)]
      OBVIOUS
    <3> QED BY <2>1, <3>1 DEF IsUrgency
  <2>2. CASE T # {}
    <3>1. PICK x \in T : /\ \A y \in T : x \notin Consumers(W, y)
                         /\ WithConsumers(W, T \ {x})
      BY <2>2, LeastRank
    <3>2. PICK g : IsUrgency(g, W, T \ {x})
      BY <1>1, <3>1
    <3> DEFINE h == [d \in T |-> Urgency(g, W, d)]
    <3>3. \A c \in T \ {x} : h[c] = g[c]
      <4>1. g = [d \in T \ {x} |-> Urgency(g, W, d)]
        BY <3>2 DEF IsUrgency
      <4>2. \A c \in T \ {x} : g[c] = Urgency(g, W, c)
        <5> HIDE DEF h
        <5> QED BY <4>1
      <4> QED BY <4>2
    <3>4. ASSUME NEW d \in T PROVE Urgency(g, W, d) = Urgency(h, W, d)
      <4>1. \A c \in Consumers(W, d) : h[c] = g[c]
        BY <3>1, <3>3 DEF WithConsumers
      <4> HIDE DEF h
      <4>2. { h[c] : c \in Consumers(W, d) } = { g[c] : c \in Consumers(W, d) }
        BY <4>1
      <4> QED BY <4>2 DEF Urgency
    <3>5. h = [d \in T |-> Urgency(h, W, d)]
      BY <3>4
    <3> QED BY <3>5 DEF IsUrgency
  <2> QED BY <2>1, <2>2
<1>2. F = SUBSET M
  <2> HIDE DEF F
  <2>1. F \in SUBSET (SUBSET M)
    BY DEF F
  <2> QED BY <1>1, <2>1, SizeInduction
<1>3. WithConsumers(W, M)
  BY DEF WithConsumers, Consumers, IsGraph
<1> QED BY <1>2, <1>3

\* What holds of a node when it does of its consumers holds of all.
LEMMA ConsumersInduction ==
  ASSUME NEW M, IsFiniteSet(M), NEW W, IsGraph(W, M), NEW rank, Ranked(W, M, rank),
         NEW Q \in SUBSET M, \A d \in M : Consumers(W, d) \subseteq Q => d \in Q
  PROVE  Q = M
<1> DEFINE F == { T \in SUBSET M : WithConsumers(W, T) => T \subseteq Q }
<1>1. ASSUME NEW T \in SUBSET M, \A x \in T : T \ {x} \in F PROVE T \in F
  <2> SUFFICES ASSUME WithConsumers(W, T), T # {} PROVE T \subseteq Q
    OBVIOUS
  <2>1. PICK x \in T : /\ \A y \in T : x \notin Consumers(W, y)
                       /\ WithConsumers(W, T \ {x})
    BY LeastRank
  <2>2. T \ {x} \subseteq Q
    BY <1>1, <2>1
  <2>3. Consumers(W, x) \subseteq Q
    BY <2>1, <2>2 DEF WithConsumers
  <2> QED BY <2>2, <2>3
<1>2. F = SUBSET M
  <2> HIDE DEF F
  <2>1. F \in SUBSET (SUBSET M)
    BY DEF F
  <2> QED BY <1>1, <2>1, SizeInduction
<1>3. WithConsumers(W, M)
  BY DEF WithConsumers, Consumers, IsGraph
<1> QED BY <1>2, <1>3

\* The sets linearly ordered by waiting, with d last.
Chains(W, M, d) ==
  { S \in SUBSET M :
      /\ d \in S
      /\ \A x \in S : x = d \/ Reaches(W, x, d)
      /\ \A x, y \in S : x = y \/ Reaches(W, x, y) \/ Reaches(W, y, x) }

\* A derivation goes before the longest chain of a consumer.
LEMMA ChainGrows ==
  ASSUME NEW M, NEW W, IsGraph(W, M), NEW rank, Ranked(W, M, rank),
         NEW d \in M, NEW c \in Consumers(W, d), NEW S \in Chains(W, M, c)
  PROVE  d \notin S /\ S \cup {d} \in Chains(W, M, d)
<1>1. c \in M /\ Reaches(W, c, d)
  <2>1. c \in M /\ d \in W[c]
    BY DEF Consumers, IsGraph
  <2> QED BY <2>1, ReachesInputs
<1>2. /\ S \in SUBSET M
      /\ \A x \in S : x = c \/ Reaches(W, x, c)
      /\ \A x, y \in S : x = y \/ Reaches(W, x, y) \/ Reaches(W, y, x)
  BY DEF Chains
<1>3. \A x \in S : Reaches(W, x, d)
  BY <1>1, <1>2, ReachesInputs
<1>4. d \notin S
  <2> SUFFICES ASSUME d \in S PROVE FALSE
    OBVIOUS
  <2>1. rank[d] \in Nat /\ rank[d] < rank[d]
    BY <1>3 DEF Ranked
  <2> QED BY <2>1
<1>5. S \cup {d} \in Chains(W, M, d)
  BY <1>2, <1>3 DEF Chains
<1> QED BY <1>4, <1>5

\* Without its first derivation, a chain is part of one of a consumer.
LEMMA ChainShrinks ==
  ASSUME NEW M, NEW W, IsGraph(W, M), NEW rank, Ranked(W, M, rank),
         NEW d \in M, NEW S \in Chains(W, M, d), S # {d}
  PROVE  \E c \in Consumers(W, d) : (S \ {d}) \cup {c} \in Chains(W, M, c)
<1> DEFINE R == S \ {d}
<1>1. /\ R \in SUBSET M
      /\ \A x \in R : Reaches(W, x, d)
      /\ \A x, y \in R : x = y \/ Reaches(W, x, y) \/ Reaches(W, y, x)
  BY DEF Chains
<1>2. R # {}
  BY DEF Chains
<1> HIDE DEF R
<1>3. PICK m \in R : \A y \in R : rank[m] <= rank[y]
  BY <1>1, <1>2, LeastRank
<1>4. PICK c \in M : d \in W[c] /\ (c = m \/ Reaches(W, m, c))
  BY <1>1, ReachesLast
<1>5. \A x \in R : x = m \/ Reaches(W, x, m)
  <2> SUFFICES ASSUME NEW x \in R, Reaches(W, m, x) PROVE FALSE
    BY <1>1
  <2>1. rank[x] < rank[m] /\ rank[x] \in Nat /\ rank[m] \in Nat
    BY <1>1 DEF Ranked
  <2> QED BY <1>3, <2>1
<1>6. \A x \in R : x = c \/ Reaches(W, x, c)
  BY <1>1, <1>4, <1>5, ReachesInputs
<1>7. R \cup {c} \in Chains(W, M, c)
  BY <1>1, <1>6 DEF Chains
<1>8. c \in Consumers(W, d)
  BY <1>4 DEF Consumers, IsGraph
<1> QED BY <1>7, <1>8 DEF R

\* The priority of a derivation is the size of its longest chain.
LEMMA LongestChain ==
  ASSUME NEW M, IsFiniteSet(M), NEW W, IsGraph(W, M), NEW rank, Ranked(W, M, rank)
  PROVE  \A d \in M :
           /\ \E S \in Chains(W, M, d) : Cardinality(S) = PoolPriorities(W)[d]
           /\ \A S \in Chains(W, M, d) : Cardinality(S) <= PoolPriorities(W)[d]
<1> DEFINE P == PoolPriorities(W)
           Longest(d) == /\ \E S \in Chains(W, M, d) : Cardinality(S) = P[d]
                         /\ \A S \in Chains(W, M, d) : Cardinality(S) <= P[d]
           Q == { d \in M : Longest(d) }
           most == Cardinality(M)
<1>1. \A d \in M : P[d] = Urgency(P, W, d)
  <2> DEFINE visit == CHOOSE g : IsUrgency(g, W, M)
  <2>1. IsUrgency(visit, W, M)
    BY UrgencyExists
  <2>2. P = visit
    BY DEF IsUrgency, Urgency, PoolPriorities, IsGraph
  <2> HIDE DEF visit, P
  <2> QED BY <2>1, <2>2 DEF IsUrgency
<1> HIDE DEF P
<1>2. \A S \in SUBSET M : /\ IsFiniteSet(S) /\ Cardinality(S) \in Nat
                         /\ Cardinality(S) <= most
  BY FS_Subset, FS_CardinalityType
<1>3. most \in Nat
  BY <1>2
<1>4. \A d \in M : \A S \in Chains(W, M, d) : S \in SUBSET M /\ d \in S
  BY DEF Chains
<1>5. ASSUME NEW d \in M, Consumers(W, d) \subseteq Q PROVE d \in Q
  <2> DEFINE C == Consumers(W, d)
             A == {0} \cup { P[c] : c \in C }
             L == Largest(A)
  <2>1. \A c \in C : c \in M /\ P[c] \in Nat /\ P[c] <= most
    BY <1>2, <1>4, <1>5
  <2>2. L \in A /\ \A a \in A : a <= L
    <3>1. A \in SUBSET Nat /\ A # {} /\ \A a \in A : a <= most
      BY <1>3, <2>1
    <3> HIDE DEF A
    <3> QED BY <1>3, <3>1, LargestOf
  <2>3. P[d] = 1 + L
    BY <1>1 DEF Urgency
  <2>4. L \in Nat
    BY <2>1, <2>2
  <2> HIDE DEF L
  <2>5. \E S \in Chains(W, M, d) : Cardinality(S) = P[d]
    <3>1. CASE L = 0
      <4>1. {d} \in Chains(W, M, d)
        BY DEF Chains
      <4>2. Cardinality({d}) = 1
        BY FS_Singleton
      <4> QED BY <2>3, <3>1, <4>1, <4>2
    <3>2. CASE L # 0
      <4>1. PICK c \in C : L = P[c]
        BY <2>2, <3>2
      <4>2. PICK S \in Chains(W, M, c) : Cardinality(S) = P[c]
        BY <1>5
      <4>3. d \notin S /\ S \cup {d} \in Chains(W, M, d)
        BY <4>2, ChainGrows
      <4>4. IsFiniteSet(S)
        BY <1>2, <1>4, <2>1
      <4>5. Cardinality(S \cup {d}) = Cardinality(S) + 1
        BY <4>3, <4>4, FS_AddElement
      <4> QED BY <2>3, <2>4, <4>1, <4>2, <4>3, <4>5
    <3> QED BY <3>1, <3>2
  <2>6. ASSUME NEW S \in Chains(W, M, d) PROVE Cardinality(S) <= P[d]
    <3>1. S \in SUBSET M /\ d \in S /\ IsFiniteSet(S) /\ Cardinality(S) \in Nat
      BY <1>2, <1>4
    <3>2. Cardinality(S \ {d}) = Cardinality(S) - 1
      BY <3>1, FS_RemoveElement
    <3>3. CASE S = {d}
      <4>1. Cardinality(S) = 1
        BY <3>3, FS_Singleton
      <4> QED BY <2>3, <2>4, <4>1
    <3>4. CASE S # {d}
      <4>1. PICK c \in C : (S \ {d}) \cup {c} \in Chains(W, M, c)
        BY <3>4, ChainShrinks
      <4> DEFINE T == (S \ {d}) \cup {c}
      <4>2. T \in SUBSET M /\ S \ {d} \in SUBSET T
        BY <1>4, <2>1, <4>1
      <4>3. Cardinality(T) <= P[c]
        BY <1>5, <4>1
      <4> HIDE DEF T
      <4>4. Cardinality(S \ {d}) <= Cardinality(T) /\ Cardinality(T) \in Nat
        BY <1>2, <4>2, FS_Subset
      <4>5. P[c] <= L /\ P[c] \in Nat
        BY <2>1, <2>2
      <4> QED BY <2>3, <2>4, <3>1, <3>2, <4>3, <4>4, <4>5
    <3> QED BY <3>3, <3>4
  <2> QED BY <2>5, <2>6
<1>6. Q = M
  <2> HIDE DEF Q
  <2>1. Q \in SUBSET M
    BY DEF Q
  <2> QED BY <1>5, <2>1, ConsumersInduction
<1> QED BY <1>6 DEF P

\* In an accepted plan the place in the order is a rank.
PlaceOf(d) == CHOOSE p \in 1..Len(ordered) : ordered[p] = d
Place == [d \in missing |-> PlaceOf(d)]

LEMMA AcceptedIsRanked ==
  ASSUME PlanInv, pc = "ordered"
  PROVE  /\ IsGraph(Deps, missing) /\ Ranked(Deps, missing, Place)
         /\ IsFiniteSet(missing)
<1>1. PICK V \in SUBSET Nodes : Progress(V) /\ Ordered(V)
  BY DEF PlanInv
<1>2. V = Nodes
  BY <1>1, PlanAssumption, FS_Subset DEF PlanInv, Verdict, IsComplete, Progress
<1>3. /\ ordered \in Seq(missing)
      /\ \A d \in missing : \E p \in 1..Len(ordered) : ordered[p] = d
      /\ \A p, q \in 1..Len(ordered) :
           Reaches(inputDrvs, ordered[p], ordered[q]) => q < p
  BY <1>1, <1>2 DEF Ordered, PlanInv
<1>4. /\ IsGraph(inputDrvs, Nodes) /\ missing \in SUBSET Nodes
      /\ IsFiniteSet(Nodes) /\ IsFiniteSet(missing)
  BY PlanAssumption, FS_Subset DEF PlanInv, IsGraph
<1>5. Deps = Waits(inputDrvs, missing)
  BY DEF Deps, Waits
<1>6. /\ IsGraph(Deps, missing)
      /\ \A d, e \in missing : Reaches(inputDrvs, d, e) <=> Reaches(Deps, d, e)
  BY <1>4, <1>5, WaitsReach
<1>7. \A d \in missing : PlaceOf(d) \in 1..Len(ordered) /\ ordered[PlaceOf(d)] = d
  BY <1>3 DEF PlaceOf
<1>8. \A d \in missing : Place[d] = PlaceOf(d) /\ Place[d] \in Nat
  BY <1>7 DEF Place
<1>9. ASSUME NEW a \in missing, NEW b \in missing, Reaches(Deps, a, b)
      PROVE  PlaceOf(b) < PlaceOf(a)
  <2>1. Reaches(inputDrvs, ordered[PlaceOf(a)], ordered[PlaceOf(b)])
    BY <1>6, <1>7, <1>9
  <2> QED BY <1>3, <1>7, <2>1
<1>10. Place \in [missing -> Nat]
  BY <1>8 DEF Place
<1>11. Ranked(Deps, missing, Place)
  BY <1>8, <1>9, <1>10 DEF Ranked
<1> QED BY <1>4, <1>6, <1>11

\* An accepted plan is what Scheduler assumes of its own: of any derivations some
\* one waits for none of them, so the pool never waits in a circle.
THEOREM AcceptedPlansAreAcyclic ==
  Spec => [](pc = "ordered" =>
               \A S \in SUBSET missing : S # {} => \E d \in S : Deps[d] \cap S = {})
<1> DEFINE Acyclic == \A S \in SUBSET missing : S # {} => \E d \in S : Deps[d] \cap S = {}
<1>1. PlanInv => (pc = "ordered" => Acyclic)
  <2> SUFFICES ASSUME PlanInv, pc = "ordered", NEW S \in SUBSET missing, S # {}
               PROVE  \E d \in S : Deps[d] \cap S = {}
    OBVIOUS
  <2>1. IsGraph(Deps, missing) /\ Ranked(Deps, missing, Place)
    BY AcceptedIsRanked
  <2>2. PICK d \in S : \A e \in S : Place[d] <= Place[e]
    BY <2>1, LeastRank
  <2>3. ASSUME NEW e \in Deps[d] \cap S PROVE FALSE
    <3>1. Reaches(Deps, d, e)
      BY <2>1, ReachesInputs
    <3>2. Place[e] < Place[d] /\ Place[e] \in Nat /\ Place[d] \in Nat
      BY <2>1, <3>1 DEF Ranked
    <3> QED BY <2>2, <3>2
  <2> QED BY <2>3
<1> QED BY <1>1, PlanInit, PlanStep, PTL DEF Spec

\* PrioritiesAreChains for every plan: in an accepted one the place in the order is
\* a rank, and the urgency of a derivation adds one to the largest of what waits for
\* it.
THEOREM PrioritiesLongest == Spec => []PrioritiesAreChains
<1>1. PlanInv => PrioritiesAreChains
  <2> SUFFICES ASSUME PlanInv, pc = "ordered" PROVE PrioritiesAreChains
    BY DEF PrioritiesAreChains
  <2>1. /\ IsGraph(Deps, missing) /\ Ranked(Deps, missing, Place)
        /\ IsFiniteSet(missing)
    BY AcceptedIsRanked
  <2>2. ASSUME NEW d \in missing
        PROVE  LET waits == { p \in missing \X missing : Reaches(Deps, p[1], p[2]) }
                   chains == { S \in SUBSET missing :
                                 /\ d \in S
                                 /\ \A x \in S : x = d \/ <<x, d>> \in waits
                                 /\ \A x, y \in S :
                                      x = y \/ <<x, y>> \in waits \/ <<y, x>> \in waits }
                   sizes == { Cardinality(S) : S \in chains }
               IN  PoolPriorities(Deps)[d] \in sizes
                     /\ \A n \in sizes : n <= PoolPriorities(Deps)[d]
    <3> DEFINE waits == { p \in missing \X missing : Reaches(Deps, p[1], p[2]) }
               chains == { S \in SUBSET missing :
                             /\ d \in S
                             /\ \A x \in S : x = d \/ <<x, d>> \in waits
                             /\ \A x, y \in S :
                                  x = y \/ <<x, y>> \in waits \/ <<y, x>> \in waits }
    <3>1. \A x, y \in missing : <<x, y>> \in waits <=> Reaches(Deps, x, y)
      OBVIOUS
    <3> HIDE DEF waits
    <3>2. chains = Chains(Deps, missing, d)
      BY <3>1 DEF Chains
    <3>3. /\ \E S \in chains : Cardinality(S) = PoolPriorities(Deps)[d]
          /\ \A S \in chains : Cardinality(S) <= PoolPriorities(Deps)[d]
      BY <2>1, <3>2, LongestChain
    <3> HIDE DEF chains
    <3> QED BY <3>3 DEF chains, waits
  <2> QED BY <2>2 DEF PrioritiesAreChains
<1> QED BY <1>1, PlanInit, PlanStep, PTL DEF Spec
=============================================================================
