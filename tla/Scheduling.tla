----------------------------- MODULE Scheduling -----------------------------
(***************************************************************************)
(* The pure part of the pool's scheduler: which scheduled derivations a    *)
(* derivation has to wait for, and how urgent it is.                       *)
(*                                                                         *)
(* A dependency graph is a function from derivations to the set of         *)
(* derivations they take as inputs; `missing' is the set of derivations    *)
(* this run has to build (the others are cached).                          *)
(***************************************************************************)
EXTENDS Integers, FiniteSets

\* The derivations reached from drv through at most n + 1 inputs without
\* passing through a scheduled one: the memoised visit of poolDependencies.
Visited(inputDrvs, missing, drv) ==
  LET most == Cardinality(DOMAIN inputDrvs)
      visit[n \in 0..most] ==
        IF n = 0 THEN inputDrvs[drv]
        ELSE visit[n - 1] \cup
             UNION { inputDrvs[e] : e \in visit[n - 1] \ missing }
  IN  visit[most]

\* Mutant of PoolDependencies: only direct inputs count.
PoolDependenciesDirect(inputDrvs, missing, drv) == inputDrvs[drv] \cap missing

\* What must finish before drv is sent to a different store: the nearest
\* scheduled derivations, looking through the cached ones.
PoolDependencies(inputDrvs, missing, drv) ==
  Visited(inputDrvs, missing, drv) \cap missing

Consumers(deps, drv) == { e \in DOMAIN deps : drv \in deps[e] }

Largest(S) == CHOOSE n \in S : \A m \in S : m <= n

\* The number of derivations on the longest chain of consumers that starts at
\* a derivation. The graph is acyclic: Batches has rejected any other.
PoolPriorities(deps) ==
  LET visit[drv \in DOMAIN deps] ==
        1 + Largest({0} \cup { visit[c] : c \in Consumers(deps, drv) })
  IN  visit
=============================================================================
