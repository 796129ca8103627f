----------------------------- MODULE BuildOrder -----------------------------
(***************************************************************************)
(* What the builder pool promises, whatever the runners, the helpers and   *)
(* the registry do: a derivation starts only when everything it depends on *)
(* is finished and published, is attempted by one runner at a time, is     *)
(* finished only once its outputs are published, is given up only because  *)
(* of itself or of something it depends on, and, once decided, stays so.   *)
(***************************************************************************)
CONSTANTS Drvs,   \* the derivations to build
          Deps    \* Deps[d]: the derivations d has to wait for

VARIABLES state,      \* "unassigned" | "running" | "done" | "failed"
          published   \* the derivations whose outputs a helper can fetch

vars == <<state, published>>

Init ==
  /\ state = [d \in Drvs |-> "unassigned"]
  /\ published \in SUBSET Drvs

Set(d, from, to) ==
  /\ state[d] = from
  /\ state' = [state EXCEPT ![d] = to]

Start(d) ==
  /\ \A e \in Deps[d] : state[e] = "done" /\ e \in published
  /\ Set(d, "unassigned", "running")
  /\ UNCHANGED published

\* A helper's attempt came to nothing: another runner may start it again.
Retry(d) == Set(d, "running", "unassigned") /\ UNCHANGED published

Finish(d) ==
  /\ d \in published
  /\ Set(d, "running", "done")
  /\ UNCHANGED published

Fail(d) == Set(d, "running", "failed") /\ UNCHANGED published

\* Derivations are abandoned with something they depend on.
Abandon(S) ==
  /\ \A d \in S : /\ state[d] = "unassigned"
                  /\ \E e \in Deps[d] : state[e] = "failed" \/ e \in S
  /\ state' = [d \in Drvs |-> IF d \in S THEN "failed" ELSE state[d]]
  /\ UNCHANGED published

\* Outputs are only ever added, in any number.
Publish ==
  /\ \E S \in SUBSET Drvs : published' = published \cup S
  /\ UNCHANGED state

Next ==
  \/ \E d \in Drvs :
       Start(d) \/ Retry(d) \/ Finish(d) \/ Fail(d)
  \/ \E S \in SUBSET Drvs : Abandon(S)
  \/ Publish

Spec == Init /\ [][Next]_vars
=============================================================================
