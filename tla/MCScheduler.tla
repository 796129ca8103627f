----------------------------- MODULE MCScheduler ----------------------------
(***************************************************************************)
(* Instances of Scheduler for TLC. The plan: app needs lib through glue,   *)
(* which is cached and so not scheduled; doc and man depend on nothing and *)
(* require a feature no helper has.                                        *)
(***************************************************************************)
EXTENDS Scheduler

CONSTANTS lib, app, glue, doc, man

MCGraph ==
  [d \in {lib, app, glue, doc, man} |->
     CASE d = app -> {glue} [] d = glue -> {lib} [] OTHER -> {}]
MCCompatible == [h \in Helpers |-> {lib, app} \cap Drvs]

\* A chain beside something only the coordinator can build: while it does, the
\* chain is on the helpers, one after the other.
Mixed == {lib, app, doc}
\* One derivation for a helper beside one for the coordinator.
Pair == {lib, doc}
\* Four derivations for one runner: more are ready than it may hold.
Crowd == {lib, app, doc, man}

\* A helper that may be replaced once, and one that is not.
Replaceable == 1..2
Steady == {1}
=============================================================================
