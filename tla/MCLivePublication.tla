--------------------------- MODULE MCLivePublication -------------------------
(***************************************************************************)
(* Instances of LivePublication for TLC: a dynamic plan does not know the  *)
(* path of app before it is built.                                         *)
(***************************************************************************)
EXTENDS LivePublication

CONSTANTS lib, app, doc

MCBatches == << {lib}, {app, doc} >>
\* Three batches: the plan is offered to the publisher twice.
MCSingles == << {lib}, {app}, {doc} >>
MCKnown == {lib, doc}
=============================================================================
