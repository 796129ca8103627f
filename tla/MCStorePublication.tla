------------------------- MODULE MCStorePublication -------------------------
(* A program on a dependency on a library, a copy of the library with the    *)
(* same archive, a document, and what of them is built, wanted and in the    *)
(* upstream cache.                                                           *)
EXTENDS StorePublication, TLC

CONSTANTS app, dep, lib, copy, doc

MCPaths == {app, dep, lib, copy, doc}
MCRefs ==
  [p \in MCPaths |-> CASE p = app -> {app, dep}
                       [] p = dep -> {lib}
                       [] OTHER -> {}]
MCArchive == [p \in MCPaths |-> IF p = copy THEN lib ELSE p]

\* doc goes alone; dep and lib fill a pack together, app fills one.
MCSize ==
  [a \in MCPaths \ {copy} |-> CASE a = doc -> 3 [] a = app -> 2 [] OTHER -> 1]

\* The platform has no head yet.
MCHeads == {NewSnapshot}

MCTasks == {[inputs |-> {dep}, outputs |-> {app, copy}]}
MCRequired == {MCPaths}
MCStores == {{lib, dep}, MCPaths}
MCUpstreams == {{}, {lib}, {dep}}

\* Workers are alike.
MCSymmetry == Permutations(Workers)
=============================================================================
