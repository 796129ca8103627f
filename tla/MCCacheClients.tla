--------------------------- MODULE MCCacheClients ---------------------------
(* The catalogs of a snapshot and the reader of the published heads. They    *)
(* share no state: a behaviour is about one of them.                         *)
EXTENDS Catalog, SnapshotReader, TLC

CONSTANTS a, b, log, t1

VARIABLE part

\* a and b have the first digit of their hashes in common; log is for writers.
MCHash ==
  [n \in RecordNames |-> CASE n = a -> <<0, 0>> [] n = b -> <<0, 1>>
                           [] OTHER -> <<1, 1>>]

\* The records of a and b are in nodes of their own.
MCBeside == [n \in Names |-> {n}]

\* One platform, or none, was published.
MCFirstHeads ==
  {[t \in Tags |-> NoHead], [t \in Tags |-> IF t = t1 THEN {a} ELSE NoHead]}

MCInit == CatalogInit /\ ReaderInit /\ part \in {"catalog", "reader"}

\* The bound on publications is reached.
AllPublished ==
  /\ ~Publishing /\ attempts = MaxCatalogs
  /\ UNCHANGED catalogVars

MCNext ==
  /\ UNCHANGED part
  /\ \/ part = "catalog" /\ (CatalogNext \/ AllPublished) /\ UNCHANGED readerVars
     \/ part = "reader" /\ ReaderNext /\ UNCHANGED catalogVars

\* In the part that does not run nothing is enabled.
MCSpec ==
  /\ MCInit /\ [][MCNext]_<<part, catalogVars, readerVars>>
  /\ ReaderFairness
=============================================================================
