--------------------------- MODULE SnapshotIndex ---------------------------
(***************************************************************************)
(* Snapshots of the binary cache and what may be added to one: records of  *)
(* store paths, coverage by the upstream cache, and the files that hold    *)
(* the archives; Merge, RequireClosed, extend and selectPaths.             *)
(*                                                                         *)
(* A blob is the set of archives in it. The references and the archive of  *)
(* a path are functions of the path, so that two records of one path never *)
(* conflict.                                                               *)
(***************************************************************************)
EXTENDS Naturals

CONSTANTS
  Paths,     \* store paths
  Refs,      \* the references of each, itself among them or not
  Archives,  \* NAR archives, named by their hash
  Archive    \* the archive of each path

ASSUME IndexAssumption ==
  Refs \in [Paths -> SUBSET Paths] /\ Archive \in [Paths -> Archives]

NoBlob == {}
NewSnapshot ==
  [upstream |-> {}, narinfos |-> {}, files |-> [a \in Archives |-> NoBlob]]

IsSnapshot(s) ==
  s \in [upstream : SUBSET Paths, narinfos : SUBSET Paths,
         files : [Archives -> SUBSET Archives]]

Covered(s) == s.upstream \cup s.narinfos
Contains(s, p) == p \in Covered(s)
HasFile(s, a) == s.files[a] # NoBlob

ValidateRecords(s) == \A p \in s.narinfos : HasFile(s, Archive[p])

RequireClosed(s) ==
  /\ ValidateRecords(s)
  /\ \A p \in Covered(s) : Refs[p] \subseteq Covered(s)

Merge(s, other) ==
  [upstream |-> s.upstream \cup other.upstream,
   narinfos |-> s.narinfos \cup other.narinfos,
   files |-> [a \in Archives |->
                IF HasFile(s, a) THEN s.files[a] ELSE other.files[a]]]

\* extend: whether an index takes over the view of itself with a delta. Only what
\* is new is looked at.
Extendable(index, delta) ==
  LET view == Merge(index, delta)
      records == delta.narinfos \ index.narinfos
      changed == records \cup (delta.upstream \ index.upstream)
  IN  /\ \A p \in records : HasFile(view, Archive[p])
      /\ \A p \in changed : Refs[p] \subseteq Covered(view)

\* What is reached from roots by references within a set of paths.
Reach(roots, within) ==
  { p \in within :
      \A T \in SUBSET within :
        roots \cap within \subseteq T
          /\ (\A q \in T : Refs[q] \cap within \subseteq T) => p \in T }

\* selectPaths: the records of the roots that are there, with all they refer to.
SelectPaths(index, roots) ==
  LET seen == Reach(roots, Covered(index))
      kept == index.narinfos \cap seen
  IN  [upstream |-> index.upstream \cap seen,
       narinfos |-> kept,
       files |-> [a \in Archives |->
                    IF \E p \in kept : Archive[p] = a THEN index.files[a] ELSE NoBlob]]
=============================================================================
