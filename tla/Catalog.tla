------------------------------- MODULE Catalog -------------------------------
(***************************************************************************)
(* publishCatalog and its readers: the records of a snapshot are split by  *)
(* the hash of their name into two trees, of what consumers look up and of *)
(* the rest. A node is encrypted and uploaded when its children are;       *)
(* workers upload the nodes of a level together, and blobs of earlier      *)
(* catalogs are reused. Then come the metadata, the root and the manifest. *)
(*                                                                         *)
(* A blob is what was encrypted and for whom: its hash stands for its      *)
(* content. Any upload may fail. Left out: compression, the metadata       *)
(* itself, the checks of a node's syntax, and the blobs of the archives.   *)
(***************************************************************************)
EXTENDS Naturals, FiniteSets, SequencesExt

CONSTANTS
  RecordNames,         \* names of records
  Consumer,      \* those consumers look up; the others are the writers'
  Nibbles,       \* digits of a hash
  Depth,         \* digits in a hash
  Hash,          \* the hash of each name
  NodeLimit,     \* records that fit a node
  Recipients,          \* recipients a catalog may be encrypted to
  CatalogWorkers,\* catalogConcurrency
  NoBlob,        \* a node that was not uploaded
  MaxCatalogs     \* bound: publications begun in a behaviour

ASSUME CatalogAssumption ==
  /\ Consumer \subseteq RecordNames /\ Depth \in Nat /\ NodeLimit \in Nat \ {0}
  /\ Hash \in [RecordNames -> [1..Depth -> Nibbles]] /\ MaxCatalogs \in Nat
  /\ NoBlob \notin Recipients

VARIABLES
  catalog,    \* the snapshot: records, and the catalog blobs it may reuse
  registry,   \* blobs of the registry
  manifests,  \* what was published
  plan,       \* the publication in progress
  sender,     \* the node of each worker
  attempts    \* publications begun

catalogVars == <<catalog, registry, manifests, plan, sender, attempts>>

Trees == {"index", "writer"}
HashPrefixes == UNION { [1..n -> Nibbles] : n \in 0..Depth }
Records(names, tree) ==
  IF tree = "index" THEN names \cap Consumer ELSE names \ Consumer
Under(names, node) ==
  { n \in Records(names, node.tree) : IsPrefix(node.prefix, Hash[n]) }

\* partitionCatalog: a node with more records than fit is split by the next digit.
Split(names, node) == Cardinality(Under(names, node)) > NodeLimit
Plan(names) ==
  { node \in [tree : Trees, prefix : HashPrefixes] :
      \/ node.prefix = <<>>
      \/ /\ Under(names, node) # {}
         /\ Split(names, [node EXCEPT !.prefix = Front(@)]) }
Plannable(names) ==
  \A node \in Plan(names) : Len(node.prefix) = Depth => ~Split(names, node)
Level(names, depth) == { node \in Plan(names) : Len(node.prefix) = depth }

NoPlan ==
  [pc |-> "idle", key |-> NoBlob, depth |-> 0, left |-> {}, failed |-> FALSE,
   blob |-> [node \in {} |-> NoBlob], layers |-> {}, root |-> NoBlob]
Resting == [pc |-> "free", node |-> NoBlob]

CatalogInit ==
  /\ catalog = [records |-> {}, key |-> NoBlob, blobs |-> {}]
  /\ registry = {} /\ manifests = {}
  /\ plan = NoPlan /\ sender = [w \in CatalogWorkers |-> Resting] /\ attempts = 0

-----------------------------------------------------------------------------
Publishing == plan.pc # "idle"

\* Records are added between publications.
AddRecord(n) ==
  /\ ~Publishing /\ n \notin catalog.records
  /\ catalog' = [catalog EXCEPT !.records = @ \cup {n}]
  /\ UNCHANGED <<registry, manifests, plan, sender, attempts>>

\* Merge with a snapshot that was loaded: reuseCatalogs takes its blobs unless
\* they are for other recipients.
MergeLoaded(m) ==
  LET same == catalog.key \in {NoBlob, m.key}
  IN  /\ ~Publishing /\ m \in manifests
      /\ catalog' =
           [records |-> catalog.records \cup m.records,
            key |-> IF same THEN m.key ELSE catalog.key,
            blobs |-> IF same THEN catalog.blobs \cup m.nodes ELSE catalog.blobs]
      /\ UNCHANGED <<registry, manifests, plan, sender, attempts>>

\* Mutant of Reused: blobs are reused whoever they are for.
ReusedAnyKey(key) == catalog.blobs

Reused(key) == IF catalog.key = key THEN catalog.blobs ELSE {}

Deepest(names) ==
  CHOOSE d \in 0..Depth :
    /\ Level(names, d) # {}
    /\ \A e \in (d + 1)..Depth : Level(names, e) = {}

PublishCatalog(key) ==
  /\ ~Publishing /\ attempts < MaxCatalogs /\ attempts' = attempts + 1
  /\ Plannable(catalog.records)
  /\ catalog' = [catalog EXCEPT !.key = key, !.blobs = Reused(key)]
  /\ LET d == Deepest(catalog.records)
     IN  plan' = [NoPlan EXCEPT !.pc = "nodes", !.key = key, !.depth = d,
                                !.left = Level(catalog.records, d),
                                !.blob = [node \in Plan(catalog.records) |-> NoBlob]]
  /\ UNCHANGED <<registry, manifests, sender>>

\* What a node holds: its records, or the blobs of its children.
Content(node) ==
  IF Split(catalog.records, node)
  THEN LET Child(x) == [node EXCEPT !.prefix = Append(@, x)]
       IN  [records |-> {},
            children |-> [x \in { y \in Nibbles : Child(y) \in DOMAIN plan.blob } |->
                            plan.blob[Child(x)]]]
  ELSE [records |-> Under(catalog.records, node), children |-> <<>>]

Blob(content) == [content |-> content, key |-> plan.key]

\* A worker takes the next node of the level, until one failed.
TakeNode(w, node) ==
  /\ plan.pc = "nodes" /\ sender[w].pc = "free" /\ ~plan.failed
  /\ node \in plan.left
  /\ plan' = [plan EXCEPT !.left = @ \ {node}]
  /\ sender' = [sender EXCEPT ![w] = [pc |-> "upload", node |-> node]]
  /\ UNCHANGED <<catalog, registry, manifests, attempts>>

\* A blob of an earlier catalog is reused, or the content is encrypted and
\* uploaded. The blob becomes a layer of the manifest.
UploadNode(w) ==
  LET content == Content(sender[w].node)
      blob == Blob(content)
      known == { b \in catalog.blobs : b.content = content }
  IN  /\ sender[w].pc = "upload"
      /\ \E b \in IF known # {} THEN known ELSE {blob} :
           /\ plan' = [plan EXCEPT !.blob[sender[w].node] = b,
                                   !.layers = @ \cup {b}]
           /\ registry' = registry \cup ({b} \ known)
      /\ sender' = [sender EXCEPT ![w] = Resting]
      /\ UNCHANGED <<catalog, manifests, attempts>>

\* The upload fails for every worker that shares it.
NodeFails(w) ==
  /\ sender[w].pc = "upload"
  /\ \A b \in catalog.blobs : b.content # Content(sender[w].node)
  /\ plan' = [plan EXCEPT !.failed = TRUE]
  /\ sender' = [sender EXCEPT ![w] = Resting]
  /\ UNCHANGED <<catalog, registry, manifests, attempts>>

\* Every worker of the level returned.
LevelDone ==
  /\ plan.left = {} \/ plan.failed
  /\ \A w \in CatalogWorkers : sender[w].pc = "free"

NextLevel ==
  /\ plan.pc = "nodes" /\ LevelDone
  /\ plan' = IF plan.failed THEN NoPlan
             ELSE IF plan.depth = 0 THEN [plan EXCEPT !.pc = "root"]
             ELSE [plan EXCEPT !.depth = @ - 1,
                               !.left = Level(catalog.records, plan.depth - 1)]
  /\ UNCHANGED <<catalog, registry, manifests, sender, attempts>>

TreeRoot(tree) == plan.blob[[tree |-> tree, prefix |-> <<>>]]

\* The metadata and the root; the blobs of this catalog are what the next may reuse.
UploadRoot ==
  LET root == Blob([index |-> TreeRoot("index"), writer |-> TreeRoot("writer")])
  IN  /\ plan.pc = "root"
      /\ \/ /\ registry' = registry \cup {root}
            /\ plan' = [plan EXCEPT !.pc = "manifest", !.root = root]
            /\ catalog' = [catalog EXCEPT !.blobs = plan.layers]
         \/ plan' = NoPlan /\ UNCHANGED <<registry, catalog>>
      /\ UNCHANGED <<manifests, sender, attempts>>

\* The manifest lists the layers. An error may hide that it was put.
PutCatalog ==
  /\ plan.pc = "manifest" /\ plan' = NoPlan
  /\ \/ manifests' = manifests \cup
           {[key |-> plan.key, records |-> catalog.records, root |-> plan.root,
             nodes |-> plan.layers]}
     \/ UNCHANGED manifests
  /\ UNCHANGED <<catalog, registry, sender, attempts>>

CatalogNext ==
  \/ \E n \in RecordNames : AddRecord(n)
  \/ \E m \in manifests : MergeLoaded(m)
  \/ \E key \in Recipients : PublishCatalog(key)
  \/ \E w \in CatalogWorkers :
       \/ \E node \in DOMAIN plan.blob : TakeNode(w, node)
       \/ UploadNode(w) \/ NodeFails(w)
  \/ NextLevel \/ UploadRoot \/ PutCatalog

CatalogSpec == CatalogInit /\ [][CatalogNext]_catalogVars

-----------------------------------------------------------------------------
\* catalogView.node: a blob that is a layer, is there, and can be decrypted.
Opens(m, blob) ==
  blob \in m.nodes /\ blob \in registry /\ blob.key = m.key

Unreadable == [readable |-> FALSE]
Open(m, blob) == IF Opens(m, blob) THEN blob.content ELSE Unreadable

\* catalogView.lookup: down the digits of the hash to the records of a leaf.
Lookup(m, tree, name) ==
  LET Step(node, digit) ==
        IF node = Unreadable \/ node.children = <<>> THEN node
        ELSE IF digit \in DOMAIN node.children THEN Open(m, node.children[digit])
        ELSE [records |-> {}, children |-> <<>>]
      walk[d \in 0..Depth] ==
        IF d = 0 THEN Open(m, m.root.content[tree])
        ELSE Step(walk[d - 1], Hash[name][d])
  IN  walk[Depth]

\* Whatever was reused, failed or ran together, a manifest that was put is
\* readable by those it is for: from its root the lookup of every name reaches
\* a leaf, which has its record when the snapshot had it, and no other tree's.
CatalogReadable ==
  \A m \in manifests, tree \in Trees, name \in RecordNames :
    LET leaf == Lookup(m, tree, name)
    IN  /\ m.root \in registry /\ leaf # Unreadable /\ leaf.children = <<>>
        /\ name \in leaf.records <=> name \in Records(m.records, tree)
=============================================================================
