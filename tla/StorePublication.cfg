SPECIFICATION StoreSpec
CONSTANTS
  app = app
  dep = dep
  lib = lib
  copy = copy
  doc = doc
  Paths <- MCPaths
  Refs <- MCRefs
  Archives = {app, dep, lib, doc}
  Archive <- MCArchive
  Workers = {w1, w2}
  Size <- MCSize
  PackSize = 2
  PackedLimit = 2
  Heads <- MCHeads
  Tasks <- MCTasks
  NoTask = NoTask
  Required <- MCRequired
  Stores <- MCStores
  Upstreams <- MCUpstreams
SYMMETRY MCSymmetry
INVARIANTS
  RecordsClosed
  PacksIntact
  HonestReturn
  DeltaAccepted
