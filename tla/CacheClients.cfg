SPECIFICATION MCSpec
CONSTANTS
  a = a
  b = b
  log = log
  t1 = t1
  RecordNames = {a, b, log}
  Consumer = {a, b}
  Nibbles = {0, 1}
  Depth = 2
  Hash <- MCHash
  NodeLimit = 1
  Recipients = {k1, k2}
  CatalogWorkers = {w1, w2}
  NoBlob = NoBlob
  MaxCatalogs = 2
  Requests = {r1, r2}
  Tags = {t1, t2}
  Names = {a, b}
  Beside <- MCBeside
  NoHead = NoHead
  FirstHeads <- MCFirstHeads
  NoName = NoName
  MaxHeads = 1
INVARIANTS
  CatalogReadable
  AbsentIsTrue
PROPERTIES
  RequestsAnswered
