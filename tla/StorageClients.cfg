SPECIFICATION MCSpec
CONSTANTS
  a = a
  b = b
  blob = blob
  Readers = {r1, r2}
  Keys = {a, b}
  Files <- MCFiles
  Packs = {p1, p2, p3, p4}
  NoPack = NoPack
  Limit = 4
  History = 1
  MaxClock = 6
  Uploaders = {u1, u2}
  Blobs = {blob, config}
  Config = config
  Chunks <- MCChunks
  UploadRetries = 1
  Deadline = 2
  Delays = {1}
INVARIANTS
  HeldAccounted
  WithinBudget
  CompleteUploads
  SendsOnce
PROPERTIES
  ReadsReturn
  UploadsEnd
