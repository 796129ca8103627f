SPECIFICATION FairSpec
CONSTANTS
  lib = lib
  app = app
  doc = doc
  Batches <- MCSingles
  Known <- MCKnown
  MaxAttempts = 1
PROPERTY Terminates
