SPECIFICATION Spec
CONSTANTS
  lib = lib
  app = app
  doc = doc
  Batches <- MCBatches
  Known <- MCKnown
  MaxAttempts = 2
INVARIANTS SingleOwner ReclaimedDurable TruthfulRecord NothingUnpublished
PROPERTIES GenerationsKept HeadGrows
