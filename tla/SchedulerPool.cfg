SPECIFICATION Spec
CONSTANTS
  lib = lib
  app = app
  glue = glue
  doc = doc
  man = man
  HelperCount = 1
  Instances <- Steady
  Graph <- MCGraph
  Drvs <- Mixed
  Compatible <- MCCompatible
INVARIANTS InputsPublished HonestResult
PROPERTY ImplementsBuildOrder
