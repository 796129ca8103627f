SPECIFICATION Spec
CONSTANTS
  lib = lib
  app = app
  glue = glue
  doc = doc
  man = man
  HelperCount = 1
  Instances <- Replaceable
  Graph <- MCGraph
  Drvs <- Pair
  Compatible <- MCCompatible
INVARIANTS OneAttempt FinishIsFinal
