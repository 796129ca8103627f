SPECIFICATION FairSpec
CONSTANTS
  lib = lib
  app = app
  glue = glue
  doc = doc
  man = man
  HelperCount = 1
  Instances <- Steady
  Graph <- MCGraph
  Drvs <- Pair
  Compatible <- MCCompatible
PROPERTY Terminates
