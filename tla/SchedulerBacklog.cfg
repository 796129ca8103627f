SPECIFICATION FairSpec
CONSTANTS
  lib = lib
  app = app
  glue = glue
  doc = doc
  man = man
  HelperCount = 0
  Instances <- Steady
  Graph <- MCGraph
  Drvs <- Crowd
  Compatible <- MCCompatible
INVARIANTS OneBuildPerRunner BoundedBacklog
PROPERTY Terminates
