SPECIFICATION Spec
CONSTANTS
  Nodes = {1, 2, 3, 4}
  Absent = {5}
  Limit = 2
INVARIANTS RejectsExactlyCycles BatchesInOrder WaitsForEveryInput
