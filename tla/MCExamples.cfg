CONSTANTS
  Prime = 17
  Root = 3
  Jobs <- MCJobs
SPECIFICATION Spec
INVARIANTS InBounds ComputesAsMeant AbortsRightly NoConflict PartsMatch
