SPECIFICATION Spec
CONSTANTS Parallel = 3
          Chunks = 2
          MaxFaults = 2
INVARIANTS Lockstep ResultsWhole NoneLeft
PROPERTIES Ends OrphansDie
CHECK_DEADLOCK FALSE
