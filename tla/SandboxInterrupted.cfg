\* A signal arrives while the main command runs.
CONSTANTS
  Shells = {"a"}
  Names = {"s"}
  Jobs <- NoKeepJobs
  Beside = {}
  Faults = {"interrupt"}
  MaxId = 2
SPECIFICATION Spec
PROPERTIES NoKeepDeletes
CHECK_DEADLOCK FALSE
