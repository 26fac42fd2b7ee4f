\* Commands one after the other, a cleanup beside a start, with every fault.
CONSTANTS
  Shells = {"a", "b"}
  Names = {"s", "t"}
  Jobs <- SerialJobs
  Beside <- Cleaning
  Faults = {"gateway", "driver", "killed", "interrupt", "exit"}
  MaxId = 3
SPECIFICATION Spec
INVARIANTS SupervisedRegistered RunningRecordsTrue
PROPERTIES RemovedForGood RunningSpared
VIEW Effective
