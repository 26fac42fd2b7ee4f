\* Two commands, one after the other or at once, with failures; at once also with a
\* gateway that is away.  The proxy keeps polling.
CONSTANTS
  Commands = {"a", "b"}
  Rules = {"r1", "r2"}
  Providers = {"p"}
  Jobs <- AllJobs
  Faults = TRUE
  Outages = TRUE
  Orders = {TRUE, FALSE}
  Reload = 1
  Settle = 1
  Deadline = 2
  NoCommand = "none"
SPECIFICATION Spec
INVARIANTS TypeOK OrderedWritesAgree FileIsEffective IncrementsKept
PROPERTIES WaitMeansEnforced EnforcedInTheEnd
