\* Every command, with up to four arguments; the hosts of two sandboxes, two gateways.
CONSTANTS
  HostEnv = {"TOKEN"}
  Urls = {"url", "url2"}
  Numbers = {"1", "2"}
  Names = {"a", "b"}
  Environs = {"", "a", "b", "url2"}
  MaxNext = 4
  Others <- MCOthers
  Tasks <- AllTasks
  Terminals = {t1, t2}
  Typist = t1
  Jobs <- MCJobs
  Gateways <- MCGateways
  UserFiles <- MCUserFiles
  MaxChanges = 2
SPECIFICATION SshSpec
INVARIANTS  OrderFree InstalledFound AliasReaches
PROPERTIES UserLinesKept
CHECK_DEADLOCK FALSE
