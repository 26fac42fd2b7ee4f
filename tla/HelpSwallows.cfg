\* The same lines; most of them are of no interest here.
CONSTANTS
  HostEnv = {"TOKEN"}
  Urls = {"url", "url2"}
  Numbers = {"1", "2"}
  Names = {"a", "b"}
  Environs = {"", "a", "b", "url2"}
  MaxNext = 4
  Others <- MCOthers
  Tasks <- AllTasks
  Terminals = {t1, t2}
  Typist = t1
  Jobs <- MCJobs
  Gateways <- MCGateways
  UserFiles <- MCUserFiles
  MaxChanges = 2
SPECIFICATION SshSpec
INVARIANT CommandsRun
CHECK_DEADLOCK FALSE
