\* Two commands at once or one after the other, that fail and are killed.
CONSTANTS
  Commands = {"a", "b"}
  Names = {"local", "work"}
  Urls = {"http://local", "http://work"}
  Local = "local"
  LocalUrl = "http://local"
  OidcUrls = {"http://work"}
  Jobs <- AllJobs
  None = "none"
SPECIFICATION MCSpec
INVARIANTS CurrentListed TokensAtHome
PROPERTIES EnsuredReachable CommandsEnd
CHECK_DEADLOCK FALSE
