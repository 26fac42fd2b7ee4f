\* The gateway changes its secrets three times; the proxy is restarted once.
CONSTANTS
  GithubToken = "GITHUB_TOKEN"
  GhToken = "GH_TOKEN"
  Keys = {"GITHUB_TOKEN", "GH_TOKEN", "API_TOKEN"}
  Grants = {"one", "two"}
  MaxChanges = 3
  MaxRestarts = 1
SPECIFICATION Spec
INVARIANTS RevokedWhileRunning TokensAgree
PROPERTIES Settles
