\* The list of sandboxes empties and fills again.
CONSTANTS
  Names = {"x", "y"}
  Fleet = "*"
  NoName = ""
  Lists <- MCListsChanging
  Late = TRUE
  MaxStreams = 1
  MaxLines = 1
  LinesOf <- MCOneLine
  Capacity = 1
  MaxShown = 1
SPECIFICATION SafetySpec
INVARIANTS CursorOnItem
CHECK_DEADLOCK FALSE
