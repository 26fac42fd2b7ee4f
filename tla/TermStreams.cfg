\* Two streams, of the same name or not, with channels of one message.
CONSTANTS
  Names = {"x", "y"}
  Fleet = "*"
  NoName = ""
  Lists <- MCLists
  Late = FALSE
  MaxStreams = 2
  MaxLines = 3
  LinesOf <- MCLinesOf
  Capacity = 1
  MaxShown = 2
SPECIFICATION Spec
INVARIANTS OneStreamFollowed ListensToCurrent LinesInOrder
PROPERTIES CancelledEnds EndReported
CHECK_DEADLOCK FALSE
