SPECIFICATION HistorySpec
CONSTANTS
  Unset = 99
  Grace = 2
  DataFiles = {1, 2}
  EndOfHistory = 3
PROPERTIES EmptyKeepsAll
CHECK_DEADLOCK FALSE
