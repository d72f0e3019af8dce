SPECIFICATION CodexSpec
CONSTANTS
  MaxOdds = 1
  Versions = {v, w}
  Repair = Repair
  Changed = Changed
  Nothing = Nothing
  MaxTokens = 4
  MaxRecords = 5
CHECK_DEADLOCK FALSE
PROPERTIES
  StableBytesKept
