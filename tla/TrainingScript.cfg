SPECIFICATION ScriptSpec
CONSTANTS
  Keys <- MCKeys
  Upper <- MCUpper
  Defaults <- MCDefaults
  Common <- MCCommon
  Settable = {"EPOCHS", "MAX_LENGTH"}
  Numbers = {2}
  Text = Text
  Broken = Broken
  Codes = {0, 1, 2, 137}
  None = None
  MaxRead = 4
  MaxLines = 1
CHECK_DEADLOCK FALSE
INVARIANTS
  ScriptTypeOK
  ExitTellsTheTruth
  LinesArrive
