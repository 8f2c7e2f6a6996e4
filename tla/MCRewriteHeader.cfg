CONSTANTS
  Sources <- MCSources
  ModuleNames = {"", "A"}
  Words <- MCWords
  CurrentYear = 2020
  Times = 2
  Cuts = {0, 5, 15}
SPECIFICATION Spec
INVARIANTS CodeKept YearsKept SecondTimeUnchanged
PROPERTY Ends
