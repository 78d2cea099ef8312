SPECIFICATION Spec
CONSTANTS
  ABits = 1
  DBits = 2
INVARIANTS TypeOK ReadsAreMemory
PROPERTIES WritesAreCommands SavedWritesSurvive
