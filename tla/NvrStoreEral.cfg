SPECIFICATION Spec
CONSTANTS
  ABits = 1
  DBits = 1
PROPERTY ChangesSurvive
