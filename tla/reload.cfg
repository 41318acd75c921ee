SPECIFICATION Spec
CONSTANTS
  Instances = {n1, n2}
  RotateAfter = 2
  MaxVersion = 3
  Scenarios <- AllScenarios
INVARIANTS TypeOK FreshWhenQuiet KeyInUsePublished KeyInUseNotOld
PROPERTY EditIsLoaded
CHECK_DEADLOCK FALSE
