SPECIFICATION Spec
CONSTANTS
  Instances = {n1, n2}
  RotateAfter = 2
  MaxVersion = 3
  Scenarios <- DueScenario
INVARIANT NewKeyHeldBack
CHECK_DEADLOCK FALSE
