SPECIFICATION Spec
CONSTANTS
  Workers = {w1, w2}
  Requests = {r1}
  MaxDeliveries = 2
  MaxJobs = 2
  MaxSent = 1
  Modes = {"auto", "manual", "mdoc"}
  Scenarios <- AllScenarios
  Nobody = Nobody
  None = None
INVARIANTS TypeOK OutcomeQueued SubmittedOnPresentation MdocOutcomeSeen
PROPERTIES KeepsOutcomePromise NoMessageOnceClosed
CHECK_DEADLOCK FALSE
