SPECIFICATION Spec
CONSTANTS
  Gaps = {1, 2}
  MaxRepairs = 2
INVARIANTS StepsAreLegal WorkIsBounded OutcomeIsEarned
PROPERTIES KeepsTaskLifecycle Terminates
CHECK_DEADLOCK FALSE
