SPECIFICATION Spec
CONSTANTS
  Worlds <- Machines
  Arguments <- CommandLines
INVARIANTS
  PassedIsEarned
  ImportsCheckout
  SelectedIsRun
\* The command ends.
CHECK_DEADLOCK FALSE
