SPECIFICATION Spec
CONSTANTS
  N = 1
  MaxOutstanding = 2
INVARIANTS
  ConfirmationFirst
\* A subscription ends, and with it every behaviour.
CHECK_DEADLOCK FALSE
