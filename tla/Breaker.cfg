\* Four concurrent calls with short and long deadlines: while two of them open
\* the circuit the others are under way, and their late failures prolong it.
SPECIFICATION Spec
CONSTANTS
  Calls = {c1, c2, c3, c4}
  Threshold = 2
  Backoffs = {2, 4}
  Timeouts = {1, 3}
  MaxTimeout = 3
INVARIANTS
  TypeOK
  DeadBackendSpared
  OutageBounded
PROPERTIES
  OpensOnlyOnConsecutiveFailures
  ProbesAgain
