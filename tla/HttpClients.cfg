\* Two requests, every file replaced once or more, shutdown at any moment.
SPECIFICATION Spec
CONSTANTS
  Requests = {r1, r2}
  MaxVersion = 5
  MaxClients = 3
SYMMETRY Symmetry
INVARIANTS InFlightStaysOpen NoneLost TokenOnlyVerified
PROPERTY UsesCurrentFiles
CHECK_DEADLOCK FALSE
