\* The API server blips while an overview is built.
SPECIFICATION Spec
CONSTANTS
  Seconds = 3
  RetryAfter = 1
  Slow = 1
  Certs = 1
  MaxTime = 5
INVARIANT EmptySchematicNotPinned
