SPECIFICATION Spec
CONSTANTS
  HdrBytes = 1
  Payload = 2
  HdrLimit = 2
  SendLimit = 2
  BackoffLimit = 2
  EchoLens = {1, 2}
INVARIANTS
  NoEchoInFlight
