\* One remote order file and one request at a time.
SPECIFICATION Spec
CONSTANTS
  Files = {f1}
  Requests = {r1}
  MaxVersions = 2
  MaxSum = 3
  MaxRev = 2
PROPERTIES
  ReenableValidates
CHECK_DEADLOCK FALSE
