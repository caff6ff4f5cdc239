\* Three requests, two exclusive operations, and the closing of the application.
SPECIFICATION Spec
CONSTANTS
  Request = {r1, r2, r3}
  Operation = {o1, o2}
INVARIANTS ActionSeesNoRequest DrainIsBacked
PROPERTIES WaiterSettles GateReopens ImplementsLock
