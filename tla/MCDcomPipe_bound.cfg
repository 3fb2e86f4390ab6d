SPECIFICATION Spec
CONSTANTS
  u1 = u1
  u2 = u2
  u3 = u3
  u4 = u4
  i1 = i1
  i2 = i2
  Users <- Callers
  Pipes = {p1, p2, p3, p4}
  Ifaces = {i1, i2}
  IfaceOf <- CalledIface
  MaxActive = 1
  AlterFails = TRUE
  None = None
CHECK_DEADLOCK FALSE
INVARIANTS PresentlyBound
