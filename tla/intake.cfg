SPECIFICATION Spec
CONSTANTS
  None = None
  p1 = p1  a2 = a2  b2 = b2  p3 = p3  p4 = p4
  Packages = {p1, a2, b2, p3, p4}
  Version <- MCVersion
  Minimum <- MCMinimum
  Previews = {p1, p4}
  Initial = p1

  Mounts = {m1, m2}
  Labelled = {m1}
  Announced = {a2, b2, p3}
  MaxEvents = 3
PROPERTIES AsApproved NewerKept PackageOffered
CHECK_DEADLOCK FALSE
