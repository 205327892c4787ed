SPECIFICATION Spec
CONSTANTS
  Boot = {b1, b2}
  Admin = {a1}
  Path = {p1}
  Content = {c1}
  Logo = p1
  Free = Free
  Rearm = 3
  Sec = 2
  Provisioned = TRUE
  MaxTime = 3
  MaxVersion = 2
  MaxCount = 3
  MaxKey = 0
INVARIANTS NoRotationLost CountIsExact RetryAfterHonest
PROPERTIES ImplementsOneShot
SYMMETRY RequestSymmetry
