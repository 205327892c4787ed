SPECIFICATION FairSpec
CONSTANTS
  Boot = {b1}
  Admin = {a1, a2}
  Path = {p1}
  Content = {c1}
  Logo = p1
  Free = Free
  Rearm = 3
  Sec = 2
  Provisioned = FALSE
  MaxTime = 2
  MaxVersion = 2
  MaxCount = 2
  MaxKey = 1
PROPERTY RequestsFinish
