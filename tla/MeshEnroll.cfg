SPECIFICATION Spec
CONSTANTS
  Agents = {a, b}
  Workers = {v, w}
  MaxKey = 4
  PubKeys = 2
  MaxRequests = 3
  Hosts = {"own", "empty", "edge", "foreign", "litellm", "invalid"}
SYMMETRY Symmetry
INVARIANTS BundlesFollowRegistry OnlyGrantedKeys  
CHECK_DEADLOCK FALSE
