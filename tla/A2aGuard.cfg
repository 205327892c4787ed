CONSTANTS
  Peers = {p}
  Handlers = {h1, h2}
  Keys = {"k1", "k2"}
  Skew = 1
  Margin = 1
  Lag = 1
  Drift = 1
  MaxClock = 4
  MaxEvents = 3
  MaxFaults = 2
SPECIFICATION Spec
INVARIANTS NoReplay ContentBound SurvivesGateway GoodInForce
PROPERTIES Converges
CHECK_DEADLOCK FALSE
