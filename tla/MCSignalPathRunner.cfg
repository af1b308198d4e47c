SPECIFICATION FairSpec
CONSTANTS
  Symbols = {"A", "B"}
  InitialCash = 30
  WashWindow = 1
  Calls = {c1}
  MaxOrders = 2
  Signals <- MCRunnerSignals
  Weight = 50
  Prices = {4, 6}
  Commission = 1
  ShareCost = 0
  Slip = 1
  PartialAbove = 1
  MinRatio = 25
  MaxOpenPositions = 1
  MaxPositionPct = 80
  MaxOrderValue = 20
  MaxDailyTrades = 3
  DrawdownPct = 10
  MaxRetries = 2
  MaxContinues = 1
  MaxResets = 0
  MaxDay = 0
INVARIANTS OpenPositionsWithinLimit
PROPERTY CallsEnd
