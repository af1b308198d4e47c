SPECIFICATION Spec
CONSTANTS
  Symbols = {"A"}
  InitialCash = 13
  WashWindow = 1
  Calls = {c1, c2}
  MaxOrders = 3
  Signals <- MCSignals
  Weight = 50
  Prices = {4, 6}
  Commission = 1
  ShareCost = 0
  Slip = 1
  PartialAbove = 1
  MinRatio = 50
  MaxOpenPositions = 2
  MaxPositionPct = 80
  MaxOrderValue = 10
  MaxDailyTrades = 2
  DrawdownPct = 10
  MaxRetries = 2
  MaxContinues = 1
  MaxResets = 1
  MaxDay = 0
SYMMETRY MCSymmetry
INVARIANTS FillsRecorded ChecksOutliveAwaits
PROPERTY HaltedUntilReset
