SPECIFICATION AuditSpec
CONSTANTS
  MaxNotional = 4
  BlockLive = TRUE
  Held <- MCHeld
  Quantity <- MCQuantity
  Quote = {0, 2}
  Equity = {4}
  MaxLeverage = 2
  MarginPct = 60
  MaxDailyLoss = 1
  Cooldown = 2
  MaxSpread = 50
  MinDepth = 50
  Spread = {10}
  Depth = {60}
  Pnl <- MCPnl
  Action = {1, 2, 3}
  Stamp = 3
  MaxMoves = 1
INVARIANT VerdictRecomputes
CHECK_DEADLOCK FALSE
