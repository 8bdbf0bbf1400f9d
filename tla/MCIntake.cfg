SPECIFICATION Spec
CONSTANTS
  Handler = {h1, h2}
  Token <- MCToken
  Padding <- MCPadding
  Key = {"a1"}
  MaxFuture = 2
  MaxAge = 1
  MaxSkew = 1
  RateMax = 2
  RateWindow = 2
  DailyMax = 1
  DayLength = 2
  MaxTime = 3
  MaxRestarts = 1
SYMMETRY HandlerSymmetry
INVARIANTS SingleUse SlidingWindowBound DailyCap
CHECK_DEADLOCK FALSE
