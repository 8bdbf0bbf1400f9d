SPECIFICATION FairSpec
CONSTANTS
  Req = {r1, r2, r3}
  Handler = {h1, h2}
  Ext = {e1}
  MaxRestarts = 2
INVARIANTS SealedBoardStaysQuiet FounderIsKept BridgedOnce
PROPERTIES DeliveryIsSettled
CHECK_DEADLOCK FALSE
