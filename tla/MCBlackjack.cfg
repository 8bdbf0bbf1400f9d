SPECIFICATION FairSpec
CONSTANTS
  User = {u1, u2}
  Amount = {1}
  MaxSeats = 2
  MaxMissedDeals = 2
  MaxBets = 3
INVARIANTS TypeOK TasksFindTheirSeat StakesBacked TableIsDriven
PROPERTIES StakeIsSettled
CHECK_DEADLOCK FALSE
