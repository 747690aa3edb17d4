SPECIFICATION FeedSpec
CONSTANTS
  Subscribers <- TwoApps
  Loops <- TwoLoops
  MaxQueue = 2
  MaxMeasurements = 4
  NotDict = {3}
INVARIANTS
  FeedTypeOK
  LossesBounded
PROPERTY
  ImplementsMeasurementLog
