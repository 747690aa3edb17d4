SPECIFICATION AccessSpec
CONSTANTS
  Nodes = {3, 301}
  Offers <- MCOffers
  Services = {3}
  Controllers = {"hand", "generated"}
  AppsOf <- MCAppsOf
  Template = 100
  Written <- MCWritten
  MaxKills = 1
  MaxRestarts = 1
  MaxLeaves = 1
INVARIANT
  AccessTypeOK
PROPERTIES
  GrantedTogether
  CollectedGetsIn
  StartsAgain
CHECK_DEADLOCK FALSE
