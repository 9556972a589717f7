SPECIFICATION CampaignSpec
CONSTANTS
  None = None
  MayFail = TRUE
  CampaignIds = {c1, c2}
  ListPrice <- MCListPrice
  Demands = {0, 2}
  Percents = {10, 20}
  Durations = {1, 3}
  OpenOffers <- MCOpenOffers
  Desks = {d1, d2}
  MaxCap = 2
  MaxTotal = 3
  MaxPercent = 10
  MaxDays = 2
  MinDemand = 2
INVARIANT CeilingHolds
CHECK_DEADLOCK FALSE
