SPECIFICATION FairSpec
CONSTANTS
  Ids = {i1, i2}
  Amounts <- OneAmount
  Pris <- LowPris
  Budgets <- DayOnly
  NightBudgets <- DayOnly
  Powers <- DeficitPowers
  BatteryPowers <- SomeBattery
  ReserveDelay = 0
  DeficitTimeout = 1
  ApproveP1 = TRUE
  NightApproveP1 = FALSE
  Limit = 3000
  HardLimit = 3000
  MaxRevokes = 1
PROPERTIES NothingLostSilently HardLimitReachesEveryone DeficitReachesEveryone
