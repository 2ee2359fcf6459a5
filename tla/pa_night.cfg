SPECIFICATION Spec
CONSTANTS
  Ids = {i1, i2}
  Amounts <- OneAmount
  Pris <- LowPris
  Budgets <- DayOnly
  NightBudgets <- NightOrNot
  Powers <- DeficitPowers
  BatteryPowers <- NoBattery
  ReserveDelay = 0
  DeficitTimeout = 1
  ApproveP1 = TRUE
  NightApproveP1 = FALSE
  Limit = 3000
  HardLimit = 0
  MaxRevokes = 1
SYMMETRY IdSymmetry
PROPERTY P1Protected
