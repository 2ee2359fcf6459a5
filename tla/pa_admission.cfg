SPECIFICATION Spec
CONSTANTS
  Ids = {i1, i2, i3}
  Amounts <- SomeAmounts
  Pris <- SomePris
  Budgets <- BudgetOrNot
  NightBudgets <- DayOnly
  Powers <- SomePowers
  BatteryPowers <- SomeBattery
  ReserveDelay = 1
  DeficitTimeout = 1
  ApproveP1 = TRUE
  NightApproveP1 = FALSE
  Limit = 3000
  HardLimit = 0
  MaxRevokes = 0
INVARIANTS TypeOK Accounting AvailTracksBudget
PROPERTY WithinBudget
SYMMETRY IdSymmetry
