---------------------------- MODULE MCPowerAgent ----------------------------
(* Instances of PowerAgent for TLC: watts in steps of 1000.                *)
EXTENDS PowerAgent, TLC

DayOnly == {0}
NightOrNot == {0, 1000}
CalculatedOnly == {0}
BudgetOrNot == {0, 3000}
BudgetsBoth == {2000, 3000}
IdSymmetry == Permutations(Ids)
OneAmount == {1000}
SomeAmounts == {1000, 2000}
ThreeAmounts == {1000, 2000, 3000}
SomePris == {0, 50}
LowPris == {1, 50}
SomePowers == {-2000, 1500}
DeficitPowers == {-2000, 2000}
SomeBattery == {0, -4000}
NoBattery == {0}
=============================================================================
