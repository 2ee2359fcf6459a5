CONSTANTS
  u = u
  f = f
  p = p
  q = q
  Units = {u}
  Fans = {}
  Pumps = {p}
  Order <- UnitOrder
  PumpOf <- UnitPump
  Primer <- NoPrimer
  Reserving = {u}
  Cooling = {p}
  Warming = {}
  Metered = {}
  RvEvery = {}
  Commands <- ModeCommands
  Modes <- BothModes
  MaxRefs = 2
SPECIFICATION Spec
INVARIANT StoppedIsOff
