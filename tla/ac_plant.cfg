CONSTANTS
  u = u
  f = f
  p = p
  q = q
  Units = {u}
  Fans = {f}
  Pumps = {p}
  Order <- SharedOrder
  PumpOf <- SharedPump
  Primer <- NoPrimer
  Reserving = {u, p}
  Cooling = {p}
  Warming = {p}
  Metered = {p}
  RvEvery = {}
  Commands <- AllCommands
  Modes <- OneMode
  MaxRefs = 2
SPECIFICATION Spec
INVARIANTS TypeOK OffWhenUnused PoweredMeansGranted GrantedIsReleased
