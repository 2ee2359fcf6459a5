CONSTANTS
  u = u
  f = f
  p = p
  q = q
  Units = {u}
  Fans = {}
  Pumps = {p, q}
  Order <- PrimedOrder
  PumpOf <- UnitPump
  Primer <- PrimerOfP
  Reserving = {p}
  Cooling = {p}
  Warming = {p}
  Metered = {}
  RvEvery = {}
  Commands <- PrimedCommands
  Modes <- BothModes
  MaxRefs = 2
SPECIFICATION FairSpec
PROPERTIES CompressorUnderControl DryRunOnlyWhenWoken WaitersGetAnswer PumpsComeToRest
