CONSTANTS
  Commands <- Thermostat
  MaxRefs = 2
SPECIFICATION Spec
INVARIANTS PowerHeld
