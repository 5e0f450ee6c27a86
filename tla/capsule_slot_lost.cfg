SPECIFICATION FairSpec
CONSTANTS
  Capsule = {k1}
  Slots = 1
  MaxFaults = 0
  MaxDeletes = 1
  MaxStops = 0
PROPERTIES OldCapsulesFreeTheirSlot
CHECK_DEADLOCK FALSE
