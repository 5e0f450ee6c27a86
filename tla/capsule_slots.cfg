SPECIFICATION FairSpec
CONSTANTS
  Capsule = {k1, k2}
  Slots = 1
  MaxFaults = 1
  MaxDeletes = 2
  MaxStops = 1
INVARIANTS SlotsAddUp DestroyedIsGone NothingLeftBehind
PROPERTIES OldCapsulesGo
CHECK_DEADLOCK FALSE
