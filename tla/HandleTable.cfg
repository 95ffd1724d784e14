\* Three slots, generations 1..2 so that they wrap, two userdata kept by Lua.
CONSTANTS
  p1 = p1
  p2 = p2
  tEntity = tEntity
  tComponent = tComponent
  NullPtr = NullPtr
  NoType = NoType
  UnusedTicket = UnusedTicket
  DeadTicket = DeadTicket
  Ptrs <- ThePtrs
  Types <- TheTypes
  MaxSlots = 3
  MaxGen = 2
  MaxLap = 1
  MaxHeld = 2
SPECIFICATION Spec
INVARIANTS TypeOK FreeListExact IndexSound LiveHandleNamesItsObject OneSlotPerObject
PROPERTIES StaleStaysStale InvalidateAllLeavesNothingLive KeepsPromise
