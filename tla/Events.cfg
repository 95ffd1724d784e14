\* Four scenes (MCEvents), one at a time by the action constraint: two names on
\* one hook installation, a cancellable hook at two priorities, worlds that come
\* and go, and a second start with RemoveHook and without.
CONSTANTS
  EventNames = {"world_update", "world_update_any", "world_destroy", "is_item_collected"}
  Hooks = {"WorldUpdate", "WorldDestroy", "IsItemCollected", "GameShutdown"}
  HookOf <- MCHookOf
  Cancellable <- MCCancellable
  PlayerWorldOnly <- MCPlayerWorldOnly
  WorldDestroy = "WorldDestroy"
  GameShutdown = "GameShutdown"
  Priorities = {0, 1}
  w1 = w1
  Worlds <- MCWorlds
  NoWorld = NoWorld
  CannotAsk = CannotAsk
  NoEvent = NoEvent
  PoolSize = 2
  MaxReports = 1
  MaxHandlers = 3
  MaxDepth = 2
  MaxOpens = 2
SPECIFICATION Spec
ACTION_CONSTRAINT InOneScene
INVARIANTS
  TypeOK HandlersRunOnceInOrder PoolMatchesEngine DispatchesReachTheirHook
  ClaimsReachTheEngine LimitsStartAfresh
PROPERTIES EveryHandlerHasItsTurn HandlesDieWithTheirWorld
