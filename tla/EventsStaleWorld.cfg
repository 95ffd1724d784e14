\* No mod has registered world_destroy when the engine destroys a world.
CONSTANTS
  EventNames = {"world_destroy"}
  Hooks = {"WorldDestroy"}
  HookOf <- MCHookOf
  Cancellable <- MCCancellable
  PlayerWorldOnly <- MCPlayerWorldOnly
  WorldDestroy = "WorldDestroy"
  GameShutdown = "GameShutdown"
  Priorities = {0}
  w1 = w1
  Worlds <- MCWorlds
  NoWorld = NoWorld
  CannotAsk = CannotAsk
  NoEvent = NoEvent
  PoolSize = 1
  MaxReports = 1
  MaxHandlers = 1
  MaxDepth = 1
  MaxOpens = 1
SPECIFICATION Spec
INVARIANT NoHandleOutlivesItsWorld
