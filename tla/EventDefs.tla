----------------------------- MODULE EventDefs -----------------------------
(***************************************************************************)
(* kEvents (src/src/host/eventdefs.cpp): the events Lua can register for,  *)
(* the engine hook of each, whether its handlers are filtered on the       *)
(* player's world, and whether its context has a modHandled.               *)
(***************************************************************************)
Def(hookName, playerWorldOnly, cancellable) ==
  [hookName |-> hookName, playerWorldOnly |-> playerWorldOnly, cancellable |-> cancellable]

kEvents ==
  [fixed_update          |-> Def("FixedUpdate",         FALSE, FALSE),
   game_state_transition |-> Def("GameStateTransition", FALSE, FALSE),
   game_init             |-> Def("GameInit",            FALSE, FALSE),
   game_shutdown         |-> Def("GameShutdown",        FALSE, FALSE),
   world_construct       |-> Def("WorldConstruct",      FALSE, FALSE),
   world_destroy         |-> Def("WorldDestroy",        FALSE, FALSE),
   world_update          |-> Def("WorldUpdate",         TRUE,  FALSE),
   world_update_any      |-> Def("WorldUpdate",         FALSE, FALSE),
   world_update_end      |-> Def("WorldUpdateEnd",      TRUE,  FALSE),
   world_update_end_any  |-> Def("WorldUpdateEnd",      FALSE, FALSE),
   items_on_pickup       |-> Def("ItemsOnPickup",       FALSE, TRUE),
   items_on_pickup_done  |-> Def("ItemsOnPickupDone",   FALSE, TRUE),
   is_item_collected     |-> Def("IsItemCollected",     FALSE, TRUE),
   pickup_on_pickup      |-> Def("PickupOnPickup",      FALSE, TRUE),
   shop_item_refresh     |-> Def("ShopItemRefresh",     FALSE, TRUE),
   area_manager_new_area |-> Def("AreaManagerNewArea",  FALSE, TRUE),
   chest_construct       |-> Def("ChestConstruct",      FALSE, FALSE),
   keyboard_update       |-> Def("ycKeyboardUpdate",    FALSE, FALSE),
   mouse_update          |-> Def("ycMouseUpdate",       FALSE, FALSE),
   controller_update     |-> Def("ycControllerUpdate",  FALSE, FALSE)]
=============================================================================
