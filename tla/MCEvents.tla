------------------------------ MODULE MCEvents ------------------------------
(* Instances of Events for TLC.  The mods use only the events, and the     *)
(* game only the hooks, of one scene at a time: all of them at once would  *)
(* multiply the states of questions that have nothing in common.           *)
EXTENDS Events, EventDefs, TLC

CONSTANTS w1

MCHookOf          == [e \in EventNames |-> kEvents[e].hookName]
MCCancellable     == {e \in EventNames : kEvents[e].cancellable}
MCPlayerWorldOnly == {e \in EventNames : kEvents[e].playerWorldOnly}
MCWorlds          == {w1}

Scene(events, hooks, priorities, handlersMax, depthMax, opensMax, removes, players) ==
  [events |-> events, hooks |-> hooks, priorities |-> priorities, handlersMax |-> handlersMax,
   depthMax |-> depthMax, opensMax |-> opensMax, removes |-> removes, players |-> players]

(* Two names on one hook installation, and a player who moves.             *)
OneHook == Scene({"world_update", "world_update_any"}, {"WorldUpdate"}, {0}, 3, 2, 1,
                 {TRUE}, {w1, NoWorld, CannotAsk})

(* A cancellable hook raised inside itself, two slots of it, two handlers  *)
(* in one.                                                                 *)
Chain == Scene({"is_item_collected"}, {"IsItemCollected"}, {0, 1}, 3, 2, 1, {TRUE}, {CannotAsk})

(* Worlds that come and go while handlers run.                             *)
Worldly == Scene({"world_destroy", "is_item_collected"}, {"WorldDestroy", "IsItemCollected"},
                 {0, 1}, 2, 2, 1, {TRUE}, {CannotAsk})

(* The game shuts down and initialises the mod again.                      *)
Restart == Scene({"world_destroy", "is_item_collected"},
                 {"WorldDestroy", "IsItemCollected", "GameShutdown"},
                 {0}, 2, 1, 2, BOOLEAN, {CannotAsk})

(* Restricts the steps to those that stay in a scene.                      *)
InOneScene ==
  \E scene \in {OneHook, Chain, Worldly, Restart} :
    /\ Cardinality(Registered') <= scene.handlersMax /\ Len(stack') <= scene.depthMax
    /\ opens' <= scene.opensMax /\ canRemove \in scene.removes
    /\ playerWorld' \in scene.players
    /\ \A s \in SlotIds : slots'[s].used =>
         slots'[s].event \in scene.events /\ slots'[s].priority \in scene.priorities
    /\ \A d \in 1 .. Len(stack') : stack'[d].hook \in scene.hooks
=============================================================================
