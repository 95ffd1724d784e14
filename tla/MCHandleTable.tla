--------------------------- MODULE MCHandleTable ---------------------------
(* Instances of HandleTable for TLC.                                       *)
EXTENDS HandleTableRefinement

CONSTANTS p1, p2, tEntity, tComponent

ThePtrs  == {p1, p2}
TheTypes == {tEntity, tComponent}
=============================================================================
