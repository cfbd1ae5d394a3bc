----------------------------- MODULE MCMenuNav -----------------------------
(* The device menus with a device for games and one for applications,      *)
(* whose list elements show two and three items.                           *)
EXTENDS MenuNav

MCDisplayed == [games |-> 2, apps |-> 3]
=============================================================================
