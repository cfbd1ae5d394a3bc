------------------------------ MODULE MCGuiOps ------------------------------
(* What the worker may find on a device: no game, one, two out of order    *)
(* and two with the same title.                                            *)
EXTENDS GuiOps

SmallLists == {<< >>, <<1>>, <<2, 1>>, <<1, 1>>}
=============================================================================
