------------------------------ MODULE MenuNav ------------------------------
(***************************************************************************)
(* The device menus of the main screen (src/src/menusys.c) as one frame of *)
(* the GUI loop after the other sees them: the screen is rendered, the     *)
(* deferred updates are applied, then one key press is handled.  The       *)
(* races between these phases and the I/O worker are the subject of        *)
(* GuiOps.tla; here every phase is atomic.  The theme does not change, so  *)
(* the two page lengths are constants.                                     *)
(***************************************************************************)
EXTENDS Submenu

CONSTANTS
  Devices,      \* the modules of list_support with a menu
  Apps,         \* the devices shown with the theme's list for applications
  Displayed,    \* displayedItems of the list elements: [games, apps]
  Titles,       \* titles, numbers in the order of strcasecmp
  MaxItems      \* bound: submenu nodes allocated in a behaviour

ASSUME DevicesAssumption == Apps \subseteq Devices
ASSUME DisplayedAssumption ==
  Displayed.games \in Nat \ {0, 1} /\ Displayed.apps \in Nat \ {0, 1}
ASSUME TitlesAssumption == Titles \subseteq Nat /\ MaxItems \in Nat

VARIABLES
  phase,       \* what the GUI loop does next: "render", "ops" or "input"
  menus,       \* the list menu: the devices added so far
  selected,    \* the place of selected_item in it, 0 for NULL
  visible,     \* the devices whose menuItem.visible is 1
  menu,        \* menuItem and subMenu of each device
  title,       \* text of each allocated node
  itemsList,   \* gTheme->itemsList: "games" or "apps"; "none" until a menu is shown
  booted       \* deferredInit has run: the intro is over and keys are read

vars == <<phase, menus, selected, visible, menu, title, itemsList, booted>>

Nodes == 1 .. Len(title)
Kind(d) == IF d \in Apps THEN "apps" ELSE "games"
Selected == menus[selected]

(* init(): no device has been added.                                       *)
Init ==
  /\ phase = "render"
  /\ menus = << >> /\ selected = 0 /\ visible = Devices
  /\ menu = [d \in Devices |-> EmptyMenu]
  /\ title = << >>
  /\ itemsList = "none"
  /\ booted = FALSE

(* menuRenderMain draws and then notes which list element is shown.        *)
Render ==
  /\ phase = "render"
  /\ phase' = "ops"
  /\ itemsList' = IF selected = 0 THEN itemsList ELSE Kind(Selected)
  /\ UNCHANGED <<menus, selected, visible, menu, title, booted>>

-----------------------------------------------------------------------------
(* The updates that are applied between rendering and input.               *)

(* GUI_OP_ADD_MENU: menuAppendItem; the first menu becomes the selected.   *)
AddMenu(d) ==
  /\ phase = "ops"
  /\ d \notin Members(menus)
  /\ menus' = Append(menus, d)
  /\ selected' = IF selected = 0 THEN 1 ELSE selected
  /\ UNCHANGED <<phase, visible, menu, title, itemsList, booted>>

(* GUI_OP_APPEND_MENU for a game with this title; every game that has the  *)
(* startup name of the last one played is marked as selected.              *)
AppendMenu(d, text, sel) ==
  /\ phase = "ops"
  /\ d \in Members(menus)
  /\ Len(title) < MaxItems
  /\ title' = Append(title, text)
  /\ menu' = [menu EXCEPT ![d] = Appended(@, Len(title'), sel)]
  /\ UNCHANGED <<phase, menus, selected, visible, itemsList, booted>>

(* GUI_OP_SORT.                                                            *)
SortMenu(d) ==
  /\ phase = "ops"
  /\ d \in Members(menus)
  /\ menu' = [menu EXCEPT ![d] = Sorted(@, title)]
  /\ UNCHANGED <<phase, menus, selected, visible, title, itemsList, booted>>

(* clearMenuGameList before a new list is read.                            *)
ClearMenu(d) ==
  /\ phase = "ops"
  /\ menu[d].list # << >>
  /\ menu' = [menu EXCEPT ![d] = EmptyMenu]
  /\ UNCHANGED <<phase, menus, selected, visible, title, itemsList, booted>>

(* deferredInit: GUI_INIT_DONE ends the intro, GUI_OP_SELECT_MENU          *)
(* (menuSetSelectedItem) selects the default device if it has a menu.  The *)
(* intro loop renders on for a while but reads no pads.                    *)
DeferredInit ==
  /\ phase = "ops"
  /\ ~booted
  /\ \/ selected' = selected
     \/ \E d \in Members(menus) : selected' = At(menus, d)
  /\ booted' = TRUE
  /\ phase' = "render"
  /\ UNCHANGED <<menus, visible, menu, title, itemsList>>

(* A device appears or disappears (bdmUpdateDeviceData).                   *)
SetVisible(d) ==
  /\ phase = "ops"
  /\ visible' = IF d \in visible THEN visible \ {d} ELSE visible \cup {d}
  /\ UNCHANGED <<phase, menus, selected, menu, title, itemsList, booted>>

OpsDone ==
  /\ phase = "ops"
  /\ phase' = IF booted THEN "input" ELSE "render"
  /\ UNCHANGED <<menus, selected, visible, menu, title, itemsList, booted>>

-----------------------------------------------------------------------------
(* One key press.  The main screen takes keys once it has been drawn.      *)

Shown(k) == menus[k] \in visible

(* menuNextH and menuPrevH: to the nearest visible menu on that side.      *)
NextH ==
  /\ phase = "input" /\ itemsList # "none"
  /\ LET right == {k \in selected + 1 .. Len(menus) : Shown(k)}
     IN  selected' = IF right = {} THEN selected
                     ELSE CHOOSE k \in right : \A j \in right : k <= j
  /\ phase' = "render"
  /\ UNCHANGED <<menus, visible, menu, title, itemsList, booted>>

PrevH ==
  /\ phase = "input" /\ itemsList # "none"
  /\ LET left == {k \in 1 .. selected - 1 : Shown(k)}
     IN  selected' = IF left = {} THEN selected
                     ELSE CHOOSE k \in left : \A j \in left : k >= j
  /\ phase' = "render"
  /\ UNCHANGED <<menus, visible, menu, title, itemsList, booted>>

(* refreshMenuPosition, when the main menu screen is left: the first       *)
(* visible menu, or the first of all.                                      *)
RefreshPosition ==
  /\ phase = "input" /\ itemsList # "none"
  /\ LET shown == {k \in 1 .. Len(menus) : Shown(k)}
     IN  selected' = IF shown = {} THEN 1
                     ELSE CHOOSE k \in shown : \A j \in shown : k <= j
  /\ phase' = "render"
  /\ UNCHANGED <<menus, visible, menu, title, itemsList, booted>>

(* The keys that move in the list of the selected device.                  *)
Moves(m, D) ==
  {m, NextV(m, D), PrevV(m, D), NextPage(m, D), PrevPage(m, D), FirstPage(m),
   LastPage(m, D)}

(* menuHandleInputMain; the page length is the one noted while rendering.  *)
MoveV ==
  /\ phase = "input" /\ itemsList # "none"
  /\ \E m \in Moves(menu[Selected], Displayed[itemsList]) :
       menu' = [menu EXCEPT ![Selected] = m]
  /\ phase' = "render"
  /\ UNCHANGED <<menus, selected, visible, title, itemsList, booted>>

(* No menu has been drawn yet.                                             *)
NoInput ==
  /\ phase = "input" /\ itemsList = "none"
  /\ phase' = "render"
  /\ UNCHANGED <<menus, selected, visible, menu, title, itemsList, booted>>

-----------------------------------------------------------------------------
Next ==
  \/ Render \/ OpsDone \/ DeferredInit
  \/ \E d \in Devices :
       \/ AddMenu(d) \/ SortMenu(d) \/ ClearMenu(d) \/ SetVisible(d)
       \/ \E text \in Titles, sel \in BOOLEAN : AppendMenu(d, text, sel)
  \/ NextH \/ PrevH \/ RefreshPosition \/ MoveV \/ NoInput

Spec == Init /\ [][Next]_vars

-----------------------------------------------------------------------------
(* Types; every pointer of a menu is NULL or a node of that menu's list,   *)
(* so no key press follows a node that a clear or a sort left behind.      *)
TypeOK ==
  /\ phase \in {"render", "ops", "input"}
  /\ Members(menus) \subseteq Devices /\ selected \in 0 .. Len(menus)
  /\ visible \subseteq Devices
  /\ title \in Seq(Titles) /\ Len(title) <= MaxItems
  /\ itemsList \in {"none", "games", "apps"} /\ booted \in BOOLEAN
  /\ \A d \in Devices :
       LET m == menu[d] IN
       /\ Members(m.list) \subseteq Nodes /\ m.remindLast \in BOOLEAN
       /\ {m.submenu, m.current, m.pagestart} \subseteq {NULL} \cup Members(m.list)

(* A list with games has a current game, and it is among the items that    *)
(* drawItemsList draws from pagestart on: no order of updates and key      *)
(* presses moves the cursor off the screen or to a freed node.             *)
CurrentDisplayed ==
  /\ TypeOK
  /\ \A d \in Devices :
       LET m == menu[d] IN
       m.list # << >> =>
         /\ m.current # NULL /\ m.pagestart # NULL
         /\ OnPage(m, m.current, Displayed[Kind(d)])
=============================================================================
