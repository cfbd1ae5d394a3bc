----------------------------- MODULE MenuConfig -----------------------------
(***************************************************************************)
(* The configuration of the selected game (src/src/menusys.c): a one-entry *)
(* cache itemConfig, tagged itemConfigId, that the GUI thread asks for on  *)
(* every frame of the game list and waits for before it launches a game or *)
(* opens its settings.  Files are read and written on the I/O worker.      *)
(*                                                                         *)
(* menuSemaId protects itemConfig; selected_item, the current item, the    *)
(* flag actionStatus and the `itemConfigId = -1' of the GUI thread are     *)
(* written without it.  As in IoMan.tla the worker serves its queue in     *)
(* order and outranks the GUI thread, which advances only while the worker *)
(* has nothing to do or waits for a device: in a read or write of a        *)
(* configuration, or in a handler of another component (`Other').          *)
(*                                                                         *)
(* A configuration is the pair of list and item it was read for.  The      *)
(* items of a list are fixed: an update may empty the list and fill it     *)
(* again with the cursor elsewhere, but does not give an id to another     *)
(* game; how a list is reread is the subject of GuiOps.tla.  Of the other  *)
(* screens, information is drawn and requests as the game list does, and   *)
(* the main menu requests nothing.  An operator ending in _Bug is a wrong  *)
(* version of the one below it.                                            *)
(***************************************************************************)
EXTENDS Integers, Sequences

CONSTANTS
  ListCount, \* the device menus, in the order of menuNextH
  ItemCount, \* the items of each list
  Delay,     \* list->delay, in frames without a key
  MaxQueue   \* bound: requests queued when the user or another component acts

ASSUME ListsAssumption  == ListCount \in Nat \ {0} /\ ItemCount \in Nat \ {0}
ASSUME BoundsAssumption == Delay \in Nat /\ MaxQueue \in Nat \ {0}

Lists == 1 .. ListCount
Items == 0 .. ItemCount - 1

NoItem   == -1                  \* current == NULL, and itemConfigId == -1
NoConfig == <<0, NoItem>>       \* itemConfig == NULL

Configs  == {NoConfig} \cup (Lists \X (Items \cup {NoItem}))
Screens  == {"main", "game", "menu"}
Requests == {"_menuLoadConfig", "_menuRequestConfig", "_menuSaveConfig", "Other"}

VARIABLES
  selected,           \* selected_item
  current,            \* item->current->item.id of each list
  visible,            \* the lists with item->visible
  itemConfigId,
  itemConfig,
  actionStatus,
  guiInactiveFrames,  \* stops counting at Delay
  screen,             \* the screen that is drawn
  target,             \* the screen it is fading to, or the same
  key,                \* a key was pressed in this frame
  pc,                 \* where the GUI thread is
  waitFor,            \* what the GUI thread waits for in guiHandleDeferedIO
  granted,            \* SignalSema has handed menuSemaId to the GUI thread
  queue,              \* the requests of the worker; the head is being served
  io,                 \* where the worker is
  reading,            \* the list and id the worker is reading a file for
  disturbed,          \* history: this load or save was not left to itself
  edited,             \* history: the user's changes are in itemConfig, or lost
  wrong,              \* history: a load returned some other configuration
  back,               \* history: the cursor is back on an item too early
  jumped              \* history: another list was selected under itemConfigId

menuVars == <<selected, current, visible>>
cache    == <<itemConfigId, itemConfig>>
guiVars  == <<guiInactiveFrames, screen, target, key>>
thread   == <<pc, waitFor>>
worker   == <<io, reading>>
idHist   == <<back, jumped>>
hist     == <<disturbed, edited, wrong, idHist>>
vars     == <<menuVars, cache, actionStatus, guiVars, thread, granted, queue, worker, hist>>

Selection == <<selected, current[selected]>>

(* Whether menuSemaId is taken by the worker, which keeps it while it      *)
(* waits for a file.  Every other holder releases it in the same step.     *)
Locked == io \in {"read", "write"}

(* The GUI thread is at a WaitSema(menuSemaId) of menuRenderElements.      *)
AtSema == pc = "draw" \/ (pc = "show" /\ screen = "main")

(* SignalSema passes the semaphore to a thread that waits for it; the GUI  *)
(* thread may or may not have called WaitSema yet.                         *)
SignalSema == granted' \in {FALSE, AtSema}

(* The object behind itemConfig goes, with the changes made to it.         *)
Discard ==
  edited' = IF edited # "yes" THEN edited ELSE IF disturbed THEN "no" ELSE "lost"

(* itemConfigId is assigned for the list that is selected now.             *)
SetConfigId(i) == itemConfigId' = i /\ back' = FALSE /\ jumped' = FALSE

(* menuInit and deferredInit, before any list is read: GUI_OP_SELECT_MENU  *)
(* selects the list of the default device and shows it, unless the device  *)
(* is not in use.                                                          *)
Init ==
  /\ \/ selected \in Lists /\ screen = "main"
     \/ selected = 1 /\ screen = "menu"
  /\ current = [l \in Lists |-> NoItem] /\ visible \in SUBSET Lists
  /\ itemConfigId = NoItem /\ itemConfig = NoConfig /\ actionStatus = 0
  /\ guiInactiveFrames = 0 /\ target = screen /\ key = FALSE
  /\ pc = "frame" /\ waitFor = "nothing" /\ granted = FALSE
  /\ queue = << >> /\ io = "idle" /\ reading = NoConfig
  /\ disturbed = FALSE /\ edited = "no" /\ wrong = FALSE
  /\ back = FALSE /\ jumped = FALSE

-----------------------------------------------------------------------------
(* _menuRequestConfig, called on either thread.                            *)

(* The test of `current != NULL && itemConfigId != current->item.id'.      *)
OtherItem == current[selected] # NoItem /\ itemConfigId # current[selected]

(* actionStatus is cleared although the file has only been asked for.      *)
RequestConfig_Bug(q) ==
  \/ /\ OtherItem
     /\ itemConfig' = NoConfig /\ Discard /\ actionStatus' = 0
     /\ IF itemConfigId = NoItem \/ guiInactiveFrames >= Delay
        THEN SetConfigId(current[selected]) /\ queue' = Append(q, "_menuLoadConfig")
        ELSE queue' = q /\ UNCHANGED <<itemConfigId, idHist>>
  \/ /\ ~OtherItem
     /\ actionStatus' = IF itemConfig # NoConfig THEN 0 ELSE actionStatus
     /\ queue' = q
     /\ UNCHANGED <<cache, edited, idHist>>

(* The id is taken over before the user has rested on the item.            *)
RequestTooSoon_Bug(q) ==
  \/ /\ OtherItem
     /\ itemConfig' = NoConfig /\ Discard
     /\ SetConfigId(current[selected])
     /\ queue' = IF itemConfigId = NoItem \/ guiInactiveFrames >= Delay
                THEN Append(q, "_menuLoadConfig") ELSE q
     /\ UNCHANGED actionStatus
  \/ /\ ~OtherItem
     /\ actionStatus' = IF itemConfig # NoConfig THEN 0 ELSE actionStatus
     /\ queue' = q
     /\ UNCHANGED <<cache, edited, idHist>>

(* The configuration of another item is freed; the file of this one is     *)
(* asked for at once if itemConfigId is -1, otherwise when the user has    *)
(* rested on the item.  q is the queue without the request being served.   *)
RequestConfig(q) ==
  \/ /\ OtherItem
     /\ itemConfig' = NoConfig /\ Discard
     /\ IF itemConfigId = NoItem \/ guiInactiveFrames >= Delay
        THEN SetConfigId(current[selected]) /\ queue' = Append(q, "_menuLoadConfig")
        ELSE queue' = q /\ UNCHANGED <<itemConfigId, idHist>>
     /\ UNCHANGED actionStatus
  \/ /\ ~OtherItem
     /\ actionStatus' = IF itemConfig # NoConfig THEN 0 ELSE actionStatus
     /\ queue' = q
     /\ UNCHANGED <<cache, edited, idHist>>

-----------------------------------------------------------------------------
(* The cursor comes to the item i whose configuration was freed when the   *)
(* cursor left it, while itemConfigId still says that it is cached.        *)
ComesTo(i) ==
  back' = (back \/ (/\ i # current[selected] /\ itemConfigId = i /\ i # NoItem
                    /\ itemConfig = NoConfig
                    /\ \A k \in 1 .. Len(queue) : queue[k] # "_menuLoadConfig"))

(* The GUI thread waits in guiHandleDeferedIO, or is about to.             *)
Waiting == waitFor # "nothing"

(* menuLoadConfig or gameMenuLoadConfig has been called.                   *)
Loading == waitFor \in {"launch", "settings"}

(* The worker.                                                             *)

Serve(r) == io = "idle" /\ ~granted /\ queue # << >> /\ Head(queue) = r

Served == queue' = Tail(queue) /\ io' = "idle"

(* _menuLoadConfig: nothing to do if there is a configuration by now.      *)
LoadSkip ==
  /\ Serve("_menuLoadConfig") /\ itemConfig # NoConfig
  /\ actionStatus' = 0
  /\ Served
  /\ UNCHANGED <<menuVars, cache, guiVars, thread, granted, reading, hist>>

(* itemGetConfig(list, itemConfigId) of what is selected at that time.     *)
LoadBegin ==
  /\ Serve("_menuLoadConfig") /\ itemConfig = NoConfig
  /\ reading' = <<selected, itemConfigId>>
  /\ io' = "read"
  /\ UNCHANGED <<menuVars, cache, actionStatus, guiVars, thread, granted, queue, hist>>

LoadEnd ==
  /\ io = "read"
  /\ itemConfig' = reading /\ Discard
  /\ reading' = NoConfig
  /\ actionStatus' = 0
  /\ SignalSema
  /\ Served
  /\ UNCHANGED <<menuVars, itemConfigId, guiVars, thread, disturbed, wrong, idHist>>

(* _menuRequestConfig as a deferred action.                                *)
Request ==
  /\ Serve("_menuRequestConfig")
  /\ RequestConfig(Tail(queue))
  /\ UNCHANGED <<menuVars, guiVars, thread, granted, worker, disturbed, wrong>>

(* _menuSaveConfig: configWrite under the semaphore.                       *)
SaveBegin ==
  /\ Serve("_menuSaveConfig")
  /\ io' = "write"
  /\ UNCHANGED <<menuVars, cache, actionStatus, guiVars, thread, granted, queue, reading, hist>>

SaveEnd ==
  /\ io = "write"
  /\ SetConfigId(NoItem)
  /\ actionStatus' = 0
  /\ SignalSema
  /\ Served
  /\ edited' = IF edited = "yes" THEN "no" ELSE edited
  /\ UNCHANGED <<menuVars, itemConfig, guiVars, thread, reading, disturbed, wrong>>

(* The requests of other components, which wait for a device.              *)
OtherBegin ==
  /\ Serve("Other")
  /\ io' = "busy"
  /\ UNCHANGED <<menuVars, cache, actionStatus, guiVars, thread, granted, queue, reading, hist>>

(* The GUI lock is taken from guiStartFrame to guiEndFrame.                *)
InFrame == pc \in {"show", "draw", "ops"}

(* menuDeferredUpdate for the device of list l: the list is hidden when    *)
(* the device is gone and shown when it is there (bdmUpdateDeviceData);    *)
(* if it needs an update, deferred appends are applied, which fills empty  *)
(* lists, and list l is emptied under the GUI lock.                        *)
MenuUpdate(l) ==
  /\ visible' \in {visible, visible \cup {l}, visible \ {l}}
  /\ current' \in [Lists -> Items \cup {NoItem}]
  /\ \A m \in Lists : \/ current'[m] = current[m]
                      \/ current[m] = NoItem
                      \/ m = l /\ current'[l] = NoItem /\ ~InFrame

OtherEnd ==
  /\ io = "busy"
  /\ \E l \in Lists : MenuUpdate(l)
  /\ ComesTo(current'[selected])
  /\ disturbed' = (disturbed \/ (Loading /\ current'[selected] # current[selected]))
  /\ Served
  /\ UNCHANGED <<selected, cache, actionStatus, guiVars, thread, granted, reading, edited, wrong,
                 jumped>>

WorkerStep == LoadSkip \/ LoadBegin \/ LoadEnd \/ Request \/ SaveBegin \/ SaveEnd
              \/ OtherBegin \/ OtherEnd

-----------------------------------------------------------------------------
(* Frames of the GUI thread.                                               *)

(* After guiShow: the loop of guiHandleDeferedIO, or the rest of a frame   *)
(* of guiMainLoop.                                                         *)
FrameRest == pc' = IF Waiting THEN "wait" ELSE "ops"

(* guiReadPads, in guiMainLoop only.                                       *)
guiReadPads ==
  /\ pc = "frame"
  /\ key' \in BOOLEAN
  /\ guiInactiveFrames' =
       IF key' THEN 0
       ELSE IF guiInactiveFrames < Delay THEN guiInactiveFrames + 1 ELSE Delay
  /\ pc' = "show"
  /\ UNCHANGED <<menuVars, cache, actionStatus, screen, target, waitFor, granted, queue, worker,
                 hist>>

(* Half-way through a transition the new screen is drawn.                  *)
FadeOver ==
  /\ pc = "show" /\ ~granted
  /\ target # screen
  /\ screen' = target
  /\ UNCHANGED <<menuVars, cache, actionStatus, guiInactiveFrames, target, key, thread, granted,
                 queue, worker, hist>>

(* menuRenderElements: the request, then the drawing, each under its own   *)
(* WaitSema.                                                               *)
RenderRequest ==
  /\ pc = "show" /\ screen = "main" /\ ~Locked
  /\ RequestConfig(queue)
  /\ pc' = "draw" /\ granted' = FALSE
  /\ UNCHANGED <<menuVars, guiVars, waitFor, worker, disturbed, wrong>>

RenderDraw ==
  /\ pc = "draw" /\ ~Locked
  /\ FrameRest /\ granted' = FALSE
  /\ UNCHANGED <<menuVars, cache, actionStatus, guiVars, waitFor, queue, worker, hist>>

(* The settings menu draws no configuration.  When the list has gone it    *)
(* gives way to the game list, even while a load or save is waited for;    *)
(* guiSwitchScreen does nothing while the fade to the menu is not over.    *)
menuRenderGameMenu ==
  /\ pc = "show" /\ screen = "game"
  /\ \/ UNCHANGED <<target, disturbed>>
     \/ /\ selected \notin visible /\ target = "game"
        /\ target' = "main"
        /\ disturbed' = (disturbed \/ waitFor = "save")
  /\ FrameRest
  /\ UNCHANGED <<menuVars, cache, actionStatus, guiInactiveFrames, screen, key, waitFor, granted,
                 queue, worker, edited, wrong, idHist>>

menuRenderMenu ==
  /\ pc = "show" /\ screen = "menu"
  /\ FrameRest
  /\ UNCHANGED <<menuVars, cache, actionStatus, guiVars, waitFor, granted, queue, worker, hist>>

(* guiHandleDeferredOps: the list of a device is emptied or filled again.  *)
guiHandleDeferredOps ==
  /\ pc = "ops"
  /\ \/ UNCHANGED <<current, back>>
     \/ \E l \in Lists, i \in Items \cup {NoItem} :
          /\ (current[l] = NoItem /\ Len(queue) < MaxQueue) \/ i = NoItem
          /\ current' = [current EXCEPT ![l] = i]
          /\ ComesTo(current'[selected])
  /\ pc' = "input"
  /\ UNCHANGED <<selected, visible, cache, actionStatus, guiVars, waitFor, granted, queue, worker,
                 disturbed, edited, wrong, jumped>>

-----------------------------------------------------------------------------
(* Input.                                                                  *)

(* A request for a configuration has not been served to its end.           *)
Outstanding == \E i \in 1 .. Len(queue) : queue[i] # "Other"

(* A key is handled when no transition is going on.                        *)
Input(s) == pc = "input" /\ key /\ screen = s /\ target = s /\ Len(queue) < MaxQueue

NoInput ==
  /\ pc = "input"
  /\ pc' = "frame"
  /\ UNCHANGED <<menuVars, cache, actionStatus, guiVars, waitFor, granted, queue, worker, hist>>

(* Another component queues a request.                                     *)
OtherRequest ==
  /\ pc = "input" /\ Len(queue) < MaxQueue
  /\ queue' = Append(queue, "Other")
  /\ pc' = "frame"
  /\ UNCHANGED <<menuVars, cache, actionStatus, guiVars, waitFor, granted, worker, hist>>

(* The next visible list to the right or to the left.                      *)
NextTo(l) ==
  /\ l \in visible /\ l # selected
  /\ \A m \in visible : ~(selected < m /\ m < l) /\ ~(l < m /\ m < selected)

(* itemConfigId keeps the id of an item of the list that is left.          *)
menuMoveH_Bug(l) ==
  /\ Input("main") /\ NextTo(l)
  /\ selected' = l
  /\ pc' = "frame"
  /\ UNCHANGED <<current, visible, cache, actionStatus, guiVars, waitFor, granted, queue, worker,
                 hist>>

(* menuNextH, menuPrevH                                                    *)
menuMoveH(l) ==
  /\ Input("main") /\ NextTo(l)
  /\ selected' = l
  /\ SetConfigId(NoItem)
  /\ pc' = "frame"
  /\ UNCHANGED <<current, visible, itemConfig, actionStatus, guiVars, waitFor, granted, queue,
                 worker, disturbed, edited, wrong>>

(* menuNextV, menuPrevV and the page moves: the cursor goes to another     *)
(* item of the same list.                                                  *)
menuMoveV(i) ==
  /\ Input("main") /\ current[selected] \notin {NoItem, i}
  /\ current' = [current EXCEPT ![selected] = i]
  /\ ComesTo(i)
  /\ pc' = "frame"
  /\ UNCHANGED <<selected, visible, cache, actionStatus, guiVars, waitFor, granted, queue, worker,
                 disturbed, edited, wrong, jumped>>

(* START opens the main menu.                                              *)
OpenMainMenu ==
  /\ Input("main")
  /\ target' = "menu"
  /\ pc' = "frame"
  /\ UNCHANGED <<menuVars, cache, actionStatus, guiInactiveFrames, screen, key, waitFor, granted,
                 queue, worker, hist>>

(* guiShowConfig: applyConfig sets which lists are visible (initSupport)   *)
(* and asks for their updates.                                             *)
guiShowConfig ==
  /\ Input("menu")
  /\ visible' \in SUBSET Lists
  /\ queue' \in {queue, Append(queue, "Other")}
  /\ pc' = "frame"
  /\ UNCHANGED <<selected, current, cache, actionStatus, guiVars, waitFor, granted, worker, hist>>

(* refreshMenuPosition: the first visible list, or the first one.          *)
FirstVisible(l) ==
  \/ l \in visible /\ \A m \in visible : l <= m
  \/ visible = {} /\ l = 1

(* START or cancel leaves the main menu for the game list; another list    *)
(* may be selected then, and itemConfigId is not reset.                    *)
LeaveMainMenu(l) ==
  /\ Input("menu") /\ FirstVisible(l)
  /\ target' = "main"
  /\ selected' = l
  /\ jumped' = (jumped \/ (l # selected /\ itemConfigId # NoItem))
  /\ pc' = "frame"
  /\ UNCHANGED <<current, visible, cache, actionStatus, guiInactiveFrames, screen, key, waitFor,
                 granted, queue, worker, disturbed, edited, wrong, back>>

(* itemExecSelect and itemExecTriangle: the configuration of the current   *)
(* item is loaded to launch it, or to open its settings.                   *)
Select ==
  /\ Input("main") /\ current[selected] # NoItem
  /\ \/ waitFor' = "launch" /\ UNCHANGED target
     \/ waitFor' = "settings" /\ target' = "game"
  /\ pc' = "loadcall"
  /\ UNCHANGED <<menuVars, cache, actionStatus, guiInactiveFrames, screen, key, granted, queue,
                 worker, hist>>

(* A dialog of the settings menu reloads the configuration.                *)
Reload ==
  /\ Input("game")
  /\ waitFor' = "settings"
  /\ pc' = "loadcall"
  /\ UNCHANGED <<menuVars, cache, actionStatus, guiVars, granted, queue, worker, hist>>

(* The settings menu is left before the configuration is saved.            *)
Save_Bug ==
  /\ Input("game")
  /\ edited' = IF itemConfig # NoConfig THEN "yes" ELSE edited
  /\ disturbed' = Outstanding
  /\ actionStatus' = 1
  /\ queue' = Append(queue, "_menuSaveConfig")
  /\ waitFor' = "save" /\ target' = "main"
  /\ pc' = "wait"
  /\ UNCHANGED <<menuVars, cache, guiInactiveFrames, screen, key, granted, worker, wrong, idHist>>

(* GAME_SAVE_CHANGES: itemConfig is changed on the GUI thread and          *)
(* menuSaveConfig called; the load that follows is in Return.              *)
Save ==
  /\ Input("game")
  /\ edited' = IF itemConfig # NoConfig THEN "yes" ELSE edited
  /\ disturbed' = Outstanding
  /\ actionStatus' = 1
  /\ queue' = Append(queue, "_menuSaveConfig")
  /\ waitFor' = "save"
  /\ pc' = "wait"
  /\ UNCHANGED <<menuVars, cache, guiVars, granted, worker, wrong, idHist>>

Back ==
  /\ Input("game")
  /\ target' = "main"
  /\ pc' = "frame"
  /\ UNCHANGED <<menuVars, cache, actionStatus, guiInactiveFrames, screen, key, waitFor, granted,
                 queue, worker, hist>>

-----------------------------------------------------------------------------
(* menuLoadConfig and gameMenuLoadConfig, one assignment a step.           *)
LoadCall ==
  /\ pc = "loadcall"
  /\ actionStatus' = 1
  /\ disturbed' = Outstanding
  /\ pc' = "loadreset"
  /\ UNCHANGED <<menuVars, cache, guiVars, waitFor, granted, queue, worker, edited, wrong,
                 idHist>>

(* No itemConfigId = -1.                                                   *)
LoadReset_Bug ==
  /\ pc = "loadreset"
  /\ pc' = "loadput"
  /\ UNCHANGED <<menuVars, cache, actionStatus, guiVars, waitFor, granted, queue, worker, hist>>

LoadReset ==
  /\ pc = "loadreset"
  /\ SetConfigId(NoItem)
  /\ pc' = "loadput"
  /\ UNCHANGED <<menuVars, itemConfig, actionStatus, guiVars, waitFor, granted, queue, worker,
                 disturbed, edited, wrong>>

LoadPut ==
  /\ pc = "loadput"
  /\ queue' = Append(queue, "_menuRequestConfig")
  /\ pc' = "wait"
  /\ UNCHANGED <<menuVars, cache, actionStatus, guiVars, waitFor, granted, worker, hist>>

(* guiHandleDeferedIO, guiGameHandleDeferedIO: frames are drawn while the  *)
(* flag is set.                                                            *)
WaitFrame ==
  /\ pc = "wait" /\ actionStatus # 0
  /\ pc' = "show"
  /\ UNCHANGED <<menuVars, cache, actionStatus, guiVars, waitFor, granted, queue, worker, hist>>

(* The load returns itemConfig: the game is launched with it (and the menu *)
(* is back when that fails), or its settings are shown.  A save is         *)
(* followed by a load.                                                     *)
Return ==
  /\ pc = "wait" /\ actionStatus = 0
  /\ \/ /\ waitFor = "save"
        /\ waitFor' = "settings" /\ pc' = "loadcall"
        /\ UNCHANGED wrong
     \/ /\ waitFor # "save"
        /\ wrong' = (wrong \/ (~disturbed /\ current[selected] # NoItem /\ itemConfig # Selection))
        /\ waitFor' = "nothing" /\ pc' = "frame"
  /\ UNCHANGED <<menuVars, cache, actionStatus, guiVars, granted, queue, worker, disturbed,
                 edited, idHist>>

GuiStep ==
  \/ guiReadPads \/ FadeOver \/ RenderRequest \/ RenderDraw \/ menuRenderGameMenu
  \/ menuRenderMenu \/ guiHandleDeferredOps \/ NoInput \/ OtherRequest
  \/ \E l \in Lists : menuMoveH(l)
  \/ \E i \in Items : menuMoveV(i)
  \/ OpenMainMenu \/ guiShowConfig \/ (\E l \in Lists : LeaveMainMenu(l))
  \/ Select \/ Reload \/ Save \/ Back
  \/ LoadCall \/ LoadReset \/ LoadPut \/ WaitFrame \/ Return

-----------------------------------------------------------------------------
(* The worker could go on without waiting for a device.                    *)
WorkerReady == io = "idle" /\ ~granted /\ queue # << >>

Next == WorkerStep \/ (~WorkerReady /\ GuiStep)

Spec == Init /\ [][Next]_vars

(* Devices answer, and the threads are scheduled.                          *)
FairSpec == Spec /\ WF_vars(WorkerStep) /\ WF_vars(~WorkerReady /\ GuiStep)

-----------------------------------------------------------------------------
(* Every variable has a value of its type.                                 *)
TypeOK ==
  /\ selected \in Lists /\ current \in [Lists -> Items \cup {NoItem}] /\ visible \in SUBSET Lists
  /\ itemConfigId \in Items \cup {NoItem} /\ itemConfig \in Configs
  /\ actionStatus \in {0, 1} /\ guiInactiveFrames \in 0 .. Delay
  /\ screen \in Screens /\ target \in Screens /\ key \in BOOLEAN
  /\ pc \in {"frame", "show", "draw", "ops", "input", "loadcall", "loadreset", "loadput", "wait"}
  /\ waitFor \in {"nothing", "launch", "settings", "save"} /\ granted \in BOOLEAN
  /\ queue \in Seq(Requests) /\ Len(queue) <= MaxQueue + 3
  /\ io \in {"idle", "read", "write", "busy"} /\ reading \in Configs
  /\ disturbed \in BOOLEAN /\ edited \in {"no", "yes", "lost"} /\ wrong \in BOOLEAN
  /\ back \in BOOLEAN /\ jumped \in BOOLEAN

(* A configuration that is cached under the id of the current item is the  *)
(* one of this item in this list: whatever the worker was reading when the *)
(* user moved to another list or item, it is not drawn, launched or saved  *)
(* as the new one's.  Not so after refreshMenuPosition has selected        *)
(* another list without a reset of itemConfigId, until the id is next      *)
(* assigned.                                                               *)
CachedIsSelected ==
  /\ TypeOK
  /\ /\ itemConfig # NoConfig /\ itemConfigId = current[selected] /\ itemConfigId # NoItem
     /\ ~jumped
     => itemConfig = Selection

(* A game is launched, and its settings are shown, with its own            *)
(* configuration, read after menuLoadConfig asked for it, unless the load  *)
(* was disturbed: another request was outstanding when it was called, or   *)
(* a menu update moved the cursor during the wait.                         *)
ReturnsSelectedIfQuiet == ~wrong

(* What _menuSaveConfig writes is the configuration with the user's        *)
(* changes in it: no read has replaced it, unless the save was disturbed:  *)
(* another request was outstanding when it was called, or the device went  *)
(* during the wait and the game list, which asks for configurations, came  *)
(* back on the screen.                                                     *)
EditIsSaved == edited # "lost"

(* Every load and save returns: the flag the GUI thread waits for is       *)
(* cleared, whichever requests were queued before.  (Not if the list has   *)
(* become empty and nothing is cached: _menuRequestConfig leaves the flag  *)
(* set then.)                                                              *)
LoadReturns ==
  Waiting ~> ~Waiting \/ (current[selected] = NoItem /\ itemConfig = NoConfig)

(* The user stays on an item of the game list and presses no key.          *)
RestsOn(l, i) == Selection = <<l, i>> /\ screen = "main" /\ target = "main" /\ ~key

(* The item on which the user stays gets its configuration drawn, unless   *)
(* itemConfigId named it already when the cursor came to it: it came back  *)
(* before the delay of another item ran out and the freed configuration is *)
(* not asked for again, or refreshMenuPosition jumped to its list and      *)
(* itemConfigId is the id of an item of the list that was left.            *)
SelectionIsDrawn ==
  \A l \in Lists, i \in Items :
    <>[]RestsOn(l, i) => <>[](itemConfig = <<l, i>> \/ back \/ jumped)
=============================================================================
