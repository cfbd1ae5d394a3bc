------------------------------ MODULE GuiOps -------------------------------
(***************************************************************************)
(* Deferred GUI updates (src/src/gui.c) and the menu updaters that use     *)
(* them (src/src/opl.c).  The GUI thread renders frames, applies the       *)
(* deferred operations and handles input; the I/O worker rereads a         *)
(* device's game list and defers one operation per game.                   *)
(*                                                                         *)
(* gSemaId protects the list gUpdateList .. gUpdateEnd, gGUILockSemaId is  *)
(* held by the GUI thread from guiStartFrame to guiEndFrame and by whoever *)
(* frees a game list.  As in IoMan.tla the worker outranks the GUI thread, *)
(* which advances only while the worker is blocked; where the worker waits *)
(* for a device, the answer may come at any point of the GUI thread's      *)
(* code.                                                                   *)
(*                                                                         *)
(* An operation is numbered when it is linked; the submenu node that an    *)
(* APPEND_MENU allocates has the number of its operation.  0 stands for    *)
(* NULL.  GUI_OP_CLEAR_SUBMENU and GUI_OP_ADD_HINT have no caller, and     *)
(* nobody uses the serial ids that guiDeferUpdate returns: they are left   *)
(* out.  An operator ending in _Bug is a wrong version of the one below    *)
(* it.                                                                     *)
(***************************************************************************)
EXTENDS Submenu

CONSTANTS
  Devices,      \* the modules of list_support
  NoDevice,     \* selected_item = NULL
  GameLists,    \* what itemUpdate may find: the titles of the games, as
                \* numbers in the order of strcasecmp
  Autosort,     \* gAutosort
  MaxUpdates    \* bound: menu updates in a behaviour

GuiLabels == {"top", "render", "opswait", "ops", "opsnull", "vsync", "input", "nav",
              "dlg", "dlgframe", "confirmed", "dwait", "dlink", "dsignal"}
IoLabels  == {"idle", "opswait", "ops", "opsnull", "cleartest", "clearlock", "clear",
              "unlock", "reading", "dwait", "dlink", "dsignal"}

ASSUME DevicesAssumption == NoDevice \notin Devices
ASSUME ListsAssumption ==
  GameLists \subseteq Seq(Nat) /\ Autosort \in BOOLEAN /\ MaxUpdates \in Nat

VARIABLES
  gUpdateList,     \* the list of deferred operations
  gUpdateEnd,      \* its tail pointer
  ops,             \* every operation linked so far, by number
  semaId,          \* gSemaId: 1 free, 0 taken
  guiLockSema,     \* gGUILockSemaId
  registered,      \* the devices whose mod->support is set
  selected,        \* the device of selected_item
  gInitComplete,
  menu,            \* menuItem and subMenu of each device
  pc,              \* where each thread is
  todo,            \* the operations each thread has still to defer
  wdev,            \* the device that the worker updates
  navAt,           \* the variable cur of a move in the list
  booted,          \* deferredInit has been started
  updates,         \* menu updates so far
  fault,           \* a thread has followed a NULL pointer
  gen,             \* history: lists read from each device
  applied,         \* history: operations applied
  lost,            \* history: operations linked behind no reachable node
  stray            \* history: a move has followed a freed node in a filled list

queue    == <<gUpdateList, gUpdateEnd, ops, lost>>
menuVars == <<selected, gInitComplete, menu>>
work     == <<todo, wdev, booted, updates, gen, registered>>
nav      == <<navAt, stray>>
vars     == <<queue, applied, semaId, guiLockSema, menuVars, pc, work, nav, fault>>

Gui     == "gui"
Io      == "io"
Threads == {Gui, Io}

Goto(t, label) == pc' = [pc EXCEPT ![t] = label]

Title == [n \in 1 .. Len(ops) |-> ops[n].title]

AddMenu(d)  == [type |-> "ADD_MENU", dev |-> d, title |-> 0, sel |-> FALSE, gen |-> 0]
InitDone    == [type |-> "INIT_DONE", dev |-> NoDevice, title |-> 0, sel |-> FALSE, gen |-> 0]
SelectMenu(d) == [type |-> "SELECT_MENU", dev |-> d, title |-> 0, sel |-> FALSE, gen |-> 0]
SortMenu(d) == [type |-> "SORT", dev |-> d, title |-> 0, sel |-> FALSE, gen |-> 0]
AppendMenu(d, title, sel, g) ==
  [type |-> "APPEND_MENU", dev |-> d, title |-> title, sel |-> sel, gen |-> g]

-----------------------------------------------------------------------------
(* guiInit; init() then registers the first devices on the GUI thread.     *)
Init ==
  /\ gUpdateList = << >> /\ gUpdateEnd = NULL /\ ops = << >> /\ lost = {}
  /\ applied = {}
  /\ semaId = 1 /\ guiLockSema = 1
  /\ selected = NoDevice /\ gInitComplete = FALSE
  /\ menu = [d \in Devices |-> EmptyMenu]
  /\ pc = [t \in Threads |-> IF t = Gui THEN "input" ELSE "idle"]
  /\ todo = [t \in Threads |-> << >>]
  /\ wdev = NoDevice /\ booted = FALSE /\ updates = 0
  /\ gen = [d \in Devices |-> 0] /\ registered = {}
  /\ navAt = NULL /\ stray = FALSE
  /\ fault = FALSE

WaitSema   == semaId = 1 /\ semaId' = 0 /\ UNCHANGED guiLockSema
SignalSema == semaId' = 1 /\ UNCHANGED guiLockSema
guiLock    == guiLockSema = 1 /\ guiLockSema' = 0 /\ UNCHANGED semaId
guiUnlock  == guiLockSema' = 1 /\ UNCHANGED semaId

-----------------------------------------------------------------------------
(* guiDeferUpdate, called with the first operation of todo.                *)

DeferWait(t) ==
  /\ pc[t] = "dwait"
  /\ WaitSema
  /\ Goto(t, "dlink")
  /\ UNCHANGED <<queue, applied, menuVars, work, nav, fault>>

(* The new operation becomes the head.                                     *)
Enqueued_Bug(n) == <<n>> \o gUpdateList

(* The list once operation n is linked behind the tail.                    *)
Enqueued(n) == Append(gUpdateList, n)

(* A node linked now is reachable from gUpdateList.                        *)
TailReachable ==
  gUpdateList # << >> => gUpdateEnd = gUpdateList[Len(gUpdateList)]

(* An operation is linked behind gUpdateEnd.  If gUpdateEnd is NULL while  *)
(* the list is not empty, the store through it either faults or goes to    *)
(* low memory; an operation linked behind a node that is not in the list   *)
(* is never seen again.                                                    *)
DeferLink(t) ==
  /\ pc[t] = "dlink"
  /\ LET n == Len(ops) + 1 IN
     /\ ops' = Append(ops, Head(todo[t]))
     /\ gUpdateEnd' = n
     /\ \/ /\ TailReachable
           /\ gUpdateList' = Enqueued(n)
           /\ UNCHANGED <<lost, fault>>
        \/ /\ ~TailReachable
           /\ lost' = lost \cup {n}
           /\ fault' \in {FALSE, gUpdateEnd = NULL}
           /\ UNCHANGED gUpdateList
  /\ todo' = [todo EXCEPT ![t] = Tail(@)]
  /\ Goto(t, "dsignal")
  /\ UNCHANGED <<applied, semaId, guiLockSema, menuVars, wdev, booted, updates, gen,
                 registered, nav>>

(* Where a thread continues after its last guiDeferUpdate.                 *)
Caller(t) == IF t = Gui THEN "input" ELSE "idle"

DeferSignal(t) ==
  /\ pc[t] = "dsignal"
  /\ SignalSema
  /\ Goto(t, IF todo[t] = << >> THEN Caller(t) ELSE "dwait")
  /\ UNCHANGED <<queue, applied, menuVars, work, nav, fault>>

-----------------------------------------------------------------------------
(* guiHandleDeferredOps: the GUI thread in every frame, and the worker     *)
(* through guiExecDeferredOps.                                             *)

OpsWait(t) ==
  /\ pc[t] = "opswait"
  /\ WaitSema
  /\ Goto(t, "ops")
  /\ UNCHANGED <<queue, applied, menuVars, work, nav, fault>>

(* guiHandleOp: what operation n does to the menus.                        *)
HandleOp(n) ==
  LET op == ops[n] IN
  /\ gInitComplete' = (gInitComplete \/ op.type = "INIT_DONE")
  /\ selected' = IF op.type = "SELECT_MENU" \/ (op.type = "ADD_MENU" /\ selected = NoDevice)
                 THEN op.dev ELSE selected
  /\ menu' = CASE op.type = "APPEND_MENU" -> [menu EXCEPT ![op.dev] = Appended(@, n, op.sel)]
               [] op.type = "SORT"        -> [menu EXCEPT ![op.dev] = Sorted(@, Title)]
               [] OTHER                   -> menu

(* The pass over the list: the first operation is applied and freed.       *)
OpsStep(t) ==
  /\ pc[t] = "ops" /\ gUpdateList # << >>
  /\ HandleOp(Head(gUpdateList))
  /\ gUpdateList' = Tail(gUpdateList)
  /\ applied' = applied \cup {Head(gUpdateList)}
  /\ UNCHANGED <<gUpdateEnd, ops, lost, semaId, guiLockSema, pc, work, nav, fault>>

OpsSignal(t) ==
  /\ pc[t] = "ops" /\ gUpdateList = << >>
  /\ SignalSema
  /\ Goto(t, "opsnull")
  /\ UNCHANGED <<queue, applied, menuVars, work, nav, fault>>

(* gUpdateEnd = NULL, after the semaphore is released.                     *)
OpsNull(t) ==
  /\ pc[t] = "opsnull"
  /\ gUpdateEnd' = NULL
  /\ Goto(t, IF t = Gui THEN "vsync" ELSE "cleartest")
  /\ UNCHANGED <<gUpdateList, ops, lost, applied, semaId, guiLockSema, menuVars, work,
                 nav, fault>>

-----------------------------------------------------------------------------
(* The worker: menuDeferredUpdate and updateMenuFromGameList for device d. *)

(* The operations still deferred from the last update are not applied      *)
(* first.                                                                  *)
UpdateBegin_Bug(d) ==
  /\ pc[Io] = "idle"
  /\ updates < MaxUpdates /\ d \in registered
  /\ updates' = updates + 1
  /\ wdev' = d
  /\ Goto(Io, "cleartest")
  /\ UNCHANGED <<queue, applied, semaId, guiLockSema, menuVars, todo, booted, gen,
                 registered, nav, fault>>

UpdateBegin(d) ==
  /\ pc[Io] = "idle"
  /\ updates < MaxUpdates /\ d \in registered
  /\ updates' = updates + 1
  /\ wdev' = d
  /\ Goto(Io, "opswait")
  /\ UNCHANGED <<queue, applied, semaId, guiLockSema, menuVars, todo, booted, gen,
                 registered, nav, fault>>

(* clearMenuGameList: nothing to do for an empty list.                     *)
ClearTest ==
  /\ pc[Io] = "cleartest"
  /\ Goto(Io, IF menu[wdev].list = << >> THEN "reading" ELSE "clearlock")
  /\ UNCHANGED <<queue, applied, semaId, guiLockSema, menuVars, work, nav, fault>>

(* The lock is polled: while it is taken the worker tries again.           *)
ClearLock_Bug ==
  /\ pc[Io] = "clearlock"
  /\ \/ guiLock /\ Goto(Io, "clear")
     \/ guiLockSema = 0 /\ Goto(Io, "cleartest") /\ UNCHANGED <<semaId, guiLockSema>>
  /\ UNCHANGED <<queue, applied, menuVars, work, nav, fault>>

ClearLock ==
  /\ pc[Io] = "clearlock"
  /\ guiLock
  /\ Goto(Io, "clear")
  /\ UNCHANGED <<queue, applied, menuVars, work, nav, fault>>

(* submenuDestroy, and the pointers into the list.                         *)
Clear ==
  /\ pc[Io] = "clear"
  /\ menu' = [menu EXCEPT ![wdev] = EmptyMenu]
  /\ Goto(Io, "unlock")
  /\ UNCHANGED <<queue, applied, semaId, guiLockSema, selected, gInitComplete,
                 work, nav, fault>>

ClearUnlock ==
  /\ pc[Io] = "unlock"
  /\ guiUnlock
  /\ Goto(Io, "reading")
  /\ UNCHANGED <<queue, applied, menuVars, work, nav, fault>>

(* The list is sorted before it is filled.                                 *)
Deferred_Bug(d, games, last, g) ==
  (IF Autosort THEN <<SortMenu(d)>> ELSE << >>)
    \o [i \in DOMAIN games |-> AppendMenu(d, games[i], i = last, g)]

(* One APPEND_MENU for each game, last is the one last played, then SORT.  *)
Deferred(d, games, last, g) ==
  [i \in DOMAIN games |-> AppendMenu(d, games[i], i = last, g)]
    \o (IF Autosort THEN <<SortMenu(d)>> ELSE << >>)

(* itemUpdate returns the games found on the device.                       *)
ItemUpdate ==
  /\ pc[Io] = "reading"
  /\ \E games \in GameLists : \E last \in {0} \cup DOMAIN games :
       todo' = [todo EXCEPT ![Io] = Deferred(wdev, games, last, gen[wdev] + 1)]
  /\ gen' = [gen EXCEPT ![wdev] = @ + 1]
  /\ Goto(Io, IF todo'[Io] = << >> THEN "idle" ELSE "dwait")
  /\ UNCHANGED <<queue, applied, semaId, guiLockSema, menuVars, wdev, booted,
                 updates, registered, nav, fault>>

(* deferredInit: the intro may end; the default device, d, is selected.    *)
DeferredInit ==
  /\ pc[Io] = "idle"
  /\ ~booted
  /\ booted' = TRUE
  /\ \E rest \in {<< >>} \cup {<<SelectMenu(d)>> : d \in registered} :
       todo' = [todo EXCEPT ![Io] = <<InitDone>> \o rest]
  /\ Goto(Io, "dwait")
  /\ UNCHANGED <<queue, applied, semaId, guiLockSema, menuVars, wdev, updates, gen,
                 registered, nav, fault>>

-----------------------------------------------------------------------------
(* The GUI thread: guiMainLoop.                                            *)

(* guiStartFrame.                                                          *)
StartFrame ==
  /\ pc[Gui] = "top"
  /\ guiLock
  /\ Goto(Gui, "render")
  /\ UNCHANGED <<queue, applied, menuVars, work, nav, fault>>

(* guiShow and the overlays.                                               *)
Render ==
  /\ pc[Gui] = "render"
  /\ Goto(Gui, "opswait")
  /\ UNCHANGED <<queue, applied, semaId, guiLockSema, menuVars, work, nav, fault>>

(* guiEndFrame: waits for the vertical sync, then unlocks.                 *)
EndFrame ==
  /\ pc[Gui] = "vsync"
  /\ guiUnlock
  /\ Goto(Gui, "input")
  /\ UNCHANGED <<queue, applied, menuVars, work, nav, fault>>

(* No key is pressed, or one that changes nothing here.                    *)
NoInput ==
  /\ pc[Gui] = "input"
  /\ Goto(Gui, "top")
  /\ UNCHANGED <<queue, applied, semaId, guiLockSema, menuVars, work, nav, fault>>

(* A device is enabled in the settings, or by init(): initSupport and      *)
(* initMenuForListSupport.                                                 *)
InitSupport(d) ==
  /\ pc[Gui] = "input"
  /\ d \notin registered
  /\ registered' = registered \cup {d}
  /\ todo' = [todo EXCEPT ![Gui] = <<AddMenu(d)>>]
  /\ Goto(Gui, "dwait")
  /\ UNCHANGED <<queue, applied, semaId, guiLockSema, menuVars, wdev, booted,
                 updates, gen, nav, fault>>

(* menuNextV, menuPrevV and the like first read current ...                *)
NavRead ==
  /\ pc[Gui] = "input"
  /\ selected # NoDevice /\ menu[selected].current # NULL
  /\ navAt' = menu[selected].current
  /\ Goto(Gui, "nav")
  /\ UNCHANGED <<queue, applied, semaId, guiLockSema, menuVars, work, stray, fault>>

(* ... and then follow its links, without guiLock.  If the node has been   *)
(* freed meanwhile, current becomes whatever the freed memory holds.       *)
NavMove ==
  /\ pc[Gui] = "nav"
  /\ LET m    == menu[selected]
         live == {navAt, m.current, m.pagestart} \subseteq Members(m.list)
     IN  /\ \/ live /\ \E to \in {NextV(m, 1), PrevV(m, 1)} :
                         menu' = [menu EXCEPT ![selected] = to]
            \/ ~live /\ \E n \in 0 .. Len(ops) :
                         menu' = [menu EXCEPT ![selected].current = n]
         /\ stray' = (stray \/ (~live /\ m.list # << >>))
  /\ navAt' = NULL
  /\ Goto(Gui, "top")
  /\ UNCHANGED <<queue, applied, semaId, guiLockSema, selected, gInitComplete, work,
                 fault>>

(* menuDeleteGame and menuRenameGame: the user is asked about the current  *)
(* game, in frames that apply no deferred operation.                       *)
Ask ==
  /\ pc[Gui] = "input"
  /\ selected # NoDevice /\ menu[selected].current # NULL
  /\ Goto(Gui, "dlg")
  /\ UNCHANGED <<queue, applied, semaId, guiLockSema, menuVars, work, nav, fault>>

DialogFrame ==
  /\ pc[Gui] = "dlg"
  /\ guiLock
  /\ Goto(Gui, "dlgframe")
  /\ UNCHANGED <<queue, applied, menuVars, work, nav, fault>>

(* The user has not answered yet, cancels or accepts.                      *)
DialogFrameEnd ==
  /\ pc[Gui] = "dlgframe"
  /\ guiUnlock
  /\ \E label \in {"dlg", "top", "confirmed"} : Goto(Gui, label)
  /\ UNCHANGED <<queue, applied, menuVars, work, nav, fault>>

(* itemDelete or itemRename of what is current by then; reading the id     *)
(* through a NULL current faults or yields some id.                        *)
Confirmed ==
  /\ pc[Gui] = "confirmed"
  /\ fault' \in {FALSE, menu[selected].current = NULL}
  /\ Goto(Gui, "top")
  /\ UNCHANGED <<queue, applied, semaId, guiLockSema, menuVars, work, nav>>

-----------------------------------------------------------------------------
Shared(t) ==
  \/ DeferWait(t) \/ DeferLink(t) \/ DeferSignal(t)
  \/ OpsWait(t) \/ OpsStep(t) \/ OpsSignal(t) \/ OpsNull(t)

IoStep ==
  \/ Shared(Io)
  \/ \E d \in Devices : UpdateBegin(d)
  \/ ClearTest \/ ClearLock \/ Clear \/ ClearUnlock \/ ItemUpdate \/ DeferredInit

GuiStep ==
  \/ Shared(Gui)
  \/ StartFrame \/ Render \/ EndFrame \/ NoInput
  \/ \E d \in Devices : InitSupport(d)
  \/ NavRead \/ NavMove \/ Ask \/ DialogFrame \/ DialogFrameEnd \/ Confirmed

(* The worker could run on: it neither waits for a device nor for a        *)
(* semaphore that is taken.                                                *)
WorkerReady ==
  /\ pc[Io] \notin {"idle", "reading"}
  /\ pc[Io] \in {"dwait", "opswait"} => semaId = 1
  /\ pc[Io] = "clearlock" => guiLockSema = 1

GuiMayRun == ~WorkerReady

Next ==
  \/ ~fault /\ IoStep
  \/ ~fault /\ GuiMayRun /\ GuiStep
  \/ fault /\ UNCHANGED vars

Spec == Init /\ [][Next]_vars

(* Both threads are scheduled, and a device answers.                       *)
FairSpec == Spec /\ WF_vars(~fault /\ IoStep) /\ WF_vars(~fault /\ GuiMayRun /\ GuiStep)

-----------------------------------------------------------------------------
Types == {"ADD_MENU", "INIT_DONE", "SELECT_MENU", "SORT", "APPEND_MENU"}
Operations == [type : Types, dev : Devices \cup {NoDevice}, title : Nat, sel : BOOLEAN,
               gen : Nat]
Linked == 1 .. Len(ops)

(* Every variable has a value of its type.                                 *)
TypeOK ==
  /\ ops \in Seq(Operations)
  /\ gUpdateList \in Seq(Linked) /\ gUpdateEnd \in {NULL} \cup Linked
  /\ lost \subseteq Linked /\ applied \subseteq Linked
  /\ semaId \in {0, 1} /\ guiLockSema \in {0, 1}
  /\ selected \in Devices \cup {NoDevice} /\ wdev \in Devices \cup {NoDevice}
  /\ pc \in [Threads -> GuiLabels \cup IoLabels]
  /\ pc[Gui] \in GuiLabels /\ pc[Io] \in IoLabels
  /\ \A d \in Devices : Members(menu[d].list) \subseteq Linked

(* Operations take effect in the order in which they were deferred,        *)
(* whichever thread applies them, and each at most once.                   *)
AppliedInOrder ==
  [][\A n \in applied' \ applied : \A k \in applied : k < n]_vars

(* Every game in a device's menu comes from one and the same reading of    *)
(* that device: games of an earlier list, still deferred when the menu was *)
(* cleared, never reappear behind it.                                      *)
OneReading ==
  /\ TypeOK
  /\ \A d \in Devices : \A k, n \in Members(menu[d].list) :
       ops[k].dev = d /\ ops[k].gen = ops[n].gen

-----------------------------------------------------------------------------
(* No deferred operation is lost: each is linked behind a node that the    *)
(* next guiHandleDeferredOps reaches, never through a NULL or stale tail.  *)
NothingLost == lost = {}

(* With the worker at rest and nothing deferred, the menu of a device      *)
(* shows the last reading of it, all of it, in title order if gAutosort,   *)
(* and the cursor is on a game of that list; unless an operation was lost, *)
(* or, for the cursor, a key press has followed a freed node.              *)
MenuIsComplete ==
  (lost = {} /\ pc[Io] = "idle" /\ pc[Gui] \in {"top", "input"} /\ gUpdateList = << >>) =>
    \A d \in Devices :
      LET m     == menu[d]
          games == {n \in 1 .. Len(ops) : /\ ops[n].type = "APPEND_MENU"
                                          /\ ops[n].dev = d /\ ops[n].gen = gen[d]}
      IN  /\ Members(m.list) = games
          /\ Len(m.list) = Cardinality(games)
          /\ Autosort => \A i \in 1 .. Len(m.list) - 1 :
                           ops[m.list[i]].title <= ops[m.list[i + 1]].title
          /\ ~stray /\ games # {} => {m.current, m.pagestart} \subseteq games

(* An update, once begun, ends: the worker waiting for the GUI lock is not *)
(* kept out by frame after frame.                                          *)
UpdateEnds == (pc[Io] # "idle") ~> (pc[Io] = "idle" \/ fault)
=============================================================================
