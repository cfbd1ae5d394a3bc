-------------------------- MODULE MenuConfigProofs --------------------------
(***************************************************************************)
(* Machine-checked proofs about MenuConfig, for any number of lists and of *)
(* items in them, any delay and any number of queued requests.             *)
(***************************************************************************)
EXTENDS MenuConfig, TLAPS

Holds(q, r) == \E k \in 1 .. Len(q) : q[k] = r
Queued(r) == Holds(queue, r)

(* The requests that are still to be made before the user can act again:   *)
(* the two of a load that has been or will be called, and the one that     *)
(* menuRenderElements makes for a new item.                                *)
ToLoad ==
  IF waitFor = "save" \/ pc \in {"loadcall", "loadreset"} THEN 2
  ELSE IF pc = "loadput" THEN 1 ELSE 0
ToRender == IF OtherItem THEN 1 ELSE 0

Types ==
  /\ selected \in Lists /\ current \in [Lists -> Items \cup {NoItem}] /\ visible \in SUBSET Lists
  /\ itemConfigId \in Items \cup {NoItem} /\ itemConfig \in Configs
  /\ actionStatus \in {0, 1} /\ guiInactiveFrames \in 0 .. Delay
  /\ screen \in Screens /\ target \in Screens
  /\ pc \in {"frame", "show", "draw", "ops", "input", "loadcall", "loadreset", "loadput", "wait"}
  /\ waitFor \in {"nothing", "launch", "settings", "save"}
  /\ queue \in Seq(Requests)
  /\ io \in {"idle", "read", "write", "busy"} /\ reading \in Configs
  /\ edited \in {"no", "yes", "lost"}

Flags ==
  /\ key \in BOOLEAN /\ granted \in BOOLEAN /\ disturbed \in BOOLEAN /\ wrong \in BOOLEAN
  /\ back \in BOOLEAN /\ jumped \in BOOLEAN

(* Whom the GUI thread waits for in which part of its code.                *)
Control ==
  /\ pc \in {"frame", "ops", "input"} => waitFor = "nothing"
  /\ pc \in {"loadcall", "loadreset", "loadput"} => waitFor \in {"launch", "settings"}
  /\ pc = "wait" => waitFor # "nothing"

(* The request the worker is at stays at the head of its queue.            *)
Serving ==
  /\ io = "read" => queue # << >> /\ queue[1] = "_menuLoadConfig"
  /\ io = "write" => queue # << >> /\ queue[1] = "_menuSaveConfig"
  /\ io = "busy" => queue # << >> /\ queue[1] = "Other"

Bounded == Len(queue) + ToLoad + ToRender <= MaxQueue + 3

(* itemConfig, and what is being read for it, belong to the item that      *)
(* itemConfigId names in the selected list, as long as refreshMenuPosition *)
(* has not selected another one: menuSemaId keeps the id from being given  *)
(* to another item during a read, and -1 disowns the answer.               *)
Tagged ==
  /\ ~jumped /\ itemConfig # NoConfig /\ itemConfigId # NoItem =>
       itemConfig = <<selected, itemConfigId>>
  /\ io = "read" => reading[1] \in Lists
  /\ ~jumped /\ io = "read" /\ itemConfigId # NoItem => reading = <<selected, itemConfigId>>

(* A load that is left to itself.                                          *)
QuietLoad == ~disturbed /\ Loading /\ pc # "loadcall"
LoadOK ==
  QuietLoad =>
    /\ ~Queued("_menuSaveConfig")
    /\ pc \in {"loadreset", "loadput"} =>
         /\ actionStatus = 1 /\ ~Queued("_menuLoadConfig") /\ ~Queued("_menuRequestConfig")
    /\ pc # "loadreset" => ~jumped /\ itemConfigId \in {NoItem, current[selected]}
    /\ Queued("_menuLoadConfig") => itemConfigId = current[selected] /\ itemConfigId # NoItem
    /\ actionStatus = 0 /\ current[selected] # NoItem => itemConfig = Selection /\ ~OtherItem

(* A save that is left to itself: the settings menu stays on the screen    *)
(* and asks for nothing.  The changes of any other save are still to be    *)
(* written, so that the next load or save is called too early.             *)
SaveOK ==
  /\ waitFor = "save" => pc \in {"wait", "show", "draw"}
  /\ ~disturbed /\ waitFor = "save" =>
       /\ screen = "game" /\ target = "game" /\ pc # "draw"
       /\ ~Queued("_menuLoadConfig") /\ ~Queued("_menuRequestConfig")
  /\ edited = "yes" => Queued("_menuSaveConfig")
  /\ ~disturbed /\ edited = "yes" => waitFor = "save" /\ actionStatus = 1

IInv ==
  /\ Flags /\ Types /\ Control /\ Serving /\ Bounded /\ Tagged /\ LoadOK /\ SaveOK
  /\ ReturnsSelectedIfQuiet /\ EditIsSaved

-----------------------------------------------------------------------------
(* The queue when a request is added.                                      *)
LEMMA Appended ==
  ASSUME NEW q \in Seq(Requests), NEW r \in Requests
  PROVE  /\ Append(q, r) \in Seq(Requests) /\ Len(Append(q, r)) = Len(q) + 1
         /\ Append(q, r) # << >>
         /\ q # << >> => Append(q, r)[1] = q[1]
         /\ \A x : Holds(Append(q, r), x) <=> Holds(q, x) \/ x = r
<1>1. /\ Append(q, r) \in Seq(Requests) /\ Len(Append(q, r)) = Len(q) + 1
      /\ Append(q, r)[Len(q) + 1] = r
      /\ \A k \in 1 .. Len(q) : Append(q, r)[k] = q[k]
  OBVIOUS
<1>2. Len(q) \in Nat  OBVIOUS
<1>3. q # << >> => 1 \in 1 .. Len(q)  OBVIOUS
<1>4. Append(q, r) # << >>  BY <1>1, <1>2
<1>5. ASSUME NEW x PROVE Holds(Append(q, r), x) <=> Holds(q, x) \/ x = r
  BY <1>1, <1>2 DEF Holds
<1> QED BY <1>1, <1>2, <1>3, <1>4, <1>5

(* The queue without the request that was served.                          *)
LEMMA Tailed ==
  ASSUME NEW q \in Seq(Requests), q # << >>
  PROVE  /\ Tail(q) \in Seq(Requests) /\ Len(Tail(q)) = Len(q) - 1
         /\ Head(q) = q[1] /\ Head(q) \in Requests /\ Holds(q, q[1])
         /\ \A x : Holds(Tail(q), x) => Holds(q, x)
         /\ \A x : Holds(q, x) /\ x # q[1] => Holds(Tail(q), x)
<1>1. /\ Tail(q) \in Seq(Requests) /\ Len(Tail(q)) = Len(q) - 1
      /\ Len(q) \in Nat /\ Len(q) >= 1
      /\ \A k \in 1 .. Len(q) - 1 : Tail(q)[k] = q[k + 1]
      /\ Head(q) = q[1] /\ Head(q) \in Requests
  OBVIOUS
<1>2. Holds(q, q[1])  BY <1>1 DEF Holds
<1>3. ASSUME NEW x, Holds(Tail(q), x) PROVE Holds(q, x)
  BY <1>1, <1>3 DEF Holds
<1>4. ASSUME NEW x, Holds(q, x), x # q[1] PROVE Holds(Tail(q), x)
  <2>1. PICK k \in 1 .. Len(q) : q[k] = x  BY <1>4 DEF Holds
  <2>2. k # 1 /\ k - 1 \in 1 .. Len(q) - 1 /\ k - 1 + 1 = k  BY <1>1, <1>4, <2>1
  <2>3. Tail(q)[k - 1] = x  BY <1>1, <2>1, <2>2
  <2> QED BY <1>1, <2>2, <2>3 DEF Holds
<1> QED BY <1>1, <1>2, <1>3, <1>4

(* What the worker and the GUI thread make of the queue.                   *)
LEMMA QueueFacts ==
  ASSUME Types
  PROVE  /\ Len(queue) \in Nat
         /\ queue # << >> =>
              /\ Tail(queue) \in Seq(Requests) /\ Len(Tail(queue)) = Len(queue) - 1
              /\ Head(queue) = queue[1] /\ Queued(queue[1])
              /\ \A x : Holds(Tail(queue), x) => Queued(x)
              /\ \A x : Queued(x) /\ x # queue[1] => Holds(Tail(queue), x)
         /\ \A r \in Requests :
              /\ Append(queue, r) \in Seq(Requests) /\ Len(Append(queue, r)) = Len(queue) + 1
              /\ Append(queue, r) # << >> /\ (queue # << >> => Append(queue, r)[1] = queue[1])
              /\ \A x : Holds(Append(queue, r), x) <=> Queued(x) \/ x = r
         /\ queue # << >> => \A r \in Requests :
              /\ Append(Tail(queue), r) \in Seq(Requests)
              /\ Len(Append(Tail(queue), r)) = Len(queue)
              /\ \A x : Holds(Append(Tail(queue), r), x) => Queued(x) \/ x = r
              /\ \A x : Queued(x) /\ x # queue[1] => Holds(Append(Tail(queue), r), x)
         /\ ~Outstanding => \A x : Queued(x) => x = "Other"
         /\ Queued("_menuSaveConfig") => Outstanding
<1>1. queue \in Seq(Requests) /\ Len(queue) \in Nat  BY DEF Types
<1>2. queue # << >> =>
        /\ Tail(queue) \in Seq(Requests) /\ Len(Tail(queue)) = Len(queue) - 1
        /\ Head(queue) = queue[1] /\ Queued(queue[1])
        /\ \A x : Holds(Tail(queue), x) => Queued(x)
        /\ \A x : Queued(x) /\ x # queue[1] => Holds(Tail(queue), x)
  BY <1>1, Tailed DEF Queued
<1>3. ASSUME NEW r \in Requests
      PROVE  /\ Append(queue, r) \in Seq(Requests) /\ Len(Append(queue, r)) = Len(queue) + 1
             /\ Append(queue, r) # << >> /\ (queue # << >> => Append(queue, r)[1] = queue[1])
             /\ \A x : Holds(Append(queue, r), x) <=> Queued(x) \/ x = r
  BY <1>1, Appended DEF Queued
<1>4. ASSUME queue # << >>, NEW r \in Requests
      PROVE  /\ Append(Tail(queue), r) \in Seq(Requests)
             /\ Len(Append(Tail(queue), r)) = Len(queue)
             /\ \A x : Holds(Append(Tail(queue), r), x) => Queued(x) \/ x = r
             /\ \A x : Queued(x) /\ x # queue[1] => Holds(Append(Tail(queue), r), x)
  <2> DEFINE t == Tail(queue)
  <2>1. /\ t \in Seq(Requests) /\ Len(t) = Len(queue) - 1
        /\ \A x : Holds(t, x) => Queued(x)
        /\ \A x : Queued(x) /\ x # queue[1] => Holds(t, x)
    BY <1>2, <1>4
  <2> HIDE DEF t
  <2>2. /\ Append(t, r) \in Seq(Requests) /\ Len(Append(t, r)) = Len(t) + 1
        /\ \A x : Holds(Append(t, r), x) <=> Holds(t, x) \/ x = r
    BY <2>1, Appended
  <2>3. /\ Append(t, r) \in Seq(Requests) /\ Len(Append(t, r)) = Len(queue)
        /\ \A x : Holds(Append(t, r), x) => Queued(x) \/ x = r
        /\ \A x : Queued(x) /\ x # queue[1] => Holds(Append(t, r), x)
    BY <1>1, <2>1, <2>2
  <2> QED BY <2>3 DEF t
<1>5. ~Outstanding => \A x : Queued(x) => x = "Other"
  BY DEF Outstanding, Queued, Holds
<1>6. Queued("_menuSaveConfig") => Outstanding
  BY DEF Outstanding, Queued, Holds
<1> QED BY <1>1, <1>2, <1>3, <1>4, <1>5, <1>6

(* At most two requests of a load and one of a frame are to be made.       *)
LEMMA Ranges == ToLoad \in 0 .. 2 /\ ToRender \in 0 .. 1
BY DEF ToLoad, ToRender

(* The invariant holds when menuInit has run.                              *)
LEMMA InitHolds == Init => IInv
<1> SUFFICES ASSUME Init PROVE IInv
  OBVIOUS
<1> USE ListsAssumption, BoundsAssumption
    DEF Init, Lists, Items, NoItem, NoConfig, Configs, Screens, Requests
<1>1. Flags  BY Zenon DEF Flags
<1>2. Types  BY DEF Types
<1>3. Len(queue) = 0 /\ \A r : ~Queued(r)  BY DEF Queued, Holds
<1>4. Bounded
  BY <1>3, Ranges DEF Bounded, ToLoad
<1>5. Control /\ Serving /\ Tagged
  BY DEF Control, Serving, Tagged
<1>6. LoadOK /\ SaveOK /\ ReturnsSelectedIfQuiet /\ EditIsSaved
  BY <1>3 DEF LoadOK, QuietLoad, Loading, SaveOK, ReturnsSelectedIfQuiet, EditIsSaved
<1> QED BY <1>1, <1>2, <1>4, <1>5, <1>6 DEF IInv

(* The flags stay Boolean.                                                 *)
LEMMA FlagsStep == ASSUME IInv, Next PROVE Flags'
<1> USE ListsAssumption, BoundsAssumption
    DEF Lists, Items, NoItem, NoConfig, Configs, Screens, Requests, menuVars, cache, guiVars,
        thread, worker, idHist, hist, IInv, Flags
<1>1. CASE LoadSkip  BY <1>1, Zenon DEF LoadSkip, Serve, Served
<1>2. CASE LoadBegin  BY <1>2, Zenon DEF LoadBegin, Serve
<1>3. CASE LoadEnd  BY <1>3, Zenon DEF LoadEnd, Served, SignalSema, AtSema, Discard
<1>4. CASE Request  BY <1>4, Zenon DEF Request, Serve, RequestConfig, SetConfigId, Discard
<1>5. CASE SaveBegin  BY <1>5, Zenon DEF SaveBegin, Serve
<1>6. CASE SaveEnd  BY <1>6, Zenon DEF SaveEnd, SetConfigId, Served, SignalSema, AtSema
<1>7. CASE OtherBegin  BY <1>7, Zenon DEF OtherBegin, Serve
<1>8. CASE OtherEnd  BY <1>8, Zenon DEF OtherEnd, MenuUpdate, ComesTo, Loading, Served
<1>9. CASE guiReadPads  BY <1>9, Zenon DEF guiReadPads
<1>10. CASE FadeOver  BY <1>10, Zenon DEF FadeOver
<1>11. CASE RenderRequest
  BY <1>11, Zenon DEF RenderRequest, RequestConfig, SetConfigId, Discard, Locked
<1>12. CASE RenderDraw  BY <1>12, Zenon DEF RenderDraw, FrameRest, Waiting, Locked
<1>13. CASE menuRenderGameMenu  BY <1>13, Zenon DEF menuRenderGameMenu, FrameRest, Waiting
<1>14. CASE guiHandleDeferredOps  BY <1>14, Zenon DEF guiHandleDeferredOps, ComesTo
<1>15. CASE NoInput  BY <1>15, Zenon DEF NoInput
<1>16. CASE OtherRequest  BY <1>16, Zenon DEF OtherRequest
<1>17. CASE \E l \in Lists : menuMoveH(l)
  BY <1>17, Zenon DEF menuMoveH, NextTo, SetConfigId, Input
<1>18. CASE \E i \in Items : menuMoveV(i)  BY <1>18, Zenon DEF menuMoveV, Input, ComesTo
<1>19. CASE Select  BY <1>19, Zenon DEF Select, Input
<1>20. CASE Reload  BY <1>20, Zenon DEF Reload, Input
<1>21. CASE Save  BY <1>21, Zenon DEF Save, Input, Outstanding
<1>22. CASE Back  BY <1>22, Zenon DEF Back, Input
<1>23. CASE LoadCall  BY <1>23, Zenon DEF LoadCall, Outstanding
<1>24. CASE LoadReset  BY <1>24, Zenon DEF LoadReset, SetConfigId
<1>25. CASE LoadPut  BY <1>25, Zenon DEF LoadPut
<1>26. CASE WaitFrame  BY <1>26, Zenon DEF WaitFrame
<1>27. CASE Return  BY <1>27, Zenon DEF Return
<1>28. CASE menuRenderMenu  BY <1>28, Zenon DEF menuRenderMenu, FrameRest, Waiting
<1>29. CASE OpenMainMenu  BY <1>29, Zenon DEF OpenMainMenu, Input
<1>30. CASE guiShowConfig  BY <1>30, Zenon DEF guiShowConfig, Input
<1>31. CASE \E l \in Lists : LeaveMainMenu(l)
  BY <1>31, Zenon DEF LeaveMainMenu, FirstVisible, Input
<1> QED
  BY <1>1, <1>2, <1>3, <1>4, <1>5, <1>6, <1>7, <1>8, <1>9, <1>10, <1>11, <1>12, <1>13, <1>14,
     <1>15, <1>16, <1>17, <1>18, <1>19, <1>20, <1>21, <1>22, <1>23, <1>24, <1>25, <1>26, <1>27,
     <1>28, <1>29, <1>30, <1>31
     DEF Next, WorkerStep, GuiStep

(* Every step gives each variable a value of its type.                     *)
LEMMA TypesStep == ASSUME IInv, Next PROVE Types'
<1> USE ListsAssumption, BoundsAssumption
    DEF Lists, Items, NoItem, NoConfig, Configs, Screens, Requests, menuVars, cache, guiVars,
        thread, worker, idHist, hist, IInv, Types, Serving
<1>0. Types  BY DEF IInv
<1>1. CASE LoadSkip
  <2>1. queue' \in Seq(Requests)
    BY <1>1, <1>0, QueueFacts DEF LoadSkip, Serve, Served
  <2> QED BY <1>1, <2>1 DEF LoadSkip, Served
<1>2. CASE LoadBegin  BY <1>2 DEF LoadBegin
<1>3. CASE LoadEnd
  <2>1. queue' \in Seq(Requests)
    BY <1>3, <1>0, QueueFacts DEF LoadEnd, Served
  <2> QED BY <1>3, <2>1 DEF LoadEnd, Served, Discard
<1>4. CASE Request
  <2>1. queue' \in Seq(Requests)
    BY <1>4, <1>0, QueueFacts DEF Request, Serve, RequestConfig, SetConfigId
  <2>2. current[selected] \in Items \cup {NoItem}  OBVIOUS
  <2>3. /\ itemConfig' \in Configs /\ itemConfigId' \in Items \cup {NoItem}
        /\ actionStatus' \in {0, 1} /\ edited' \in {"no", "yes", "lost"}
    BY <1>4, <2>2 DEF Request, RequestConfig, SetConfigId, Discard
  <2> QED BY <1>4, <2>1, <2>3 DEF Request
<1>5. CASE SaveBegin  BY <1>5, <1>0, QueueFacts DEF SaveBegin, Serve
<1>6. CASE SaveEnd  BY <1>6, <1>0, QueueFacts DEF SaveEnd, SetConfigId, Served, SignalSema, AtSema
<1>7. CASE OtherBegin  BY <1>7, <1>0, QueueFacts DEF OtherBegin, Serve
<1>8. CASE OtherEnd
  <2>1. current' \in [Lists -> Items \cup {NoItem}] /\ visible' \in SUBSET Lists
    BY <1>8 DEF OtherEnd, MenuUpdate
  <2>2. queue' \in Seq(Requests)
    BY <1>8, <1>0, QueueFacts DEF OtherEnd, Served
  <2> QED BY <1>8, <2>1, <2>2 DEF OtherEnd, Served
<1>9. CASE guiReadPads  BY <1>9 DEF guiReadPads
<1>10. CASE FadeOver  BY <1>10 DEF FadeOver
<1>11. CASE RenderRequest
  BY <1>11, <1>0, QueueFacts, ZenonT(30)
  DEF RenderRequest, RequestConfig, SetConfigId, Discard, Locked
<1>12. CASE RenderDraw  BY <1>12 DEF RenderDraw, FrameRest, Waiting, Locked
<1>13. CASE menuRenderGameMenu  BY <1>13 DEF menuRenderGameMenu, FrameRest, Waiting
<1>14. CASE guiHandleDeferredOps
  <2>1. current' \in [Lists -> Items \cup {NoItem}]
    BY <1>14 DEF guiHandleDeferredOps
  <2> QED BY <1>14, <2>1 DEF guiHandleDeferredOps
<1>15. CASE NoInput  BY <1>15 DEF NoInput
<1>16. CASE OtherRequest  BY <1>16, <1>0, QueueFacts DEF OtherRequest
<1>17. CASE \E l \in Lists : menuMoveH(l)  BY <1>17 DEF menuMoveH, NextTo, SetConfigId, Input
<1>18. CASE \E i \in Items : menuMoveV(i)  BY <1>18 DEF menuMoveV, Input, ComesTo
<1>19. CASE Select  BY <1>19 DEF Select, Input
<1>20. CASE Reload  BY <1>20 DEF Reload, Input
<1>21. CASE Save  BY <1>21, <1>0, QueueFacts DEF Save, Input
<1>22. CASE Back  BY <1>22 DEF Back, Input
<1>23. CASE LoadCall  BY <1>23, <1>0, QueueFacts DEF LoadCall
<1>24. CASE LoadReset  BY <1>24 DEF LoadReset, SetConfigId
<1>25. CASE LoadPut  BY <1>25, <1>0, QueueFacts DEF LoadPut
<1>26. CASE WaitFrame  BY <1>26 DEF WaitFrame
<1>27. CASE Return  BY <1>27 DEF Return
<1>28. CASE menuRenderMenu  BY <1>28 DEF menuRenderMenu, FrameRest, Waiting
<1>29. CASE OpenMainMenu  BY <1>29 DEF OpenMainMenu, Input
<1>30. CASE guiShowConfig
  <2>1. queue' \in Seq(Requests)
    BY <1>30, <1>0, QueueFacts DEF guiShowConfig
  <2> QED BY <1>30, <2>1 DEF guiShowConfig
<1>31. CASE \E l \in Lists : LeaveMainMenu(l)
  BY <1>31 DEF LeaveMainMenu, FirstVisible, Input
<1> QED
  BY <1>1, <1>2, <1>3, <1>4, <1>5, <1>6, <1>7, <1>8, <1>9, <1>10, <1>11, <1>12, <1>13, <1>14,
     <1>15, <1>16, <1>17, <1>18, <1>19, <1>20, <1>21, <1>22, <1>23, <1>24, <1>25, <1>26, <1>27,
     <1>28, <1>29, <1>30, <1>31
     DEF Next, WorkerStep, GuiStep

(* The GUI thread waits for something exactly in the code that is reached  *)
(* with it.                                                                *)
LEMMA ControlStep == ASSUME IInv, Next PROVE Control'
<1> USE ListsAssumption, BoundsAssumption
    DEF Lists, Items, NoItem, NoConfig, Configs, Screens, Requests, menuVars, cache, guiVars,
        thread, worker, idHist, hist, IInv, Types, Control, SaveOK
<1>1. CASE LoadSkip  BY <1>1 DEF LoadSkip, Serve, Served
<1>2. CASE LoadBegin  BY <1>2 DEF LoadBegin, Serve
<1>3. CASE LoadEnd  BY <1>3 DEF LoadEnd, Served, SignalSema, AtSema, Discard
<1>4. CASE Request  BY <1>4 DEF Request, Serve, RequestConfig, SetConfigId, Discard
<1>5. CASE SaveBegin  BY <1>5 DEF SaveBegin, Serve
<1>6. CASE SaveEnd  BY <1>6 DEF SaveEnd, SetConfigId, Served, SignalSema, AtSema
<1>7. CASE OtherBegin  BY <1>7 DEF OtherBegin, Serve
<1>8. CASE OtherEnd  BY <1>8 DEF OtherEnd
<1>9. CASE guiReadPads  BY <1>9 DEF guiReadPads
<1>10. CASE FadeOver  BY <1>10 DEF FadeOver
<1>11. CASE RenderRequest  BY <1>11 DEF RenderRequest, RequestConfig, SetConfigId, Discard, Locked
<1>12. CASE RenderDraw  BY <1>12 DEF RenderDraw, FrameRest, Waiting, Locked
<1>13. CASE menuRenderGameMenu  BY <1>13 DEF menuRenderGameMenu, FrameRest, Waiting
<1>14. CASE guiHandleDeferredOps  BY <1>14 DEF guiHandleDeferredOps, ComesTo
<1>15. CASE NoInput  BY <1>15 DEF NoInput
<1>16. CASE OtherRequest  BY <1>16 DEF OtherRequest
<1>17. CASE \E l \in Lists : menuMoveH(l)  BY <1>17 DEF menuMoveH, NextTo, SetConfigId, Input
<1>18. CASE \E i \in Items : menuMoveV(i)  BY <1>18 DEF menuMoveV, Input, ComesTo
<1>19. CASE Select  BY <1>19 DEF Select, Input
<1>20. CASE Reload  BY <1>20 DEF Reload, Input
<1>21. CASE Save  BY <1>21 DEF Save, Input
<1>22. CASE Back  BY <1>22 DEF Back, Input
<1>23. CASE LoadCall  BY <1>23 DEF LoadCall
<1>24. CASE LoadReset  BY <1>24 DEF LoadReset, SetConfigId
<1>25. CASE LoadPut  BY <1>25 DEF LoadPut
<1>26. CASE WaitFrame  BY <1>26 DEF WaitFrame
<1>27. CASE Return  BY <1>27 DEF Return
<1>28. CASE menuRenderMenu  BY <1>28 DEF menuRenderMenu, FrameRest, Waiting
<1>29. CASE OpenMainMenu  BY <1>29 DEF OpenMainMenu, Input
<1>30. CASE guiShowConfig  BY <1>30 DEF guiShowConfig, Input
<1>31. CASE \E l \in Lists : LeaveMainMenu(l)
  BY <1>31 DEF LeaveMainMenu, FirstVisible, Input
<1> QED
  BY <1>1, <1>2, <1>3, <1>4, <1>5, <1>6, <1>7, <1>8, <1>9, <1>10, <1>11, <1>12, <1>13, <1>14,
     <1>15, <1>16, <1>17, <1>18, <1>19, <1>20, <1>21, <1>22, <1>23, <1>24, <1>25, <1>26, <1>27,
     <1>28, <1>29, <1>30, <1>31
     DEF Next, WorkerStep, GuiStep

(* The request being served is removed by no step but the last one of its  *)
(* handler.                                                                *)
LEMMA ServingStep == ASSUME IInv, Next PROVE Serving'
<1> USE ListsAssumption, BoundsAssumption
    DEF Lists, Items, NoItem, NoConfig, Configs, Screens, Requests, menuVars, cache, guiVars,
        thread, worker, idHist, hist, IInv, Types, Serving, Locked
<1>0. Types  BY DEF IInv
<1>1. CASE LoadSkip  BY <1>1, <1>0, QueueFacts DEF LoadSkip, Serve, Served
<1>2. CASE LoadBegin  BY <1>2, <1>0, QueueFacts DEF LoadBegin, Serve
<1>3. CASE LoadEnd  BY <1>3, <1>0, QueueFacts DEF LoadEnd, Served, SignalSema, AtSema, Discard
<1>4. CASE Request
  BY <1>4, <1>0, QueueFacts DEF Request, Serve, RequestConfig, SetConfigId, Discard
<1>5. CASE SaveBegin  BY <1>5, <1>0, QueueFacts DEF SaveBegin, Serve
<1>6. CASE SaveEnd  BY <1>6, <1>0, QueueFacts DEF SaveEnd, SetConfigId, Served, SignalSema, AtSema
<1>7. CASE OtherBegin  BY <1>7, <1>0, QueueFacts DEF OtherBegin, Serve
<1>8. CASE OtherEnd  BY <1>8, <1>0, QueueFacts DEF OtherEnd, Served
<1>9. CASE guiReadPads  BY <1>9 DEF guiReadPads
<1>10. CASE FadeOver  BY <1>10 DEF FadeOver
<1>11. CASE RenderRequest
  BY <1>11, <1>0, QueueFacts DEF RenderRequest, RequestConfig, SetConfigId, Discard, Locked
<1>12. CASE RenderDraw  BY <1>12 DEF RenderDraw, FrameRest, Waiting, Locked
<1>13. CASE menuRenderGameMenu  BY <1>13 DEF menuRenderGameMenu, FrameRest, Waiting
<1>14. CASE guiHandleDeferredOps  BY <1>14 DEF guiHandleDeferredOps, ComesTo
<1>15. CASE NoInput  BY <1>15 DEF NoInput
<1>16. CASE OtherRequest  BY <1>16, <1>0, QueueFacts DEF OtherRequest
<1>17. CASE \E l \in Lists : menuMoveH(l)  BY <1>17 DEF menuMoveH, NextTo, SetConfigId, Input
<1>18. CASE \E i \in Items : menuMoveV(i)  BY <1>18 DEF menuMoveV, Input, ComesTo
<1>19. CASE Select  BY <1>19 DEF Select, Input
<1>20. CASE Reload  BY <1>20 DEF Reload, Input
<1>21. CASE Save  BY <1>21, <1>0, QueueFacts DEF Save, Input
<1>22. CASE Back  BY <1>22 DEF Back, Input
<1>23. CASE LoadCall  BY <1>23, <1>0, QueueFacts DEF LoadCall
<1>24. CASE LoadReset  BY <1>24 DEF LoadReset, SetConfigId
<1>25. CASE LoadPut  BY <1>25, <1>0, QueueFacts DEF LoadPut
<1>26. CASE WaitFrame  BY <1>26 DEF WaitFrame
<1>27. CASE Return  BY <1>27 DEF Return
<1>28. CASE menuRenderMenu  BY <1>28 DEF menuRenderMenu, FrameRest, Waiting
<1>29. CASE OpenMainMenu  BY <1>29 DEF OpenMainMenu, Input
<1>30. CASE guiShowConfig  BY <1>30, <1>0, QueueFacts DEF guiShowConfig, Input
<1>31. CASE \E l \in Lists : LeaveMainMenu(l)
  BY <1>31 DEF LeaveMainMenu, FirstVisible, Input
<1> QED
  BY <1>1, <1>2, <1>3, <1>4, <1>5, <1>6, <1>7, <1>8, <1>9, <1>10, <1>11, <1>12, <1>13, <1>14,
     <1>15, <1>16, <1>17, <1>18, <1>19, <1>20, <1>21, <1>22, <1>23, <1>24, <1>25, <1>26, <1>27,
     <1>28, <1>29, <1>30, <1>31
     DEF Next, WorkerStep, GuiStep

(* No step makes the queue longer than what was promised.                  *)
LEMMA BoundedStep == ASSUME IInv, Next PROVE Bounded'
<1> USE ListsAssumption, BoundsAssumption
    DEF Lists, Items, NoItem, NoConfig, Configs, Screens, Requests, menuVars, cache, guiVars,
        thread, worker, idHist, hist, IInv, Types, Bounded, ToLoad, ToRender, OtherItem, Control,
        Serving, SaveOK
<1>0. Types  BY DEF IInv
<1>1. CASE LoadSkip
  <2>1. Len(queue') = Len(queue) - 1
    BY <1>1, <1>0, QueueFacts DEF LoadSkip, Serve, Served
  <2>2. ToLoad' = ToLoad /\ ToRender' = ToRender
    BY <1>1 DEF LoadSkip
  <2> HIDE DEF ToLoad, ToRender
  <2> QED BY <2>1, <2>2, <1>0, QueueFacts, Ranges
<1>2. CASE LoadBegin  BY <1>2, <1>0, QueueFacts DEF LoadBegin, Serve
<1>3. CASE LoadEnd
  <2>1. Len(queue') = Len(queue) - 1
    BY <1>3, <1>0, QueueFacts DEF LoadEnd, Served
  <2>2. ToLoad' = ToLoad /\ ToRender' = ToRender
    BY <1>3 DEF LoadEnd
  <2> HIDE DEF ToLoad, ToRender
  <2> QED BY <2>1, <2>2, <1>0, QueueFacts, Ranges
<1>4. CASE Request
  <2>1. ToLoad' = ToLoad
    BY <1>4 DEF Request
  <2>2. \/ Len(queue') = Len(queue) /\ ToRender' = 0 /\ ToRender = 1
        \/ Len(queue') = Len(queue) - 1 /\ ToRender' = ToRender
    BY <1>4, <1>0, QueueFacts DEF Request, Serve, RequestConfig, SetConfigId
  <2> HIDE DEF ToLoad, ToRender
  <2> QED BY <2>1, <2>2, <1>0, QueueFacts, Ranges
<1>5. CASE SaveBegin  BY <1>5, <1>0, QueueFacts DEF SaveBegin, Serve
<1>6. CASE SaveEnd
  <2>1. Len(queue') = Len(queue) - 1
    BY <1>6, <1>0, QueueFacts DEF SaveEnd, SetConfigId, Served
  <2>2. ToLoad' = ToLoad
    BY <1>6 DEF SaveEnd
  <2>3. ToRender' \in {0, 1}  OBVIOUS
  <2> HIDE DEF ToLoad, ToRender
  <2> QED BY <2>1, <2>2, <2>3, <1>0, QueueFacts, Ranges
<1>7. CASE OtherBegin  BY <1>7, <1>0, QueueFacts DEF OtherBegin, Serve
<1>8. CASE OtherEnd
  <2>1. Len(queue') = Len(queue) - 1
    BY <1>8, <1>0, QueueFacts DEF OtherEnd, Served
  <2>2. ToLoad' = ToLoad
    BY <1>8 DEF OtherEnd
  <2>3. ToRender' \in {0, 1}  OBVIOUS
  <2> HIDE DEF ToLoad, ToRender
  <2> QED BY <2>1, <2>2, <2>3, <1>0, QueueFacts, Ranges
<1>9. CASE guiReadPads  BY <1>9 DEF guiReadPads
<1>10. CASE FadeOver  BY <1>10 DEF FadeOver
<1>11. CASE RenderRequest
  <2>1. ToLoad' = ToLoad
    BY <1>11 DEF RenderRequest
  <2>2. \/ Len(queue') = Len(queue) + 1 /\ ToRender' = 0 /\ ToRender = 1
        \/ Len(queue') = Len(queue) /\ ToRender' = ToRender
    BY <1>11, <1>0, QueueFacts DEF RenderRequest, RequestConfig, SetConfigId
  <2> HIDE DEF ToLoad, ToRender
  <2> QED BY <2>1, <2>2, <1>0, QueueFacts, Ranges
<1>12. CASE RenderDraw  BY <1>12 DEF RenderDraw, FrameRest, Waiting, Locked
<1>13. CASE menuRenderGameMenu  BY <1>13 DEF menuRenderGameMenu, FrameRest, Waiting
<1>14. CASE guiHandleDeferredOps
  <2>1. ToLoad = 0 /\ ToLoad' = 0
    BY <1>14 DEF guiHandleDeferredOps
  <2>2. ToRender' \in {0, 1}  OBVIOUS
  <2>3. ToRender' <= ToRender \/ Len(queue) < MaxQueue
    BY <1>14, SMTT(30) DEF guiHandleDeferredOps
  <2>4. queue' = queue
    BY <1>14 DEF guiHandleDeferredOps
  <2> HIDE DEF ToLoad, ToRender
  <2> QED BY <2>1, <2>2, <2>3, <2>4, <1>0, QueueFacts, Ranges
<1>15. CASE NoInput  BY <1>15 DEF NoInput
<1>16. CASE OtherRequest  BY <1>16, <1>0, QueueFacts DEF OtherRequest
<1>17. CASE \E l \in Lists : menuMoveH(l)  BY <1>17 DEF menuMoveH, NextTo, SetConfigId, Input
<1>18. CASE \E i \in Items : menuMoveV(i)  BY <1>18 DEF menuMoveV, Input, ComesTo
<1>19. CASE Select  BY <1>19 DEF Select, Input
<1>20. CASE Reload  BY <1>20 DEF Reload, Input
<1>21. CASE Save  BY <1>21, <1>0, QueueFacts DEF Save, Input
<1>22. CASE Back  BY <1>22 DEF Back, Input
<1>23. CASE LoadCall  BY <1>23, <1>0, QueueFacts DEF LoadCall
<1>24. CASE LoadReset
  <2>1. ToLoad = 2 /\ ToLoad' = 1
    BY <1>24 DEF LoadReset, SetConfigId
  <2>2. ToRender' \in {0, 1} /\ queue' = queue
    BY <1>24 DEF LoadReset, SetConfigId
  <2> HIDE DEF ToLoad, ToRender
  <2> QED BY <2>1, <2>2, <1>0, QueueFacts, Ranges, SMTT(30)
<1>25. CASE LoadPut
  <2>1. ToLoad = 1 /\ ToLoad' = 0 /\ ToRender' = ToRender
    BY <1>25 DEF LoadPut
  <2>2. Len(queue') = Len(queue) + 1
    BY <1>25, <1>0, QueueFacts DEF LoadPut
  <2> HIDE DEF ToLoad, ToRender
  <2> QED BY <2>1, <2>2, <1>0, QueueFacts, Ranges
<1>26. CASE WaitFrame  BY <1>26 DEF WaitFrame
<1>27. CASE Return  BY <1>27 DEF Return
<1>28. CASE menuRenderMenu  BY <1>28 DEF menuRenderMenu, FrameRest, Waiting
<1>29. CASE OpenMainMenu  BY <1>29 DEF OpenMainMenu, Input
<1>30. CASE guiShowConfig
  <2>1. Len(queue') \in {Len(queue), Len(queue) + 1} /\ Len(queue) < MaxQueue
    BY <1>30, <1>0, QueueFacts DEF guiShowConfig, Input
  <2>2. ToLoad' = ToLoad /\ ToLoad = 0 /\ ToRender' = ToRender
    BY <1>30 DEF guiShowConfig, Input
  <2> HIDE DEF ToLoad, ToRender
  <2> QED BY <2>1, <2>2, <1>0, QueueFacts, Ranges
<1>31. CASE \E l \in Lists : LeaveMainMenu(l)
  BY <1>31 DEF LeaveMainMenu, FirstVisible, Input
<1> QED
  BY <1>1, <1>2, <1>3, <1>4, <1>5, <1>6, <1>7, <1>8, <1>9, <1>10, <1>11, <1>12, <1>13, <1>14,
     <1>15, <1>16, <1>17, <1>18, <1>19, <1>20, <1>21, <1>22, <1>23, <1>24, <1>25, <1>26, <1>27,
     <1>28, <1>29, <1>30, <1>31
     DEF Next, WorkerStep, GuiStep

(* itemConfig keeps belonging to the item that itemConfigId names.         *)
LEMMA TaggedStep == ASSUME IInv, Next PROVE Tagged'
<1> USE ListsAssumption, BoundsAssumption
    DEF Lists, Items, NoItem, NoConfig, Configs, Screens, Requests, menuVars, cache, guiVars,
        thread, worker, idHist, hist, IInv, Types, Tagged, Serving, OtherItem, Locked
<1>1. CASE LoadSkip  BY <1>1 DEF LoadSkip, Serve, Served
<1>2. CASE LoadBegin  BY <1>2 DEF LoadBegin, Serve
<1>3. CASE LoadEnd  BY <1>3 DEF LoadEnd, Served, SignalSema, AtSema, Discard
<1>4. CASE Request  BY <1>4 DEF Request, Serve, RequestConfig, SetConfigId, Discard
<1>5. CASE SaveBegin  BY <1>5 DEF SaveBegin, Serve
<1>6. CASE SaveEnd  BY <1>6 DEF SaveEnd, SetConfigId, Served, SignalSema, AtSema
<1>7. CASE OtherBegin  BY <1>7 DEF OtherBegin, Serve
<1>8. CASE OtherEnd  BY <1>8 DEF OtherEnd, Served
<1>9. CASE guiReadPads  BY <1>9 DEF guiReadPads
<1>10. CASE FadeOver  BY <1>10 DEF FadeOver
<1>11. CASE RenderRequest  BY <1>11 DEF RenderRequest, RequestConfig, SetConfigId, Discard, Locked
<1>12. CASE RenderDraw  BY <1>12 DEF RenderDraw, FrameRest, Waiting, Locked
<1>13. CASE menuRenderGameMenu  BY <1>13 DEF menuRenderGameMenu, FrameRest, Waiting
<1>14. CASE guiHandleDeferredOps  BY <1>14 DEF guiHandleDeferredOps, ComesTo
<1>15. CASE NoInput  BY <1>15 DEF NoInput
<1>16. CASE OtherRequest  BY <1>16 DEF OtherRequest
<1>17. CASE \E l \in Lists : menuMoveH(l)  BY <1>17 DEF menuMoveH, NextTo, SetConfigId, Input
<1>18. CASE \E i \in Items : menuMoveV(i)  BY <1>18 DEF menuMoveV, Input, ComesTo
<1>19. CASE Select  BY <1>19 DEF Select, Input
<1>20. CASE Reload  BY <1>20 DEF Reload, Input
<1>21. CASE Save  BY <1>21 DEF Save, Input
<1>22. CASE Back  BY <1>22 DEF Back, Input
<1>23. CASE LoadCall  BY <1>23 DEF LoadCall
<1>24. CASE LoadReset  BY <1>24 DEF LoadReset, SetConfigId
<1>25. CASE LoadPut  BY <1>25 DEF LoadPut
<1>26. CASE WaitFrame  BY <1>26 DEF WaitFrame
<1>27. CASE Return  BY <1>27 DEF Return
<1>28. CASE menuRenderMenu  BY <1>28 DEF menuRenderMenu, FrameRest, Waiting
<1>29. CASE OpenMainMenu  BY <1>29 DEF OpenMainMenu, Input
<1>30. CASE guiShowConfig  BY <1>30 DEF guiShowConfig, Input
<1>31. CASE \E l \in Lists : LeaveMainMenu(l)
  BY <1>31 DEF LeaveMainMenu, FirstVisible, Input
<1> QED
  BY <1>1, <1>2, <1>3, <1>4, <1>5, <1>6, <1>7, <1>8, <1>9, <1>10, <1>11, <1>12, <1>13, <1>14,
     <1>15, <1>16, <1>17, <1>18, <1>19, <1>20, <1>21, <1>22, <1>23, <1>24, <1>25, <1>26, <1>27,
     <1>28, <1>29, <1>30, <1>31
     DEF Next, WorkerStep, GuiStep

(* A load called with nothing outstanding keeps the cache for the current  *)
(* item.                                                                   *)
LEMMA LoadStep == ASSUME IInv, Next PROVE LoadOK'
<1> USE ListsAssumption, BoundsAssumption
    DEF Lists, Items, NoItem, NoConfig, Configs, Screens, Requests, menuVars, cache, guiVars,
        thread, worker, idHist, hist, IInv, Types, LoadOK, QuietLoad, Loading, Tagged, Serving,
        Queued, OtherItem, Selection, Locked, Control, SaveOK
<1>0. Types  BY DEF IInv
<1>1. CASE LoadSkip  BY <1>1, <1>0, QueueFacts DEF LoadSkip, Serve, Served
<1>2. CASE LoadBegin  BY <1>2, <1>0, QueueFacts DEF LoadBegin, Serve
<1>3. CASE LoadEnd  BY <1>3, <1>0, QueueFacts DEF LoadEnd, Served, SignalSema, AtSema, Discard
<1>4. CASE Request
  BY <1>4, <1>0, QueueFacts, ZenonT(30) DEF Request, Serve, RequestConfig, SetConfigId, Discard
<1>5. CASE SaveBegin  BY <1>5, <1>0, QueueFacts DEF SaveBegin, Serve
<1>6. CASE SaveEnd  BY <1>6, <1>0, QueueFacts DEF SaveEnd, SetConfigId, Served, SignalSema, AtSema
<1>7. CASE OtherBegin  BY <1>7, <1>0, QueueFacts DEF OtherBegin, Serve
<1>8. CASE OtherEnd  BY <1>8, <1>0, QueueFacts DEF OtherEnd, Served
<1>9. CASE guiReadPads  BY <1>9 DEF guiReadPads
<1>10. CASE FadeOver  BY <1>10 DEF FadeOver
<1>11. CASE RenderRequest
  BY <1>11, <1>0, QueueFacts DEF RenderRequest, RequestConfig, SetConfigId, Discard, Locked
<1>12. CASE RenderDraw  BY <1>12 DEF RenderDraw, FrameRest, Waiting, Locked
<1>13. CASE menuRenderGameMenu  BY <1>13 DEF menuRenderGameMenu, FrameRest, Waiting
<1>14. CASE guiHandleDeferredOps  BY <1>14 DEF guiHandleDeferredOps, ComesTo
<1>15. CASE NoInput  BY <1>15 DEF NoInput
<1>16. CASE OtherRequest  BY <1>16, <1>0, QueueFacts DEF OtherRequest
<1>17. CASE \E l \in Lists : menuMoveH(l)  BY <1>17 DEF menuMoveH, NextTo, SetConfigId, Input
<1>18. CASE \E i \in Items : menuMoveV(i)  BY <1>18 DEF menuMoveV, Input, ComesTo
<1>19. CASE Select  BY <1>19 DEF Select, Input
<1>20. CASE Reload  BY <1>20 DEF Reload, Input
<1>21. CASE Save  BY <1>21, <1>0, QueueFacts DEF Save, Input
<1>22. CASE Back  BY <1>22 DEF Back, Input
<1>23. CASE LoadCall
  <2>1. disturbed' = Outstanding /\ pc' = "loadreset"
    BY <1>23 DEF LoadCall
  <2>2. ~disturbed' => ~Outstanding
    BY <2>1, Zenon
  <2> QED BY <1>23, <2>1, <2>2, <1>0, QueueFacts DEF LoadCall
<1>24. CASE LoadReset  BY <1>24 DEF LoadReset, SetConfigId
<1>25. CASE LoadPut  BY <1>25, <1>0, QueueFacts DEF LoadPut
<1>26. CASE WaitFrame  BY <1>26 DEF WaitFrame
<1>27. CASE Return  BY <1>27 DEF Return
<1>28. CASE menuRenderMenu  BY <1>28 DEF menuRenderMenu, FrameRest, Waiting
<1>29. CASE OpenMainMenu  BY <1>29 DEF OpenMainMenu, Input
<1>30. CASE guiShowConfig  BY <1>30, <1>0, QueueFacts DEF guiShowConfig, Input
<1>31. CASE \E l \in Lists : LeaveMainMenu(l)
  BY <1>31 DEF LeaveMainMenu, FirstVisible, Input
<1> QED
  BY <1>1, <1>2, <1>3, <1>4, <1>5, <1>6, <1>7, <1>8, <1>9, <1>10, <1>11, <1>12, <1>13, <1>14,
     <1>15, <1>16, <1>17, <1>18, <1>19, <1>20, <1>21, <1>22, <1>23, <1>24, <1>25, <1>26, <1>27,
     <1>28, <1>29, <1>30, <1>31
     DEF Next, WorkerStep, GuiStep

(* A save called with nothing outstanding meets no request that could      *)
(* replace what it writes.                                                 *)
LEMMA SaveStep == ASSUME IInv, Next PROVE SaveOK'
<1> USE ListsAssumption, BoundsAssumption
    DEF Lists, Items, NoItem, NoConfig, Configs, Screens, Requests, menuVars, cache, guiVars,
        thread, worker, idHist, hist, IInv, Types, SaveOK, Serving, Queued, OtherItem, Locked,
        Control
<1>0. Types  BY DEF IInv
<1>1. CASE LoadSkip  BY <1>1, <1>0, QueueFacts DEF LoadSkip, Serve, Served
<1>2. CASE LoadBegin  BY <1>2, <1>0, QueueFacts DEF LoadBegin, Serve
<1>3. CASE LoadEnd  BY <1>3, <1>0, QueueFacts DEF LoadEnd, Served, SignalSema, AtSema, Discard
<1>4. CASE Request
  BY <1>4, <1>0, QueueFacts DEF Request, Serve, RequestConfig, SetConfigId, Discard
<1>5. CASE SaveBegin  BY <1>5, <1>0, QueueFacts DEF SaveBegin, Serve
<1>6. CASE SaveEnd  BY <1>6, <1>0, QueueFacts DEF SaveEnd, SetConfigId, Served, SignalSema, AtSema
<1>7. CASE OtherBegin  BY <1>7, <1>0, QueueFacts DEF OtherBegin, Serve
<1>8. CASE OtherEnd  BY <1>8, <1>0, QueueFacts DEF OtherEnd, Loading, Served
<1>9. CASE guiReadPads  BY <1>9 DEF guiReadPads
<1>10. CASE FadeOver  BY <1>10 DEF FadeOver
<1>11. CASE RenderRequest
  BY <1>11, <1>0, QueueFacts DEF RenderRequest, RequestConfig, SetConfigId, Discard, Locked
<1>12. CASE RenderDraw  BY <1>12 DEF RenderDraw, FrameRest, Waiting, Locked
<1>13. CASE menuRenderGameMenu  BY <1>13 DEF menuRenderGameMenu, FrameRest, Waiting
<1>14. CASE guiHandleDeferredOps  BY <1>14 DEF guiHandleDeferredOps, ComesTo
<1>15. CASE NoInput  BY <1>15 DEF NoInput
<1>16. CASE OtherRequest  BY <1>16, <1>0, QueueFacts DEF OtherRequest
<1>17. CASE \E l \in Lists : menuMoveH(l)  BY <1>17 DEF menuMoveH, NextTo, SetConfigId, Input
<1>18. CASE \E i \in Items : menuMoveV(i)  BY <1>18 DEF menuMoveV, Input, ComesTo
<1>19. CASE Select  BY <1>19 DEF Select, Input
<1>20. CASE Reload  BY <1>20 DEF Reload, Input
<1>21. CASE Save  BY <1>21, <1>0, QueueFacts DEF Save, Input
<1>22. CASE Back  BY <1>22 DEF Back, Input
<1>23. CASE LoadCall  BY <1>23, <1>0, QueueFacts DEF LoadCall
<1>24. CASE LoadReset  BY <1>24 DEF LoadReset, SetConfigId
<1>25. CASE LoadPut  BY <1>25, <1>0, QueueFacts DEF LoadPut
<1>26. CASE WaitFrame  BY <1>26 DEF WaitFrame
<1>27. CASE Return  BY <1>27 DEF Return
<1>28. CASE menuRenderMenu  BY <1>28 DEF menuRenderMenu, FrameRest, Waiting
<1>29. CASE OpenMainMenu  BY <1>29 DEF OpenMainMenu, Input
<1>30. CASE guiShowConfig  BY <1>30, <1>0, QueueFacts DEF guiShowConfig, Input
<1>31. CASE \E l \in Lists : LeaveMainMenu(l)
  BY <1>31 DEF LeaveMainMenu, FirstVisible, Input
<1> QED
  BY <1>1, <1>2, <1>3, <1>4, <1>5, <1>6, <1>7, <1>8, <1>9, <1>10, <1>11, <1>12, <1>13, <1>14,
     <1>15, <1>16, <1>17, <1>18, <1>19, <1>20, <1>21, <1>22, <1>23, <1>24, <1>25, <1>26, <1>27,
     <1>28, <1>29, <1>30, <1>31
     DEF Next, WorkerStep, GuiStep

(* So neither history variable records a wrong result.                     *)
LEMMA HistStep == ASSUME IInv, Next PROVE (ReturnsSelectedIfQuiet /\ EditIsSaved)'
<1> USE ListsAssumption, BoundsAssumption
    DEF Lists, Items, NoItem, NoConfig, Configs, Screens, Requests, menuVars, cache, guiVars,
        thread, worker, idHist, hist, IInv, Types, SaveOK, LoadOK, QuietLoad, Loading, Selection,
        ReturnsSelectedIfQuiet, EditIsSaved, Serving, Queued, OtherItem, Locked,
        Control
<1>0. Types  BY DEF IInv
<1>1. CASE LoadSkip  BY <1>1, <1>0, QueueFacts DEF LoadSkip, Serve, Served
<1>2. CASE LoadBegin  BY <1>2, <1>0, QueueFacts DEF LoadBegin, Serve
<1>3. CASE LoadEnd  BY <1>3, <1>0, QueueFacts DEF LoadEnd, Served, SignalSema, AtSema, Discard
<1>4. CASE Request
  BY <1>4, <1>0, QueueFacts DEF Request, Serve, RequestConfig, SetConfigId, Discard
<1>5. CASE SaveBegin  BY <1>5, <1>0, QueueFacts DEF SaveBegin, Serve
<1>6. CASE SaveEnd  BY <1>6, <1>0, QueueFacts DEF SaveEnd, SetConfigId, Served, SignalSema, AtSema
<1>7. CASE OtherBegin  BY <1>7, <1>0, QueueFacts DEF OtherBegin, Serve
<1>8. CASE OtherEnd  BY <1>8, <1>0, QueueFacts DEF OtherEnd, Served
<1>9. CASE guiReadPads  BY <1>9 DEF guiReadPads
<1>10. CASE FadeOver  BY <1>10 DEF FadeOver
<1>11. CASE RenderRequest
  BY <1>11, <1>0, QueueFacts DEF RenderRequest, RequestConfig, SetConfigId, Discard, Locked
<1>12. CASE RenderDraw  BY <1>12 DEF RenderDraw, FrameRest, Waiting, Locked
<1>13. CASE menuRenderGameMenu  BY <1>13 DEF menuRenderGameMenu, FrameRest, Waiting
<1>14. CASE guiHandleDeferredOps  BY <1>14 DEF guiHandleDeferredOps, ComesTo
<1>15. CASE NoInput  BY <1>15 DEF NoInput
<1>16. CASE OtherRequest  BY <1>16, <1>0, QueueFacts DEF OtherRequest
<1>17. CASE \E l \in Lists : menuMoveH(l)  BY <1>17 DEF menuMoveH, NextTo, SetConfigId, Input
<1>18. CASE \E i \in Items : menuMoveV(i)  BY <1>18 DEF menuMoveV, Input, ComesTo
<1>19. CASE Select  BY <1>19 DEF Select, Input
<1>20. CASE Reload  BY <1>20 DEF Reload, Input
<1>21. CASE Save  BY <1>21, <1>0, QueueFacts DEF Save, Input
<1>22. CASE Back  BY <1>22 DEF Back, Input
<1>23. CASE LoadCall  BY <1>23, <1>0, QueueFacts DEF LoadCall
<1>24. CASE LoadReset  BY <1>24 DEF LoadReset, SetConfigId
<1>25. CASE LoadPut  BY <1>25, <1>0, QueueFacts DEF LoadPut
<1>26. CASE WaitFrame  BY <1>26 DEF WaitFrame
<1>27. CASE Return
  <2>1. EditIsSaved'
    BY <1>27 DEF Return
  <2>2. CASE waitFor = "save"
    BY <1>27, <2>1, <2>2 DEF Return
  <2>3. CASE waitFor # "save"
    <3>1. wrong' = (wrong \/ (~disturbed /\ current[selected] # NoItem /\ itemConfig # Selection))
      BY <1>27, <2>3, Zenon DEF Return
    <3>2. ~disturbed => ~(current[selected] # NoItem /\ itemConfig # Selection)
      BY <1>27, <2>3 DEF Return
    <3>3. ReturnsSelectedIfQuiet'
      BY <3>1, <3>2, Zenon
    <3> QED BY <2>1, <3>3
  <2> QED BY <2>2, <2>3
<1>28. CASE menuRenderMenu  BY <1>28 DEF menuRenderMenu, FrameRest, Waiting
<1>29. CASE OpenMainMenu  BY <1>29 DEF OpenMainMenu, Input
<1>30. CASE guiShowConfig  BY <1>30, <1>0, QueueFacts DEF guiShowConfig, Input
<1>31. CASE \E l \in Lists : LeaveMainMenu(l)
  BY <1>31 DEF LeaveMainMenu, FirstVisible, Input
<1> QED
  BY <1>1, <1>2, <1>3, <1>4, <1>5, <1>6, <1>7, <1>8, <1>9, <1>10, <1>11, <1>12, <1>13, <1>14,
     <1>15, <1>16, <1>17, <1>18, <1>19, <1>20, <1>21, <1>22, <1>23, <1>24, <1>25, <1>26, <1>27,
     <1>28, <1>29, <1>30, <1>31
     DEF Next, WorkerStep, GuiStep

-----------------------------------------------------------------------------
(* A step that changes nothing keeps the invariant.                        *)
LEMMA StutterHolds == ASSUME IInv, UNCHANGED vars PROVE IInv'
<1> USE DEF IInv, vars, menuVars, cache, guiVars, thread, worker, idHist, hist
<1>1. Flags'  BY Zenon DEF Flags
<1>2. (Types /\ Control /\ Serving)'  BY DEF Types, Control, Serving
<1>3. (Bounded /\ Tagged)'  BY DEF Bounded, ToLoad, ToRender, OtherItem, Tagged
<1>4. (LoadOK /\ SaveOK)'
  BY DEF LoadOK, QuietLoad, Loading, SaveOK, Queued, OtherItem, Selection
<1>5. (ReturnsSelectedIfQuiet /\ EditIsSaved)'
  BY DEF ReturnsSelectedIfQuiet, EditIsSaved
<1> QED BY <1>1, <1>2, <1>3, <1>4, <1>5

(* The inductive invariant holds in every state, for any number of lists,  *)
(* items, frames of delay and queued requests.                             *)
THEOREM Invariance == Spec => []IInv
<1>1. IInv /\ [Next]_vars => IInv'
  BY FlagsStep, TypesStep, ControlStep, ServingStep, BoundedStep, TaggedStep, LoadStep,
     SaveStep, HistStep, StutterHolds DEF IInv
<1> QED BY InitHolds, <1>1, PTL DEF Spec

(* The configuration that is drawn, launched or saved for the current item *)
(* is the one of this item in this list, wherever the user went while the  *)
(* worker was reading; and the queue is bounded.                           *)
THEOREM CacheBelongsToSelection == Spec => []CachedIsSelected
<1>1. IInv => CachedIsSelected
  <2> SUFFICES ASSUME IInv PROVE CachedIsSelected
    OBVIOUS
  <2>1. Len(queue) <= MaxQueue + 3
    BY QueueFacts, Ranges, BoundsAssumption DEF IInv, Bounded
  <2>2. TypeOK
    BY <2>1 DEF IInv, Flags, Types, TypeOK
  <2>3. /\ itemConfig # NoConfig /\ itemConfigId = current[selected] /\ itemConfigId # NoItem
        /\ ~jumped
        => itemConfig = Selection
    BY DEF IInv, Tagged, Selection
  <2> QED BY <2>2, <2>3 DEF CachedIsSelected
<1> QED BY Invariance, <1>1, PTL

(* A load called with nothing outstanding returns the configuration of the *)
(* current item.                                                           *)
THEOREM QuietLoadReturnsSelection == Spec => []ReturnsSelectedIfQuiet
<1>1. IInv => ReturnsSelectedIfQuiet  BY DEF IInv
<1> QED BY Invariance, <1>1, PTL

(* A save called with nothing outstanding writes the user's changes.       *)
THEOREM QuietSaveKeepsChanges == Spec => []EditIsSaved
<1>1. IInv => EditIsSaved  BY DEF IInv
<1> QED BY Invariance, <1>1, PTL
=============================================================================
