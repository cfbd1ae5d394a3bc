---------------------------- MODULE CompatUpdate ----------------------------
(***************************************************************************)
(* The update of game settings from the network (src/src/opl.c): one       *)
(* request per device on the I/O worker, each downloading the settings of  *)
(* that device's games over HTTP, and the dialog (src/src/gui.c) that      *)
(* starts, watches and cancels them.  Both sides share CompatUpdateStatus  *)
(* and CompatUpdateStopFlag, without a lock.                               *)
(*                                                                         *)
(* As in IoMan.tla the worker serves its queue in order and holds          *)
(* gProcSemaId until the queue is empty, and the GUI thread advances only  *)
(* while the worker waits: for the HTTP client on the IOP, for a file, or  *)
(* for a device in another component's handler ("Other").                  *)
(*                                                                         *)
(* Left out: time stamps, the progress counters, the contents of the       *)
(* settings and the flag that says which are to be kept.  Results are the  *)
(* integers of the code, because the connection error bit is tested in     *)
(* them.  An operator ending in _Bug is a wrong version of the one below   *)
(* it.                                                                     *)
(***************************************************************************)
EXTENDS Integers, Sequences, SequencesExt

CONSTANTS
  Devices,      \* the modules of list_support that take part
  Recognized,   \* those of BDM_MODE, ETH_MODE and HDD_MODE
  NoDevice,
  Counts,       \* what itemGetCount may return when a request is served
  Retries,      \* OPL_COMPAT_HTTP_RETRIES
  MaxStarts,    \* bound: updates started in a behaviour
  MaxQueue      \* bound: requests queued when another component adds one

ASSUME DevicesAssumption ==
  IsFiniteSet(Devices) /\ Recognized \subseteq Devices /\ NoDevice \notin Devices
ASSUME CountsAssumption  == Counts \subseteq Nat /\ Retries \in Nat \ {0}
ASSUME BoundsAssumption  == MaxStarts \in Nat /\ MaxQueue \in Nat

VARIABLES
  status,     \* CompatUpdateStatus
  stop,       \* CompatUpdateStopFlag
  waiting,    \* CompatUpdSingleStatus
  queue,      \* the requests of the worker; the head is being served
  w,          \* the variables of compatUpdate
  open,       \* sockets open in the HTTP client
  misused,    \* history: a socket was leaked or closed twice
  dlg,        \* where the dialog is
  report,     \* the result it has shown
  starts

shared == <<status, stop, waiting>>
conn   == <<open, misused>>
dialog == <<dlg, report, starts>>
vars   == <<shared, queue, w, conn, dialog>>

Stats == {"WIP", "DONE", "ERROR", "CONN_ERROR", "ABORTED"}

(* Requests: the update of a device, of a single game of a device, or the  *)
(* work of another component.                                              *)
All(d)    == [kind |-> "all", dev |-> d]
Single(d) == [kind |-> "single", dev |-> d]
Other     == [kind |-> "other", dev |-> NoDevice]

Idle == [pc |-> "idle", i |-> 0, count |-> 0, result |-> 0, HttpSocket |-> FALSE,
         ConnMode |-> "PERSISTENT", retries |-> 0, tries |-> 0, why |-> "first",
         failed |-> FALSE]

Init ==
  /\ status = "WIP" /\ stop = FALSE /\ waiting = FALSE
  /\ queue = << >> /\ w = Idle
  /\ open = 0 /\ misused = FALSE
  /\ dlg = "closed" /\ report = "DONE" /\ starts = 0

-----------------------------------------------------------------------------
(* Results.                                                                *)
EIO    == 5
ENOMEM == 12

(* result & EOPLCONNERR and result | EOPLCONNERR, of the bit 0x4000 of a   *)
(* two's complement integer.                                               *)
IsConnErr(r) == r % 32768 >= 16384
ConnErr(r)   == IF IsConnErr(r) THEN r ELSE r + 16384

(* What compatUpdate leaves in CompatUpdateStatus.                         *)
Outcome(r) ==
  IF stop THEN "ABORTED"
  ELSE IF r >= 0 THEN "DONE"
  ELSE IF IsConnErr(r) THEN "CONN_ERROR" ELSE "ERROR"

-----------------------------------------------------------------------------
(* compatUpdate on the worker; every step is a call that blocks.           *)

Request == Head(queue)
IsSingle == Request.kind = "single"
At(label) == w.pc = label /\ UNCHANGED <<stop, dialog>>

(* The request ends with status s.  _updateCompatSingle then clears the    *)
(* flag that the GUI thread waits for.                                     *)
Served(s) ==
  /\ status' = s
  /\ waiting' = (waiting /\ ~IsSingle)
  /\ queue' = Tail(queue)
  /\ w' = Idle

Stays == UNCHANGED <<status, waiting, queue>>

(* HttpEstabConnection has given a socket; HttpCloseConnection of what the *)
(* variable HttpSocket holds, which may be -1.                             *)
Opened == open' = open + 1 /\ misused' = (misused \/ open > 0)
Closed ==
  /\ open' = IF w.HttpSocket /\ open > 0 THEN open - 1 ELSE open
  /\ misused' = (misused \/ (w.HttpSocket /\ open = 0))

(* The device is not known, there is no memory, or there are no games: the *)
(* request ends at once.  Otherwise a connection is attempted.             *)
Begin ==
  /\ At("idle") /\ queue # << >> /\ Request.kind # "other"
  /\ \/ Request.dev \notin Recognized /\ Served("ERROR")
     \/ Request.dev \in Recognized /\ Served(Outcome(-ENOMEM))
     \/ /\ Request.dev \in Recognized /\ ~IsSingle /\ 0 \in Counts
        /\ Served(Outcome(0))
     \/ \E n \in IF IsSingle THEN {1} ELSE Counts \ {0} :
          /\ Request.dev \in Recognized
          /\ w' = [w EXCEPT !.pc = "connect", !.count = n, !.tries = Retries, !.why = "first"]
          /\ Stays
  /\ UNCHANGED conn

(* CompatAttemptConnection gives up: -1.  What follows depends on where it *)
(* was called.                                                             *)
ConnectFails ==
  /\ At("connect") /\ (stop \/ w.tries = 0)
  /\ w' = [w EXCEPT !.HttpSocket = FALSE, !.result = ConnErr(-1), !.failed = TRUE,
                    !.pc = CASE w.why = "first" -> "finish"
                             [] w.why = "again" -> "close"
                             [] w.why = "retry" -> "itemend"]
  /\ Stays /\ UNCHANGED conn

ConnectTry ==
  /\ At("connect") /\ ~stop /\ w.tries > 0
  /\ \/ w' = [w EXCEPT !.tries = @ - 1] /\ UNCHANGED conn
     \/ /\ Opened
        /\ w' = [w EXCEPT !.HttpSocket = TRUE,
                          !.retries = IF w.why = "retry" THEN @ - 1 ELSE @,
                          !.pc = CASE w.why = "first" -> "loop"
                                   [] w.why = "again" -> "item"
                                   [] w.why = "retry" -> "send"]
  /\ Stays

(* A failed game does not end the loop.                                    *)
NextItem_Bug ==
  /\ At("loop")
  /\ w' = IF stop \/ w.i >= w.count THEN [w EXCEPT !.pc = "close"]
          ELSE IF w.ConnMode = "CLOSED"
          THEN [w EXCEPT !.pc = "connect", !.ConnMode = "PERSISTENT", !.tries = Retries,
                         !.why = "again"]
          ELSE [w EXCEPT !.pc = "item"]
  /\ Stays /\ UNCHANGED conn

(* The loop over the games, and the reconnection if the server has closed. *)
NextItem ==
  /\ At("loop")
  /\ w' = IF stop \/ w.result < 0 \/ w.i >= w.count THEN [w EXCEPT !.pc = "close"]
          ELSE IF w.ConnMode = "CLOSED"
          THEN [w EXCEPT !.pc = "connect", !.ConnMode = "PERSISTENT", !.tries = Retries,
                         !.why = "again"]
          ELSE [w EXCEPT !.pc = "item"]
  /\ Stays /\ UNCHANGED conn

(* In the update of a device any game may be skipped: it has no            *)
(* configuration, or its user's settings are to be kept.                   *)
Item ==
  /\ At("item")
  /\ \/ ~IsSingle /\ w' = [w EXCEPT !.pc = "itemend"]
     \/ w' = [w EXCEPT !.pc = "send", !.retries = Retries]
  /\ Stays /\ UNCHANGED conn

(* HttpSendGetRequest answers: 200 with new settings, which may not be     *)
(* written or not fit in memory, or another code.  The server may announce *)
(* that it closes.                                                         *)
SendOk ==
  /\ At("send") /\ ~stop /\ w.retries > 0
  /\ \E r \in {200, 304, -EIO, -ENOMEM}, mode \in {"PERSISTENT", "CLOSED"} :
       w' = [w EXCEPT !.result = r, !.failed = @ \/ r < 0, !.ConnMode = mode, !.pc = "itemend"]
  /\ Stays /\ UNCHANGED conn

(* It fails: the socket is closed and a new connection attempted.          *)
SendFails ==
  /\ At("send") /\ ~stop /\ w.retries > 0
  /\ Closed
  /\ w' = [w EXCEPT !.result = ConnErr(-1), !.ConnMode = "PERSISTENT", !.pc = "connect",
                    !.tries = Retries, !.why = "retry"]
  /\ Stays

SendStops ==
  /\ At("send") /\ (stop \/ w.retries = 0)
  /\ w' = [w EXCEPT !.pc = "itemend", !.failed = @ \/ w.result < 0]
  /\ Stays /\ UNCHANGED conn

ItemEnd ==
  /\ At("itemend")
  /\ w' = [w EXCEPT !.pc = "loop", !.i = @ + 1]
  /\ IF w.ConnMode = "CLOSED" THEN Closed ELSE UNCHANGED conn
  /\ Stays

(* The connection is closed after the loop in either mode.                 *)
LastClose_Bug ==
  /\ At("close")
  /\ w' = [w EXCEPT !.pc = "finish"]
  /\ Closed
  /\ Stays

LastClose ==
  /\ At("close")
  /\ w' = [w EXCEPT !.pc = "finish"]
  /\ IF w.ConnMode = "PERSISTENT" THEN Closed ELSE UNCHANGED conn
  /\ Stays

Finish ==
  /\ At("finish")
  /\ Served(Outcome(w.result))
  /\ UNCHANGED conn

(* The request of another component.                                       *)
OtherBegin ==
  /\ At("idle") /\ queue # << >> /\ Request.kind = "other"
  /\ w' = [w EXCEPT !.pc = "other"]
  /\ Stays /\ UNCHANGED conn

OtherEnd ==
  /\ At("other")
  /\ w' = Idle /\ queue' = Tail(queue)
  /\ UNCHANGED <<status, waiting, conn>>

WorkerStep ==
  \/ Begin \/ ConnectFails \/ ConnectTry \/ NextItem \/ Item \/ SendOk \/ SendFails \/ SendStops
  \/ ItemEnd \/ LastClose \/ Finish \/ OtherBegin \/ OtherEnd

-----------------------------------------------------------------------------
(* The GUI thread.                                                         *)

(* The worker goes on without waiting: it has a request to take up, or has *)
(* ended one.  At "loop" it may still be in the call that has opened the   *)
(* connection or closed it, so that the flag can be set there.             *)
WorkerReady == (w.pc = "idle" /\ queue # << >>) \/ w.pc = "finish"

In(label) == ~WorkerReady /\ dlg = label /\ UNCHANGED <<w, conn>>

AddOther ==
  /\ In("closed") /\ Len(queue) < MaxQueue
  /\ queue' = Append(queue, Other)
  /\ UNCHANGED <<shared, dialog>>

(* NETUPD_BTN_START, confirmed, and oplUpdateGameCompat for the devices    *)
(* that are enabled and have games.                                        *)
oplUpdateGameCompat(devs) ==
  /\ In("closed") /\ starts < MaxStarts
  /\ stop' = FALSE
  /\ status' = IF devs = << >> THEN "DONE" ELSE "WIP"
  /\ queue' = queue \o [k \in 1 .. Len(devs) |-> All(devs[k])]
  /\ dlg' = "started" /\ starts' = starts + 1
  /\ UNCHANGED <<waiting, report>>

(* guiNetCompatUpdRefresh, in each frame of the dialog, sees the end; the  *)
(* result is shown and the dialog left.                                    *)
Refresh ==
  /\ In("started") /\ status # "WIP"
  /\ report' = status /\ dlg' = "closed"
  /\ UNCHANGED <<shared, queue, starts>>

(* The cancel button, and the question whether to cancel.                  *)
Cancel ==
  /\ In("started") /\ dlg' = "asking"
  /\ UNCHANGED <<shared, queue, report, starts>>

Declined ==
  /\ In("asking") /\ dlg' = "started"
  /\ UNCHANGED <<shared, queue, report, starts>>

(* The request being served keeps the others queued: only the flag is set. *)
Abort_Bug ==
  /\ In("asking")
  /\ stop' = TRUE /\ dlg' = "started"
  /\ UNCHANGED <<status, waiting, queue, report, starts>>

(* oplAbortUpdateGameCompat sets the flag and calls ioRemoveRequests.      *)
Abort ==
  /\ In("asking")
  /\ stop' = TRUE /\ dlg' = "removing"
  /\ UNCHANGED <<status, waiting, queue, report, starts>>

(* ioRemoveRequests does not wait for the worker.                          *)
RemoveRequests_Bug ==
  /\ In("removing")
  /\ queue' = SelectSeq(queue, LAMBDA r : r.kind # "all" \/ (w.pc # "other" /\ r = Head(queue)))
  /\ dlg' = "started"
  /\ UNCHANGED <<shared, report, starts>>

(* ioRemoveRequests waits for gProcSemaId, which the worker holds until    *)
(* its queue is empty; its loop ends at once if the list is.               *)
RemoveRequests ==
  /\ In("removing") /\ w.pc = "idle"
  /\ queue' = IF queue = << >> THEN queue
              ELSE SelectSeq(queue, LAMBDA r : r.kind # "all")
  /\ dlg' = "started"
  /\ UNCHANGED <<shared, report, starts>>

(* oplUpdateGameCompatSingle, which waits in guiHandleDeferedIO.           *)
oplUpdateGameCompatSingle(d) ==
  /\ In("closed") /\ starts < MaxStarts
  /\ stop' = FALSE /\ status' = "WIP" /\ waiting' = TRUE
  /\ queue' = Append(queue, Single(d))
  /\ dlg' = "single" /\ starts' = starts + 1
  /\ UNCHANGED <<report>>

SingleDone ==
  /\ In("single") /\ ~waiting
  /\ report' = status /\ dlg' = "closed"
  /\ UNCHANGED <<shared, queue, starts>>

(* The frames of a dialog that has something to wait for.                  *)
DialogStep == Refresh \/ Declined \/ RemoveRequests \/ SingleDone

GuiStep ==
  \/ DialogStep \/ Cancel \/ Abort \/ AddOther
  \/ \E S \in SUBSET Devices : oplUpdateGameCompat(SetToSeq(S))
  \/ \E d \in Devices : oplUpdateGameCompatSingle(d)

Next == WorkerStep \/ GuiStep

Spec == Init /\ [][Next]_vars

(* The HTTP client and the devices answer, and the user answers a          *)
(* question; the user does not press the cancel button in every frame, so  *)
(* that a frame in which the dialog could see the end comes to its check.  *)
FairSpec == Spec /\ WF_vars(WorkerStep) /\ WF_vars(DialogStep) /\ SF_vars(Refresh)

-----------------------------------------------------------------------------
(* Every variable has a value of its type.                                 *)
TypeOK ==
  /\ status \in Stats /\ stop \in BOOLEAN /\ waiting \in BOOLEAN
  /\ queue \in Seq([kind : {"all", "single", "other"}, dev : Devices \cup {NoDevice}])
  /\ open \in Nat /\ misused \in BOOLEAN
  /\ dlg \in {"closed", "started", "asking", "removing", "single"}
  /\ report \in Stats /\ starts \in 0 .. MaxStarts

(* Every socket is closed once, whatever fails, is retried or aborted: no  *)
(* second one is opened before the first is closed, none is closed twice,  *)
(* and none is open when no update runs.                                   *)
SocketsClosed ==
  /\ TypeOK
  /\ ~misused /\ (w.pc \in {"idle", "finish", "other"} => open = 0)

(* A request that reports DONE has gone through all games of its device,   *)
(* and none of them failed: a later success does not hide an error.        *)
DoneMeansUpdated ==
  [][w.pc = "finish" /\ status' = "DONE" => ~w.failed /\ w.i = w.count]_vars

Outstanding == \E k \in 1 .. Len(queue) : queue[k].kind # "other"

(* Once the dialog has reported that the update was cancelled, no part of  *)
(* it is left: no device is updated behind the user's back.                *)
AbortStopsAll == dlg = "closed" /\ report = "ABORTED" => ~Outstanding

(* The dialog ends: the status it waits for is set, also when the update   *)
(* is cancelled before, between or after the devices' requests.            *)
UpdateEnds == dlg # "closed" ~> dlg = "closed"
=============================================================================
