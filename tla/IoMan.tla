------------------------------- MODULE IoMan -------------------------------
(***************************************************************************)
(* The asynchronous I/O manager of OPL (src/src/ioman.c): one worker       *)
(* thread that runs the handlers of queued requests, and the GUI thread    *)
(* that queues, removes, blocks and terminates.  Handlers run on the       *)
(* worker and queue follow-up requests themselves.                         *)
(*                                                                         *)
(* Both threads share one linked list (gReqList .. gReqEnd) and two binary *)
(* semaphores: gProcSemaId is held by the worker while it drains the list, *)
(* gEndSemaId around every change of the list's tail.                      *)
(*                                                                         *)
(* The EE runs one thread at a time, the ready thread of the highest       *)
(* priority.  The worker (30) outranks the GUI thread (31, main()), so the *)
(* GUI thread advances only while the worker is blocked: asleep, waiting   *)
(* for a semaphore, or inside a handler that waits for the IOP.            *)
(*                                                                         *)
(* A request is a number, allocated in the order in which requests are     *)
(* linked; 0 stands for NULL.  The list is the sequence of nodes reachable *)
(* from gReqList.  An operator whose name ends in _Bug is a wrong version  *)
(* of the definition below it that some property must reject; it is not    *)
(* part of the specification.                                              *)
(***************************************************************************)
EXTENDS Naturals, Sequences, FiniteSets

CONSTANTS
  Types,           \* the request types (IO_... of opl.h)
  SimpleAction,    \* IO_CUSTOM_SIMPLEACTION, registered by ioInit itself
  Uninit,          \* the type field of a node that is linked but not filled
  Startups,        \* the sequences of types that init() may register
  MaxHandlers,     \* MAX_IO_HANDLERS
  MaxCalls,        \* bound: calls of ioPutRequest in a behaviour
  PollsPending,    \* whether the GUI thread calls ioGetPendingRequestCount
  StrictPriority   \* TRUE: the EE kernel's scheduler, FALSE: any interleaving

ASSUME TypesAssumption ==
  /\ SimpleAction \in Types
  /\ Uninit \notin Types
  /\ Startups \subseteq Seq(Types)

ASSUME BoundsAssumption ==
  /\ MaxHandlers \in Nat \ {0}
  /\ MaxCalls \in Nat
  /\ PollsPending \in BOOLEAN
  /\ StrictPriority \in BOOLEAN

VARIABLES
  reqs,          \* the list from gReqList along next
  gReqEnd,       \* the tail pointer
  rtype,         \* type field of each allocated node
  nextId,        \* next node to allocate
  procSema,      \* gProcSemaId: 1 free, 0 taken
  endSema,       \* gEndSemaId
  handlers,      \* types in gRequestHandlers
  regs,          \* registrations init() still has to make
  isIOBlocked,
  gIOTerminate,
  isIORunning,
  wakeups,       \* pending WakeupThread calls for the worker
  pc,            \* where each thread is
  loc,           \* the local variable of each thread's own call
  cur,           \* the variable req of ioWorkerThread
  ptype,         \* the type argument of the call in progress
  ret,           \* result of each thread's last refused or finished ioPutRequest
  calls,         \* calls of ioPutRequest so far
  handled,       \* history: requests whose handler has returned
  removed,       \* history: requests taken out by ioRemoveRequests
  dropped        \* history: requests freed by the terminating worker

listVars == <<reqs, gReqEnd, rtype, nextId>>
semas    == <<procSema, endSema>>
regVars  == <<handlers, regs>>
flags    == <<isIOBlocked, gIOTerminate, isIORunning, wakeups>>
locals   == <<loc, cur>>
putVars  == <<ptype, ret, calls>>
hist     == <<handled, removed, dropped>>
vars     == <<listVars, semas, regVars, flags, pc, locals, putVars, hist>>

NULL    == 0
Main    == "main"
Io      == "io"
Threads == {Main, Io}
Nodes   == 1 .. MaxCalls

PutLabels  == {"putwait", "puttail", "putlink", "putfill", "putwake"}
IoLabels   == {"check", "sleep", "woken", "procwait", "loop", "handle", "popwait",
               "pop", "popend", "procsignal", "cleanup", "exited"}
MainLabels == {"init", "reg", "idle", "rmproc", "rmend", "rmwalk", "rmsignal",
               "blockspin", "cntwait", "cntwalk", "ended"}

Elements(s) == {s[i] : i \in 1 .. Len(s)}

Goto(t, label) == pc' = [pc EXCEPT ![t] = label]

(* WaitSema and SignalSema of the two binary semaphores.                   *)
WaitProc   == procSema = 1 /\ procSema' = 0 /\ UNCHANGED endSema
WaitEnd    == endSema = 1 /\ endSema' = 0 /\ UNCHANGED procSema
SignalProc == procSema' = 1 /\ UNCHANGED endSema
SignalEnd  == endSema' = 1 /\ UNCHANGED procSema

-----------------------------------------------------------------------------
(* ioInit: the state once the worker thread is started.                    *)
Init ==
  /\ reqs = << >> /\ gReqEnd = NULL /\ nextId = 1
  /\ rtype = [n \in Nodes |-> Uninit]
  /\ procSema = 1 /\ endSema = 1
  /\ handlers = {SimpleAction} /\ regs \in Startups
  /\ isIOBlocked = FALSE /\ gIOTerminate = FALSE /\ isIORunning = TRUE /\ wakeups = 0
  /\ pc = [t \in Threads |-> IF t = Io THEN "check" ELSE "init"]
  /\ loc = [t \in Threads |-> NULL] /\ cur = NULL
  /\ ptype = [t \in Threads |-> SimpleAction]
  /\ ret = [t \in Threads |-> "IO_OK"] /\ calls = 0
  /\ handled = {} /\ removed = {} /\ dropped = {}

-----------------------------------------------------------------------------
(* ioPutRequest, called by the GUI thread or by a handler on the worker.   *)

(* Where a thread calls ioPutRequest from, and where it continues.         *)
Caller(t) == IF t = Io THEN "handle" ELSE "idle"

(* The early returns: the blocking flag, then the handler table.           *)
PutBegin(t, type) ==
  /\ pc[t] = Caller(t)
  /\ calls < MaxCalls
  /\ calls' = calls + 1
  /\ \/ /\ isIOBlocked
        /\ ret' = [ret EXCEPT ![t] = "IO_ERR_IO_BLOCKED"]
        /\ UNCHANGED <<pc, ptype>>
     \/ /\ ~isIOBlocked /\ type \notin handlers
        /\ ret' = [ret EXCEPT ![t] = "IO_ERR_INVALID_HANDLER"]
        /\ UNCHANGED <<pc, ptype>>
     \/ /\ ~isIOBlocked /\ type \in handlers
        /\ ptype' = [ptype EXCEPT ![t] = type]
        /\ Goto(t, "putwait")
        /\ UNCHANGED ret
  /\ UNCHANGED <<listVars, semas, regVars, flags, locals, hist>>

(* No lock of the queue end.                                               *)
PutWait_Bug(t) ==
  /\ pc[t] = "putwait"
  /\ Goto(t, "puttail")
  /\ UNCHANGED <<listVars, semas, regVars, flags, locals, putVars, hist>>

PutWait(t) ==
  /\ pc[t] = "putwait"
  /\ WaitEnd
  /\ Goto(t, "puttail")
  /\ UNCHANGED <<listVars, regVars, flags, locals, putVars, hist>>

(* req = gReqEnd                                                           *)
PutTail(t) ==
  /\ pc[t] = "puttail"
  /\ loc' = [loc EXCEPT ![t] = gReqEnd]
  /\ Goto(t, "putlink")
  /\ UNCHANGED <<listVars, semas, regVars, flags, cur, putVars, hist>>

(* Where a node is in the list.                                            *)
InList(req)   == \E i \in 1 .. Len(reqs) : reqs[i] = req
Position(req) == CHOOSE i \in 1 .. Len(reqs) : reqs[i] = req

(* The list after req->next = new, or gReqList = new when there is no      *)
(* tail.  Linking behind a node that left the list reaches nothing.        *)
Linked(req, new) ==
  IF req = NULL THEN <<new>>
  ELSE IF InList(req) THEN Append(SubSeq(reqs, 1, Position(req)), new) ELSE reqs

(* The new node is reachable before its fields are set.                    *)
PutLink(t) ==
  /\ pc[t] = "putlink"
  /\ reqs' = Linked(loc[t], nextId)
  /\ gReqEnd' = nextId
  /\ loc' = [loc EXCEPT ![t] = nextId]
  /\ nextId' = nextId + 1
  /\ Goto(t, "putfill")
  /\ UNCHANGED <<rtype, semas, regVars, flags, cur, putVars, hist>>

PutFill(t) ==
  /\ pc[t] = "putfill"
  /\ rtype' = [rtype EXCEPT ![loc[t]] = ptype[t]]
  /\ SignalEnd
  /\ Goto(t, "putwake")
  /\ UNCHANGED <<reqs, gReqEnd, nextId, regVars, flags, locals, putVars, hist>>

(* No WakeupThread.                                                        *)
PutWake_Bug(t) ==
  /\ pc[t] = "putwake"
  /\ ret' = [ret EXCEPT ![t] = "IO_OK"]
  /\ Goto(t, Caller(t))
  /\ UNCHANGED <<listVars, semas, regVars, flags, locals, ptype, calls, hist>>

(* WakeupThread(gIOThreadId) is counted when the worker is not asleep, and *)
(* an error without effect when the worker calls it on itself.             *)
PutWake(t) ==
  /\ pc[t] = "putwake"
  /\ wakeups' = IF t = Io THEN wakeups ELSE wakeups + 1
  /\ ret' = [ret EXCEPT ![t] = "IO_OK"]
  /\ Goto(t, Caller(t))
  /\ UNCHANGED <<listVars, semas, regVars, isIOBlocked, gIOTerminate, isIORunning, locals,
                 ptype, calls, hist>>

PutStep(t) == PutWait(t) \/ PutTail(t) \/ PutLink(t) \/ PutFill(t) \/ PutWake(t)

-----------------------------------------------------------------------------
(* ioWorkerThread.                                                         *)

(* while (!gIOTerminate), and the test repeated after SleepThread.         *)
WorkerCheck ==
  /\ \/ pc[Io] = "check" /\ Goto(Io, IF gIOTerminate THEN "cleanup" ELSE "sleep")
     \/ pc[Io] = "woken" /\ Goto(Io, IF gIOTerminate THEN "cleanup" ELSE "procwait")
  /\ UNCHANGED <<listVars, semas, regVars, flags, locals, putVars, hist>>

(* SleepThread consumes one wakeup, or blocks until there is one.          *)
WorkerSleep ==
  /\ pc[Io] = "sleep"
  /\ wakeups > 0
  /\ wakeups' = wakeups - 1
  /\ Goto(Io, "woken")
  /\ UNCHANGED <<listVars, semas, regVars, isIOBlocked, gIOTerminate, isIORunning, locals,
                 putVars, hist>>

WorkerLock ==
  /\ pc[Io] = "procwait"
  /\ WaitProc
  /\ Goto(Io, "loop")
  /\ UNCHANGED <<listVars, regVars, flags, locals, putVars, hist>>

(* What the worker may read as the type of a node: anything, when the      *)
(* field is not set yet.                                                   *)
TypesRead(req) == IF rtype[req] = Uninit THEN Types \cup {Uninit} ELSE {rtype[req]}

(* while (gReqList), with the termination test inside, and the handler     *)
(* lookup of ioProcessRequest.  The head stays in the list while its       *)
(* handler runs.                                                           *)
WorkerLoop ==
  /\ pc[Io] = "loop"
  /\ \/ /\ reqs = << >> \/ gIOTerminate
        /\ Goto(Io, "procsignal")
        /\ UNCHANGED cur
     \/ /\ reqs # << >> /\ ~gIOTerminate
        /\ cur' = Head(reqs)
        /\ \E type \in TypesRead(Head(reqs)) :
             Goto(Io, IF type \in handlers THEN "handle" ELSE "popwait")
  /\ UNCHANGED <<listVars, semas, regVars, flags, loc, putVars, hist>>

(* The handler returns.  What it does in between is the worker's own       *)
(* PutBegin, and the blocking waits that let the GUI thread run.           *)
WorkerHandled ==
  /\ pc[Io] = "handle"
  /\ handled' = handled \cup {cur}
  /\ Goto(Io, "popwait")
  /\ UNCHANGED <<listVars, semas, regVars, flags, locals, putVars, removed, dropped>>

WorkerPopWait ==
  /\ pc[Io] = "popwait"
  /\ WaitEnd
  /\ Goto(Io, "pop")
  /\ UNCHANGED <<listVars, regVars, flags, locals, putVars, hist>>

(* The list from req->next on; nothing is known of a node not in the list. *)
After(req) ==
  IF InList(req) THEN SubSeq(reqs, Position(req) + 1, Len(reqs)) ELSE << >>

(* gReqList = NULL instead of req->next.                                   *)
WorkerPop_Bug ==
  /\ pc[Io] = "pop"
  /\ reqs' = << >>
  /\ Goto(Io, "popend")
  /\ UNCHANGED <<gReqEnd, rtype, nextId, semas, regVars, flags, locals, putVars, hist>>

(* gReqList = req->next; free(req)                                         *)
WorkerPop ==
  /\ pc[Io] = "pop"
  /\ reqs' = After(cur)
  /\ Goto(Io, "popend")
  /\ UNCHANGED <<gReqEnd, rtype, nextId, semas, regVars, flags, locals, putVars, hist>>

(* One request per wakeup: "if (gReqList)" instead of "while".             *)
WorkerPopEnd_Bug ==
  /\ pc[Io] = "popend"
  /\ gReqEnd' = IF reqs = << >> THEN NULL ELSE gReqEnd
  /\ SignalEnd
  /\ Goto(Io, "procsignal")
  /\ UNCHANGED <<reqs, rtype, nextId, regVars, flags, locals, putVars, hist>>

(* if (!gReqList) gReqEnd = NULL; SignalSema(gEndSemaId)                   *)
WorkerPopEnd ==
  /\ pc[Io] = "popend"
  /\ gReqEnd' = IF reqs = << >> THEN NULL ELSE gReqEnd
  /\ SignalEnd
  /\ Goto(Io, "loop")
  /\ UNCHANGED <<reqs, rtype, nextId, regVars, flags, locals, putVars, hist>>

WorkerUnlock ==
  /\ pc[Io] = "procsignal"
  /\ SignalProc
  /\ Goto(Io, "check")
  /\ UNCHANGED <<listVars, regVars, flags, locals, putVars, hist>>

(* Pending requests are freed, the semaphores deleted, the thread ends.    *)
WorkerExit ==
  /\ pc[Io] = "cleanup"
  /\ reqs' = << >>
  /\ dropped' = dropped \cup Elements(reqs)
  /\ isIORunning' = FALSE
  /\ Goto(Io, "exited")
  /\ UNCHANGED <<gReqEnd, rtype, nextId, semas, regVars, isIOBlocked, gIOTerminate, wakeups,
                 locals, putVars, handled, removed>>

WorkerStep == WorkerCheck \/ WorkerSleep \/ WorkerLock \/ WorkerLoop \/ WorkerHandled
              \/ WorkerPopWait \/ WorkerPop \/ WorkerPopEnd \/ WorkerUnlock \/ WorkerExit

-----------------------------------------------------------------------------
(* The GUI thread.                                                         *)

(* ioRegisterHandler: WaitSema first, then the checks.  The error returns  *)
(* leave gProcSemaId taken.                                                *)
RegisterWait ==
  /\ pc[Main] = "init"
  /\ regs # << >>
  /\ WaitProc
  /\ Goto(Main, "reg")
  /\ UNCHANGED <<listVars, regVars, flags, locals, putVars, hist>>

Register ==
  /\ pc[Main] = "reg"
  /\ \/ /\ Head(regs) \in handlers \/ Cardinality(handlers) >= MaxHandlers
        /\ UNCHANGED <<handlers, semas>>
     \/ /\ Head(regs) \notin handlers /\ Cardinality(handlers) < MaxHandlers
        /\ handlers' = handlers \cup {Head(regs)}
        /\ SignalProc
  /\ regs' = Tail(regs)
  /\ Goto(Main, "init")
  /\ UNCHANGED <<listVars, flags, locals, putVars, hist>>

InitDone ==
  /\ pc[Main] = "init"
  /\ regs = << >>
  /\ Goto(Main, "idle")
  /\ UNCHANGED <<listVars, semas, regVars, flags, locals, putVars, hist>>

(* ioRemoveRequests(type): both semaphores, then one step per node of the  *)
(* walk; loc[Main] counts the nodes kept so far (last is the loc-th).      *)
RemoveBegin(type) ==
  /\ pc[Main] = "idle"
  /\ ptype' = [ptype EXCEPT ![Main] = type]
  /\ Goto(Main, "rmproc")
  /\ UNCHANGED <<listVars, semas, regVars, flags, locals, ret, calls, hist>>

RemoveLockProc ==
  /\ pc[Main] = "rmproc"
  /\ WaitProc
  /\ Goto(Main, "rmend")
  /\ UNCHANGED <<listVars, regVars, flags, locals, putVars, hist>>

RemoveLockEnd ==
  /\ pc[Main] = "rmend"
  /\ WaitEnd
  /\ loc' = [loc EXCEPT ![Main] = 0]
  /\ Goto(Main, "rmwalk")
  /\ UNCHANGED <<listVars, regVars, flags, cur, putVars, hist>>

(* if (req == gReqEnd) gReqEnd = last                                      *)
TailAfterRemoval(kept, req) ==
  IF req # gReqEnd THEN gReqEnd ELSE IF kept = 0 THEN NULL ELSE reqs[kept]

(* The list without its (k+1)-th node.                                     *)
Without(k) == SubSeq(reqs, 1, k) \o SubSeq(reqs, k + 2, Len(reqs))

RemoveWalk ==
  /\ pc[Main] = "rmwalk"
  /\ LET kept == loc[Main]
         req  == reqs[kept + 1]
     IN  \/ /\ kept < Len(reqs) /\ rtype[req] = ptype[Main]
            /\ reqs' = Without(kept)
            /\ gReqEnd' = TailAfterRemoval(kept, req)
            /\ removed' = removed \cup {req}
            /\ UNCHANGED <<loc, pc>>
         \/ /\ kept < Len(reqs) /\ rtype[req] # ptype[Main]
            /\ loc' = [loc EXCEPT ![Main] = kept + 1]
            /\ UNCHANGED <<reqs, gReqEnd, removed, pc>>
         \/ /\ kept >= Len(reqs)
            /\ Goto(Main, "rmsignal")
            /\ UNCHANGED <<reqs, gReqEnd, removed, loc>>
  /\ UNCHANGED <<rtype, nextId, semas, regVars, flags, cur, putVars, handled, dropped>>

(* Nobody waits for gEndSemaId while gProcSemaId is held here, so the two  *)
(* SignalSema are one step.                                                *)
RemoveSignal ==
  /\ pc[Main] = "rmsignal"
  /\ endSema' = 1 /\ procSema' = 1
  /\ Goto(Main, "idle")
  /\ UNCHANGED <<listVars, regVars, flags, locals, putVars, hist>>

(* ioBlockOps(1): the flag first, then a busy wait for an empty list.      *)
BlockBegin ==
  /\ pc[Main] = "idle"
  /\ ~isIOBlocked
  /\ isIOBlocked' = TRUE
  /\ Goto(Main, "blockspin")
  /\ UNCHANGED <<listVars, semas, regVars, gIOTerminate, isIORunning, wakeups, locals,
                 putVars, hist>>

(* No wait for the pending requests.                                       *)
BlockDone_Bug ==
  /\ pc[Main] = "blockspin"
  /\ Goto(Main, "idle")
  /\ UNCHANGED <<listVars, semas, regVars, flags, locals, putVars, hist>>

BlockDone ==
  /\ pc[Main] = "blockspin"
  /\ reqs = << >>
  /\ Goto(Main, "idle")
  /\ UNCHANGED <<listVars, semas, regVars, flags, locals, putVars, hist>>

(* ioBlockOps(0)                                                           *)
Unblock ==
  /\ pc[Main] = "idle"
  /\ isIOBlocked
  /\ isIOBlocked' = FALSE
  /\ UNCHANGED <<listVars, semas, regVars, gIOTerminate, isIORunning, wakeups, pc, locals,
                 putVars, hist>>

(* ioEnd, which deinit() and miniDeinit() call after ioBlockOps(1); the    *)
(* GUI thread makes no I/O call afterwards.                                *)
End ==
  /\ pc[Main] = "idle"
  /\ isIOBlocked
  /\ gIOTerminate' = TRUE
  /\ wakeups' = wakeups + 1
  /\ Goto(Main, "ended")
  /\ UNCHANGED <<listVars, semas, regVars, isIOBlocked, isIORunning, locals, putVars, hist>>

(* ioGetPendingRequestCount: the head is read before the semaphore is      *)
(* taken; the walk then starts at that node.                               *)
CountBegin ==
  /\ PollsPending
  /\ pc[Main] = "idle"
  /\ loc' = [loc EXCEPT ![Main] = IF reqs = << >> THEN NULL ELSE Head(reqs)]
  /\ Goto(Main, "cntwait")
  /\ UNCHANGED <<listVars, semas, regVars, flags, cur, putVars, hist>>

CountLock ==
  /\ pc[Main] = "cntwait"
  /\ WaitProc
  /\ Goto(Main, "cntwalk")
  /\ UNCHANGED <<listVars, regVars, flags, locals, putVars, hist>>

CountDone ==
  /\ pc[Main] = "cntwalk"
  /\ SignalProc
  /\ Goto(Main, "idle")
  /\ UNCHANGED <<listVars, regVars, flags, locals, putVars, hist>>

(* The steps of a call in progress, and the calls the GUI thread makes.    *)
MainStep == RegisterWait \/ Register \/ InitDone \/ RemoveLockProc \/ RemoveLockEnd
            \/ RemoveWalk \/ RemoveSignal \/ BlockDone \/ CountLock \/ CountDone

MainCall == BlockBegin \/ Unblock \/ End \/ CountBegin
            \/ \E type \in Types : RemoveBegin(type)

-----------------------------------------------------------------------------
(* Whether the worker can run without waiting for an event.  Inside a      *)
(* handler it waits for the IOP; the answer may come at any moment.        *)
WorkerReady ==
  CASE pc[Io] = "sleep"                  -> wakeups > 0
    [] pc[Io] = "procwait"               -> procSema = 1
    [] pc[Io] \in {"popwait", "putwait"} -> endSema = 1
    [] pc[Io] \in {"handle", "exited"}   -> FALSE
    [] OTHER                             -> TRUE

IoNext   == WorkerStep \/ PutStep(Io) \/ \E type \in Types : PutBegin(Io, type)

(* The worker does not outrank the GUI thread.                             *)
GuiMayRun_Bug == TRUE

GuiMayRun == StrictPriority => ~WorkerReady

MainBusy == GuiMayRun /\ (MainStep \/ PutStep(Main))
MainNew  == GuiMayRun /\ (MainCall \/ \E type \in Types : PutBegin(Main, type))

(* Who is inside which critical section.                                   *)
IoHasProc == pc[Io] \in {"loop", "handle", "popwait", "pop", "popend", "procsignal"}
                        \cup PutLabels
MainHasProc == pc[Main] \in {"reg", "rmend", "rmwalk", "rmsignal", "cntwalk"}
HasEnd(t) == pc[t] \in {"puttail", "putlink", "putfill", "pop", "popend", "rmwalk",
                        "rmsignal"}

(* gProcSemaId is taken and nobody will signal it: ioRegisterHandler has   *)
(* refused a handler.                                                      *)
Leaked == procSema = 0 /\ ~IoHasProc /\ ~MainHasProc

(* Both threads are done for good after ioEnd, or may have to wait for     *)
(* ever for gProcSemaId.                                                   *)
Stopped ==
  /\ (pc[Main] = "ended" /\ pc[Io] = "exited") \/ Leaked
  /\ UNCHANGED vars

Next == IoNext \/ MainBusy \/ MainNew \/ Stopped

Spec == Init /\ [][Next]_vars

(* The kernel keeps running the ready threads: the worker goes on, and a   *)
(* call the GUI thread has begun goes on whenever the worker is blocked.   *)
FairSpec == Spec /\ WF_vars(IoNext) /\ WF_vars(MainBusy)

-----------------------------------------------------------------------------
(* Every variable holds a value of its C type.                             *)
TypeOK ==
  /\ reqs \in Seq(Nodes)
  /\ gReqEnd \in Nodes \cup {NULL}
  /\ rtype \in [Nodes -> Types \cup {Uninit}]
  /\ nextId \in 1 .. MaxCalls + 1
  /\ procSema \in {0, 1} /\ endSema \in {0, 1}
  /\ handlers \in SUBSET Types
  /\ regs \in Seq(Types)
  /\ isIOBlocked \in BOOLEAN /\ gIOTerminate \in BOOLEAN /\ isIORunning \in BOOLEAN
  /\ wakeups \in Nat
  /\ pc \in [Threads -> PutLabels \cup IoLabels \cup MainLabels]
  /\ pc[Io] \in PutLabels \cup IoLabels /\ pc[Main] \in PutLabels \cup MainLabels
  /\ loc \in [Threads -> Nat]
  /\ cur \in Nodes \cup {NULL}
  /\ ptype \in [Threads -> Types]
  /\ ret \in [Threads -> {"IO_OK", "IO_ERR_IO_BLOCKED", "IO_ERR_INVALID_HANDLER"}]
  /\ calls \in 0 .. MaxCalls
  /\ handled \in SUBSET Nodes /\ removed \in SUBSET Nodes /\ dropped \in SUBSET Nodes

(* The two semaphores exclude: the worker draining the list and a GUI      *)
(* thread registering or removing are never inside together, and neither   *)
(* are two changes of the list's tail (ioman.c: gProcSemaId, gEndSemaId).  *)
MutualExclusion ==
  /\ ~(IoHasProc /\ MainHasProc)
  /\ ~(HasEnd(Io) /\ HasEnd(Main))
  /\ procSema = 1 => ~IoHasProc /\ ~MainHasProc
  /\ endSema = 1 => ~HasEnd(Io) /\ ~HasEnd(Main)

(* Whenever nobody changes the tail, gReqEnd is the last node of the list, *)
(* and NULL exactly when the list is empty: what ioPutRequest relies on to *)
(* decide whether it may overwrite gReqList.                               *)
TailIsLast ==
  endSema = 1 /\ isIORunning =>
    gReqEnd = IF reqs = << >> THEN NULL ELSE reqs[Len(reqs)]

(* A request that ioPutRequest accepted is in the list until its handler   *)
(* has returned, unless ioRemoveRequests took it out or the terminating    *)
(* worker freed it: no interleaving of a put, a pop and a removal loses or *)
(* duplicates a node.                                                      *)
NoRequestLost ==
  /\ \A n \in 1 .. nextId - 1 :
       n \in Elements(reqs) \cup handled \cup removed \cup dropped
  /\ \A i, j \in 1 .. Len(reqs) : i < j => reqs[i] < reqs[j]

(* The worker never sleeps over a request, or over the order to end: a     *)
(* request that is linked behind its last look at gReqList has its wakeup  *)
(* counted, or still to come from the thread that linked it, although the  *)
(* wakeup follows the unlock and some were used up for requests that had   *)
(* been served already.                                                    *)
NoLostWakeup ==
  /\ reqs # << >> /\ pc[Io] \in {"procsignal", "check", "sleep"} =>
       wakeups > 0 \/ pc[Main] \in {"putfill", "putwake"}
  /\ gIOTerminate /\ pc[Io] = "sleep" => wakeups > 0

(* The worker reads gReqList without gEndSemaId, and ioPutRequest links a  *)
(* node before it fills it; thread priorities alone keep the worker from   *)
(* seeing a request whose type, data and next are not set.                 *)
NoHalfBuiltRequest ==
  pc[Io] = "loop" /\ reqs # << >> => rtype[Head(reqs)] # Uninit

(* Once ioBlockOps(1) has returned, and until ioBlockOps(0), no request is *)
(* pending and no handler runs: deinit() and the NBD server free device    *)
(* state behind it.                                                        *)
BlockedIsQuiet ==
  isIOBlocked /\ pc[Main] \in {"idle", "ended"} =>
    reqs = << >> /\ pc[Io] \notin {"handle"} \cup PutLabels

(* The worker that ioEnd() terminates has nothing left to free: no queued  *)
(* request is dropped without its handler having run.                      *)
NothingDropped == dropped = {}

(* Handlers run in the order in which requests were queued, each at most   *)
(* once, and never behind an older request that is still pending.          *)
ServedInOrder ==
  [][\A n \in handled' \ handled :
        /\ \A h \in handled : h < n
        /\ \A m \in Elements(reqs) : n <= m]_vars

(* Every accepted request is eventually served or removed: a put that      *)
(* arrives while the worker is about to sleep is not forgotten, whichever  *)
(* thread makes it.  Only a refused ioRegisterHandler stops the worker.    *)
AcceptedIsServed ==
  \A n \in Nodes : n < nextId ~> n \in handled \cup removed \/ Leaked

(* ioBlockOps(1) returns: the requests pending at its call, and those the  *)
(* handlers queued before they met the flag, all end, unless the worker is *)
(* stopped by a refused ioRegisterHandler.                                 *)
BlockReturns == pc[Main] = "blockspin" ~> pc[Main] = "idle" \/ Leaked

-----------------------------------------------------------------------------
(* What the callers of ioman.h see: a request is pending until its handler *)
(* has returned, though its node stays in the list a little longer.        *)
PendingRequests ==
  IF reqs # << >> /\ Head(reqs) \in handled THEN Tail(reqs) ELSE reqs

Gate ==
  IF ~isIOBlocked THEN "open"
  ELSE IF pc[Main] = "blockspin" THEN "flushing"
  ELSE IF gIOTerminate THEN "ended" ELSE "closed"

Service == INSTANCE IoService WITH
             accepted <- nextId - 1, pending <- PendingRequests,
             served <- handled, gate <- Gate

(* ioman.c implements the service: every step of the two threads is a step *)
(* of IoService or invisible to the callers.                               *)
ImplementsService == Service!Spec
=============================================================================
