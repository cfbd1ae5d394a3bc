------------------------------ MODULE Cdvdman -------------------------------
(***************************************************************************)
(* The in-game disc driver of src/modules/iopcore/cdvdman: one read at a   *)
(* time (sync_flag, cdvdman_cdread_Thread, the read-end event and the      *)
(* game's callback) and, on top of it, the streaming of streaming.c, which *)
(* keeps a ring of banks of sectors filled ahead of the game.              *)
(*                                                                         *)
(* Three parties take steps: a thread of the game (or the cdvdfsv RPC      *)
(* thread that calls for the EE), the reading thread, and the alarms,      *)
(* which are interrupts.  A section between CpuSuspendIntr and             *)
(* CpuResumeIntr is one step, and so is an alarm handler; otherwise a step *)
(* is one access to state that another party uses.  The game's own buffer  *)
(* is not modelled, only that a read is not for the stream (ptr = NoBank). *)
(*                                                                         *)
(* An operator whose name ends in _Bug is a wrong version of the one below *)
(* it.                                                                     *)
(***************************************************************************)
EXTENDS Integers, FiniteSetsExt

CONSTANTS
  StBankmax,       \* banks in the ring
  StBanksize,      \* sectors in a bank
  StartLsns,       \* where the game starts streams
  Requests,        \* how many sectors it asks for at a time
  MaxCalls,        \* bound: calls the game makes
  MaxUserReads,    \* bound: reads its callback starts
  MaxFailures,     \* bound: transfers the device fails
  ReaderOutranks   \* the game's threads run below priority 0x0f

StBufmax == StBankmax * StBanksize

ASSUME RingAssumption ==
  StBankmax \in Nat \ {0} /\ StBanksize \in Nat \ {0}
ASSUME CallAssumption ==
  /\ StartLsns \subseteq Nat
  /\ Requests \subseteq Nat \ {0}
  /\ MaxCalls \in Nat /\ MaxUserReads \in Nat /\ MaxFailures \in Nat
  /\ ReaderOutranks \in BOOLEAN
(* A blocking read of more may wait for ever: nothing fills the ring       *)
(* before the read has returned, if it was full when the read began.       *)
ASSUME RequestAssumption ==
  \A n \in Requests : n <= StBufmax - StBanksize + 1

VARIABLES
  sync_flag,       \* a command is in progress
  intr_ef,         \* bits of the event flag that are set: 1 and 8
  user_cb,         \* the game has a callback
  eventAlarm,      \* the alarm of event_alarm_cb is set
  altRead,         \* IOPCORE_COMPAT_ALT_READ
  rthread_sema,    \* the count of cdrom_rthread_sema
  cdread,          \* the read that AsyncRead hands over
  reading,         \* the read that the reading thread carries out
  Stm0Callback,    \* StmCallback is installed
  stmAlarm,        \* the alarm of StmScheduleCb is set
  st,              \* cdvdman_stat.StreamingData
  ring,            \* what each sector of the buffer at StIOP_bufaddr holds
  pc,              \* where each thread is
  bank,            \* the bank that each thread's StFillStreamBuffer allocated
  call,            \* locals of the game's call
  nextLsn,         \* the sector of the stream the game has not yet received
  miscount,        \* StmCallback counted a bank that was not read for it
  early,           \* event_alarm_cb ran during a read that it does not belong to,
                   \* or its callback started one on a drive that was ready
  others,          \* the game has used a command other than read and stream
  pausedRead,      \* it has called sceCdStRead on a paused stream
  calls, userReads, failures

drive   == <<sync_flag, intr_ef>>
cb      == <<user_cb, eventAlarm, altRead>>
handover== <<rthread_sema, cdread>>
stream  == <<Stm0Callback, stmAlarm, st>>
history == <<nextLsn, miscount, early, others, pausedRead>>
bounds  == <<calls, userReads, failures>>
vars    == <<drive, cb, handover, reading, stream, ring, pc, bank, call, history,
             bounds>>

Threads == {"game", "reader"}
NoBank  == -1          \* the read goes to a buffer of the game
Failed  == -1          \* the device reported an error for this sector
Partial == -2          \* the device is writing this sector

GameLabels   == {"idle", "fill", "fillfull", "fillread", "fillfail", "resched",
                 "sync", "syncwait", "stop", "start", "pause", "rdwait", "rdclear",
                 "rdcopy", "rddma", "altread", "altevent", "altsignal", "altend", "flag"}
ReaderLabels == {"wait", "fill", "fillfull", "fillread", "fillfail", "resched",
                 "transfer", "done", "signal", "signalstm", "stm"}
Slots(p)     == p .. p + StBanksize - 1

(* Where a thread goes when StStartFillStreamBuffer returns, which is the  *)
(* last thing that every caller of it does.                                *)
Return(t) == IF t = "game" THEN "idle" ELSE "wait"

ReaderBlocked ==
  pc["reader"] = "transfer" \/ (pc["reader"] = "wait" /\ rthread_sema = 0)
(* The kernel runs the game's thread only when the reading thread waits.   *)
MayRun(t) == t = "game" /\ ReaderOutranks => ReaderBlocked

At(t, l)   == pc[t] = l /\ MayRun(t)
Goto(t, l) == pc' = [pc EXCEPT ![t] = l]

StReset(s) == [s EXCEPT !.StWritePtr = 0, !.StReadPtr = 0, !.StStreamed = 0,
                        !.StIsReading = FALSE]
Wrap(p)    == IF p >= StBufmax THEN 0 ELSE p

(* The locals of the game's call, when it makes none.                      *)
NoCall == [after |-> "idle", lsn |-> 0, left |-> 0, block |-> FALSE, ee |-> FALSE,
           rdptr |-> 0, copied |-> 0]

Init ==
  /\ sync_flag = FALSE /\ intr_ef = {1}
  /\ user_cb = FALSE /\ eventAlarm = FALSE /\ altRead \in BOOLEAN
  /\ rthread_sema = 0 /\ cdread = [lba |-> 0, ptr |-> NoBank]
  /\ reading = [lba |-> 0, ptr |-> NoBank]
  /\ Stm0Callback = FALSE /\ stmAlarm = FALSE
  /\ st = [Stlsn |-> 0, StWritePtr |-> 0, StReadPtr |-> 0, StStreamed |-> 0,
           StStat |-> FALSE, StIsReading |-> FALSE]
  /\ ring = [i \in 0 .. StBufmax - 1 |-> Failed]
  /\ pc = [t \in Threads |-> Return(t)] /\ bank = [t \in Threads |-> 0]
  /\ call = NoCall
  /\ nextLsn = 0 /\ miscount = FALSE /\ early = FALSE /\ others = FALSE /\ pausedRead = FALSE
  /\ calls = 0 /\ userReads = 0 /\ failures = 0

-----------------------------------------------------------------------------
(* One read at a time                                                      *)

(* cdvdman_common_lock has succeeded; the thread is handed the read.       *)
AsyncRead(lsn, ptr) ==
  /\ sync_flag' = TRUE
  /\ intr_ef' = intr_ef \ {1}
  /\ cdread' = [lba |-> lsn, ptr |-> ptr]
  /\ rthread_sema' = 1

(* Forgets the waiters of sceCdSync, or those of sceCdStRead.              *)
SyncFlag_Bug == intr_ef' = intr_ef \cup {8}
ReadFlag_Bug == intr_ef' = intr_ef \cup {1}
SetEventFlag9 == intr_ef' = intr_ef \cup {1, 8}

(* Makes the drive ready at once, before the callback has run.             *)
CbEvent_Bug(t, l, done) ==
  IF user_cb
  THEN eventAlarm' = TRUE /\ Goto(t, done) /\ sync_flag' = FALSE
  ELSE sync_flag' = FALSE /\ Goto(t, l) /\ UNCHANGED eventAlarm

(* cdvdman_cb_event.  The alarm signals the end and calls the game; with   *)
(* no callback sync_flag is cleared here and the event set at label l.     *)
CbEvent(t, l, done) ==
  IF user_cb
  THEN eventAlarm' = TRUE /\ Goto(t, done) /\ UNCHANGED sync_flag
  ELSE sync_flag' = FALSE /\ Goto(t, l) /\ UNCHANGED eventAlarm

(* cdvdman_cdread_Thread: woken, it reads the arguments and starts the     *)
(* device, ...                                                             *)
ReaderWake ==
  /\ At("reader", "wait")
  /\ rthread_sema = 1
  /\ rthread_sema' = 0
  /\ reading' = cdread
  /\ ring' = [i \in DOMAIN ring |->
                IF cdread.ptr # NoBank /\ i \in Slots(cdread.ptr) THEN Partial
                                                                  ELSE ring[i]]
  /\ Goto("reader", "transfer")
  /\ UNCHANGED <<drive, cb, cdread, stream, bank, call, history, bounds>>

(* ... which answers with the sectors or with an error.  cdvdman_read      *)
(* returns 1 either way.                                                   *)
DeviceAnswers(ok) ==
  /\ At("reader", "transfer")
  /\ ring' = [i \in DOMAIN ring |->
                IF reading.ptr # NoBank /\ i \in Slots(reading.ptr)
                THEN IF ok THEN reading.lba + (i - reading.ptr) ELSE Failed
                ELSE ring[i]]
  /\ Goto("reader", "done")
  /\ UNCHANGED <<drive, cb, handover, reading, stream, bank, call, history, calls,
                 userReads>>

DeviceReads == DeviceAnswers(TRUE) /\ UNCHANGED failures
DeviceFails == failures < MaxFailures /\ DeviceAnswers(FALSE) /\ failures' = failures + 1

ReaderDone ==
  /\ At("reader", "done")
  /\ IF Stm0Callback
     THEN sync_flag' = FALSE /\ Goto("reader", "signalstm") /\ UNCHANGED eventAlarm
     ELSE CbEvent("reader", "signal", "wait")
  /\ UNCHANGED <<intr_ef, user_cb, altRead, handover, reading, stream, ring, bank, call,
                 history, bounds>>

ReaderSignal ==
  /\ \/ At("reader", "signal") /\ Goto("reader", "wait")
     \/ At("reader", "signalstm") /\ Goto("reader", IF Stm0Callback THEN "stm" ELSE "wait")
  /\ SetEventFlag9
  /\ UNCHANGED <<sync_flag, cb, handover, reading, stream, ring, bank, call, history,
                 bounds>>

(* A read that was accepted is not complete.                               *)
ReaderBusy ==
  rthread_sema = 1 \/ pc["reader"] \in {"transfer", "done"} \/ pc["game"] = "altread"

(* event_alarm_cb.  A callback of the game may start its next read.        *)
EventAlarm ==
  /\ eventAlarm
  /\ eventAlarm' = FALSE
  /\ \/ /\ sync_flag' = FALSE /\ SetEventFlag9 /\ early' = ReaderBusy
        /\ UNCHANGED <<handover, userReads>>
     \/ /\ user_cb /\ userReads < MaxUserReads
        /\ userReads' = userReads + 1 /\ early' = (ReaderBusy \/ ~sync_flag)
        /\ sync_flag' = TRUE /\ intr_ef' = (intr_ef \cup {8}) \ {1}
        /\ cdread' = [lba |-> 0, ptr |-> NoBank] /\ rthread_sema' = 1
  /\ UNCHANGED <<user_cb, altRead, reading, stream, ring, pc, bank, call, nextLsn, miscount,
                 others, pausedRead, calls, failures>>

-----------------------------------------------------------------------------
(* The ring of banks                                                       *)

(* Any free sector will do.                                                *)
BankFree_Bug == StBufmax - st.StStreamed > 0
BankFree == StBufmax - st.StStreamed >= StBanksize

(* StFillStreamBuffer, its section with interrupts suspended: AllocBank.   *)
StFill(t) ==
  /\ At(t, "fill")
  /\ \/ st.StIsReading /\ Goto(t, Return(t)) /\ UNCHANGED <<stmAlarm, st, bank>>
     \/ /\ ~st.StIsReading
        /\ stmAlarm' = FALSE
        /\ st' = [st EXCEPT !.StIsReading = TRUE]
        /\ bank' = [bank EXCEPT ![t] = st.StWritePtr]
        /\ Goto(t, IF BankFree THEN "fillread" ELSE "fillfull")
  /\ UNCHANGED <<drive, cb, handover, reading, Stm0Callback, ring, call, history, bounds>>

StFillFull(t) ==
  /\ At(t, "fillfull")
  /\ st' = [st EXCEPT !.StIsReading = FALSE]
  /\ Goto(t, Return(t))
  /\ UNCHANGED <<drive, cb, handover, reading, Stm0Callback, stmAlarm, ring, bank, call,
                 history, bounds>>

(* cdvdman_AsyncRead refuses when a command is in progress.                *)
StFillRead(t) ==
  /\ At(t, "fillread")
  /\ IF sync_flag
     THEN Goto(t, "fillfail") /\ UNCHANGED <<drive, handover>>
     ELSE AsyncRead(st.Stlsn, bank[t]) /\ Goto(t, Return(t))
  /\ UNCHANGED <<cb, reading, stream, ring, bank, call, history, bounds>>

StFillFail(t) ==
  /\ At(t, "fillfail")
  /\ st' = [st EXCEPT !.StIsReading = FALSE]
  /\ Goto(t, "resched")
  /\ UNCHANGED <<drive, cb, handover, reading, Stm0Callback, stmAlarm, ring, bank, call,
                 history, bounds>>

(* Does not set the alarm.                                                 *)
StReschedule_Bug(t) ==
  /\ At(t, "resched")
  /\ Goto(t, Return(t))
  /\ UNCHANGED <<drive, cb, handover, reading, stream, ring, bank, call, history, bounds>>

StReschedule(t) ==
  /\ At(t, "resched")
  /\ stmAlarm' = TRUE
  /\ Goto(t, Return(t))
  /\ UNCHANGED <<drive, cb, handover, reading, Stm0Callback, st, ring, bank, call, history,
                 bounds>>

(* StmScheduleCb: the same with interrupts suspended throughout.  When     *)
(* AsyncRead refuses, the alarm sets itself again and nothing changes.     *)
StmScheduleCb ==
  /\ stmAlarm
  /\ stmAlarm' = FALSE
  /\ \/ (st.StIsReading \/ ~BankFree) /\ UNCHANGED <<st, drive, handover>>
     \/ /\ ~st.StIsReading /\ BankFree /\ ~sync_flag
        /\ st' = [st EXCEPT !.StIsReading = TRUE]
        /\ AsyncRead(st.Stlsn, st.StWritePtr)
  /\ UNCHANGED <<cb, reading, Stm0Callback, ring, pc, bank, call, history, bounds>>

(* The read that has ended is the one the stream waits for.                *)
OwnRead == reading = [lba |-> st.Stlsn, ptr |-> st.StWritePtr]

CountBank(s) ==
  [s EXCEPT !.Stlsn = @ + StBanksize, !.StStreamed = @ + StBanksize,
            !.StWritePtr = Wrap(@ + StBanksize), !.StIsReading = FALSE]

StmCallback ==
  /\ At("reader", "stm")
  /\ IF st.StIsReading THEN st' = CountBank(st) /\ miscount' = ~OwnRead
                       ELSE UNCHANGED <<st, miscount>>
  /\ Goto("reader", "fill")
  /\ UNCHANGED <<drive, cb, handover, reading, Stm0Callback, stmAlarm, ring, bank, call,
                 nextLsn, early, others, pausedRead, bounds>>

(* ReadSectors and ReadSectorsEE: up to the end of the buffer, then from   *)
(* its start, in two pieces of at most n sectors together.                 *)
FirstPiece(n) ==
  IF st.StWritePtr <= st.StReadPtr /\ st.StStreamed > 0
  THEN Min({StBufmax - st.StReadPtr, n}) ELSE 0
SecondPiece(n, rdptr) ==
  IF rdptr < st.StWritePtr THEN Min({st.StWritePtr - rdptr, n}) ELSE 0
Copied(n) ==
  FirstPiece(n) + SecondPiece(n - FirstPiece(n), Wrap(st.StReadPtr + FirstPiece(n)))
(* Does not go back to the start of the buffer between the pieces.         *)
ReadPtrAfter_Bug(n) ==
  LET rdptr == st.StReadPtr + FirstPiece(n)
  IN  rdptr + SecondPiece(n - FirstPiece(n), rdptr)
ReadPtrAfter(n) ==
  LET rdptr == Wrap(st.StReadPtr + FirstPiece(n))
  IN  Wrap(rdptr + SecondPiece(n - FirstPiece(n), rdptr))

-----------------------------------------------------------------------------
(* The calls of the game                                                   *)

(* The game is between calls and makes one more.                           *)
Call == At("game", "idle") /\ calls < MaxCalls /\ calls' = calls + 1

(* sceCdRead.  A call that is refused (sync_flag) changes nothing.         *)
sceCdRead ==
  /\ Call /\ ~sync_flag
  /\ \/ ~altRead /\ AsyncRead(0, NoBank) /\ UNCHANGED pc
     \/ /\ altRead /\ sync_flag' = TRUE /\ intr_ef' = intr_ef \ {1}
        /\ Goto("game", "altread") /\ UNCHANGED handover
  /\ UNCHANGED <<cb, reading, stream, ring, bank, call, history, userReads, failures>>

(* The rest of cdvdman_SyncRead: the device has answered the calling       *)
(* thread, the event is raised, and then the flag is cleared once more.    *)
AltEvent ==
  /\ At("game", "altread")
  /\ CbEvent("game", "altsignal", "altend")
  /\ UNCHANGED <<intr_ef, user_cb, altRead, handover, reading, stream, ring, bank, call,
                 history, bounds>>
AltEnd ==
  /\ At("game", "altend")
  /\ sync_flag' = FALSE
  /\ Goto("game", "flag")
  /\ UNCHANGED <<intr_ef, cb, handover, reading, stream, ring, bank, call, history, bounds>>
GameSignal ==
  /\ \/ At("game", "altsignal") /\ Goto("game", "altend")
     \/ At("game", "flag") /\ Goto("game", "idle")
  /\ SetEventFlag9
  /\ UNCHANGED <<sync_flag, cb, handover, reading, stream, ring, bank, call, history, bounds>>

(* sceCdSeek, sceCdStop, sceCdPause, sceCdGetToc and sceCdBreak.           *)
NCommand ==
  /\ Call /\ ~sync_flag
  /\ others' = TRUE
  /\ CbEvent("game", "flag", "idle")
  /\ UNCHANGED <<intr_ef, user_cb, altRead, handover, reading, stream, ring, bank, call,
                 nextLsn, miscount, early, pausedRead, userReads, failures>>

(* sceCdStandby does not look at sync_flag.                                *)
sceCdStandby ==
  /\ Call
  /\ others' = TRUE
  /\ CbEvent("game", "flag", "idle")
  /\ UNCHANGED <<intr_ef, user_cb, altRead, handover, reading, stream, ring, bank, call,
                 nextLsn, miscount, early, pausedRead, userReads, failures>>

sceCdCallback ==
  /\ Call /\ ~sync_flag
  /\ user_cb' = ~user_cb
  /\ UNCHANGED <<drive, eventAlarm, altRead, handover, reading, stream, ring, pc, bank,
                 call, history, userReads, failures>>

(* sceCdSync(0), called by the game or at the end of sceCdStStop and       *)
(* sceCdStPause.                                                           *)
sceCdSync ==
  /\ Call
  /\ Goto("game", "sync")
  /\ UNCHANGED <<drive, cb, handover, reading, stream, ring, bank, call, history, userReads,
                 failures>>
SyncCheck ==
  /\ At("game", "sync")
  /\ Goto("game", IF sync_flag THEN "syncwait" ELSE call.after)
  /\ UNCHANGED <<drive, cb, handover, reading, stream, ring, bank, call, history, bounds>>
SyncWake ==
  /\ At("game", "syncwait") /\ 1 \in intr_ef
  /\ Goto("game", "sync")
  /\ UNCHANGED <<drive, cb, handover, reading, stream, ring, bank, call, history, bounds>>

(* sceCdStInit; the game gives the ring only when it is not streaming.     *)
sceCdStInit ==
  /\ Call /\ ~st.StStat
  /\ stmAlarm' = FALSE
  /\ st' = StReset(st)
  /\ UNCHANGED <<drive, cb, handover, reading, Stm0Callback, ring, pc, bank, call, history,
                 userReads, failures>>

(* sceCdStStart, and sceCdStSeek while streaming: stop first, then start.  *)
sceCdStStart(lsn) ==
  /\ Call
  /\ call' = [NoCall EXCEPT !.after = "start", !.lsn = lsn]
  /\ IF st.StStat THEN stmAlarm' = FALSE /\ Goto("game", "stop")
                  ELSE Goto("game", "start") /\ UNCHANGED stmAlarm
  /\ UNCHANGED <<drive, cb, handover, reading, Stm0Callback, st, ring, bank, history,
                 userReads, failures>>
StStarted ==
  /\ At("game", "start")
  /\ st' = [StReset(st) EXCEPT !.Stlsn = call.lsn, !.StStat = TRUE]
  /\ Stm0Callback' = TRUE
  /\ nextLsn' = call.lsn
  /\ call' = NoCall
  /\ Goto("game", "fill")
  /\ UNCHANGED <<drive, cb, handover, reading, stmAlarm, ring, bank, miscount, early,
                 others, pausedRead, bounds>>

sceCdStStop ==
  /\ Call /\ st.StStat
  /\ stmAlarm' = FALSE
  /\ Goto("game", "stop")
  /\ UNCHANGED <<drive, cb, handover, reading, Stm0Callback, st, ring, bank, call, history,
                 userReads, failures>>
(* Does not wait for the read in progress.                                 *)
StStopped_Bug ==
  /\ At("game", "stop")
  /\ Stm0Callback' = FALSE
  /\ st' = [StReset(st) EXCEPT !.StStat = FALSE]
  /\ Goto("game", call.after)
  /\ UNCHANGED <<drive, cb, handover, reading, stmAlarm, ring, bank, call, history, bounds>>

StStopped ==
  /\ At("game", "stop")
  /\ Stm0Callback' = FALSE
  /\ st' = [StReset(st) EXCEPT !.StStat = FALSE]
  /\ Goto("game", "sync")
  /\ UNCHANGED <<drive, cb, handover, reading, stmAlarm, ring, bank, call, history, bounds>>

sceCdStPause ==
  /\ Call /\ st.StStat
  /\ stmAlarm' = FALSE
  /\ Goto("game", "pause")
  /\ UNCHANGED <<drive, cb, handover, reading, Stm0Callback, st, ring, bank, call, history,
                 userReads, failures>>
StPaused ==
  /\ At("game", "pause")
  /\ Stm0Callback' = FALSE
  /\ st' = [st EXCEPT !.StIsReading = FALSE]
  /\ Goto("game", "sync")
  /\ UNCHANGED <<drive, cb, handover, reading, stmAlarm, ring, bank, call, history, bounds>>

sceCdStResume ==
  /\ Call /\ st.StStat
  /\ Stm0Callback' = TRUE
  /\ Goto("game", "fill")
  /\ UNCHANGED <<drive, cb, handover, reading, stmAlarm, st, ring, bank, call, history,
                 userReads, failures>>

(* sceCdStRead of n sectors, blocking or not, to IOP memory or (cdvdfsv,   *)
(* which never blocks) to the EE.                                          *)
sceCdStRead(n, block, ee) ==
  /\ Call /\ st.StStat
  /\ intr_ef' = intr_ef \cup {8}
  /\ call' = [NoCall EXCEPT !.left = n, !.block = block, !.ee = ee]
  /\ pausedRead' = (pausedRead \/ ~Stm0Callback)
  /\ Goto("game", "rdwait")
  /\ UNCHANGED <<sync_flag, cb, handover, reading, stream, ring, bank, nextLsn, miscount,
                 early, others, userReads, failures>>
StReadWait ==
  /\ At("game", "rdwait") /\ 8 \in intr_ef
  /\ Goto("game", "rdclear")
  /\ UNCHANGED <<drive, cb, handover, reading, stream, ring, bank, call, history, bounds>>
StReadClear ==
  /\ At("game", "rdclear")
  /\ intr_ef' = intr_ef \ {8}
  /\ Goto("game", "rdcopy")
  /\ UNCHANGED <<sync_flag, cb, handover, reading, stream, ring, bank, call, history, bounds>>

(* Asks again for all of the sectors when it has some of them.             *)
Deliver_Bug(n, rdptr) ==
  /\ st' = [st EXCEPT !.StReadPtr = rdptr, !.StStreamed = @ - n]
  /\ nextLsn' = nextLsn + n
  /\ IF call.block /\ n < call.left
     THEN UNCHANGED call /\ Goto("game", "rdwait")
     ELSE call' = NoCall /\ Goto("game", "fill")

(* The game has n sectors more; the loop goes on while it blocks.          *)
Deliver(n, rdptr) ==
  /\ st' = [st EXCEPT !.StReadPtr = rdptr, !.StStreamed = @ - n]
  /\ nextLsn' = nextLsn + n
  /\ IF call.block /\ n < call.left
     THEN call' = [call EXCEPT !.left = @ - n] /\ Goto("game", "rdwait")
     ELSE call' = NoCall /\ Goto("game", "fill")

StReadCopy ==
  /\ At("game", "rdcopy")
  /\ IF call.ee /\ Copied(call.left) > 0
     THEN /\ call' = [call EXCEPT !.copied = Copied(call.left),
                                  !.rdptr = ReadPtrAfter(call.left)]
          /\ Goto("game", "rddma")
          /\ UNCHANGED <<st, nextLsn>>
     ELSE Deliver(Copied(call.left), ReadPtrAfter(call.left))
  /\ UNCHANGED <<drive, cb, handover, reading, Stm0Callback, stmAlarm, ring, bank, miscount,
                 early, others, pausedRead, bounds>>

(* The DMA to the EE has ended.                                            *)
StReadDma ==
  /\ At("game", "rddma")
  /\ Deliver(call.copied, call.rdptr)
  /\ UNCHANGED <<drive, cb, handover, reading, Stm0Callback, stmAlarm, ring, bank, miscount,
                 early, others, pausedRead, bounds>>

-----------------------------------------------------------------------------
Reader ==
  \/ ReaderWake \/ DeviceReads \/ DeviceFails \/ ReaderDone \/ ReaderSignal \/ StmCallback
Fill(t) ==
  StFill(t) \/ StFillFull(t) \/ StFillRead(t) \/ StFillFail(t) \/ StReschedule(t)
GameStep ==
  \/ AltEvent \/ AltEnd \/ GameSignal \/ SyncCheck \/ SyncWake
  \/ StStarted \/ StStopped \/ StPaused
  \/ StReadWait \/ StReadClear \/ StReadCopy \/ StReadDma
GameCall ==
  \/ sceCdRead \/ NCommand \/ sceCdStandby \/ sceCdCallback \/ sceCdSync
  \/ sceCdStInit \/ sceCdStStop \/ sceCdStPause \/ sceCdStResume
  \/ \E lsn \in StartLsns : sceCdStStart(lsn)
  \/ \E n \in Requests, block \in BOOLEAN : sceCdStRead(n, block, FALSE)
  \/ \E n \in Requests : sceCdStRead(n, FALSE, TRUE)

(* A behaviour is followed until the driver has lost track: a bank was     *)
(* counted and not read, or the drive was made ready during a read.        *)
Tracking == ~miscount /\ ~early /\ (ReaderBusy => sync_flag)

Next ==
  /\ Tracking
  /\ \/ Reader \/ EventAlarm \/ StmScheduleCb
     \/ \E t \in Threads : Fill(t)
     \/ GameStep \/ GameCall

Spec == Init /\ [][Next]_vars

(* The device answers, alarms go off, and a thread that may run does.      *)
Fairness ==
  /\ WF_vars(Tracking /\ ReaderWake) /\ WF_vars(Tracking /\ DeviceReads)
  /\ WF_vars(Tracking /\ (ReaderDone \/ ReaderSignal \/ StmCallback \/ Fill("reader")))
  /\ WF_vars(Tracking /\ EventAlarm) /\ WF_vars(Tracking /\ StmScheduleCb)
  /\ WF_vars(Tracking /\ (GameStep \/ Fill("game")))
FairSpec == Spec /\ Fairness

-----------------------------------------------------------------------------
(* Every variable has a value of its type, pointers are inside the ring.   *)
Reads == [lba : Nat, ptr : {NoBank} \cup 0 .. StBufmax - 1]
TypeOK ==
  /\ sync_flag \in BOOLEAN /\ intr_ef \subseteq {1, 8}
  /\ user_cb \in BOOLEAN /\ eventAlarm \in BOOLEAN /\ altRead \in BOOLEAN
  /\ rthread_sema \in 0 .. 1 /\ cdread \in Reads /\ reading \in Reads
  /\ Stm0Callback \in BOOLEAN /\ stmAlarm \in BOOLEAN
  /\ st \in [Stlsn : Nat, StWritePtr : 0 .. StBufmax - 1, StReadPtr : 0 .. StBufmax - 1,
             StStreamed : Nat, StStat : BOOLEAN, StIsReading : BOOLEAN]
  /\ ring \in [0 .. StBufmax - 1 -> Nat \cup {Failed, Partial}]
  /\ pc["game"] \in GameLabels /\ pc["reader"] \in ReaderLabels
  /\ bank \in [Threads -> 0 .. StBufmax - 1]
  /\ call \in [after : {"idle", "start"}, lsn : Nat, left : Nat, block : BOOLEAN,
               ee : BOOLEAN, rdptr : 0 .. StBufmax - 1, copied : Nat]
  /\ nextLsn \in Nat /\ miscount \in BOOLEAN /\ early \in BOOLEAN
  /\ others \in BOOLEAN /\ pausedRead \in BOOLEAN
  /\ calls \in 0 .. MaxCalls /\ userReads \in 0 .. MaxUserReads
  /\ failures \in 0 .. MaxFailures

(* No pointer leaves the ring.  StWritePtr runs ahead of StReadPtr by the  *)
(* sectors counted in StStreamed, and what a read copies is all there is, up to its request,  *)
(* although the pointers alone cannot tell a full ring from an empty one.  *)
PointersInStep ==
  /\ TypeOK
  /\ Tracking =>
       /\ st.StStreamed <= StBufmax
       /\ (st.StReadPtr + st.StStreamed - st.StWritePtr) % StBufmax = 0
       /\ \A n \in Requests : /\ Copied(n) = Min({n, st.StStreamed})
                              /\ ReadPtrAfter(n) = (st.StReadPtr + Copied(n)) % StBufmax

(* The counted sectors are the stream's next ones in order, each complete  *)
(* or lost to a device error, whatever the reading thread is writing: no   *)
(* bank is skipped, repeated, or overwritten while it is still to be       *)
(* delivered.                                                              *)
RingHoldsStream ==
  (Tracking /\ st.StStat) =>
    /\ st.Stlsn = nextLsn + st.StStreamed
    /\ \A i \in 0 .. st.StStreamed - 1 :
         ring[(st.StReadPtr + i) % StBufmax] \in {nextLsn + i, Failed}

(* When sceCdStStop has returned, nothing is left that would write into    *)
(* the game's ring buffer: no read in progress, none handed over, and no   *)
(* alarm that would start one.                                             *)
QuietAfterStop ==
  (Tracking /\ ~st.StStat /\ pc["game"] = "idle") =>
    /\ ~stmAlarm /\ ~Stm0Callback
    /\ rthread_sema = 1 => cdread.ptr = NoBank
    /\ pc["reader"] = "transfer" => reading.ptr = NoBank

(* The drive is never seen ready while a read is in progress.              *)
ReadyMeansRead == ReaderBusy => sync_flag

(* As long as the game reads and streams and does nothing else, the drive  *)
(* is not seen ready (sync_flag) before the read that was accepted is      *)
(* complete.                                                               *)
BusyWhileReading == (~others /\ ~altRead) => (ReadyMeansRead /\ ~early)

(* StmCallback counts a bank only when it was the stream that was reading. *)
CountsOwnReads == ~miscount

-----------------------------------------------------------------------------
(* The stream as the game sees it                                          *)

(* The sectors counted and not yet delivered are First .. End - 1; those   *)
(* of a transfer to the EE, before Taken, keep their places in the ring.   *)
First == IF st.StStat THEN nextLsn ELSE 0
End   == IF st.StStat THEN st.Stlsn ELSE 0
Taken == IF st.StStat /\ pc["game"] = "rddma" THEN nextLsn + call.copied ELSE First
Contents ==
  [l \in First .. End - 1 |-> ring[(st.StReadPtr + (l - nextLsn)) % StBufmax]]

Fifo == INSTANCE StreamFifo WITH
          Capacity <- StBufmax, BankSize <- StBanksize, Lost <- Failed,
          open <- st.StStat, first <- First, taken <- Taken, end <- End,
          held <- Contents, want <- call.left, block <- call.block,
          broken <- ~Tracking

(* cdvdman implements the stream: whatever the order of reads, alarms,     *)
(* callbacks and calls, the game gets every sector once and in order, each *)
(* call as many as are on hand, and no place is reused before a transfer   *)
(* from it has ended.                                                      *)
ImplementsFifo == Fifo!Spec

(* sceCdStStop, sceCdStPause and sceCdSync return.                         *)
SyncReturns ==
  pc["game"] \in {"stop", "pause", "sync"} ~> (pc["game"] \in {"idle", "fill"} \/ ~Tracking)

(* A blocking sceCdStRead on a running stream returns, unless the game has *)
(* read from the stream while it was paused: the bank that this read asked *)
(* for is not counted, and StIsReading stays set.                          *)
StReadReturns ==
  (pc["game"] = "rdwait" /\ Stm0Callback) ~>
    (pc["game"] = "idle" \/ ~Tracking \/ pausedRead)

(* While the stream runs, free banks are filled until the ring is full:    *)
(* after a pause too, unless the game read from the paused stream.         *)
Filled == ~BankFree \/ ~Stm0Callback \/ ~Tracking
KeepsFilling ==
  (st.StStat /\ Stm0Callback) ~> (Filled \/ pausedRead)

=============================================================================
