---------------------------- MODULE CdvdmanProofs ---------------------------
(***************************************************************************)
(* Proofs about Cdvdman, for a ring of any number and size of banks, any   *)
(* starting points and requests, and any bounds.  The first part proves    *)
(* BusyWhileReading and that sceCdSync is answered, and uses no            *)
(* priorities; the others assume that the reading thread outranks the      *)
(* game's (ReaderOutranks), without which the streaming properties do not  *)
(* hold.                                                                   *)
(***************************************************************************)
EXTENDS Cdvdman, TLAPS

-----------------------------------------------------------------------------
(* One read at a time                                                      *)

\* The types that AInv needs.
Kinds ==
  /\ sync_flag \in BOOLEAN /\ eventAlarm \in BOOLEAN /\ early \in BOOLEAN
  /\ others \in BOOLEAN /\ altRead \in BOOLEAN /\ user_cb \in BOOLEAN
  /\ rthread_sema \in {0, 1}
  /\ pc \in [Threads -> GameLabels \cup ReaderLabels]

\* At most one read has been accepted.
OneRead == rthread_sema = 1 => pc["reader"] \notin {"transfer", "done"}
\* BusyWhileReading with what makes it inductive: one read at a time, an
\* alarm of event_alarm_cb only for a read that is complete, and no step of a
\* call that clears sync_flag on its own.
Alone == (~others /\ ~altRead) =>
  /\ ReadyMeansRead /\ ~early /\ OneRead
  /\ eventAlarm => sync_flag /\ ~ReaderBusy
  /\ pc["game"] \notin {"altread", "altsignal", "altend", "flag"}
\* A record with the fields of call.
IsCall(c) ==
  c \in [after : {"idle", "start"}, lsn : {c.lsn}, left : {c.left}, block : {c.block},
         ee : {c.ee}, rdptr : {c.rdptr}, copied : {c.copied}]
\* The invariant behind BusyWhileReading.
AInv == Kinds /\ Alone /\ IsCall(call)

\* The game's locals keep their shape when a read goes on ...
LEMMA CallShapes ==
  ASSUME NEW c, IsCall(c), NEW x, NEW y
  PROVE  /\ c.after \in {"idle", "start"}
         /\ IsCall(NoCall)
         /\ IsCall([c EXCEPT !.left = x])
         /\ IsCall([c EXCEPT !.copied = x, !.rdptr = y])
BY DEF IsCall, NoCall

\* ... and when a call begins.
LEMMA NewCalls ==
  ASSUME NEW x, NEW y, NEW z
  PROVE  /\ IsCall([NoCall EXCEPT !.after = "start", !.lsn = x])
         /\ IsCall([NoCall EXCEPT !.left = x, !.block = y, !.ee = z])
BY DEF IsCall, NoCall

\* The flags of the drive.
Flags == <<sync_flag, eventAlarm, early, others, altRead, user_cb, rthread_sema>>

\* What Goto does to the two program counters.
LEMMA GotoEffect ==
  ASSUME pc \in [Threads -> GameLabels \cup ReaderLabels],
         NEW t \in Threads, NEW l \in GameLabels \cup ReaderLabels, Goto(t, l)
  PROVE  /\ pc' \in [Threads -> GameLabels \cup ReaderLabels]
         /\ pc'[t] = l
         /\ \A u \in Threads : u # t => pc'[u] = pc[u]
BY DEF Goto

\* A step that moves a thread and neither hands a read over, ends one nor
\* touches the flags of the drive keeps AInv.
LEMMA AwayFromDevice ==
  ASSUME AInv, UNCHANGED Flags, IsCall(call'),
         NEW t \in Threads, NEW l \in GameLabels \cup ReaderLabels, Goto(t, l),
         t = "reader" => /\ l \notin {"transfer", "done"}
                         /\ pc[t] \notin {"transfer", "done"},
         t = "game" => /\ l \notin {"altread", "altsignal", "altend", "flag"}
                       /\ pc[t] # "altread"
  PROVE  AInv'
BY GotoEffect DEF Flags, AInv, Kinds, Alone, OneRead, ReadyMeansRead,
   ReaderBusy, Threads, GameLabels, ReaderLabels

\* Handing over a read while the drive is ready keeps AInv: by ReadyMeansRead
\* no other read is accepted or in the device.
LEMMA HandsOver ==
  ASSUME AInv, ~sync_flag, sync_flag', rthread_sema' = 1,
         UNCHANGED <<eventAlarm, early, others, altRead, user_cb, call>>,
         pc' \in [Threads -> GameLabels \cup ReaderLabels],
         pc'["reader"] \notin {"transfer", "done"},
         pc'["game"] \in {pc["game"], "idle"}
  PROVE  AInv'
BY DEF AInv, Kinds, Alone, OneRead, ReadyMeansRead, ReaderBusy, Threads,
   GameLabels, ReaderLabels

\* The reading thread keeps AInv: it clears sync_flag, or sets the alarm that
\* will, after the device has answered.
LEMMA ReaderAlone ==
  ASSUME AInv, Reader PROVE AInv'
<1>1. CASE ReaderWake
  BY <1>1, GotoEffect DEF ReaderWake, AInv, Kinds, Alone, OneRead,
     ReadyMeansRead, ReaderBusy, At, Threads, GameLabels, ReaderLabels,
     drive, cb, history
<1>2. CASE DeviceReads \/ DeviceFails
  BY <1>2, GotoEffect DEF DeviceReads, DeviceFails, DeviceAnswers, AInv, Kinds,
     Alone, OneRead, ReadyMeansRead, ReaderBusy, At, Threads,
     GameLabels, ReaderLabels, drive, cb, history, handover
<1>3. CASE ReaderDone
  <2>1. CASE Stm0Callback \/ ~user_cb
    <3>1. sync_flag' = FALSE /\ UNCHANGED <<eventAlarm, early, others, altRead, user_cb, rthread_sema, call>>
      BY <1>3, <2>1 DEF ReaderDone, CbEvent, handover, history
    <3>2. PICK l \in {"signal", "signalstm"} : Goto("reader", l)
      BY <1>3, <2>1 DEF ReaderDone, CbEvent
    <3>3. pc' \in [Threads -> GameLabels \cup ReaderLabels] /\ pc'["reader"] = l /\ pc'["game"] = pc["game"]
      BY <3>2, GotoEffect DEF AInv, Kinds, Alone, OneRead, ReadyMeansRead,
         ReaderBusy, Threads, GameLabels, ReaderLabels
    <3>4. Kinds'
      BY <3>1, <3>3 DEF AInv, Kinds
    <3>5. ASSUME ~others, ~altRead
          PROVE  ~eventAlarm /\ rthread_sema # 1 /\ pc["game"] # "altread"
      BY <1>3, <3>5 DEF ReaderDone, AInv, Kinds, Alone, OneRead, ReadyMeansRead,
         ReaderBusy, At, Threads, GameLabels, ReaderLabels,
         history, handover
    <3>6. Alone'
      BY <3>1, <3>2, <3>3, <3>5 DEF AInv, Kinds, Alone, OneRead, ReadyMeansRead,
         ReaderBusy, Threads, GameLabels, ReaderLabels
    <3>. QED BY <3>1, <3>4, <3>6 DEF AInv
  <2>2. CASE ~Stm0Callback /\ user_cb
    <3>1. eventAlarm' = TRUE /\ UNCHANGED <<sync_flag, early, others, altRead, user_cb, rthread_sema, call>>
      BY <1>3, <2>2 DEF ReaderDone, CbEvent, handover, history
    <3>2. Goto("reader", "wait")
      BY <1>3, <2>2 DEF ReaderDone, CbEvent
    <3>. QED BY <1>3, <3>1, <3>2, GotoEffect DEF ReaderDone, AInv, Kinds, Alone,
                OneRead, ReadyMeansRead, ReaderBusy, At, Threads,
                GameLabels, ReaderLabels, history, handover
  <2>. QED BY <2>1, <2>2
<1>4. CASE ReaderSignal
  BY <1>4, AwayFromDevice DEF ReaderSignal, Flags, AInv, At, Threads,
     GameLabels, ReaderLabels, cb, history, handover
<1>5. CASE StmCallback
  BY <1>5, AwayFromDevice DEF StmCallback, Flags, AInv, At, Threads,
     GameLabels, ReaderLabels, drive, cb, handover
<1>. QED BY <1>1, <1>2, <1>3, <1>4, <1>5 DEF Reader

\* The alarms keep AInv: event_alarm_cb belongs to a read that is complete,
\* and StmScheduleCb reads only if the drive is ready.
LEMMA AlarmAlone ==
  ASSUME AInv, EventAlarm \/ StmScheduleCb PROVE AInv'
<1>1. CASE EventAlarm
  BY <1>1 DEF EventAlarm, AInv, Kinds, Alone, OneRead, ReadyMeansRead,
     ReaderBusy, Threads, GameLabels, ReaderLabels, handover
<1>2. CASE StmScheduleCb
  <2>1. CASE UNCHANGED <<st, drive, handover>>
    BY <1>2, <2>1 DEF StmScheduleCb, AInv, Kinds, Alone, OneRead,
       ReadyMeansRead, ReaderBusy, Threads, GameLabels, ReaderLabels, drive, cb,
       history, handover
  <2>2. CASE ~sync_flag /\ AsyncRead(st.Stlsn, st.StWritePtr)
    BY <1>2, <2>2, HandsOver DEF StmScheduleCb, AsyncRead, AInv, Kinds, Alone,
       OneRead, ReadyMeansRead, ReaderBusy, Threads, GameLabels, ReaderLabels,
       drive, cb, history, handover
  <2>. QED BY <1>2, <2>1, <2>2 DEF StmScheduleCb
<1>. QED BY <1>1, <1>2

\* StFillStreamBuffer keeps AInv, on either thread.
LEMMA FillAlone ==
  ASSUME AInv, NEW t \in Threads, Fill(t) PROVE AInv'
<1>. Return(t) \in {"idle", "wait"}
  BY DEF Return
<1>1. CASE StFill(t)
  BY <1>1, AwayFromDevice DEF StFill, Flags, AInv, At, Threads,
     GameLabels, ReaderLabels, drive, cb, history, handover
<1>2. CASE StFillFull(t)
  BY <1>2, AwayFromDevice DEF StFillFull, Flags, AInv, At, Threads,
     GameLabels, ReaderLabels, drive, cb, history, handover
<1>3. CASE StFillRead(t)
  <2>1. CASE sync_flag
    BY <1>3, <2>1, AwayFromDevice DEF StFillRead, Flags, AInv, At,
       Threads, GameLabels, ReaderLabels, drive, cb, history, handover
  <2>2. CASE ~sync_flag
    BY <1>3, <2>2, HandsOver, GotoEffect DEF StFillRead, AsyncRead, Return,
       AInv, Kinds, Alone, OneRead, ReadyMeansRead, ReaderBusy, At,
       Threads, GameLabels, ReaderLabels, drive, cb, history, handover
  <2>. QED BY <2>1, <2>2
<1>4. CASE StFillFail(t)
  BY <1>4, AwayFromDevice DEF StFillFail, Flags, AInv, At, Threads,
     GameLabels, ReaderLabels, drive, cb, history, handover
<1>5. CASE StReschedule(t)
  BY <1>5, AwayFromDevice DEF StReschedule, Flags, AInv, At, Threads,
     GameLabels, ReaderLabels, drive, cb, history, handover
<1>. QED BY <1>1, <1>2, <1>3, <1>4, <1>5 DEF Fill

\* The steps inside the game's calls keep AInv; those of cdvdman_SyncRead and
\* of the other commands are taken only where it claims nothing.
LEMMA GameStepAlone ==
  ASSUME AInv, GameStep PROVE AInv'
<1>0. ASSUME others \/ altRead, UNCHANGED <<rthread_sema, early, others, altRead, user_cb, call>>,
             sync_flag' \in BOOLEAN, eventAlarm' \in BOOLEAN,
             NEW l \in GameLabels, Goto("game", l)
      PROVE  AInv'
  BY <1>0, GotoEffect DEF AInv, Kinds, Alone, Threads
<1>1. CASE AltEvent
  <2>1. PICK l \in {"altsignal", "altend"} : Goto("game", l)
    BY <1>1 DEF AltEvent, CbEvent
  <2>2. sync_flag' \in BOOLEAN /\ eventAlarm' \in BOOLEAN
    BY <1>1, Zenon DEF AltEvent, CbEvent, AInv, Kinds
  <2>. QED BY <1>0, <1>1, <2>1, <2>2 DEF AltEvent, AInv, Kinds, Alone, OneRead,
              ReadyMeansRead, ReaderBusy, At, Threads, GameLabels,
              ReaderLabels, history, handover
<1>2. CASE AltEnd
  BY <1>0, <1>2 DEF AltEnd, AInv, Kinds, Alone, OneRead, ReadyMeansRead,
     ReaderBusy, At, Threads, GameLabels, ReaderLabels, cb,
     history, handover
<1>3. CASE GameSignal
  BY <1>0, <1>3 DEF GameSignal, AInv, Kinds, Alone, OneRead, ReadyMeansRead,
     ReaderBusy, At, Threads, GameLabels, ReaderLabels, cb,
     history, handover
<1>4. CASE SyncCheck
  BY <1>4, AwayFromDevice, CallShapes DEF SyncCheck, Flags, AInv, At,
     Threads, GameLabels, ReaderLabels, drive, cb, history, handover
<1>5. CASE SyncWake
  BY <1>5, AwayFromDevice DEF SyncWake, Flags, AInv, At, Threads,
     GameLabels, ReaderLabels, drive, cb, history, handover
<1>6. CASE StPaused
  BY <1>6, AwayFromDevice DEF StPaused, Flags, AInv, At, Threads,
     GameLabels, ReaderLabels, drive, cb, history, handover
<1>7. CASE StReadWait
  BY <1>7, AwayFromDevice DEF StReadWait, Flags, AInv, At, Threads,
     GameLabels, ReaderLabels, drive, cb, history, handover
<1>8. CASE StReadClear
  BY <1>8, AwayFromDevice DEF StReadClear, Flags, AInv, At, Threads,
     GameLabels, ReaderLabels, cb, history, handover
<1>9. CASE StStarted
  BY <1>9, AwayFromDevice, CallShapes DEF StStarted, Flags, AInv, At,
     Threads, GameLabels, ReaderLabels, drive, cb, handover
<1>10. CASE StStopped
  BY <1>10, AwayFromDevice, CallShapes DEF StStopped, Flags, AInv, At,
     Threads, GameLabels, ReaderLabels, drive, cb, history, handover
<1>11. ASSUME NEW n, NEW p, pc["game"] # "altread", Deliver(n, p), UNCHANGED Flags
      PROVE  AInv'
  <2>1. IsCall(call')
    <3>1. CASE call.block /\ n < call.left
      <4>1. call' = [call EXCEPT !.left = @ - n]
        BY <1>11, <3>1 DEF Deliver
      <4>. QED BY <4>1, CallShapes DEF AInv
    <3>2. CASE ~(call.block /\ n < call.left)
      <4>1. call' = NoCall
        BY <1>11, <3>2 DEF Deliver
      <4>. QED BY <4>1, CallShapes DEF AInv
    <3>. QED BY <3>1, <3>2
  <2>. QED BY <1>11, <2>1, AwayFromDevice DEF Deliver, AInv, Threads,
              GameLabels, ReaderLabels
<1>12. CASE StReadCopy
  <2>0. UNCHANGED Flags /\ pc["game"] # "altread"
    BY <1>12 DEF StReadCopy, Flags, AInv, At, drive, cb, handover
  <2>1. CASE call.ee /\ Copied(call.left) > 0
    <3>1. IsCall(call')
      <4>1. call' = [call EXCEPT !.copied = Copied(call.left), !.rdptr = ReadPtrAfter(call.left)]
        BY <1>12, <2>1 DEF StReadCopy
      <4>. QED BY <4>1, CallShapes DEF AInv
    <3>. QED BY <1>12, <2>0, <2>1, <3>1, AwayFromDevice DEF StReadCopy, AInv,
                At, Threads, GameLabels, ReaderLabels, drive, cb,
                handover
  <2>2. CASE ~(call.ee /\ Copied(call.left) > 0)
    BY <1>12, <1>11, <2>0, <2>2 DEF StReadCopy
  <2>. QED BY <2>1, <2>2
<1>13. CASE StReadDma
  BY <1>13, <1>11 DEF StReadDma, Flags, AInv, At, drive, cb, handover
<1>. QED BY <1>1, <1>2, <1>3, <1>4, <1>5, <1>6, <1>7, <1>8, <1>9, <1>10, <1>12,
            <1>13 DEF GameStep

\* The game's calls keep AInv.
LEMMA GameCallAlone ==
  ASSUME AInv, GameCall PROVE AInv'
<1>1. CASE sceCdRead
  <2>1. CASE altRead
    <3>1. AInv /\ UNCHANGED <<rthread_sema, eventAlarm, early, others, altRead, user_cb, call>> /\ sync_flag' \in BOOLEAN
          /\ Goto("game", "altread")
      BY <1>1, <2>1 DEF sceCdRead, AInv, Kinds, Alone, OneRead, ReadyMeansRead,
         ReaderBusy, Threads, GameLabels, ReaderLabels, cb, history,
         handover
    <3>. QED BY <2>1, <3>1, GotoEffect DEF AInv, Kinds, Alone, OneRead,
                ReadyMeansRead, ReaderBusy, Threads, GameLabels, ReaderLabels
  <2>2. CASE ~altRead
    BY <1>1, <2>2, HandsOver DEF sceCdRead, AsyncRead, AInv, Kinds, Alone,
       OneRead, ReadyMeansRead, ReaderBusy, At, Threads, GameLabels,
       ReaderLabels, cb, history, handover
  <2>. QED BY <2>1, <2>2
<1>2. CASE NCommand \/ sceCdStandby
  <2>1. PICK l \in {"flag", "idle"} : Goto("game", l)
    BY <1>2 DEF NCommand, sceCdStandby, CbEvent
  <2>2. sync_flag' \in BOOLEAN /\ eventAlarm' \in BOOLEAN
    BY <1>2, Zenon DEF NCommand, sceCdStandby, CbEvent, AInv, Kinds
  <2>3. others' = TRUE /\ UNCHANGED <<rthread_sema, early, altRead, user_cb, call>>
    BY <1>2 DEF NCommand, sceCdStandby, handover
  <2>. QED BY <2>1, <2>2, <2>3, GotoEffect DEF AInv, Kinds, Alone, Threads,
              GameLabels
<1>3. CASE sceCdCallback
  BY <1>3 DEF sceCdCallback, AInv, Kinds, Alone, OneRead, ReadyMeansRead,
     ReaderBusy, At, Threads, GameLabels, ReaderLabels, drive,
     history, handover
<1>4. CASE sceCdStInit
  BY <1>4 DEF sceCdStInit, AInv, Kinds, Alone, OneRead, ReadyMeansRead,
     ReaderBusy, At, Threads, GameLabels, ReaderLabels, drive, cb,
     history, handover
<1>5. CASE sceCdSync
  BY <1>5, AwayFromDevice DEF sceCdSync, Flags, AInv, At, Call, Threads,
     GameLabels, ReaderLabels, drive, cb, history, handover
<1>6. CASE sceCdStStop
  BY <1>6, AwayFromDevice DEF sceCdStStop, Flags, AInv, At, Call,
     Threads, GameLabels, ReaderLabels, drive, cb, history, handover
<1>7. CASE sceCdStPause
  BY <1>7, AwayFromDevice DEF sceCdStPause, Flags, AInv, At, Call,
     Threads, GameLabels, ReaderLabels, drive, cb, history, handover
<1>8. CASE sceCdStResume
  BY <1>8, AwayFromDevice DEF sceCdStResume, Flags, AInv, At, Call,
     Threads, GameLabels, ReaderLabels, drive, cb, history, handover
<1>9. CASE \E lsn \in StartLsns : sceCdStStart(lsn)
  <2>. PICK lsn \in StartLsns : sceCdStStart(lsn)
    BY <1>9
  <2>1. IsCall(call')
    BY NewCalls DEF sceCdStStart
  <2>2. PICK l \in {"stop", "start"} : Goto("game", l)
    BY DEF sceCdStStart
  <2>. QED BY <2>1, <2>2, AwayFromDevice DEF sceCdStStart, Flags, AInv, At
              , Call, Threads, GameLabels, ReaderLabels, drive, cb,
              history, handover
<1>10. CASE \E n \in Requests, block \in BOOLEAN, ee \in BOOLEAN : sceCdStRead(n, block, ee)
  <2>. PICK n \in Requests, block \in BOOLEAN, ee \in BOOLEAN : sceCdStRead(n, block, ee)
    BY <1>10
  <2>1. IsCall(call')
    BY NewCalls DEF sceCdStRead
  <2>. QED BY <2>1, AwayFromDevice DEF sceCdStRead, Flags, AInv, At,
              Call, Threads, GameLabels, ReaderLabels, cb, handover
<1>. QED BY <1>1, <1>2, <1>3, <1>4, <1>5, <1>6, <1>7, <1>8, <1>9, <1>10 DEF
            GameCall

\* AInv holds in every reachable state.
LEMMA AloneHolds == Spec => []AInv
<1>1. Init => AInv
  <2>1. IsCall(NoCall)
    BY DEF IsCall, NoCall
  <2>2. Init => Kinds
    BY DEF Init, Return, Kinds, Threads, GameLabels, ReaderLabels
  <2>3. Init => Alone
    BY DEF Init, Return, Alone, ReadyMeansRead, ReaderBusy, OneRead, Threads
  <2>. QED BY <2>1, <2>2, <2>3 DEF Init, AInv
<1>2. AInv /\ [Next]_vars => AInv'
  <2>1. CASE Next
    BY <2>1, ReaderAlone, AlarmAlone, FillAlone, GameStepAlone, GameCallAlone
       DEF Next
  <2>2. CASE UNCHANGED vars
    BY <2>2 DEF vars, AInv, Kinds, Alone, OneRead, ReadyMeansRead, ReaderBusy,
       Threads, GameLabels, ReaderLabels, drive, cb, history, handover
  <2>. QED BY <2>1, <2>2
<1>. QED BY <1>1, <1>2, PTL DEF Spec

\* As long as the game reads and streams and does nothing else, sync_flag is
\* set from the moment a read is accepted until it is complete, and
\* event_alarm_cb never runs during another read. This needs no assumption on
\* the priorities.
THEOREM DriveStaysBusy == Spec => []BusyWhileReading
<1>1. AInv => BusyWhileReading
  BY DEF AInv, Alone, BusyWhileReading
<1>. QED BY <1>1, AloneHolds, PTL

\* The read-end event, for which sceCdSync waits, is set or owed: a read was
\* accepted and is not complete, the alarm of event_alarm_cb is set, or a
\* thread is about to set the event.
Owed == 1 \notin intr_ef =>
  \/ ReaderBusy \/ eventAlarm
  \/ pc["reader"] \in {"signal", "signalstm"}
  \/ pc["game"] \in {"altsignal", "altend", "flag"}

\* A step that moves a thread from a place where it owes nothing.
LEMMA OwedElsewhere ==
  ASSUME Kinds, Owed, UNCHANGED <<intr_ef, rthread_sema, eventAlarm>>,
         NEW t \in Threads, NEW l \in GameLabels \cup ReaderLabels, Goto(t, l),
         t = "reader" => pc[t] \notin {"transfer", "done", "signal", "signalstm"},
         t = "game" => pc[t] \notin {"altread", "altsignal", "altend", "flag"}
  PROVE  Owed'
BY GotoEffect DEF Kinds, Owed, ReaderBusy, Threads

\* The reading thread sets the event after each read, or has the alarm do it.
LEMMA ReaderOwes ==
  ASSUME Kinds, Owed, Reader PROVE Owed'
<1>1. CASE ReaderWake
  BY <1>1, GotoEffect DEF ReaderWake, Kinds, Owed, ReaderBusy, Threads, ReaderLabels, drive, cb, At
<1>2. CASE DeviceReads \/ DeviceFails
  BY <1>2, GotoEffect DEF DeviceReads, DeviceFails, DeviceAnswers, Kinds, Owed, ReaderBusy,
     Threads, ReaderLabels, drive, cb, handover
<1>3. CASE ReaderDone
  <2>1. CASE Stm0Callback \/ ~user_cb
    <3>1. \E l \in {"signal", "signalstm"} : Goto("reader", l)
      BY <1>3, <2>1 DEF ReaderDone, CbEvent
    <3>2. pc'["reader"] \in {"signal", "signalstm"}
      BY <3>1, GotoEffect DEF Kinds, Threads, ReaderLabels
    <3>. QED BY <3>2 DEF Owed
  <2>2. CASE ~Stm0Callback /\ user_cb
    BY <1>3, <2>2 DEF ReaderDone, CbEvent, Owed
  <2>. QED BY <2>1, <2>2
<1>4. CASE ReaderSignal
  BY <1>4 DEF ReaderSignal, SetEventFlag9, Owed
<1>5. CASE StmCallback
  BY <1>5, OwedElsewhere DEF StmCallback, Threads, ReaderLabels, drive, cb, handover, At
<1>. QED BY <1>1, <1>2, <1>3, <1>4, <1>5 DEF Reader

\* The alarms: event_alarm_cb sets the event, or its callback starts a read.
LEMMA AlarmOwes ==
  ASSUME Kinds, Owed, EventAlarm \/ StmScheduleCb PROVE Owed'
<1>1. CASE EventAlarm
  BY <1>1 DEF EventAlarm, SetEventFlag9, Owed, ReaderBusy
<1>2. CASE StmScheduleCb
  BY <1>2 DEF StmScheduleCb, AsyncRead, Owed, ReaderBusy, drive, cb, handover
<1>. QED BY <1>1, <1>2

\* StFillStreamBuffer starts a read or leaves the event alone.
LEMMA FillOwes ==
  ASSUME Kinds, Owed, NEW t \in Threads, Fill(t) PROVE Owed'
<1>. Return(t) \in {"idle", "wait"}
  BY DEF Return
<1>1. CASE StFill(t) \/ StFillFull(t) \/ StFillFail(t) \/ StReschedule(t)
  BY <1>1, OwedElsewhere DEF StFill, StFillFull, StFillFail, StReschedule, Threads, GameLabels,
     ReaderLabels, drive, cb, handover, At
<1>2. CASE StFillRead(t) /\ sync_flag
  BY <1>2, OwedElsewhere DEF StFillRead, Threads, GameLabels, ReaderLabels, drive, cb, handover, At
<1>3. CASE StFillRead(t) /\ ~sync_flag
  BY <1>3 DEF StFillRead, AsyncRead, Owed, ReaderBusy
<1>. QED BY <1>1, <1>2, <1>3 DEF Fill

\* The steps of the game's calls: cdvdman_SyncRead sets the event at its end.
LEMMA GameStepOwes ==
  ASSUME Kinds, IsCall(call), Owed, GameStep PROVE Owed'
<1>1. CASE AltEvent
  <2>1. \E l \in {"altsignal", "altend"} : Goto("game", l)
    BY <1>1 DEF AltEvent, CbEvent
  <2>2. pc'["game"] \in {"altsignal", "altend"}
    BY <2>1, GotoEffect DEF Kinds, Threads, GameLabels
  <2>. QED BY <2>2 DEF Owed
<1>2. CASE AltEnd
  <2>1. pc'["game"] = "flag"
    BY <1>2, GotoEffect DEF AltEnd, Kinds, Threads, GameLabels
  <2>. QED BY <2>1 DEF Owed
<1>3. CASE GameSignal
  BY <1>3 DEF GameSignal, SetEventFlag9, Owed
<1>4. CASE StReadClear
  <2>1. pc["game"] = "rdclear" /\ pc'["game"] = "rdcopy" /\ pc'["reader"] = pc["reader"]
    BY <1>4, GotoEffect DEF StReadClear, At, Kinds, Threads, GameLabels
  <2>2. (1 \in intr_ef' <=> 1 \in intr_ef) /\ UNCHANGED <<rthread_sema, eventAlarm>>
    BY <1>4 DEF StReadClear, cb, handover
  <2>. QED BY <2>1, <2>2 DEF Owed, ReaderBusy
<1>5. CASE \/ SyncCheck \/ SyncWake \/ StStarted \/ StStopped \/ StPaused
           \/ StReadWait \/ StReadCopy \/ StReadDma
  <2>1. UNCHANGED <<intr_ef, rthread_sema, eventAlarm>>
    BY <1>5 DEF SyncCheck, SyncWake, StStarted, StStopped, StPaused, StReadWait, StReadCopy,
       StReadDma, drive, cb, handover
  <2>2. pc["game"] \notin {"altread", "altsignal", "altend", "flag"}
    BY <1>5 DEF SyncCheck, SyncWake, StStarted, StStopped, StPaused, StReadWait, StReadCopy,
       StReadDma, At
  <2>3. \E l \in GameLabels : Goto("game", l)
    BY <1>5, CallShapes DEF SyncCheck, SyncWake, StStarted, StStopped, StPaused, StReadWait,
       StReadCopy, StReadDma, Deliver, GameLabels
  <2>. QED BY <2>1, <2>2, <2>3, OwedElsewhere DEF Threads
<1>. QED BY <1>1, <1>2, <1>3, <1>4, <1>5 DEF GameStep

\* The calls: a command other than a read does not take the event away.
LEMMA GameCallOwes ==
  ASSUME Kinds, Owed, GameCall PROVE Owed'
<1>0. pc["game"] = "idle"
  BY DEF GameCall, sceCdRead, NCommand, sceCdStandby, sceCdCallback, sceCdSync, sceCdStInit,
     sceCdStStop, sceCdStPause, sceCdStResume, sceCdStStart, sceCdStRead, Call, At
<1>1. CASE sceCdRead
  <2>1. CASE rthread_sema' = 1
    BY <2>1 DEF Owed, ReaderBusy
  <2>2. CASE Goto("game", "altread")
    <3>1. pc'["game"] = "altread"
      BY <2>2, GotoEffect DEF Kinds, Threads, GameLabels
    <3>. QED BY <3>1 DEF Owed, ReaderBusy
  <2>. QED BY <1>1, <2>1, <2>2 DEF sceCdRead, AsyncRead
<1>2. CASE NCommand \/ sceCdStandby
  <2>1. UNCHANGED <<intr_ef, rthread_sema>> /\ (eventAlarm' = TRUE \/ eventAlarm' = eventAlarm)
    BY <1>2 DEF NCommand, sceCdStandby, CbEvent, handover
  <2>2. \E l \in {"flag", "idle"} : Goto("game", l)
    BY <1>2 DEF NCommand, sceCdStandby, CbEvent
  <2>3. pc'["reader"] = pc["reader"] /\ pc'["game"] \in {"flag", "idle"}
    BY <2>2, GotoEffect DEF Kinds, Threads, GameLabels
  <2>. QED BY <1>0, <2>1, <2>3 DEF Owed, ReaderBusy
<1>3. CASE sceCdCallback \/ sceCdStInit
  BY <1>3 DEF sceCdCallback, sceCdStInit, Owed, ReaderBusy, drive, cb, handover
<1>4. CASE sceCdSync \/ sceCdStStop \/ sceCdStPause \/ sceCdStResume
           \/ \E lsn \in StartLsns : sceCdStStart(lsn)
  <2>1. UNCHANGED <<intr_ef, rthread_sema, eventAlarm>>
    BY <1>4 DEF sceCdSync, sceCdStStop, sceCdStPause, sceCdStResume, sceCdStStart, drive, cb,
       handover
  <2>2. \E l \in GameLabels : Goto("game", l)
    BY <1>4 DEF sceCdSync, sceCdStStop, sceCdStPause, sceCdStResume, sceCdStStart, GameLabels
  <2>. QED BY <1>0, <2>1, <2>2, OwedElsewhere DEF Threads
<1>5. CASE \E n \in Requests, b, ee \in BOOLEAN : sceCdStRead(n, b, ee)
  <2>1. (1 \in intr_ef' <=> 1 \in intr_ef) /\ UNCHANGED <<rthread_sema, eventAlarm>>
    BY <1>5 DEF sceCdStRead, cb, handover
  <2>2. pc'["reader"] = pc["reader"] /\ pc'["game"] = "rdwait"
    BY <1>5, GotoEffect DEF sceCdStRead, Kinds, Threads, GameLabels
  <2>. QED BY <1>0, <2>1, <2>2 DEF Owed, ReaderBusy
<1>. QED BY <1>1, <1>2, <1>3, <1>4, <1>5 DEF GameCall

\* A thread that waits in sceCdSync has been woken, or there is another that
\* will wake it: a read that it waits for, whoever started it, the reading
\* thread about to signal, or the alarm.
SyncAnswered ==
  pc["game"] = "syncwait" =>
    \/ 1 \in intr_ef \/ eventAlarm \/ rthread_sema = 1
    \/ pc["reader"] \in {"transfer", "done", "signal", "signalstm"}

\* Whatever the priorities, the callback of the game and the commands it
\* sends to a busy drive: sceCdSync, and with it sceCdStStop and sceCdStPause,
\* never waits for an event that nobody is left to set.
THEOREM SyncIsAnswered == Spec => []SyncAnswered
<1>1. Init => Owed
  BY DEF Init, Owed
<1>2. AInv /\ Owed /\ [Next]_vars => Owed'
  <2>. SUFFICES ASSUME AInv, Owed, [Next]_vars PROVE Owed'
    OBVIOUS
  <2>1. CASE Next
    BY <2>1, ReaderOwes, AlarmOwes, FillOwes, GameStepOwes, GameCallOwes DEF Next, AInv
  <2>2. CASE UNCHANGED vars
    BY <2>2 DEF vars, Owed, ReaderBusy, drive, cb, handover
  <2>. QED BY <2>1, <2>2
<1>3. Owed => SyncAnswered
  BY DEF Owed, SyncAnswered, ReaderBusy
<1>. QED BY <1>1, <1>2, <1>3, AloneHolds, PTL DEF Spec

-----------------------------------------------------------------------------
(* The ring                                                                *)

\* Where banks begin.
Banks == {k * StBanksize : k \in 0 .. StBankmax - 1}
\* The sector of the ring x sectors from its beginning, x less than twice its
\* size.
Pos(x) == IF x >= StBufmax THEN x - StBufmax ELSE x

\* The ring has at least one bank.
LEMMA RingSize ==
  StBufmax \in Nat \ {0} /\ StBanksize \in Nat \ {0} /\ StBanksize <= StBufmax
BY RingAssumption DEF StBufmax

\* The bank that begins at w ends inside the ring, and Wrap gives the next
\* one.
LEMMA NextBank ==
  ASSUME NEW w \in Banks
  PROVE  /\ w \in Nat /\ w + StBanksize <= StBufmax
         /\ Wrap(w + StBanksize) \in Banks
         /\ Wrap(w + StBanksize) = IF w + StBanksize = StBufmax THEN 0 ELSE w + StBanksize
<1>. PICK k \in 0 .. StBankmax - 1 : w = k * StBanksize
  BY DEF Banks
<1>0. StBankmax \in Nat /\ StBanksize \in Nat
  BY RingAssumption
<1>1. w \in Nat /\ w + StBanksize = (k + 1) * StBanksize
  BY <1>0
<1>2. (k + 1) * StBanksize <= StBankmax * StBanksize
  BY <1>0
<1>3. w + StBanksize <= StBufmax
  BY <1>1, <1>2 DEF StBufmax
<1>4. CASE w + StBanksize = StBufmax
  <2>1. 0 \in Banks
    <3>1. 0 \in 0 .. StBankmax - 1 /\ 0 = 0 * StBanksize
      BY RingAssumption
    <3>. QED BY <3>1 DEF Banks
  <2>. QED BY <1>1, <1>3, <1>4, <2>1, RingSize DEF Wrap
<1>5. CASE w + StBanksize # StBufmax
  <2>1. k + 1 # StBankmax
    BY <1>1, <1>5 DEF StBufmax
  <2>2. k + 1 \in 0 .. StBankmax - 1
    BY <1>0, <2>1
  <2>3. w + StBanksize \in Banks
    BY <1>1, <2>2 DEF Banks
  <2>. QED BY <1>1, <1>3, <1>5, <2>3, RingSize DEF Wrap
<1>. QED BY <1>4, <1>5

\* The smaller of two integers.
LEMMA MinOfTwo ==
  ASSUME NEW a \in Int, NEW b \in Int
  PROVE  Min({a, b}) = IF a <= b THEN a ELSE b
<1>1. \E x \in {a, b} : \A y \in {a, b} : x <= y
  OBVIOUS
<1>2. Min({a, b}) \in {a, b} /\ \A y \in {a, b} : Min({a, b}) <= y
  BY <1>1 DEF Min
<1>. QED BY <1>2

\* One subtraction computes the remainder of what is less than twice the
\* ring.
LEMMA PosIsMod ==
  ASSUME NEW x \in Nat, x < 2 * StBufmax
  PROVE  x % StBufmax = Pos(x)
BY RingSize DEF Pos

\* The remainders that are zero.
LEMMA MultipleOfRing ==
  ASSUME NEW x \in {0, StBufmax, -StBufmax}
  PROVE  x % StBufmax = 0
BY RingSize

\* StStreamed sectors lie between the read and the write pointer.
InStep(s) ==
  /\ s.StStreamed <= StBufmax
  /\ s.StReadPtr + s.StStreamed \in {s.StWritePtr, s.StWritePtr + StBufmax}
\* The type of st.
Streams == [Stlsn : Nat, StWritePtr : 0 .. StBufmax - 1, StReadPtr : 0 .. StBufmax - 1,
             StStreamed : Nat, StStat : BOOLEAN, StIsReading : BOOLEAN]

\* ReadSectors in two pieces copies all there is, up to the request, and
\* leaves the read pointer where the copied sectors end. The pointers are
\* equal both when the ring is full and when it is empty; StStreamed tells
\* the two apart.
LEMMA CopyIsFifo ==
  ASSUME st \in Streams, InStep(st), NEW n \in Nat
  PROVE  /\ Copied(n) = IF n <= st.StStreamed THEN n ELSE st.StStreamed
         /\ Copied(n) \in Nat
         /\ ReadPtrAfter(n) = Pos(st.StReadPtr + Copied(n))
         /\ ReadPtrAfter(n) \in 0 .. StBufmax - 1
<1>. DEFINE w == st.StWritePtr
            r == st.StReadPtr
            c == st.StStreamed
<1>0. /\ w \in 0 .. StBufmax - 1 /\ r \in 0 .. StBufmax - 1 /\ c \in Nat /\ c <= StBufmax
      /\ r + c = w \/ r + c = w + StBufmax
  BY DEF Streams, InStep
<1>00. StBufmax \in Nat \ {0}
  BY RingSize
<1>1. FirstPiece(n) = IF w <= r /\ c > 0
                      THEN IF StBufmax - r <= n THEN StBufmax - r ELSE n
                      ELSE 0
  BY <1>0, <1>00, MinOfTwo DEF FirstPiece
<1>. DEFINE f == FirstPiece(n)
            p == Wrap(r + f)
<1>2. f \in Nat /\ p \in 0 .. StBufmax - 1 /\ n - f \in Nat
  BY <1>0, <1>00, <1>1 DEF Wrap
<1>3. SecondPiece(n - f, p) = IF p < w THEN IF w - p <= n - f THEN w - p ELSE n - f ELSE 0
  <2>. HIDE DEF p, f
  <2>. QED BY <1>0, <1>2, MinOfTwo DEF SecondPiece
<1>4. Copied(n) = f + SecondPiece(n - f, p) /\ ReadPtrAfter(n) = Wrap(p + SecondPiece(n - f, p))
  BY DEF Copied, ReadPtrAfter
<1>. DEFINE g == SecondPiece(n - f, p)
<1>5. Copied(n) = f + g /\ ReadPtrAfter(n) = Wrap(p + g) /\ p = Wrap(r + f)
  BY <1>4
<1>6. g = IF p < w THEN IF w - p <= n - f THEN w - p ELSE n - f ELSE 0
  BY <1>3
<1>. HIDE DEF g, p, f, w, r, c
<1>7. f + g = IF n <= c THEN n ELSE c
  BY <1>0, <1>00, <1>1, <1>2, <1>5, <1>6 DEF Wrap, f
<1>8. Wrap(p + g) = Pos(r + (f + g)) /\ Wrap(p + g) \in 0 .. StBufmax - 1
  BY <1>0, <1>00, <1>1, <1>2, <1>5, <1>6 DEF Wrap, Pos, f
<1>. QED BY <1>0, <1>5, <1>7, <1>8 DEF r, c

\* The fields of s.
Has(s, lsn, w, r, n, stat, busy) ==
  /\ s \in Streams
  /\ s.Stlsn = lsn /\ s.StWritePtr = w /\ s.StReadPtr = r /\ s.StStreamed = n
  /\ s.StStat = stat /\ s.StIsReading = busy

\* StIsReading is set or reset, and nothing else.
LEMMA SetReading ==
  ASSUME NEW s \in Streams, NEW b \in BOOLEAN
  PROVE  Has([s EXCEPT !.StIsReading = b],
             s.Stlsn, s.StWritePtr, s.StReadPtr, s.StStreamed, s.StStat, b)
BY DEF Has, Streams

\* StReset empties the ring.
LEMMA ResetHas ==
  ASSUME NEW s \in Streams
  PROVE  Has(StReset(s), s.Stlsn, 0, 0, 0, s.StStat, FALSE)
<1>1. 0 \in 0 .. StBufmax - 1 /\ 0 \in Nat
  BY RingSize
<1>. DEFINE z == 0
<1>2. z \in 0 .. StBufmax - 1 /\ z \in Nat /\ z = 0
  BY <1>1
<1>. DEFINE t == [s EXCEPT !.StWritePtr = z, !.StReadPtr = z, !.StStreamed = z, !.StIsReading = FALSE]
<1>3. StReset(s) = t
  BY DEF StReset
<1>. HIDE DEF z
<1>4. t \in Streams
  BY <1>2, Zenon DEF Streams
<1>5. /\ t.Stlsn = s.Stlsn /\ t.StWritePtr = z /\ t.StReadPtr = z /\ t.StStreamed = z
      /\ t.StStat = s.StStat /\ t.StIsReading = FALSE
  BY Zenon DEF Streams
<1>. QED BY <1>2, <1>3, <1>4, <1>5, Zenon DEF Has

\* What sceCdStStop leaves of the stream.
LEMMA StopHas ==
  ASSUME NEW s \in Streams
  PROVE  Has([StReset(s) EXCEPT !.StStat = FALSE], s.Stlsn, 0, 0, 0, FALSE, FALSE)
<1>. DEFINE r == StReset(s)
<1>1. Has(r, s.Stlsn, 0, 0, 0, s.StStat, FALSE)
  BY ResetHas
<1>. HIDE DEF r
<1>2. Has([r EXCEPT !.StStat = FALSE], s.Stlsn, 0, 0, 0, FALSE, FALSE)
  BY <1>1 DEF Has, Streams
<1>. QED BY <1>2 DEF r

\* A stream that starts at sector l.
LEMMA StartHas ==
  ASSUME NEW s \in Streams, NEW l \in Nat
  PROVE  Has([StReset(s) EXCEPT !.Stlsn = l, !.StStat = TRUE], l, 0, 0, 0, TRUE, FALSE)
<1>. DEFINE r == StReset(s)
<1>1. Has(r, s.Stlsn, 0, 0, 0, s.StStat, FALSE)
  BY ResetHas
<1>. HIDE DEF r
<1>2. Has([r EXCEPT !.Stlsn = l, !.StStat = TRUE], l, 0, 0, 0, TRUE, FALSE)
  BY <1>1 DEF Has, Streams
<1>. QED BY <1>2 DEF r

\* A bank is counted.
LEMMA CountHas ==
  ASSUME NEW s \in Streams, s.StWritePtr \in Banks
  PROVE  Has(CountBank(s), s.Stlsn + StBanksize, Wrap(s.StWritePtr + StBanksize), s.StReadPtr,
             s.StStreamed + StBanksize, s.StStat, FALSE)
<1>1. Wrap(s.StWritePtr + StBanksize) \in 0 .. StBufmax - 1
  BY NextBank, RingSize
<1>. DEFINE w == Wrap(s.StWritePtr + StBanksize)
            l == s.Stlsn + StBanksize
            n == s.StStreamed + StBanksize
            t == [s EXCEPT !.Stlsn = l, !.StStreamed = n, !.StWritePtr = w, !.StIsReading = FALSE]
<1>2. w \in 0 .. StBufmax - 1 /\ l \in Nat /\ n \in Nat
  BY <1>1, RingSize DEF Streams
<1>3. CountBank(s) = t
  BY Zenon DEF CountBank
<1>. HIDE DEF w, l, n
<1>4. t \in Streams
  BY <1>2, Zenon DEF Streams
<1>5. /\ t.Stlsn = l /\ t.StWritePtr = w /\ t.StReadPtr = s.StReadPtr /\ t.StStreamed = n
      /\ t.StStat = s.StStat /\ t.StIsReading = FALSE
  BY Zenon DEF Streams
<1>. QED BY <1>3, <1>4, <1>5, Zenon DEF Has, w, l, n

\* n sectors are delivered, and the read pointer is p.
LEMMA DeliverHas ==
  ASSUME NEW s \in Streams, NEW p \in 0 .. StBufmax - 1, NEW n \in Nat, n <= s.StStreamed
  PROVE  Has([s EXCEPT !.StReadPtr = p, !.StStreamed = @ - n],
             s.Stlsn, s.StWritePtr, p, s.StStreamed - n, s.StStat, s.StIsReading)
<1>. DEFINE m == s.StStreamed - n
            t == [s EXCEPT !.StReadPtr = p, !.StStreamed = m]
<1>1. m \in Nat
  BY DEF Streams
<1>2. [s EXCEPT !.StReadPtr = p, !.StStreamed = @ - n] = t
  OBVIOUS
<1>. HIDE DEF m
<1>3. t \in Streams
  BY <1>1, Zenon DEF Streams
<1>4. /\ t.Stlsn = s.Stlsn /\ t.StWritePtr = s.StWritePtr /\ t.StReadPtr = p /\ t.StStreamed = m
      /\ t.StStat = s.StStat /\ t.StIsReading = s.StIsReading
  BY Zenon DEF Streams
<1>. QED BY <1>2, <1>3, <1>4, Zenon DEF Has, m

-----------------------------------------------------------------------------
(* The inductive invariant                                                 *)

\* The read r is for the bank that the stream waits for.
Own(r) == r.lba = st.Stlsn /\ r.ptr = st.StWritePtr
\* A read of the stream has been handed over, ...
Pending  == rthread_sema = 1 /\ cdread.ptr # NoBank
\* ... is in the device, ...
InDevice == pc["reader"] \in {"transfer", "done"} /\ reading.ptr # NoBank
\* ... or has ended and is about to be counted.
Ended == pc["reader"] \in {"signalstm", "stm"} /\ reading.ptr # NoBank
\* A read that may still write into the ring.
InFlight == Pending \/ InDevice
\* The labels of StFillStreamBuffer.
Filling == {"fill", "fillfull", "fillread", "fillfail", "resched"}

\* A stream that is not active has no callback, no alarm and waits for
\* nothing.
Stopped == ~st.StStat => ~Stm0Callback /\ ~stmAlarm /\ ~st.StIsReading
\* What the place of the game's thread says of the stream and of its locals.
Calls ==
  /\ pc["game"] \in {"stop", "pause"} => ~stmAlarm /\ st.StStat
  /\ pc["game"] \in Filling \cup {"rdwait", "rdclear", "rdcopy", "rddma"} => st.StStat
  /\ call.after = "start" => pc["game"] \in {"stop", "sync", "syncwait", "start"}
  /\ call.after = "start" /\ pc["game"] \in {"sync", "syncwait", "start"} => ~st.StStat
  /\ pc["game"] = "start" => call.after = "start"
\* A read of the stream in flight is one that the stream waits for, into a
\* free bank at the write pointer; only sceCdStStop and sceCdStPause stop
\* waiting, and do not return before the read has ended.
Held ==
  /\ InFlight => st.StIsReading \/ (pc["game"] \in {"sync", "syncwait"} /\ ~Stm0Callback)
  /\ InFlight /\ st.StStat => BankFree
  /\ Pending /\ st.StStat => Own(cdread)
  /\ InDevice /\ st.StStat => Own(reading)
  /\ Ended => st.StIsReading /\ Own(reading) /\ BankFree
\* What the place of the reading thread says: it runs to its next wait before
\* any other thread does, so the drive stays ready from the end of a read to
\* the start of the next one.
ReaderAt ==
  /\ pc["reader"] \in {"signalstm", "stm", "fill", "fillfull", "fillread"} => Stm0Callback
  /\ pc["reader"] \notin {"fillfail", "resched"}
  /\ Ended => ~sync_flag
  /\ pc["reader"] \in {"signalstm", "stm", "fill"} /\ ~st.StIsReading => ~sync_flag
  /\ pc["reader"] \in {"fillread", "fillfull"} => st.StIsReading /\ ~InFlight
  /\ pc["reader"] = "fillread" => bank["reader"] = st.StWritePtr /\ BankFree /\ ~sync_flag
\* A bank that the game's thread has allocated is nobody else's.
GameAt ==
  /\ pc["game"] \in {"fillread", "fillfull", "fillfail"} =>
       st.StIsReading /\ ~InFlight /\ ~Ended /\ pc["reader"] \notin {"fillread", "fillfull"}
  /\ pc["game"] = "fillread" => bank["game"] = st.StWritePtr /\ BankFree
\* The pointers agree with StStreamed, the write pointer is at a bank, and a
\* copy that waits for its DMA is still on hand.
Pointers ==
  /\ InStep(st) /\ st.StWritePtr \in Banks
  /\ pc["game"] = "rddma" => /\ call.copied <= st.StStreamed
                             /\ call.rdptr = Pos(st.StReadPtr + call.copied)
\* The counted sectors are the next ones of the stream, and a bank that was
\* read holds the sectors that follow them.
Data ==
  /\ st.StStat =>
       /\ st.Stlsn = nextLsn + st.StStreamed
       /\ \A i \in 0 .. st.StStreamed - 1 : ring[Pos(st.StReadPtr + i)] \in {nextLsn + i, Failed}
  /\ st.StStat /\ reading.ptr # NoBank /\ pc["reader"] \in {"done", "signalstm", "stm"} =>
       \A k \in 0 .. StBanksize - 1 : ring[reading.ptr + k] \in {reading.lba + k, Failed}
\* Who may start, finish and count a read.
Control == OneRead /\ Stopped /\ Calls /\ Held /\ ReaderAt /\ GameAt
\* The type of call.
CallRecs == [after : {"idle", "start"}, lsn : Nat, left : Nat, block : BOOLEAN,
               ee : BOOLEAN, rdptr : 0 .. StBufmax - 1, copied : Nat]

\* The type invariant, in parts.
Booleans ==
  /\ sync_flag \in BOOLEAN /\ user_cb \in BOOLEAN /\ eventAlarm \in BOOLEAN
  /\ altRead \in BOOLEAN /\ Stm0Callback \in BOOLEAN /\ stmAlarm \in BOOLEAN
  /\ miscount \in BOOLEAN /\ early \in BOOLEAN /\ others \in BOOLEAN
  /\ pausedRead \in BOOLEAN
Places ==
  /\ pc \in [Threads -> GameLabels \cup ReaderLabels]
  /\ pc["game"] \in GameLabels /\ pc["reader"] \in ReaderLabels
Records ==
  /\ st \in Streams /\ call \in CallRecs
  /\ cdread \in Reads /\ reading \in Reads
Values ==
  /\ intr_ef \subseteq {1, 8} /\ rthread_sema \in {0, 1}
  /\ bank \in [Threads -> 0 .. StBufmax - 1]
  /\ ring \in [0 .. StBufmax - 1 -> Nat \cup {Failed, Partial}]
  /\ nextLsn \in Nat /\ calls \in 0 .. MaxCalls /\ userReads \in 0 .. MaxUserReads
  /\ failures \in 0 .. MaxFailures
Typed == Booleans /\ Places /\ Records /\ Values
\* The inductive invariant. What the driver promises it promises until it has
\* lost track.
IInv == Typed /\ (Tracking => Control /\ Pointers /\ Data)

\* The parts of Typed that the proofs below use.
LEMMA Types ==
  ASSUME Typed
  PROVE  /\ sync_flag \in BOOLEAN /\ rthread_sema \in {0, 1} /\ st \in Streams
         /\ cdread \in Reads /\ reading \in Reads /\ call \in CallRecs
         /\ bank \in [Threads -> 0 .. StBufmax - 1] /\ nextLsn \in Nat
         /\ Stm0Callback \in BOOLEAN /\ stmAlarm \in BOOLEAN
         /\ pc \in [Threads -> GameLabels \cup ReaderLabels]
         /\ ring \in [0 .. StBufmax - 1 -> Nat \cup {Failed, Partial}]
BY DEF Typed, Booleans, Places, Records, Values

\* Typed is TypeOK, with the program counters as a function.
LEMMA TypedIsTypeOK == Typed => TypeOK
BY DEF Typed, Booleans, Places, Records, Values, TypeOK, Streams, CallRecs

\* The locals of no call.
LEMMA NoCallIs == NoCall \in CallRecs /\ NoCall.after = "idle"
<1>1. 0 \in Nat /\ 0 \in 0 .. StBufmax - 1
  BY RingSize
<1>. QED BY <1>1 DEF NoCall, CallRecs

\* The locals of sceCdStStart.
LEMMA StartCallIs ==
  ASSUME NEW l \in Nat
  PROVE  /\ [NoCall EXCEPT !.after = "start", !.lsn = l] \in CallRecs
         /\ [NoCall EXCEPT !.after = "start", !.lsn = l].after = "start"
         /\ [NoCall EXCEPT !.after = "start", !.lsn = l].lsn = l
<1>. DEFINE c == NoCall
<1>1. c \in CallRecs
  BY NoCallIs
<1>. HIDE DEF c
<1>2. /\ [c EXCEPT !.after = "start", !.lsn = l] \in CallRecs
      /\ [c EXCEPT !.after = "start", !.lsn = l].after = "start"
      /\ [c EXCEPT !.after = "start", !.lsn = l].lsn = l
  BY <1>1, Zenon DEF CallRecs
<1>. QED BY <1>2 DEF c

\* The locals of sceCdStRead.
LEMMA ReadCallIs ==
  ASSUME NEW n \in Nat, NEW b \in BOOLEAN, NEW e \in BOOLEAN
  PROVE  /\ [NoCall EXCEPT !.left = n, !.block = b, !.ee = e] \in CallRecs
         /\ [NoCall EXCEPT !.left = n, !.block = b, !.ee = e].after = "idle"
<1>. DEFINE c == NoCall
<1>1. c \in CallRecs /\ c.after = "idle"
  BY NoCallIs
<1>. HIDE DEF c
<1>2. /\ [c EXCEPT !.left = n, !.block = b, !.ee = e] \in CallRecs
      /\ [c EXCEPT !.left = n, !.block = b, !.ee = e].after = "idle"
  BY <1>1, Zenon DEF CallRecs
<1>. QED BY <1>2 DEF c

\* A blocking read that has received n sectors.
LEMMA LeftIs ==
  ASSUME NEW c \in CallRecs, NEW n \in Nat, n < c.left
  PROVE  /\ [c EXCEPT !.left = @ - n] \in CallRecs
         /\ [c EXCEPT !.left = @ - n].after = c.after
<1>. DEFINE m == c.left - n
<1>1. m \in Nat
  BY DEF CallRecs
<1>2. [c EXCEPT !.left = @ - n] = [c EXCEPT !.left = m]
  OBVIOUS
<1>. HIDE DEF m
<1>3. [c EXCEPT !.left = m] \in CallRecs /\ [c EXCEPT !.left = m].after = c.after
  BY <1>1, Zenon DEF CallRecs
<1>. QED BY <1>2, <1>3

\* A read for the EE that waits for its DMA.
LEMMA DmaCallIs ==
  ASSUME NEW c \in CallRecs, NEW n \in Nat, NEW p \in 0 .. StBufmax - 1
  PROVE  /\ [c EXCEPT !.copied = n, !.rdptr = p] \in CallRecs
         /\ [c EXCEPT !.copied = n, !.rdptr = p].after = c.after
         /\ [c EXCEPT !.copied = n, !.rdptr = p].copied = n
         /\ [c EXCEPT !.copied = n, !.rdptr = p].rdptr = p
BY Zenon DEF CallRecs

-----------------------------------------------------------------------------
(* Types                                                                   *)

\* How a step may change the flags.
Flips ==
  /\ sync_flag' = sync_flag \/ sync_flag' = TRUE \/ sync_flag' = FALSE
  /\ eventAlarm' = eventAlarm \/ eventAlarm' = TRUE \/ eventAlarm' = FALSE
  /\ Stm0Callback' = Stm0Callback \/ Stm0Callback' = TRUE \/ Stm0Callback' = FALSE
  /\ stmAlarm' = stmAlarm \/ stmAlarm' = TRUE \/ stmAlarm' = FALSE
  /\ others' = others \/ others' = TRUE
  /\ altRead' = altRead
  /\ user_cb' = user_cb \/ user_cb' = ~user_cb
  /\ miscount' = miscount \/ miscount' = ~OwnRead
  /\ early' = early \/ early' = ReaderBusy \/ early' = (ReaderBusy \/ ~sync_flag)
  /\ pausedRead' = pausedRead \/ pausedRead' = (pausedRead \/ ~Stm0Callback)

\* Every step keeps the flags Boolean: each is left alone, set, reset or
\* computed.
LEMMA BooleansTyped ==
  ASSUME Booleans, Next PROVE Booleans'
<1>. USE DEF drive, cb, stream, history, handover, bounds, Flips
<1>1. ASSUME Reader PROVE Flips
  BY <1>1 DEF Reader, ReaderWake, DeviceReads, DeviceFails, DeviceAnswers,
     ReaderDone, ReaderSignal, StmCallback, CbEvent
<1>2. ASSUME EventAlarm \/ StmScheduleCb PROVE Flips
  BY <1>2 DEF EventAlarm, StmScheduleCb, AsyncRead
<1>3. ASSUME NEW t \in Threads, Fill(t) PROVE Flips
  BY <1>3 DEF Fill, StFill, StFillFull, StFillRead, StFillFail, StReschedule,
     AsyncRead
<1>4. ASSUME GameStep PROVE Flips
  BY <1>4 DEF GameStep, AltEvent, AltEnd, GameSignal, SyncCheck, SyncWake,
     StStarted, StStopped, StPaused, StReadWait, StReadClear, StReadCopy,
     StReadDma, CbEvent
<1>5. ASSUME GameCall PROVE Flips
  BY <1>5 DEF GameCall, sceCdRead, NCommand, sceCdStandby, sceCdCallback,
     sceCdSync, sceCdStInit, sceCdStStop, sceCdStPause, sceCdStResume,
     sceCdStStart, sceCdStRead, CbEvent, AsyncRead
<1>6. Flips
  BY <1>1, <1>2, <1>3, <1>4, <1>5 DEF Next
<1>. HIDE DEF Flips
<1>7. sync_flag' \in BOOLEAN
  BY <1>6, Zenon DEF Flips, Booleans
<1>8. eventAlarm' \in BOOLEAN
  BY <1>6, Zenon DEF Flips, Booleans
<1>9. Stm0Callback' \in BOOLEAN
  BY <1>6, Zenon DEF Flips, Booleans
<1>10. stmAlarm' \in BOOLEAN
  BY <1>6, Zenon DEF Flips, Booleans
<1>11. others' \in BOOLEAN
  BY <1>6, Zenon DEF Flips, Booleans
<1>12. altRead' \in BOOLEAN
  BY <1>6, Zenon DEF Flips, Booleans
<1>13. user_cb' \in BOOLEAN
  BY <1>6, Zenon DEF Flips, Booleans
<1>14. miscount' \in BOOLEAN
  BY <1>6, Zenon DEF Flips, Booleans
<1>15. early' \in BOOLEAN
  BY <1>6, Zenon DEF Flips, Booleans, ReaderBusy
<1>16. pausedRead' \in BOOLEAN
  BY <1>6, Zenon DEF Flips, Booleans
<1>. QED BY <1>7, <1>8, <1>9, <1>10, <1>11, <1>12, <1>13, <1>14, <1>15, <1>16
            DEF Booleans

\* Every step leaves both threads at labels of theirs.
LEMMA PlacesTyped ==
  ASSUME Places, call.after \in {"idle", "start"}, Next PROVE Places'
<1>1. ASSUME NEW t \in Threads, NEW l, Goto(t, l),
             l \in IF t = "game" THEN GameLabels ELSE ReaderLabels
      PROVE  Places'
  BY <1>1, GotoEffect DEF Places, Threads
<1>2. ASSUME UNCHANGED pc PROVE Places'
  BY <1>2 DEF Places
<1>. USE DEF Threads, GameLabels, ReaderLabels
<1>3. CASE Reader
  BY <1>1, <1>3 DEF Reader, ReaderWake, DeviceReads, DeviceFails, DeviceAnswers,
     ReaderDone, ReaderSignal, StmCallback, CbEvent
<1>4. CASE EventAlarm \/ StmScheduleCb
  BY <1>2, <1>4 DEF EventAlarm, StmScheduleCb
<1>5. ASSUME NEW t \in Threads, Fill(t) PROVE Places'
  BY <1>1, <1>5 DEF Fill, StFill, StFillFull, StFillRead, StFillFail,
     StReschedule, Return
<1>6. CASE GameStep
  BY <1>1, <1>6 DEF GameStep, AltEvent, AltEnd, GameSignal, SyncCheck, SyncWake,
     StStarted, StStopped, StPaused, StReadWait, StReadClear, StReadCopy,
     StReadDma, CbEvent, Deliver
<1>7. CASE GameCall
  BY <1>1, <1>2, <1>7 DEF GameCall, sceCdRead, NCommand, sceCdStandby,
     sceCdCallback, sceCdSync, sceCdStInit, sceCdStStop, sceCdStPause,
     sceCdStResume, sceCdStStart, sceCdStRead, CbEvent
<1>. QED BY <1>3, <1>4, <1>5, <1>6, <1>7 DEF Next

\* Every step keeps the remaining types, if the next sector of the stream is
\* a number.
LEMMA ValuesTyped ==
  ASSUME Values, Records, Next, NEW n \in Nat, nextLsn' \in {nextLsn, nextLsn + n, call.lsn} PROVE Values'
<1>. USE CallAssumption DEF drive, cb, stream, history, handover, bounds, Values
<1>1. CASE Reader
  <2>1. CASE ReaderWake
    BY <1>1, <2>1 DEF ReaderWake
  <2>2. CASE DeviceReads \/ DeviceFails
    <3>1. ring' \in [0 .. StBufmax - 1 -> Nat \cup {Failed, Partial}]
      <4>. SUFFICES ASSUME NEW i \in 0 .. StBufmax - 1, reading.ptr # NoBank, i \in Slots(reading.ptr)
                    PROVE  reading.lba + (i - reading.ptr) \in Nat
        BY <2>2 DEF DeviceReads, DeviceFails, DeviceAnswers
      <4>. QED BY RingSize DEF Records, Reads, Slots, NoBank
    <3>2. failures' \in 0 .. MaxFailures
      <4>1. failures \in 0 .. MaxFailures /\ MaxFailures \in Nat
        OBVIOUS
      <4>2. failures' = failures \/ (failures < MaxFailures /\ failures' = failures + 1)
        BY <2>2 DEF DeviceReads, DeviceFails
      <4>. QED BY ONLY <4>1, <4>2
    <3>. QED BY <2>2, <3>1, <3>2 DEF DeviceReads, DeviceFails, DeviceAnswers
  <2>3. CASE ReaderDone \/ ReaderSignal \/ StmCallback
    BY <2>3 DEF ReaderDone, ReaderSignal, StmCallback, SetEventFlag9
  <2>. QED BY <1>1, <2>1, <2>2, <2>3 DEF Reader
<1>2. CASE EventAlarm \/ StmScheduleCb
  BY <1>2 DEF EventAlarm, StmScheduleCb, AsyncRead, SetEventFlag9
<1>3. ASSUME NEW t \in Threads, Fill(t) PROVE Values'
  BY <1>3 DEF Fill, StFill, StFillFull, StFillRead, StFillFail, StReschedule,
     AsyncRead, Records, Streams
<1>4. CASE GameStep
  BY <1>4 DEF GameStep, AltEvent, AltEnd, GameSignal, SyncCheck, SyncWake,
     StStarted, StStopped, StPaused, StReadWait, StReadClear, StReadCopy,
     StReadDma, SetEventFlag9, Records, CallRecs
<1>5. CASE GameCall
  <2>1. /\ calls < MaxCalls /\ calls' = calls + 1
        /\ intr_ef' = intr_ef \/ intr_ef' = intr_ef \ {1} \/ intr_ef' = intr_ef \cup {8}
        /\ rthread_sema' = rthread_sema \/ rthread_sema' = 1
        /\ UNCHANGED <<bank, ring, nextLsn, userReads, failures>>
    BY <1>5 DEF GameCall, sceCdRead, NCommand, sceCdStandby, sceCdCallback,
       sceCdSync, sceCdStInit, sceCdStStop, sceCdStPause, sceCdStResume,
       sceCdStStart, sceCdStRead, AsyncRead, Call
  <2>2. calls \in 0 .. MaxCalls /\ MaxCalls \in Nat
    OBVIOUS
  <2>3. calls' \in 0 .. MaxCalls
    BY ONLY <2>1, <2>2
  <2>4. intr_ef' \subseteq {1, 8}
    BY <2>1
  <2>. QED BY <2>1, <2>3, <2>4
<1>. QED BY <1>1, <1>2, <1>3, <1>4, <1>5 DEF Next

\* n sectors are on hand, and end at p.
Hands(n, p) ==
  /\ n \in Nat /\ n <= st.StStreamed
  /\ p \in 0 .. StBufmax - 1 /\ p = Pos(st.StReadPtr + n)

\* What a read copies is on hand.
LEMMA CopyHands ==
  ASSUME Typed, Pointers
  PROVE  Hands(Copied(call.left), ReadPtrAfter(call.left))
<1>1. call.left \in Nat /\ st \in Streams /\ InStep(st)
  BY Types DEF Pointers, CallRecs
<1>2. st.StStreamed \in Nat
  BY <1>1 DEF Streams
<1>. DEFINE n == Copied(call.left)
            p == ReadPtrAfter(call.left)
<1>3. /\ n = IF call.left <= st.StStreamed THEN call.left ELSE st.StStreamed
      /\ n \in Nat /\ p = Pos(st.StReadPtr + n) /\ p \in 0 .. StBufmax - 1
  BY <1>1, CopyIsFifo
<1>. HIDE DEF n, p
<1>4. Hands(n, p)
  BY <1>1, <1>2, <1>3 DEF Hands
<1>. QED BY <1>4 DEF n, p

\* Both ways of delivering hand out what is on hand.
LEMMA DeliversFifo ==
  ASSUME Typed, Pointers, \/ StReadCopy /\ ~(call.ee /\ Copied(call.left) > 0)
                          \/ StReadDma
  PROVE  \E n, p : Hands(n, p) /\ Deliver(n, p)
<1>1. CASE StReadCopy /\ ~(call.ee /\ Copied(call.left) > 0)
  <2>1. Deliver(Copied(call.left), ReadPtrAfter(call.left))
    BY <1>1 DEF StReadCopy
  <2>. QED BY <2>1, CopyHands
<1>2. CASE StReadDma
  <2>1. Deliver(call.copied, call.rdptr) /\ pc["game"] = "rddma"
    BY <1>2 DEF StReadDma, At
  <2>2. Hands(call.copied, call.rdptr)
    BY <2>1, Types DEF Pointers, Hands, CallRecs
  <2>. QED BY <2>1, <2>2
<1>. QED BY <1>1, <1>2

\* Delivering keeps the types.
LEMMA DeliverTyped ==
  ASSUME Typed, NEW n, NEW p, Hands(n, p), Deliver(n, p)
  PROVE  st' \in Streams /\ call' \in CallRecs /\ nextLsn' = nextLsn + n
<1>1. st' \in Streams
  BY DeliverHas, Types DEF Deliver, Hands, Has
<1>2. call' \in CallRecs
  BY LeftIs, NoCallIs, Types DEF Deliver, Hands
<1>. QED BY <1>1, <1>2 DEF Deliver

\* The read that is handed over.
LEMMA HandoverTyped ==
  ASSUME NEW l \in Nat, NEW p \in {NoBank} \cup 0 .. StBufmax - 1
  PROVE  [lba |-> l, ptr |-> p] \in Reads
BY DEF Reads

\* Every step keeps the types of the records. That StStreamed stays a natural
\* number needs Pointers.
LEMMA RecordsTyped ==
  ASSUME Typed, Pointers, Next
  PROVE  Records' /\ \E n \in Nat : nextLsn' \in {nextLsn, nextLsn + n, call.lsn}
<1>. USE Types DEF drive, cb, stream, history, handover, bounds
<1>0. 0 \in Nat
  OBVIOUS
<1>1. CASE Reader
  <2>1. CASE ReaderWake
    BY <1>0, <2>1 DEF ReaderWake, Records
  <2>2. CASE DeviceReads \/ DeviceFails \/ ReaderDone \/ ReaderSignal
    BY <1>0, <2>2 DEF DeviceReads, DeviceFails, DeviceAnswers, ReaderDone,
       ReaderSignal, Records
  <2>3. CASE StmCallback
    <3>1. st' \in Streams
      <4>1. st' = CountBank(st) \/ st' = st
        BY <2>3 DEF StmCallback
      <4>. QED BY <4>1, CountHas DEF Pointers, Has
    <3>. QED BY <1>0, <2>3, <3>1 DEF StmCallback, Records
  <2>. QED BY <1>1, <2>1, <2>2, <2>3 DEF Reader
<1>2. CASE EventAlarm
  BY <1>0, <1>2, HandoverTyped DEF EventAlarm, Records
<1>3. CASE StmScheduleCb
  <2>1. st' \in Streams
    BY <1>3, SetReading DEF StmScheduleCb, Has
  <2>2. cdread' \in Reads
    BY <1>3, HandoverTyped DEF StmScheduleCb, AsyncRead, Streams
  <2>. QED BY <1>0, <1>3, <2>1, <2>2 DEF StmScheduleCb, Records
<1>4. ASSUME NEW t \in Threads, Fill(t)
      PROVE  Records' /\ \E n \in Nat : nextLsn' \in {nextLsn, nextLsn + n, call.lsn}
  <2>1. CASE StFill(t) \/ StFillFull(t) \/ StFillFail(t)
    <3>1. st' \in Streams
      BY <2>1, SetReading DEF StFill, StFillFull, StFillFail, Has
    <3>. QED BY <1>0, <2>1, <3>1 DEF StFill, StFillFull, StFillFail, Records
  <2>2. CASE StFillRead(t)
    <3>1. cdread' \in Reads
      BY <2>2, HandoverTyped DEF StFillRead, AsyncRead, Streams
    <3>. QED BY <1>0, <2>2, <3>1 DEF StFillRead, Records
  <2>3. CASE StReschedule(t)
    BY <1>0, <2>3 DEF StReschedule, Records
  <2>. QED BY <1>4, <2>1, <2>2, <2>3 DEF Fill
<1>5. CASE GameStep
  <2>1. CASE AltEvent \/ AltEnd \/ GameSignal \/ SyncCheck \/ SyncWake \/ StReadWait \/ StReadClear
    BY <1>0, <2>1 DEF AltEvent, AltEnd, GameSignal, SyncCheck, SyncWake,
       StReadWait, StReadClear, Records
  <2>2. CASE StStarted
    <3>1. st' \in Streams
      BY <2>2, StartHas DEF StStarted, Has, CallRecs
    <3>. QED BY <1>0, <2>2, <3>1, NoCallIs DEF StStarted, Records
  <2>3. CASE StStopped \/ StPaused
    <3>1. st' \in Streams
      <4>1. CASE StStopped
        BY <4>1, StopHas DEF StStopped, Has
      <4>2. CASE StPaused
        BY <4>2, SetReading DEF StPaused, Has
      <4>. QED BY <2>3, <4>1, <4>2
    <3>. QED BY <1>0, <2>3, <3>1 DEF StStopped, StPaused, Records
  <2>4. CASE StReadCopy /\ call.ee /\ Copied(call.left) > 0
    <3>. DEFINE n == Copied(call.left)
                p == ReadPtrAfter(call.left)
    <3>1. n \in Nat /\ p \in 0 .. StBufmax - 1
      BY CopyHands DEF Hands
    <3>2. call' = [call EXCEPT !.copied = n, !.rdptr = p] /\ UNCHANGED <<st, nextLsn, cdread, reading>>
      BY <2>4 DEF StReadCopy
    <3>. HIDE DEF n, p
    <3>3. [call EXCEPT !.copied = n, !.rdptr = p] \in CallRecs
      BY <3>1, Zenon DEF CallRecs
    <3>. QED BY <1>0, <3>2, <3>3 DEF Records
  <2>5. CASE (StReadCopy /\ ~(call.ee /\ Copied(call.left) > 0)) \/ StReadDma
    <3>1. PICK n, p : Hands(n, p) /\ Deliver(n, p)
      BY <2>5, DeliversFifo
    <3>2. UNCHANGED <<cdread, reading>>
      BY <2>5 DEF StReadCopy, StReadDma
    <3>. QED BY <3>1, <3>2, DeliverTyped DEF Records, Hands
  <2>. QED BY <1>5, <2>1, <2>2, <2>3, <2>4, <2>5 DEF GameStep
<1>6. CASE GameCall
  <2>1. CASE sceCdRead
    BY <1>0, <2>1, HandoverTyped DEF sceCdRead, AsyncRead, Records
  <2>2. CASE NCommand \/ sceCdStandby \/ sceCdCallback \/ sceCdSync \/ sceCdStStop \/ sceCdStPause \/ sceCdStResume
    BY <1>0, <2>2 DEF NCommand, sceCdStandby, sceCdCallback, sceCdSync,
       sceCdStStop, sceCdStPause, sceCdStResume, Records
  <2>3. CASE sceCdStInit
    <3>1. st' \in Streams
      BY <2>3, ResetHas DEF sceCdStInit, Has
    <3>. QED BY <1>0, <2>3, <3>1 DEF sceCdStInit, Records
  <2>4. ASSUME NEW lsn \in StartLsns, sceCdStStart(lsn)
        PROVE  Records' /\ \E n \in Nat : nextLsn' \in {nextLsn, nextLsn + n, call.lsn}
    <3>1. call' \in CallRecs
      BY <2>4, StartCallIs, CallAssumption DEF sceCdStStart
    <3>. QED BY <1>0, <2>4, <3>1 DEF sceCdStStart, Records
  <2>5. ASSUME NEW n \in Requests, NEW b \in BOOLEAN, NEW e \in BOOLEAN, sceCdStRead(n, b, e)
        PROVE  Records' /\ \E k \in Nat : nextLsn' \in {nextLsn, nextLsn + k, call.lsn}
    <3>1. n \in Nat
      BY CallAssumption
    <3>2. call' \in CallRecs
      BY <2>5, <3>1, ReadCallIs DEF sceCdStRead
    <3>. QED BY <1>0, <2>5, <3>2 DEF sceCdStRead, Records
  <2>. QED BY <1>6, <2>1, <2>2, <2>3, <2>4, <2>5 DEF GameCall
<1>. QED BY <1>1, <1>2, <1>3, <1>4, <1>5, <1>6 DEF Next

\* Every step keeps the types.
LEMMA TypedHolds ==
  ASSUME Typed, Pointers, Next
  PROVE  Typed'
<1>1. Booleans' /\ Places'
  BY BooleansTyped, PlacesTyped, Types DEF Typed, CallRecs
<1>2. Records' /\ \E n \in Nat : nextLsn' \in {nextLsn, nextLsn + n, call.lsn}
  BY RecordsTyped
<1>3. Values'
  BY <1>2, ValuesTyped DEF Typed
<1>. QED BY <1>1, <1>2, <1>3 DEF Typed

-----------------------------------------------------------------------------
(* Control                                                                 *)

\* The reading thread takes the read that was handed over: Pending becomes
\* InDevice.
LEMMA WakeControl ==
  ASSUME ReaderOutranks, Typed, Tracking, Control, Pointers, Tracking', ReaderWake
  PROVE  Control'
<1>. USE Types
<1>1. /\ UNCHANGED <<sync_flag, cdread, Stm0Callback, stmAlarm, st, bank, call>>
      /\ rthread_sema = 1 /\ rthread_sema' = 0
      /\ reading' = cdread
      /\ pc'["game"] = pc["game"]
      /\ pc["reader"] = "wait" /\ pc'["reader"] = "transfer"
  BY GotoEffect DEF ReaderWake, At, Threads, GameLabels, ReaderLabels, drive,
     stream
<1>. QED BY <1>1 DEF Control, OneRead, Stopped, Calls, Held, ReaderAt, GameAt,
            InFlight, Pending, InDevice, Ended, Filling, Own, BankFree,
            Tracking, ReaderBusy

\* The device answers.
LEMMA AnswerControl ==
  ASSUME ReaderOutranks, Typed, Tracking, Control, Pointers, Tracking', DeviceReads \/ DeviceFails
  PROVE  Control'
<1>. USE Types
<1>1. /\ UNCHANGED <<sync_flag, rthread_sema, cdread, reading, Stm0Callback, stmAlarm, st, bank, call>>
      /\ pc'["game"] = pc["game"]
      /\ pc["reader"] = "transfer" /\ pc'["reader"] = "done"
  BY GotoEffect DEF DeviceReads, DeviceFails, DeviceAnswers, At, Threads,
     GameLabels, ReaderLabels, drive, stream, handover
<1>. QED BY <1>1 DEF Control, OneRead, Stopped, Calls, Held, ReaderAt, GameAt,
            InFlight, Pending, InDevice, Ended, Filling, Own, BankFree,
            Tracking, ReaderBusy

\* A read ends while the stream runs: if it was the stream's, the stream
\* still waits for it, since only a pause or a stop forgets one and both
\* remove the callback.
LEMMA DoneStreamControl ==
  ASSUME ReaderOutranks, Typed, Tracking, Control, Pointers, Tracking', ReaderDone /\ Stm0Callback
  PROVE  Control'
<1>. USE Types
<1>1. /\ UNCHANGED <<rthread_sema, cdread, reading, Stm0Callback, stmAlarm, st, bank, call>>
      /\ sync_flag' = FALSE
      /\ pc'["game"] = pc["game"]
      /\ pc["reader"] = "done" /\ pc'["reader"] = "signalstm"
  BY GotoEffect DEF ReaderDone, At, Threads, GameLabels, ReaderLabels, stream,
     handover
<1>. QED BY <1>1 DEF Control, OneRead, Stopped, Calls, Held, ReaderAt, GameAt,
            InFlight, Pending, InDevice, Ended, Filling, Own, BankFree,
            Tracking, ReaderBusy

\* A read ends with no stream running.
LEMMA DoneControl ==
  ASSUME ReaderOutranks, Typed, Tracking, Control, Pointers, Tracking', ReaderDone /\ ~Stm0Callback
  PROVE  Control'
<1>. USE Types
<1>1. /\ UNCHANGED <<rthread_sema, cdread, reading, Stm0Callback, stmAlarm, st, bank, call>>
      /\ sync_flag' \in {sync_flag, FALSE}
      /\ pc'["game"] = pc["game"]
      /\ pc["reader"] = "done" /\ pc'["reader"] \in {"wait", "signal"}
  BY GotoEffect DEF ReaderDone, CbEvent, At, Threads, GameLabels, ReaderLabels,
     stream, handover
<1>. QED BY <1>1 DEF Control, OneRead, Stopped, Calls, Held, ReaderAt, GameAt,
            InFlight, Pending, InDevice, Ended, Filling, Own, BankFree,
            Tracking, ReaderBusy

\* The end is signalled; the stream's callback cannot have gone meanwhile,
\* because the game's threads do not run.
LEMMA SignalControl ==
  ASSUME ReaderOutranks, Typed, Tracking, Control, Pointers, Tracking', ReaderSignal
  PROVE  Control'
<1>. USE Types
<1>1. /\ UNCHANGED <<sync_flag, rthread_sema, cdread, reading, Stm0Callback, stmAlarm, st, bank, call>>
      /\ pc'["game"] = pc["game"]
      /\ \/ pc["reader"] = "signal" /\ pc'["reader"] = "wait"
         \/ pc["reader"] = "signalstm" /\ pc'["reader"] = IF Stm0Callback THEN "stm" ELSE "wait"
  BY GotoEffect DEF ReaderSignal, SetEventFlag9, At, Threads, GameLabels,
     ReaderLabels, stream, handover
<1>. QED BY <1>1 DEF Control, OneRead, Stopped, Calls, Held, ReaderAt, GameAt,
            InFlight, Pending, InDevice, Ended, Filling, Own, BankFree,
            Tracking, ReaderBusy

\* StmCallback counts a bank. Tracking afterwards says that it was the
\* stream's own read, so the drive is ready and nothing is in flight.
LEMMA CountControl ==
  ASSUME ReaderOutranks, Typed, Tracking, Control, Pointers, Tracking', StmCallback /\ st.StIsReading
  PROVE  Control'
<1>. USE Types
<1>1. /\ UNCHANGED <<sync_flag, rthread_sema, cdread, reading, Stm0Callback, stmAlarm, bank, call>>
      /\ Has(st', st.Stlsn + StBanksize, Wrap(st.StWritePtr + StBanksize), st.StReadPtr,
             st.StStreamed + StBanksize, st.StStat, FALSE)
      /\ Ended
      /\ pc'["game"] = pc["game"]
      /\ pc["reader"] = "stm" /\ pc'["reader"] = "fill"
  <2>1. OwnRead
    BY Zenon DEF StmCallback, Tracking
  <2>2. pc["reader"] = "stm"
    BY DEF StmCallback, At
  <2>3. Ended
    BY <2>1, <2>2 DEF OwnRead, Ended, Streams, NoBank
  <2>4. st' = CountBank(st)
    BY DEF StmCallback
  <2>. QED BY <2>2, <2>3, <2>4, GotoEffect, CountHas DEF StmCallback, Pointers,
              At, Threads, GameLabels, ReaderLabels, drive, handover
<1>. QED BY <1>1 DEF Control, OneRead, Stopped, Calls, Held, ReaderAt, GameAt,
            InFlight, Pending, InDevice, Ended, Filling, Own, BankFree, Has,
            Tracking, ReaderBusy

\* StmCallback with nothing to count.
LEMMA NoCountControl ==
  ASSUME ReaderOutranks, Typed, Tracking, Control, Pointers, Tracking', StmCallback /\ ~st.StIsReading
  PROVE  Control'
<1>. USE Types
<1>1. /\ UNCHANGED <<sync_flag, rthread_sema, cdread, reading, Stm0Callback, stmAlarm, st, bank, call>>
      /\ pc'["game"] = pc["game"]
      /\ pc["reader"] = "stm" /\ pc'["reader"] = "fill"
  BY GotoEffect DEF StmCallback, At, Threads, GameLabels, ReaderLabels, drive,
     handover
<1>. QED BY <1>1 DEF Control, OneRead, Stopped, Calls, Held, ReaderAt, GameAt,
            InFlight, Pending, InDevice, Ended, Filling, Own, BankFree,
            Tracking, ReaderBusy

\* event_alarm_cb: no read is in progress, or the model has stopped
\* following.
LEMMA AlarmControl ==
  ASSUME ReaderOutranks, Typed, Tracking, Control, Pointers, Tracking', EventAlarm
  PROVE  Control'
<1>. USE Types
<1>1. /\ UNCHANGED <<reading, Stm0Callback, stmAlarm, bank, call>>
      /\ st' = st
      /\ ~ReaderBusy
      /\ \/ sync_flag' = FALSE /\ UNCHANGED <<rthread_sema, cdread>>
         \/ sync_flag /\ sync_flag' /\ rthread_sema' = 1 /\ cdread'.ptr = NoBank
      /\ pc'["game"] = pc["game"]
      /\ pc'["reader"] = pc["reader"]
  <2>0. ~early' /\ sync_flag \in BOOLEAN
    BY DEF Tracking
  <2>1. ~ReaderBusy /\ (sync_flag' = FALSE \/ sync_flag)
    <3>1. CASE sync_flag' = FALSE /\ early' = ReaderBusy
      BY <2>0, <3>1
    <3>2. CASE early' = (ReaderBusy \/ ~sync_flag)
      BY <2>0, <3>2
    <3>. QED BY <3>1, <3>2 DEF EventAlarm
  <2>2. \/ sync_flag' = FALSE /\ UNCHANGED <<rthread_sema, cdread>>
        \/ sync_flag /\ sync_flag' /\ rthread_sema' = 1 /\ cdread'.ptr = NoBank
    BY <2>1 DEF EventAlarm, handover
  <2>. QED BY <2>1, <2>2 DEF EventAlarm, Threads, GameLabels, ReaderLabels,
              stream, handover
<1>. QED BY <1>1 DEF Control, OneRead, Stopped, Calls, Held, ReaderAt, GameAt,
            InFlight, Pending, InDevice, Ended, Filling, Own, BankFree,
            Tracking, ReaderBusy

\* StmScheduleCb starts a read only if the stream waits for none.
LEMMA ScheduleControl ==
  ASSUME ReaderOutranks, Typed, Tracking, Control, Pointers, Tracking', StmScheduleCb
  PROVE  Control'
<1>. USE Types
<1>1. /\ UNCHANGED <<reading, Stm0Callback, bank, call>>
      /\ stmAlarm /\ stmAlarm' = FALSE
      /\ \/ st' = st /\ UNCHANGED <<sync_flag, rthread_sema, cdread>>
         \/ /\ ~st.StIsReading /\ BankFree /\ ~sync_flag
            /\ Has(st', st.Stlsn, st.StWritePtr, st.StReadPtr, st.StStreamed, st.StStat, TRUE)
            /\ sync_flag' = TRUE /\ rthread_sema' = 1
            /\ cdread'.lba = st.Stlsn /\ cdread'.ptr = st.StWritePtr
      /\ pc'["game"] = pc["game"]
      /\ pc'["reader"] = pc["reader"]
  <2>1. CASE UNCHANGED <<st, drive, handover>>
    BY <2>1 DEF StmScheduleCb, Threads, GameLabels, ReaderLabels, drive,
       handover
  <2>2. CASE /\ ~st.StIsReading /\ BankFree /\ ~sync_flag
             /\ st' = [st EXCEPT !.StIsReading = TRUE]
             /\ AsyncRead(st.Stlsn, st.StWritePtr)
    BY <2>2, SetReading DEF StmScheduleCb, AsyncRead, Threads, GameLabels,
       ReaderLabels, drive, handover
  <2>. QED BY <2>1, <2>2 DEF StmScheduleCb
<1>. QED BY <1>1 DEF Control, OneRead, Stopped, Calls, Held, ReaderAt, GameAt,
            InFlight, Pending, InDevice, Ended, Filling, Own, BankFree, Has,
            Tracking, ReaderBusy

\* The game's thread allocates a bank ...
LEMMA GameFillControl ==
  ASSUME ReaderOutranks, Typed, Tracking, Control, Pointers, Tracking', StFill("game")
  PROVE  Control'
<1>. USE Types
<1>1. /\ UNCHANGED <<sync_flag, rthread_sema, cdread, reading, Stm0Callback, call>>
      /\ pc["game"] = "fill"
      /\ ReaderBlocked
      /\ \/ pc'["game"] = "idle" /\ UNCHANGED <<stmAlarm, st, bank>>
         \/ /\ ~st.StIsReading /\ stmAlarm' = FALSE
            /\ Has(st', st.Stlsn, st.StWritePtr, st.StReadPtr, st.StStreamed, st.StStat, TRUE)
            /\ bank'["game"] = st.StWritePtr /\ bank'["reader"] = bank["reader"]
            /\ pc'["game"] = IF BankFree THEN "fillread" ELSE "fillfull"
      /\ pc'["reader"] = pc["reader"]
  <2>1. CASE st.StIsReading
    BY <2>1, GotoEffect DEF StFill, Return, At, Threads, GameLabels, ReaderLabels, drive,
       handover, MayRun
  <2>2. CASE ~st.StIsReading
    <3>1. Has(st', st.Stlsn, st.StWritePtr, st.StReadPtr, st.StStreamed, st.StStat, TRUE)
      BY <2>2, SetReading DEF StFill
    <3>2. bank'["game"] = st.StWritePtr /\ bank'["reader"] = bank["reader"]
      BY <2>2 DEF StFill, Threads
    <3>3. /\ pc'["game"] = IF BankFree THEN "fillread" ELSE "fillfull"
          /\ pc'["reader"] = pc["reader"]
      BY <2>2, GotoEffect DEF StFill, Threads, GameLabels, ReaderLabels
    <3>. QED BY <2>2, <3>1, <3>2, <3>3 DEF StFill, At, drive, handover, MayRun
  <2>. QED BY <2>1, <2>2
<1>. QED BY <1>1 DEF Control, ReaderBlocked, OneRead, Stopped, Calls, Held,
            ReaderAt, GameAt, InFlight, Pending, InDevice, Ended, Filling, Own,
            BankFree, Has, Tracking, ReaderBusy

\* ... and so does the reading thread: whoever sets StIsReading first keeps
\* the other one out.
LEMMA ReaderFillControl ==
  ASSUME ReaderOutranks, Typed, Tracking, Control, Pointers, Tracking', StFill("reader")
  PROVE  Control'
<1>. USE Types
<1>1. /\ UNCHANGED <<sync_flag, rthread_sema, cdread, reading, Stm0Callback, call>>
      /\ pc'["game"] = pc["game"]
      /\ pc["reader"] = "fill"
      /\ \/ pc'["reader"] = "wait" /\ UNCHANGED <<stmAlarm, st, bank>>
         \/ /\ ~st.StIsReading /\ stmAlarm' = FALSE
            /\ Has(st', st.Stlsn, st.StWritePtr, st.StReadPtr, st.StStreamed, st.StStat, TRUE)
            /\ bank'["reader"] = st.StWritePtr /\ bank'["game"] = bank["game"]
            /\ pc'["reader"] = IF BankFree THEN "fillread" ELSE "fillfull"
  BY GotoEffect, SetReading DEF StFill, Return, At, Threads, GameLabels,
     ReaderLabels, drive, handover
<1>. QED BY <1>1 DEF Control, OneRead, Stopped, Calls, Held, ReaderAt, GameAt,
            InFlight, Pending, InDevice, Ended, Filling, Own, BankFree, Has,
            Tracking, ReaderBusy

\* No bank is free.
LEMMA GameFullControl ==
  ASSUME ReaderOutranks, Typed, Tracking, Control, Pointers, Tracking', StFillFull("game")
  PROVE  Control'
<1>. USE Types
<1>1. /\ UNCHANGED <<sync_flag, rthread_sema, cdread, reading, Stm0Callback, stmAlarm, bank, call>>
      /\ Has(st', st.Stlsn, st.StWritePtr, st.StReadPtr, st.StStreamed, st.StStat, FALSE)
      /\ pc["game"] = "fillfull" /\ pc'["game"] = "idle" /\ ReaderBlocked
      /\ pc'["reader"] = pc["reader"]
  BY GotoEffect, SetReading DEF StFillFull, Return, At, Threads, GameLabels,
     ReaderLabels, drive, handover, MayRun
<1>. QED BY <1>1 DEF Control, ReaderBlocked, OneRead, Stopped, Calls, Held,
            ReaderAt, GameAt, InFlight, Pending, InDevice, Ended, Filling, Own,
            BankFree, Has, Tracking, ReaderBusy

\* The drive refuses the stream's read, ...
LEMMA GameRefusedControl ==
  ASSUME ReaderOutranks, Typed, Tracking, Control, Pointers, Tracking', StFillRead("game") /\ sync_flag
  PROVE  Control'
<1>. USE Types
<1>1. /\ UNCHANGED <<sync_flag, rthread_sema, cdread, reading, Stm0Callback, stmAlarm, st, bank, call>>
      /\ pc["game"] = "fillread" /\ pc'["game"] = "fillfail" /\ ReaderBlocked
      /\ pc'["reader"] = pc["reader"]
  BY GotoEffect DEF StFillRead, At, Threads, GameLabels, ReaderLabels, drive,
     stream, handover, MayRun
<1>. QED BY <1>1 DEF Control, ReaderBlocked, OneRead, Stopped, Calls, Held,
            ReaderAt, GameAt, InFlight, Pending, InDevice, Ended, Filling, Own,
            BankFree, Tracking, ReaderBusy

\* ... the stream no longer waits for it, ...
LEMMA GameFailControl ==
  ASSUME ReaderOutranks, Typed, Tracking, Control, Pointers, Tracking', StFillFail("game")
  PROVE  Control'
<1>. USE Types
<1>1. /\ UNCHANGED <<sync_flag, rthread_sema, cdread, reading, Stm0Callback, stmAlarm, bank, call>>
      /\ Has(st', st.Stlsn, st.StWritePtr, st.StReadPtr, st.StStreamed, st.StStat, FALSE)
      /\ pc["game"] = "fillfail" /\ pc'["game"] = "resched" /\ ReaderBlocked
      /\ pc'["reader"] = pc["reader"]
  BY GotoEffect, SetReading DEF StFillFail, At, Threads, GameLabels,
     ReaderLabels, drive, handover, MayRun
<1>. QED BY <1>1 DEF Control, ReaderBlocked, OneRead, Stopped, Calls, Held,
            ReaderAt, GameAt, InFlight, Pending, InDevice, Ended, Filling, Own,
            BankFree, Has, Tracking, ReaderBusy

\* ... and the alarm is set to try again.
LEMMA GameRescheduleControl ==
  ASSUME ReaderOutranks, Typed, Tracking, Control, Pointers, Tracking', StReschedule("game")
  PROVE  Control'
<1>. USE Types
<1>1. /\ UNCHANGED <<sync_flag, rthread_sema, cdread, reading, Stm0Callback, st, bank, call>>
      /\ stmAlarm' = TRUE
      /\ pc["game"] = "resched" /\ pc'["game"] = "idle" /\ ReaderBlocked
      /\ pc'["reader"] = pc["reader"]
  BY GotoEffect DEF StReschedule, Return, At, Threads, GameLabels, ReaderLabels,
     drive, handover, MayRun
<1>. QED BY <1>1 DEF Control, ReaderBlocked, OneRead, Stopped, Calls, Held,
            ReaderAt, GameAt, InFlight, Pending, InDevice, Ended, Filling, Own,
            BankFree, Tracking, ReaderBusy

\* The drive accepts the stream's read.
LEMMA GameAcceptedControl ==
  ASSUME ReaderOutranks, Typed, Tracking, Control, Pointers, Tracking', StFillRead("game") /\ ~sync_flag
  PROVE  Control'
<1>. USE Types
<1>1. /\ UNCHANGED <<reading, Stm0Callback, stmAlarm, st, bank, call>>
      /\ ~sync_flag /\ sync_flag' = TRUE
      /\ rthread_sema' = 1
      /\ cdread'.lba = st.Stlsn /\ cdread'.ptr = bank["game"]
      /\ pc["game"] = "fillread" /\ pc'["game"] = "idle" /\ ReaderBlocked
      /\ pc'["reader"] = pc["reader"]
  BY GotoEffect DEF StFillRead, AsyncRead, Return, At, Threads, GameLabels,
     ReaderLabels, drive, stream, handover, MayRun
<1>. QED BY <1>1 DEF Control, ReaderBlocked, OneRead, Stopped, Calls, Held,
            ReaderAt, GameAt, InFlight, Pending, InDevice, Ended, Filling, Own,
            BankFree, Tracking, ReaderBusy

\* The same on the reading thread, where no bank is free ...
LEMMA ReaderFullControl ==
  ASSUME ReaderOutranks, Typed, Tracking, Control, Pointers, Tracking', StFillFull("reader")
  PROVE  Control'
<1>. USE Types
<1>1. /\ UNCHANGED <<sync_flag, rthread_sema, cdread, reading, Stm0Callback, stmAlarm, bank, call>>
      /\ Has(st', st.Stlsn, st.StWritePtr, st.StReadPtr, st.StStreamed, st.StStat, FALSE)
      /\ pc'["game"] = pc["game"]
      /\ pc["reader"] = "fillfull" /\ pc'["reader"] = "wait"
  BY GotoEffect, SetReading DEF StFillFull, Return, At, Threads, GameLabels,
     ReaderLabels, drive, handover
<1>. QED BY <1>1 DEF Control, OneRead, Stopped, Calls, Held, ReaderAt, GameAt,
            InFlight, Pending, InDevice, Ended, Filling, Own, BankFree, Has,
            Tracking, ReaderBusy

\* ... or the read is accepted; it cannot be refused.
LEMMA ReaderAcceptedControl ==
  ASSUME ReaderOutranks, Typed, Tracking, Control, Pointers, Tracking', StFillRead("reader") /\ ~sync_flag
  PROVE  Control'
<1>. USE Types
<1>1. /\ UNCHANGED <<reading, Stm0Callback, stmAlarm, st, bank, call>>
      /\ ~sync_flag /\ sync_flag' = TRUE
      /\ rthread_sema' = 1
      /\ cdread'.lba = st.Stlsn /\ cdread'.ptr = bank["reader"]
      /\ pc'["game"] = pc["game"]
      /\ pc["reader"] = "fillread" /\ pc'["reader"] = "wait"
  BY GotoEffect DEF StFillRead, AsyncRead, Return, At, Threads, GameLabels,
     ReaderLabels, drive, stream, handover
<1>. QED BY <1>1 DEF Control, OneRead, Stopped, Calls, Held, ReaderAt, GameAt,
            InFlight, Pending, InDevice, Ended, Filling, Own, BankFree,
            Tracking, ReaderBusy

\* cdvdman_SyncRead ends in the calling thread.
LEMMA AltEventControl ==
  ASSUME ReaderOutranks, Typed, Tracking, Control, Pointers, Tracking', AltEvent
  PROVE  Control'
<1>. USE Types
<1>1. /\ UNCHANGED <<rthread_sema, cdread, reading, Stm0Callback, stmAlarm, st, bank, call>>
      /\ sync_flag' \in {sync_flag, FALSE}
      /\ pc["game"] = "altread" /\ pc'["game"] \in {"altsignal", "altend"} /\ ReaderBlocked
      /\ pc'["reader"] = pc["reader"]
  BY GotoEffect DEF AltEvent, CbEvent, At, Threads, GameLabels, ReaderLabels,
     stream, handover, MayRun
<1>. QED BY <1>1 DEF Control, ReaderBlocked, OneRead, Stopped, Calls, Held,
            ReaderAt, GameAt, InFlight, Pending, InDevice, Ended, Filling, Own,
            BankFree, Tracking, ReaderBusy

\* It clears sync_flag once more.
LEMMA AltEndControl ==
  ASSUME ReaderOutranks, Typed, Tracking, Control, Pointers, Tracking', AltEnd
  PROVE  Control'
<1>. USE Types
<1>1. /\ UNCHANGED <<rthread_sema, cdread, reading, Stm0Callback, stmAlarm, st, bank, call>>
      /\ sync_flag' = FALSE
      /\ pc["game"] = "altend" /\ pc'["game"] = "flag" /\ ReaderBlocked
      /\ pc'["reader"] = pc["reader"]
  BY GotoEffect DEF AltEnd, At, Threads, GameLabels, ReaderLabels, stream,
     handover, MayRun
<1>. QED BY <1>1 DEF Control, ReaderBlocked, OneRead, Stopped, Calls, Held,
            ReaderAt, GameAt, InFlight, Pending, InDevice, Ended, Filling, Own,
            BankFree, Tracking, ReaderBusy

\* The game's thread raises the event.
LEMMA GameSignalControl ==
  ASSUME ReaderOutranks, Typed, Tracking, Control, Pointers, Tracking', GameSignal
  PROVE  Control'
<1>. USE Types
<1>1. /\ UNCHANGED <<sync_flag, rthread_sema, cdread, reading, Stm0Callback, stmAlarm, st, bank, call>>
      /\ \/ pc["game"] = "altsignal" /\ pc'["game"] = "altend"
         \/ pc["game"] = "flag" /\ pc'["game"] = "idle"
      /\ pc'["reader"] = pc["reader"]
  BY GotoEffect DEF GameSignal, At, Threads, GameLabels, ReaderLabels, stream,
     handover
<1>. QED BY <1>1 DEF Control, OneRead, Stopped, Calls, Held, ReaderAt, GameAt,
            InFlight, Pending, InDevice, Ended, Filling, Own, BankFree,
            Tracking, ReaderBusy

\* sceCdSync returns only if the drive is ready: nothing of a stopped or
\* paused stream is in flight any more.
LEMMA SyncCheckControl ==
  ASSUME ReaderOutranks, Typed, Tracking, Control, Pointers, Tracking', SyncCheck
  PROVE  Control'
<1>. USE Types
<1>1. /\ UNCHANGED <<sync_flag, rthread_sema, cdread, reading, Stm0Callback, stmAlarm, st, bank, call>>
      /\ pc["game"] = "sync" /\ pc'["game"] = (IF sync_flag THEN "syncwait" ELSE call.after)
      /\ call.after \in {"idle", "start"}
      /\ pc'["reader"] = pc["reader"]
  BY GotoEffect DEF SyncCheck, CallRecs, At, Threads, GameLabels, ReaderLabels,
     drive, stream, handover
<1>. QED BY <1>1 DEF Control, OneRead, Stopped, Calls, Held, ReaderAt, GameAt,
            InFlight, Pending, InDevice, Ended, Filling, Own, BankFree,
            Tracking, ReaderBusy

\* sceCdSync wakes and looks again.
LEMMA SyncWakeControl ==
  ASSUME ReaderOutranks, Typed, Tracking, Control, Pointers, Tracking', SyncWake
  PROVE  Control'
<1>. USE Types
<1>1. /\ UNCHANGED <<sync_flag, rthread_sema, cdread, reading, Stm0Callback, stmAlarm, st, bank, call>>
      /\ pc["game"] = "syncwait" /\ pc'["game"] = "sync" /\ ReaderBlocked
      /\ pc'["reader"] = pc["reader"]
  BY GotoEffect DEF SyncWake, At, Threads, GameLabels, ReaderLabels, drive,
     stream, handover, MayRun
<1>. QED BY <1>1 DEF Control, ReaderBlocked, OneRead, Stopped, Calls, Held,
            ReaderAt, GameAt, InFlight, Pending, InDevice, Ended, Filling, Own,
            BankFree, Tracking, ReaderBusy

\* A stream starts, after its predecessor's last read has ended.
LEMMA StartedControl ==
  ASSUME ReaderOutranks, Typed, Tracking, Control, Pointers, Tracking', StStarted
  PROVE  Control'
<1>. USE Types
<1>1. /\ UNCHANGED <<sync_flag, rthread_sema, cdread, reading, stmAlarm, bank>>
      /\ Stm0Callback' = TRUE
      /\ Has(st', call.lsn, 0, 0, 0, TRUE, FALSE)
      /\ call'.after = "idle"
      /\ pc["game"] = "start" /\ pc'["game"] = "fill" /\ ReaderBlocked
      /\ pc'["reader"] = pc["reader"]
  BY GotoEffect, StartHas, NoCallIs DEF StStarted, CallRecs, At, Threads,
     GameLabels, ReaderLabels, drive, handover, MayRun
<1>. QED BY <1>1 DEF Control, ReaderBlocked, OneRead, Stopped, Calls, Held,
            ReaderAt, GameAt, InFlight, Pending, InDevice, Ended, Filling, Own,
            BankFree, Has, Tracking, ReaderBusy

\* A stream stops; a read of it may be in flight until sceCdSync returns.
LEMMA StoppedControl ==
  ASSUME ReaderOutranks, Typed, Tracking, Control, Pointers, Tracking', StStopped
  PROVE  Control'
<1>. USE Types
<1>1. /\ UNCHANGED <<sync_flag, rthread_sema, cdread, reading, stmAlarm, bank, call>>
      /\ Stm0Callback' = FALSE
      /\ Has(st', st.Stlsn, 0, 0, 0, FALSE, FALSE)
      /\ pc["game"] = "stop" /\ pc'["game"] = "sync" /\ ReaderBlocked
      /\ pc'["reader"] = pc["reader"]
  BY GotoEffect, StopHas DEF StStopped, At, Threads, GameLabels, ReaderLabels,
     drive, handover, MayRun
<1>. QED BY <1>1 DEF Control, ReaderBlocked, OneRead, Stopped, Calls, Held,
            ReaderAt, GameAt, InFlight, Pending, InDevice, Ended, Filling, Own,
            BankFree, Has, Tracking, ReaderBusy

\* So does a stream that is paused.
LEMMA PausedControl ==
  ASSUME ReaderOutranks, Typed, Tracking, Control, Pointers, Tracking', StPaused
  PROVE  Control'
<1>. USE Types
<1>1. /\ UNCHANGED <<sync_flag, rthread_sema, cdread, reading, stmAlarm, bank, call>>
      /\ Stm0Callback' = FALSE
      /\ Has(st', st.Stlsn, st.StWritePtr, st.StReadPtr, st.StStreamed, st.StStat, FALSE)
      /\ pc["game"] = "pause" /\ pc'["game"] = "sync" /\ ReaderBlocked
      /\ pc'["reader"] = pc["reader"]
  BY GotoEffect, SetReading DEF StPaused, At, Threads, GameLabels, ReaderLabels,
     drive, handover, MayRun
<1>. QED BY <1>1 DEF Control, ReaderBlocked, OneRead, Stopped, Calls, Held,
            ReaderAt, GameAt, InFlight, Pending, InDevice, Ended, Filling, Own,
            BankFree, Has, Tracking, ReaderBusy

\* sceCdStRead waits for the event and clears it.
LEMMA ReadWaitControl ==
  ASSUME ReaderOutranks, Typed, Tracking, Control, Pointers, Tracking', StReadWait \/ StReadClear
  PROVE  Control'
<1>. USE Types
<1>1. /\ UNCHANGED <<sync_flag, rthread_sema, cdread, reading, Stm0Callback, stmAlarm, st, bank, call>>
      /\ pc["game"] \in {"rdwait", "rdclear"} /\ pc'["game"] \in {"rdclear", "rdcopy"}
      /\ pc'["reader"] = pc["reader"]
  BY GotoEffect DEF StReadWait, StReadClear, At, Threads, GameLabels,
     ReaderLabels, drive, stream, handover
<1>. QED BY <1>1 DEF Control, OneRead, Stopped, Calls, Held, ReaderAt, GameAt,
            InFlight, Pending, InDevice, Ended, Filling, Own, BankFree,
            Tracking, ReaderBusy

\* The game reads.
LEMMA sceCdReadControl ==
  ASSUME ReaderOutranks, Typed, Tracking, Control, Pointers, Tracking', sceCdRead /\ ~altRead
  PROVE  Control'
<1>. USE Types
<1>1. /\ UNCHANGED <<reading, Stm0Callback, stmAlarm, st, bank, call>>
      /\ ~sync_flag /\ sync_flag' = TRUE
      /\ rthread_sema' = 1
      /\ cdread'.ptr = NoBank
      /\ pc["game"] = "idle" /\ pc'["game"] = "idle" /\ ReaderBlocked
      /\ pc'["reader"] = pc["reader"]
  BY GotoEffect DEF sceCdRead, AsyncRead, At, Threads, GameLabels, ReaderLabels,
     stream, handover, MayRun, Call
<1>. QED BY <1>1 DEF Control, ReaderBlocked, OneRead, Stopped, Calls, Held,
            ReaderAt, GameAt, InFlight, Pending, InDevice, Ended, Filling, Own,
            BankFree, Tracking, ReaderBusy

\* It reads with IOPCORE_COMPAT_ALT_READ.
LEMMA sceCdAltReadControl ==
  ASSUME ReaderOutranks, Typed, Tracking, Control, Pointers, Tracking', sceCdRead /\ altRead
  PROVE  Control'
<1>. USE Types
<1>1. /\ UNCHANGED <<rthread_sema, cdread, reading, Stm0Callback, stmAlarm, st, bank, call>>
      /\ ~sync_flag /\ sync_flag' = TRUE
      /\ pc["game"] = "idle" /\ pc'["game"] = "altread" /\ ReaderBlocked
      /\ pc'["reader"] = pc["reader"]
  BY GotoEffect DEF sceCdRead, AsyncRead, At, Threads, GameLabels, ReaderLabels,
     stream, handover, MayRun, Call
<1>. QED BY <1>1 DEF Control, ReaderBlocked, OneRead, Stopped, Calls, Held,
            ReaderAt, GameAt, InFlight, Pending, InDevice, Ended, Filling, Own,
            BankFree, Tracking, ReaderBusy

\* It uses another command.
LEMMA CommandControl ==
  ASSUME ReaderOutranks, Typed, Tracking, Control, Pointers, Tracking', NCommand \/ sceCdStandby
  PROVE  Control'
<1>. USE Types
<1>1. /\ UNCHANGED <<rthread_sema, cdread, reading, Stm0Callback, stmAlarm, st, bank, call>>
      /\ sync_flag' \in {sync_flag, FALSE}
      /\ pc["game"] = "idle" /\ pc'["game"] \in {"flag", "idle"} /\ ReaderBlocked
      /\ pc'["reader"] = pc["reader"]
  BY GotoEffect DEF NCommand, sceCdStandby, CbEvent, At, Threads, GameLabels,
     ReaderLabels, stream, handover, MayRun, Call
<1>. QED BY <1>1 DEF Control, ReaderBlocked, OneRead, Stopped, Calls, Held,
            ReaderAt, GameAt, InFlight, Pending, InDevice, Ended, Filling, Own,
            BankFree, Tracking, ReaderBusy

\* It sets or removes its callback.
LEMMA CallbackControl ==
  ASSUME ReaderOutranks, Typed, Tracking, Control, Pointers, Tracking', sceCdCallback
  PROVE  Control'
<1>. USE Types
<1>1. /\ UNCHANGED <<sync_flag, rthread_sema, cdread, reading, Stm0Callback, stmAlarm, st, bank, call>>
      /\ pc["game"] = "idle" /\ pc'["game"] = "idle" /\ ReaderBlocked
      /\ pc'["reader"] = pc["reader"]
  BY GotoEffect DEF sceCdCallback, At, Threads, GameLabels, ReaderLabels, drive,
     stream, handover, MayRun, Call
<1>. QED BY <1>1 DEF Control, ReaderBlocked, OneRead, Stopped, Calls, Held,
            ReaderAt, GameAt, InFlight, Pending, InDevice, Ended, Filling, Own,
            BankFree, Tracking, ReaderBusy

\* It calls sceCdSync.
LEMMA SyncControl ==
  ASSUME ReaderOutranks, Typed, Tracking, Control, Pointers, Tracking', sceCdSync
  PROVE  Control'
<1>. USE Types
<1>1. /\ UNCHANGED <<sync_flag, rthread_sema, cdread, reading, Stm0Callback, stmAlarm, st, bank, call>>
      /\ pc["game"] = "idle" /\ pc'["game"] = "sync" /\ ReaderBlocked
      /\ pc'["reader"] = pc["reader"]
  BY GotoEffect DEF sceCdSync, At, Threads, GameLabels, ReaderLabels, drive,
     stream, handover, MayRun, Call
<1>. QED BY <1>1 DEF Control, ReaderBlocked, OneRead, Stopped, Calls, Held,
            ReaderAt, GameAt, InFlight, Pending, InDevice, Ended, Filling, Own,
            BankFree, Tracking, ReaderBusy

\* It initialises the stream: nothing of the last one is in flight.
LEMMA InitControl ==
  ASSUME ReaderOutranks, Typed, Tracking, Control, Pointers, Tracking', sceCdStInit
  PROVE  Control'
<1>. USE Types
<1>1. /\ UNCHANGED <<sync_flag, rthread_sema, cdread, reading, Stm0Callback, bank, call>>
      /\ stmAlarm' = FALSE
      /\ ~st.StStat /\ Has(st', st.Stlsn, 0, 0, 0, st.StStat, FALSE)
      /\ pc["game"] = "idle" /\ pc'["game"] = "idle" /\ ReaderBlocked
      /\ pc'["reader"] = pc["reader"]
  BY GotoEffect, ResetHas DEF sceCdStInit, At, Threads, GameLabels,
     ReaderLabels, drive, handover, MayRun, Call
<1>. QED BY <1>1 DEF Control, ReaderBlocked, OneRead, Stopped, Calls, Held,
            ReaderAt, GameAt, InFlight, Pending, InDevice, Ended, Filling, Own,
            BankFree, Has, Tracking, ReaderBusy

\* It begins to stop the stream ...
LEMMA StopControl ==
  ASSUME ReaderOutranks, Typed, Tracking, Control, Pointers, Tracking', sceCdStStop
  PROVE  Control'
<1>. USE Types
<1>1. /\ UNCHANGED <<sync_flag, rthread_sema, cdread, reading, Stm0Callback, bank, call>>
      /\ stmAlarm' = FALSE
      /\ st.StStat /\ st' = st
      /\ pc["game"] = "idle" /\ pc'["game"] = "stop" /\ ReaderBlocked
      /\ pc'["reader"] = pc["reader"]
  BY GotoEffect DEF sceCdStStop, At, Threads, GameLabels, ReaderLabels, drive,
     handover, MayRun, Call
<1>. QED BY <1>1 DEF Control, ReaderBlocked, OneRead, Stopped, Calls, Held,
            ReaderAt, GameAt, InFlight, Pending, InDevice, Ended, Filling, Own,
            BankFree, Tracking, ReaderBusy

\* ... or to pause it.
LEMMA PauseControl ==
  ASSUME ReaderOutranks, Typed, Tracking, Control, Pointers, Tracking', sceCdStPause
  PROVE  Control'
<1>. USE Types
<1>1. /\ UNCHANGED <<sync_flag, rthread_sema, cdread, reading, Stm0Callback, bank, call>>
      /\ stmAlarm' = FALSE
      /\ st.StStat /\ st' = st
      /\ pc["game"] = "idle" /\ pc'["game"] = "pause" /\ ReaderBlocked
      /\ pc'["reader"] = pc["reader"]
  BY GotoEffect DEF sceCdStPause, At, Threads, GameLabels, ReaderLabels, drive,
     handover, MayRun, Call
<1>. QED BY <1>1 DEF Control, ReaderBlocked, OneRead, Stopped, Calls, Held,
            ReaderAt, GameAt, InFlight, Pending, InDevice, Ended, Filling, Own,
            BankFree, Tracking, ReaderBusy

\* It resumes the stream.
LEMMA ResumeControl ==
  ASSUME ReaderOutranks, Typed, Tracking, Control, Pointers, Tracking', sceCdStResume
  PROVE  Control'
<1>. USE Types
<1>1. /\ UNCHANGED <<sync_flag, rthread_sema, cdread, reading, stmAlarm, bank, call>>
      /\ Stm0Callback' = TRUE
      /\ st.StStat /\ st' = st
      /\ pc["game"] = "idle" /\ pc'["game"] = "fill" /\ ReaderBlocked
      /\ pc'["reader"] = pc["reader"]
  BY GotoEffect DEF sceCdStResume, At, Threads, GameLabels, ReaderLabels, drive,
     handover, MayRun, Call
<1>. QED BY <1>1 DEF Control, ReaderBlocked, OneRead, Stopped, Calls, Held,
            ReaderAt, GameAt, InFlight, Pending, InDevice, Ended, Filling, Own,
            BankFree, Tracking, ReaderBusy

\* It starts a stream; one that runs is stopped first.
LEMMA StartControl ==
  ASSUME ReaderOutranks, Typed, Tracking, Control, Pointers, Tracking', NEW lsn \in StartLsns, sceCdStStart(lsn)
  PROVE  Control'
<1>. USE Types
<1>1. /\ UNCHANGED <<sync_flag, rthread_sema, cdread, reading, Stm0Callback, st, bank>>
      /\ stmAlarm' = IF st.StStat THEN FALSE ELSE stmAlarm
      /\ call'.after = "start"
      /\ pc["game"] = "idle" /\ pc'["game"] = IF st.StStat THEN "stop" ELSE "start"
      /\ pc'["reader"] = pc["reader"]
  BY GotoEffect, StartCallIs, CallAssumption DEF sceCdStStart, At, Threads,
     GameLabels, ReaderLabels, drive, handover, Call
<1>. QED BY <1>1 DEF Control, OneRead, Stopped, Calls, Held, ReaderAt, GameAt,
            InFlight, Pending, InDevice, Ended, Filling, Own, BankFree,
            Tracking, ReaderBusy

\* It asks for sectors.
LEMMA ReadControl ==
  ASSUME ReaderOutranks, Typed, Tracking, Control, Pointers, Tracking', NEW n \in Requests, NEW b \in BOOLEAN, NEW e \in BOOLEAN, sceCdStRead(n, b, e)
  PROVE  Control'
<1>. USE Types
<1>1. /\ UNCHANGED <<sync_flag, rthread_sema, cdread, reading, Stm0Callback, stmAlarm, bank>>
      /\ st.StStat /\ st' = st
      /\ call'.after = "idle"
      /\ pc["game"] = "idle" /\ pc'["game"] = "rdwait" /\ ReaderBlocked
      /\ pc'["reader"] = pc["reader"]
  <2>1. n \in Nat
    BY CallAssumption
  <2>2. call'.after = "idle"
    BY <2>1, ReadCallIs DEF sceCdStRead
  <2>. QED BY <2>2, GotoEffect DEF sceCdStRead, At, Threads, GameLabels,
              ReaderLabels, stream, handover, MayRun, Call
<1>. QED BY <1>1 DEF Control, ReaderBlocked, OneRead, Stopped, Calls, Held,
            ReaderAt, GameAt, InFlight, Pending, InDevice, Ended, Filling, Own,
            BankFree, Tracking, ReaderBusy

\* It receives sectors.
LEMMA DeliverControl ==
  ASSUME ReaderOutranks, Typed, Tracking, Control, Pointers, Tracking', ReaderBlocked, pc["game"] \in {"rdcopy", "rddma"},
         NEW n \in Nat, n <= st.StStreamed, NEW p \in 0 .. StBufmax - 1, Deliver(n, p),
         UNCHANGED <<drive, handover, reading, Stm0Callback, stmAlarm, bank>>
  PROVE  Control'
<1>. USE Types
<1>1. /\ UNCHANGED <<sync_flag, rthread_sema, cdread, reading, Stm0Callback, stmAlarm, bank>>
      /\ Has(st', st.Stlsn, st.StWritePtr, p, st.StStreamed - n, st.StStat, st.StIsReading)
      /\ call'.after \in {call.after, "idle"}
      /\ pc'["game"] \in {"rdwait", "fill"} /\ st.StStreamed \in Nat
      /\ pc'["reader"] = pc["reader"]
  <2>1. Has(st', st.Stlsn, st.StWritePtr, p, st.StStreamed - n, st.StStat, st.StIsReading)
    BY DeliverHas DEF Deliver
  <2>2. call'.after \in {call.after, "idle"}
    BY LeftIs, NoCallIs DEF Deliver
  <2>. QED BY <2>1, <2>2, GotoEffect DEF Deliver, Streams, Threads, GameLabels,
              ReaderLabels, drive, handover
<1>. QED BY <1>1, RingSize, SMTT(30) DEF Control, OneRead, Stopped, Calls, Held, ReaderAt,
            GameAt, InFlight, Pending, InDevice, Ended, Filling, Own, BankFree,
            Has, Tracking, ReaderBusy

\* It waits for the DMA of what it has copied.
LEMMA DmaControl ==
  ASSUME ReaderOutranks, Typed, Tracking, Control, Pointers, Tracking', StReadCopy, call.ee /\ Copied(call.left) > 0
  PROVE  Control'
<1>. USE Types
<1>1. /\ UNCHANGED <<sync_flag, rthread_sema, cdread, reading, Stm0Callback, stmAlarm, st, bank>>
      /\ call'.after = call.after
      /\ pc["game"] = "rdcopy" /\ pc'["game"] = "rddma" /\ ReaderBlocked
      /\ pc'["reader"] = pc["reader"]
  <2>1. Copied(call.left) \in Nat /\ ReadPtrAfter(call.left) \in 0 .. StBufmax - 1
    BY CopyIsFifo DEF Pointers, CallRecs
  <2>2. call'.after = call.after
    <3>. DEFINE n == Copied(call.left)
                p == ReadPtrAfter(call.left)
    <3>1. call' = [call EXCEPT !.copied = n, !.rdptr = p]
      BY DEF StReadCopy
    <3>2. n \in Nat /\ p \in 0 .. StBufmax - 1 /\ call \in CallRecs
      BY <2>1
    <3>. HIDE DEF n, p
    <3>3. [call EXCEPT !.copied = n, !.rdptr = p].after = call.after
      BY ONLY <3>2, Zenon DEF CallRecs
    <3>. QED BY ONLY <3>1, <3>3, Zenon
  <2>. QED BY <2>2, GotoEffect DEF StReadCopy, At, Threads, GameLabels,
              ReaderLabels, drive, handover, MayRun
<1>. QED BY <1>1 DEF Control, ReaderBlocked, OneRead, Stopped, Calls, Held,
            ReaderAt, GameAt, InFlight, Pending, InDevice, Ended, Filling, Own,
            BankFree, Tracking, ReaderBusy

-----------------------------------------------------------------------------
(* Pointers and data                                                       *)

\* The labels of the reading thread between the device's answer and the
\* counting of the bank.
HasRead == {"done", "signalstm", "stm"}

\* The step leaves alone what Pointers and Data are about.
Still ==
  /\ st'.Stlsn = st.Stlsn /\ st'.StWritePtr = st.StWritePtr /\ st'.StReadPtr = st.StReadPtr
  /\ st'.StStreamed = st.StStreamed /\ st'.StStat = st.StStat
  /\ UNCHANGED <<nextLsn, ring, reading>>
  /\ pc'["reader"] \in HasRead => pc["reader"] \in HasRead
  /\ pc'["game"] = "rddma" => pc["game"] = "rddma" /\ UNCHANGED call

\* A step that leaves the stream's place, the ring and the read in progress
\* alone keeps Pointers and Data.
LEMMA StillKeeps ==
  ASSUME Pointers, Data, Still PROVE Pointers' /\ Data'
BY DEF Still, Pointers, InStep, Data, HasRead

\* Setting or resetting StIsReading leaves the rest of the stream alone.
LEMMA OnlyReading ==
  ASSUME NEW s \in Streams, NEW u,
         u = s \/ u = [s EXCEPT !.StIsReading = TRUE] \/ u = [s EXCEPT !.StIsReading = FALSE]
  PROVE  /\ u.Stlsn = s.Stlsn /\ u.StWritePtr = s.StWritePtr /\ u.StReadPtr = s.StReadPtr
         /\ u.StStreamed = s.StStreamed /\ u.StStat = s.StStat
<1>1. CASE u = s  BY <1>1
<1>2. CASE u = [s EXCEPT !.StIsReading = TRUE]  BY <1>2 DEF Streams
<1>3. CASE u = [s EXCEPT !.StIsReading = FALSE]  BY <1>3 DEF Streams
<1>. QED BY <1>1, <1>2, <1>3

\* Filling changes only StIsReading, the alarm and the hand-over.
LEMMA FillIsStill ==
  ASSUME Typed, NEW t \in Threads, Fill(t) PROVE Still
<1>. USE DEF drive, cb, stream, history, handover, bounds, HasRead
<1>1. /\ st' = st \/ st' = [st EXCEPT !.StIsReading = TRUE] \/ st' = [st EXCEPT !.StIsReading = FALSE]
      /\ UNCHANGED <<nextLsn, ring, reading, call>>
  BY DEF Fill, StFill, StFillFull, StFillRead, StFillFail, StReschedule
<1>2. PICK l \in Filling \cup {"idle", "wait"} : Goto(t, l)
  BY DEF Fill, StFill, StFillFull, StFillRead, StFillFail, StReschedule,
     Filling, Return
<1>3. /\ pc'["reader"] \in HasRead => pc["reader"] \in HasRead
      /\ pc'["game"] = "rddma" => pc["game"] = "rddma"
  BY <1>2, Types, GotoEffect DEF Filling, Threads, GameLabels, ReaderLabels
<1>4. /\ st'.Stlsn = st.Stlsn /\ st'.StWritePtr = st.StWritePtr
      /\ st'.StReadPtr = st.StReadPtr /\ st'.StStreamed = st.StStreamed /\ st'.StStat = st.StStat
  BY ONLY <1>1, Types, Typed, OnlyReading
<1>. QED BY <1>1, <1>3, <1>4 DEF Still

\* The end of a read changes no bank.
LEMMA ReaderIsStill ==
  ASSUME Typed, ReaderDone \/ ReaderSignal \/ (StmCallback /\ ~st.StIsReading) PROVE Still
<1>. USE Types DEF drive, cb, stream, history, handover, bounds, HasRead
<1>1. UNCHANGED <<st, nextLsn, ring, reading, call>>
  BY DEF ReaderDone, ReaderSignal, StmCallback
<1>2. pc["reader"] \in HasRead \cup {"signal"}
  BY DEF ReaderDone, ReaderSignal, StmCallback, At
<1>3. PICK l \in {"signalstm", "signal", "wait", "stm", "fill"} :
         Goto("reader", l) /\ (pc["reader"] = "signal" => l = "wait")
  BY DEF ReaderDone, CbEvent, ReaderSignal, StmCallback, At
<1>4. /\ pc'["reader"] \in HasRead => pc["reader"] \in HasRead
      /\ pc'["game"] = pc["game"]
  BY <1>2, <1>3, GotoEffect DEF Threads, GameLabels, ReaderLabels
<1>. QED BY <1>1, <1>4 DEF Still

\* Alarms change no bank.
LEMMA AlarmIsStill ==
  ASSUME Typed, EventAlarm \/ StmScheduleCb PROVE Still
<1>. USE Types DEF drive, cb, stream, history, handover, bounds, HasRead
<1>1. /\ st' = st \/ st' = [st EXCEPT !.StIsReading = TRUE]
      /\ UNCHANGED <<nextLsn, ring, reading, call, pc>>
  BY DEF EventAlarm, StmScheduleCb
<1>2. /\ st'.Stlsn = st.Stlsn /\ st'.StWritePtr = st.StWritePtr
      /\ st'.StReadPtr = st.StReadPtr /\ st'.StStreamed = st.StStreamed /\ st'.StStat = st.StStat
  BY ONLY <1>1, Types, Typed, OnlyReading
<1>. QED BY <1>1, <1>2 DEF Still

\* Most steps of the game's calls are still.
LEMMA GameStepIsStill ==
  ASSUME Typed, AltEvent \/ AltEnd \/ GameSignal \/ SyncCheck \/ SyncWake \/ StPaused
                \/ StReadWait \/ StReadClear
  PROVE  Still
<1>. USE Types DEF drive, cb, stream, history, handover, bounds, HasRead
<1>1. /\ st' = st \/ st' = [st EXCEPT !.StIsReading = FALSE]
      /\ UNCHANGED <<nextLsn, ring, reading, call>>
  BY DEF AltEvent, AltEnd, GameSignal, SyncCheck, SyncWake, StPaused,
     StReadWait, StReadClear
<1>2. PICK l \in GameLabels \ {"rddma"} : Goto("game", l)
  BY DEF AltEvent, CbEvent, AltEnd, GameSignal, SyncCheck, SyncWake, StPaused,
     StReadWait, StReadClear, CallRecs, GameLabels
<1>3. pc'["reader"] = pc["reader"] /\ pc'["game"] # "rddma"
  BY <1>2, GotoEffect DEF Threads
<1>4. /\ st'.Stlsn = st.Stlsn /\ st'.StWritePtr = st.StWritePtr
      /\ st'.StReadPtr = st.StReadPtr /\ st'.StStreamed = st.StStreamed /\ st'.StStat = st.StStat
  BY ONLY <1>1, Types, Typed, OnlyReading
<1>. QED BY <1>1, <1>3, <1>4 DEF Still

\* So are the calls, except sceCdStInit.
LEMMA GameCallIsStill ==
  ASSUME Typed, GameCall, ~sceCdStInit PROVE Still
<1>. USE Types DEF drive, cb, stream, history, handover, bounds, HasRead
<1>1. UNCHANGED <<st, nextLsn, ring, reading>> /\ pc["game"] = "idle"
  BY DEF GameCall, sceCdRead, NCommand, sceCdStandby, sceCdCallback, sceCdSync,
     sceCdStStop, sceCdStPause, sceCdStResume, sceCdStStart, sceCdStRead, Call,
     At
<1>2. pc' = pc \/ \E l \in GameLabels \ {"rddma"} : Goto("game", l)
  BY DEF GameCall, sceCdRead, NCommand, sceCdStandby, CbEvent, sceCdCallback,
     sceCdSync, sceCdStStop, sceCdStPause, sceCdStResume, sceCdStStart,
     sceCdStRead, GameLabels
<1>3. pc'["reader"] = pc["reader"] /\ pc'["game"] # "rddma"
  BY <1>1, <1>2, GotoEffect DEF Threads
<1>. QED BY <1>1, <1>3 DEF Still

\* The first bank.
LEMMA ZeroBank == 0 \in Banks
<1>1. 0 \in 0 .. StBankmax - 1 /\ 0 = 0 * StBanksize
  BY RingAssumption
<1>. QED BY <1>1 DEF Banks

\* Initialising, starting and stopping leave an empty ring.
LEMMA EmptyRing ==
  ASSUME ReaderOutranks, Typed, sceCdStInit \/ StStarted \/ StStopped
  PROVE  Pointers' /\ Data'
<1>. USE Types DEF drive, cb, stream, history, handover, bounds
<1>1. CASE sceCdStInit
  <2>1. Has(st', st.Stlsn, 0, 0, 0, st.StStat, FALSE) /\ ~st.StStat
    BY <1>1, ResetHas DEF sceCdStInit
  <2>2. pc' = pc /\ pc["game"] = "idle"
    BY <1>1 DEF sceCdStInit, Call, At
  <2>. QED BY <2>1, <2>2, ZeroBank, RingSize DEF Has, Pointers, InStep, Data
<1>2. CASE StStarted
  <2>1. Has(st', call.lsn, 0, 0, 0, TRUE, FALSE) /\ nextLsn' = call.lsn /\ call.lsn \in Nat
    BY <1>2, StartHas DEF StStarted, CallRecs
  <2>2. pc'["game"] = "fill" /\ pc'["reader"] \in {"wait", "transfer"}
    BY <1>2, GotoEffect DEF StStarted, At, MayRun, ReaderBlocked, Threads,
       GameLabels
  <2>. QED BY <2>1, <2>2, ZeroBank, RingSize DEF Has, Pointers, InStep, Data
<1>3. CASE StStopped
  <2>1. Has(st', st.Stlsn, 0, 0, 0, FALSE, FALSE)
    BY <1>3, StopHas DEF StStopped
  <2>2. pc'["game"] = "sync"
    BY <1>3, GotoEffect DEF StStopped, Threads, GameLabels
  <2>. QED BY <2>1, <2>2, ZeroBank, RingSize DEF Has, Pointers, InStep, Data
<1>. QED BY <1>1, <1>2, <1>3

\* A free bank overlaps no sector that is counted and not yet delivered.
LEMMA FreeBank ==
  ASSUME Typed, Pointers, BankFree, NEW i \in 0 .. st.StStreamed - 1
  PROVE  /\ Pos(st.StReadPtr + i) \in 0 .. StBufmax - 1
         /\ Pos(st.StReadPtr + i) \notin Slots(st.StWritePtr)
<1>. DEFINE w == st.StWritePtr
            r == st.StReadPtr
            c == st.StStreamed
<1>1. /\ w \in Nat /\ r \in Nat /\ c \in Nat /\ r < StBufmax /\ w < StBufmax
      /\ r + c = w \/ r + c = w + StBufmax
      /\ c + StBanksize <= StBufmax
  BY Types, RingSize DEF Streams, Pointers, InStep, BankFree
<1>. HIDE DEF w, r, c
<1>2. i \in 0 .. c - 1
  BY DEF c
<1>3. Pos(r + i) \in 0 .. StBufmax - 1 /\ Pos(r + i) \notin w .. w + StBanksize - 1
  BY <1>1, <1>2, RingSize DEF Pos
<1>. QED BY <1>3 DEF r, w, Slots

\* The device writes only where no counted sector is.
LEMMA KeepsCounted ==
  ASSUME Typed, Control, Pointers, st.StStat, ReaderWake \/ DeviceReads \/ DeviceFails,
         NEW i \in 0 .. st.StStreamed - 1
  PROVE  ring'[Pos(st.StReadPtr + i)] = ring[Pos(st.StReadPtr + i)]
<1>. DEFINE q == Pos(st.StReadPtr + i)
<1>1. q \in 0 .. StBufmax - 1
  BY Types, RingSize DEF Pos, Pointers, InStep, Streams
<1>2. ring \in [0 .. StBufmax - 1 -> Nat \cup {Failed, Partial}]
  BY Types
<1>3. CASE ReaderWake
  <2>1. cdread.ptr # NoBank => BankFree /\ cdread.ptr = st.StWritePtr
    BY <1>3 DEF ReaderWake, Control, Held, InFlight, Pending, Own
  <2>2. cdread.ptr # NoBank => q \notin Slots(cdread.ptr)
    BY <2>1, FreeBank
  <2>. HIDE DEF q
  <2>3. ring'[q] = ring[q]
    BY <1>1, <1>2, <1>3, <2>2 DEF ReaderWake
  <2>. QED BY <2>3 DEF q
<1>4. CASE DeviceReads \/ DeviceFails
  <2>1. reading.ptr # NoBank => BankFree /\ reading.ptr = st.StWritePtr
    BY <1>4 DEF DeviceReads, DeviceFails, DeviceAnswers, At, Control, Held, InFlight,
       InDevice, Own
  <2>2. reading.ptr # NoBank => q \notin Slots(reading.ptr)
    BY <2>1, FreeBank
  <2>. HIDE DEF q
  <2>3. ring'[q] = ring[q]
    BY <1>1, <1>2, <1>4, <2>2 DEF DeviceReads, DeviceFails, DeviceAnswers
  <2>. QED BY <2>3 DEF q
<1>. QED BY <1>3, <1>4

\* The device begins to write into a free bank, or into a buffer of the game.
LEMMA WakeData ==
  ASSUME Typed, Control, Pointers, Data, ReaderWake
  PROVE  Pointers' /\ Data'
<1>. USE Types
<1>1. UNCHANGED <<st, nextLsn, call>> /\ pc'["game"] = pc["game"] /\ pc'["reader"] = "transfer"
  BY GotoEffect DEF ReaderWake, stream, history, Threads, ReaderLabels
<1>2. Pointers'
  BY <1>1 DEF Pointers
<1>3. ASSUME st.StStat, NEW i \in 0 .. st.StStreamed - 1
      PROVE  ring'[Pos(st.StReadPtr + i)] \in {nextLsn + i, Failed}
  <2>1. ring'[Pos(st.StReadPtr + i)] = ring[Pos(st.StReadPtr + i)]
    BY <1>3, KeepsCounted
  <2>. QED BY <1>3, <2>1 DEF Data
<1>. QED BY <1>1, <1>2, <1>3 DEF Data

\* The device has filled the bank with the sectors that follow the counted
\* ones, or has failed.
LEMMA AnswerData ==
  ASSUME Typed, Control, Pointers, Data, DeviceReads \/ DeviceFails
  PROVE  Pointers' /\ Data'
<1>. USE Types
<1>1. /\ UNCHANGED <<st, nextLsn, call, reading>> /\ pc'["game"] = pc["game"]
      /\ pc["reader"] = "transfer" /\ pc'["reader"] = "done"
  BY GotoEffect DEF DeviceReads, DeviceFails, DeviceAnswers, At, stream,
     history, Threads, ReaderLabels
<1>2. Pointers'
  BY <1>1 DEF Pointers
<1>3. PICK ok \in BOOLEAN :
        ring' = [i \in DOMAIN ring |->
                IF reading.ptr # NoBank /\ i \in Slots(reading.ptr)
                THEN IF ok THEN reading.lba + (i - reading.ptr) ELSE Failed
                ELSE ring[i]]
  BY DEF DeviceReads, DeviceFails, DeviceAnswers
<1>4. st.StStat /\ reading.ptr # NoBank => BankFree /\ reading.ptr = st.StWritePtr
  BY <1>1 DEF Control, Held, InFlight, InDevice, Own
<1>5. ASSUME st.StStat, NEW i \in 0 .. st.StStreamed - 1
      PROVE  ring'[Pos(st.StReadPtr + i)] \in {nextLsn + i, Failed}
  <2>1. ring'[Pos(st.StReadPtr + i)] = ring[Pos(st.StReadPtr + i)]
    BY <1>5, KeepsCounted
  <2>. QED BY <1>5, <2>1 DEF Data
<1>6. ASSUME st.StStat, reading.ptr # NoBank, NEW k \in 0 .. StBanksize - 1
      PROVE  ring'[reading.ptr + k] \in {reading.lba + k, Failed}
  <2>1. st.StWritePtr + StBanksize <= StBufmax /\ st.StWritePtr \in Nat
    BY NextBank DEF Pointers
  <2>2. reading.ptr + k \in 0 .. StBufmax - 1 /\ reading.ptr + k \in Slots(reading.ptr)
    BY <1>4, <1>6, <2>1, RingSize DEF Slots
  <2>3. (reading.ptr + k) - reading.ptr = k
    BY <1>4, <1>6, <2>1, RingSize
  <2>. QED BY <1>3, <1>6, <2>2, <2>3
<1>. QED BY <1>1, <1>2, <1>5, <1>6 DEF Data

\* The bank that is counted continues the stream.
LEMMA CountData ==
  ASSUME Typed, Control, Pointers, Data, Tracking', StmCallback, st.StIsReading
  PROVE  Pointers' /\ Data'
<1>. USE Types
<1>1. OwnRead
  BY Zenon DEF StmCallback, Tracking
<1>2. /\ UNCHANGED <<nextLsn, call, reading, ring>> /\ pc'["game"] = pc["game"]
      /\ pc["reader"] = "stm" /\ pc'["reader"] = "fill"
  BY GotoEffect DEF StmCallback, At, Threads, ReaderLabels
<1>3. Ended /\ reading.lba = st.Stlsn /\ reading.ptr = st.StWritePtr /\ reading.ptr # NoBank
  BY <1>1, <1>2 DEF OwnRead, Ended, Streams, NoBank
<1>4. BankFree
  BY <1>3 DEF Control, Held
<1>5. Has(st', st.Stlsn + StBanksize, Wrap(st.StWritePtr + StBanksize), st.StReadPtr,
          st.StStreamed + StBanksize, st.StStat, FALSE)
  BY CountHas DEF StmCallback, Pointers
<1>. DEFINE w == st.StWritePtr
            r == st.StReadPtr
            c == st.StStreamed
<1>6. /\ w \in Nat /\ r \in Nat /\ c \in Nat /\ r < StBufmax /\ w < StBufmax
      /\ r + c = w \/ r + c = w + StBufmax
      /\ c + StBanksize <= StBufmax /\ w + StBanksize <= StBufmax
      /\ Wrap(w + StBanksize) = IF w + StBanksize = StBufmax THEN 0 ELSE w + StBanksize
      /\ Wrap(w + StBanksize) \in Banks
  BY <1>4, NextBank, RingSize DEF Streams, Pointers, InStep, BankFree
<1>7. Pointers'
  <2>1. pc["game"] # "rddma" \/ /\ call.copied <= st.StStreamed /\ call.copied \in Nat
                                /\ call.rdptr = Pos(st.StReadPtr + call.copied)
    BY DEF Pointers, CallRecs
  <2>2. InStep(st')
    <3>1. /\ c + StBanksize <= StBufmax
          /\ r + (c + StBanksize) \in {Wrap(w + StBanksize), Wrap(w + StBanksize) + StBufmax}
      <4>. DEFINE v == Wrap(w + StBanksize)
      <4>1. v = IF w + StBanksize = StBufmax THEN 0 ELSE w + StBanksize
        BY <1>6
      <4>. HIDE DEF v, w, r, c
      <4>2. c + StBanksize <= StBufmax /\ (r + (c + StBanksize) = v \/ r + (c + StBanksize) = v + StBufmax)
        BY <1>6, <4>1, RingSize
      <4>. QED BY <4>2 DEF v
    <3>. QED BY <1>5, <3>1 DEF Has, InStep
  <2>. QED BY <1>2, <1>5, <1>6, <2>1, <2>2, RingSize DEF Has, Pointers
<1>8. ASSUME st.StStat, NEW i \in 0 .. c + StBanksize - 1
      PROVE  ring[Pos(r + i)] \in {nextLsn + i, Failed}
  <2>1. CASE i < c
    <3>1. i \in 0 .. st.StStreamed - 1
      BY <1>6, <1>8, <2>1, RingSize
    <3>. QED BY <1>8, <3>1 DEF Data
  <2>2. CASE i >= c
    <3>. DEFINE k == i - c
    <3>1. k \in 0 .. StBanksize - 1 /\ Pos(r + i) = w + k /\ nextLsn + i = (nextLsn + c) + k
      <4>. HIDE DEF w, r, c
      <4>. QED BY <1>6, <1>8, <2>2, RingSize DEF Pos
    <3>2. ring[reading.ptr + k] \in {reading.lba + k, Failed}
      BY <1>2, <1>3, <1>8, <3>1 DEF Data
    <3>3. reading.lba = nextLsn + c
      BY <1>3, <1>8 DEF Data
    <3>. QED BY <1>3, <3>1, <3>2, <3>3
  <2>. QED BY <1>6, <1>8, <2>1, <2>2, RingSize
<1>9. st.StStat => st'.Stlsn = nextLsn + st'.StStreamed
  BY <1>5, <1>6, RingSize DEF Has, Data
<1>10. st.StStat => \A i \in 0 .. st'.StStreamed - 1 :
                      ring'[Pos(st'.StReadPtr + i)] \in {nextLsn' + i, Failed}
  <2>. SUFFICES ASSUME st.StStat, NEW i \in 0 .. st'.StStreamed - 1
                PROVE  ring'[Pos(st'.StReadPtr + i)] \in {nextLsn' + i, Failed}
    OBVIOUS
  <2>0. st'.StStreamed = c + StBanksize /\ st'.StReadPtr = r
    BY <1>5 DEF Has
  <2>1. i \in 0 .. c + StBanksize - 1
    BY <1>6, <2>0, RingSize
  <2>2. ring[Pos(r + i)] \in {nextLsn + i, Failed}
    BY <1>8, <2>1
  <2>. QED BY <1>2, <2>0, <2>2
<1>11. st'.StStat = st.StStat
  BY <1>5 DEF Has
<1>. QED BY <1>2, <1>7, <1>9, <1>10, <1>11 DEF Data

\* What is delivered is the beginning of the stream.
LEMMA DeliverData ==
  ASSUME Typed, Pointers, Data, NEW n, NEW p, Hands(n, p), Deliver(n, p),
         pc["reader"] \notin HasRead, UNCHANGED <<ring, reading>>
  PROVE  Pointers' /\ Data'
<1>. USE Types
<1>1. Has(st', st.Stlsn, st.StWritePtr, p, st.StStreamed - n, st.StStat, st.StIsReading)
  BY DeliverHas DEF Deliver, Hands
<1>2. pc'["game"] # "rddma" /\ pc'["reader"] = pc["reader"] /\ nextLsn' = nextLsn + n
  BY GotoEffect DEF Deliver, Threads, GameLabels
<1>. DEFINE w == st.StWritePtr
            r == st.StReadPtr
            c == st.StStreamed
<1>3. /\ w \in Nat /\ r \in Nat /\ c \in Nat /\ r < StBufmax /\ w < StBufmax
      /\ r + c = w \/ r + c = w + StBufmax
      /\ c <= StBufmax /\ n \in Nat /\ n <= c /\ p = Pos(r + n)
  BY RingSize DEF Streams, Pointers, InStep, Hands
<1>4. Pointers'
  <2>1. InStep(st')
    <3>1. c - n <= StBufmax /\ p + (c - n) \in {w, w + StBufmax}
      <4>. HIDE DEF w, r, c
      <4>. QED BY <1>3, RingSize DEF Pos
    <3>. QED BY <1>1, <3>1 DEF Has, InStep
  <2>. QED BY <1>1, <1>2, <2>1 DEF Has, Pointers
<1>5. ASSUME st.StStat, NEW i \in 0 .. (c - n) - 1
      PROVE  ring[Pos(p + i)] \in {(nextLsn + n) + i, Failed}
  <2>1. n + i \in 0 .. c - 1 /\ Pos(p + i) = Pos(r + (n + i)) /\ (nextLsn + n) + i = nextLsn + (n + i)
    <3>. HIDE DEF w, r, c
    <3>. QED BY <1>3, <1>5, RingSize DEF Pos
  <2>. QED BY <1>5, <2>1 DEF Data
<1>6. st.StStat => st.Stlsn = (nextLsn + n) + (c - n)
  BY <1>3 DEF Data
<1>. QED BY <1>1, <1>2, <1>4, <1>5, <1>6 DEF Data, Has, HasRead

\* The copy for the EE is on hand until its DMA has ended.
LEMMA DmaData ==
  ASSUME ReaderOutranks, Typed, Pointers, Data, StReadCopy, call.ee, Copied(call.left) > 0
  PROVE  Pointers' /\ Data'
<1>. USE Types DEF drive, cb, handover, bounds
<1>. DEFINE n == Copied(call.left)
            p == ReadPtrAfter(call.left)
<1>1. Hands(n, p)
  BY CopyHands
<1>2. call' = [call EXCEPT !.copied = n, !.rdptr = p] /\ UNCHANGED <<st, nextLsn, ring, reading>>
  BY DEF StReadCopy
<1>3. pc'["reader"] = pc["reader"]
  BY GotoEffect DEF StReadCopy, Threads, GameLabels
<1>. HIDE DEF n, p
<1>4. call'.copied = n /\ call'.rdptr = p
  BY <1>2, Zenon DEF CallRecs
<1>. QED BY <1>1, <1>2, <1>3, <1>4 DEF Pointers, Data, Hands

-----------------------------------------------------------------------------
(* The theorems                                                            *)

\* The initial states satisfy the invariant.
LEMMA InitHolds == Init => IInv
<1>. SUFFICES ASSUME Init PROVE IInv
  OBVIOUS
<1>. DEFINE s == [Stlsn |-> 0, StWritePtr |-> 0, StReadPtr |-> 0, StStreamed |-> 0,
           StStat |-> FALSE, StIsReading |-> FALSE]
<1>1. Has(s, 0, 0, 0, 0, FALSE, FALSE)
  BY RingSize DEF Has, Streams
<1>2. st = s
  BY DEF Init
<1>. HIDE DEF s
<1>3. Has(st, 0, 0, 0, 0, FALSE, FALSE)
  BY <1>1, <1>2
<1>4. pc["game"] = "idle" /\ pc["reader"] = "wait" /\ rthread_sema = 0 /\ call = NoCall
  BY DEF Init, Return, Threads
<1>5. Booleans
  BY DEF Init, Booleans
<1>6. Places
  BY DEF Init, Places, Return, Threads, GameLabels, ReaderLabels
<1>7. Records
  BY <1>3, NoCallIs DEF Init, Records, Has, Reads
<1>8. Values
  BY RingSize, CallAssumption DEF Init, Values
<1>9. Control
  BY <1>3, <1>4, NoCallIs DEF Init, Control, OneRead, Stopped, Calls, Held,
     ReaderAt, GameAt, InFlight, Pending, InDevice, Ended, Filling, Has
<1>10. Pointers /\ Data
  BY <1>3, <1>4, ZeroBank, RingSize DEF Pointers, InStep, Data, Has
<1>. QED BY <1>5, <1>6, <1>7, <1>8, <1>9, <1>10 DEF IInv, Typed

\* Every step keeps Control.
LEMMA ControlHolds ==
  ASSUME ReaderOutranks, Typed, Tracking, Control, Pointers, Tracking', Next
  PROVE  Control'
<1>1. CASE Reader
  BY <1>1, WakeControl, AnswerControl, DoneStreamControl, DoneControl,
     SignalControl, CountControl,
     NoCountControl DEF Reader
<1>2. CASE EventAlarm \/ StmScheduleCb
  BY <1>2, AlarmControl, ScheduleControl
<1>3. CASE Fill("game")
  BY <1>3, GameFillControl, GameFullControl, GameRefusedControl,
     GameAcceptedControl, GameFailControl,
     GameRescheduleControl DEF Fill
<1>4. CASE Fill("reader")
  <2>1. ~StFillFail("reader") /\ ~StReschedule("reader") /\ ~(StFillRead("reader") /\ sync_flag)
    BY DEF StFillFail, StReschedule, StFillRead, At, Control, ReaderAt
  <2>. QED BY <1>4, <2>1, ReaderFillControl, ReaderFullControl,
              ReaderAcceptedControl DEF Fill
<1>5. CASE GameStep
  <2>1. CASE (StReadCopy /\ ~(call.ee /\ Copied(call.left) > 0)) \/ StReadDma
    <3>1. PICK n, p : Hands(n, p) /\ Deliver(n, p)
      BY <2>1, DeliversFifo
    <3>2. /\ ReaderBlocked /\ pc["game"] \in {"rdcopy", "rddma"}
          /\ UNCHANGED <<drive, handover, reading, Stm0Callback, stmAlarm, bank>>
      BY <2>1 DEF StReadCopy, StReadDma, At, MayRun
    <3>. QED BY <3>1, <3>2, DeliverControl DEF Hands
  <2>2. CASE StReadCopy /\ call.ee /\ Copied(call.left) > 0
    BY <2>2, DmaControl
  <2>. QED BY <1>5, <2>1, <2>2, AltEventControl, AltEndControl,
              GameSignalControl, SyncCheckControl,
          SyncWakeControl, StartedControl, StoppedControl, PausedControl, ReadWaitControl DEF GameStep
<1>6. CASE GameCall
  BY <1>6, sceCdReadControl, sceCdAltReadControl, CommandControl,
     CallbackControl, SyncControl,
     InitControl, StopControl, PauseControl, ResumeControl, StartControl, ReadControl DEF GameCall
<1>. QED BY <1>1, <1>2, <1>3, <1>4, <1>5, <1>6 DEF Next, Threads

\* Every step keeps Pointers and Data.
LEMMA DataHolds ==
  ASSUME ReaderOutranks, Typed, Tracking, Control, Pointers, Data, Tracking', Next
  PROVE  Pointers' /\ Data'
<1>1. CASE Reader
  BY <1>1, WakeData, AnswerData, CountData, ReaderIsStill, StillKeeps DEF Reader
<1>2. CASE EventAlarm \/ StmScheduleCb
  BY <1>2, AlarmIsStill, StillKeeps
<1>3. ASSUME NEW t \in Threads, Fill(t) PROVE Pointers' /\ Data'
  BY <1>3, FillIsStill, StillKeeps
<1>4. CASE GameStep
  <2>1. CASE (StReadCopy /\ ~(call.ee /\ Copied(call.left) > 0)) \/ StReadDma
    <3>1. PICK n, p : Hands(n, p) /\ Deliver(n, p)
      BY <2>1, DeliversFifo
    <3>2. pc["reader"] \notin HasRead /\ UNCHANGED <<ring, reading>>
      BY <2>1 DEF StReadCopy, StReadDma, At, MayRun, ReaderBlocked, HasRead
    <3>. QED BY <3>1, <3>2, DeliverData
  <2>2. CASE StReadCopy /\ call.ee /\ Copied(call.left) > 0
    BY <2>2, DmaData
  <2>. QED BY <1>4, <2>1, <2>2, GameStepIsStill, StillKeeps, EmptyRing DEF
              GameStep
<1>5. CASE GameCall
  BY <1>5, GameCallIsStill, StillKeeps, EmptyRing
<1>. QED BY <1>1, <1>2, <1>3, <1>4, <1>5 DEF Next

\* Every step keeps the invariant.
LEMMA StepHolds ==
  ASSUME ReaderOutranks, IInv, [Next]_vars
  PROVE  IInv'
<1>1. CASE Next
  <2>1. Tracking /\ Typed /\ Control /\ Pointers /\ Data
    BY <1>1 DEF Next, IInv
  <2>. QED BY <1>1, <2>1, TypedHolds, ControlHolds, DataHolds DEF IInv
<1>2. CASE UNCHANGED vars
  <2>. USE <1>2 DEF vars, drive, cb, handover, stream, history, bounds
  <2>1. Typed' <=> Typed
    BY DEF Typed, Booleans, Places, Records, Values
  <2>2. Tracking' <=> Tracking
    BY DEF Tracking, ReaderBusy
  <2>3. Control' <=> Control
    BY DEF Control, OneRead, Stopped, Calls, Held, ReaderAt, GameAt, InFlight,
       Pending, InDevice, Ended, Own, BankFree
  <2>4. (Pointers' <=> Pointers) /\ (Data' <=> Data)
    BY DEF Pointers, Data
  <2>. QED BY <2>1, <2>2, <2>3, <2>4 DEF IInv
<1>. QED BY <1>1, <1>2

\* The invariant holds in every reachable state if the reading thread
\* outranks the threads that call the driver.
THEOREM Invariance == ASSUME ReaderOutranks PROVE Spec => []IInv
<1>1. Init => IInv
  BY InitHolds
<1>2. IInv /\ [Next]_vars => IInv'
  BY StepHolds
<1>. QED BY <1>1, <1>2, PTL DEF Spec

\* For a ring of any size and any requests: the pointers stay inside the ring
\* and StWritePtr is StStreamed sectors ahead of StReadPtr, and a read copies
\* exactly what is there, across the end of the ring too.
THEOREM PointersStayInStep == ASSUME ReaderOutranks PROVE Spec => []PointersInStep
<1>1. IInv => PointersInStep
  <2>. SUFFICES ASSUME IInv PROVE PointersInStep
    OBVIOUS
  <2>1. Typed /\ TypeOK
    BY TypedIsTypeOK DEF IInv
  <2>2. ASSUME Tracking
        PROVE  /\ st.StStreamed <= StBufmax
               /\ (st.StReadPtr + st.StStreamed - st.StWritePtr) % StBufmax = 0
               /\ \A n \in Requests : /\ Copied(n) = Min({n, st.StStreamed})
                                      /\ ReadPtrAfter(n) = (st.StReadPtr + Copied(n)) % StBufmax
    <3>1. st \in Streams /\ InStep(st)
      BY <2>1, <2>2, Types DEF IInv, Pointers
    <3>2. /\ st.StStreamed \in Nat /\ st.StReadPtr \in Nat /\ st.StWritePtr \in Nat
          /\ st.StReadPtr < StBufmax /\ st.StStreamed <= StBufmax
      BY <3>1, RingSize DEF Streams, InStep
    <3>3. st.StReadPtr + st.StStreamed - st.StWritePtr \in {0, StBufmax, -StBufmax}
      BY <3>1, <3>2, RingSize DEF InStep
    <3>4. ASSUME NEW n \in Requests
          PROVE  /\ Copied(n) = Min({n, st.StStreamed})
                 /\ ReadPtrAfter(n) = (st.StReadPtr + Copied(n)) % StBufmax
      <4>1. n \in Nat
        BY CallAssumption
      <4>. DEFINE c == Copied(n)
      <4>2. /\ c = IF n <= st.StStreamed THEN n ELSE st.StStreamed
            /\ c \in Nat /\ ReadPtrAfter(n) = Pos(st.StReadPtr + c)
        BY <3>1, <4>1, CopyIsFifo
      <4>. HIDE DEF c
      <4>3. c = Min({n, st.StStreamed})
        BY <3>2, <4>1, <4>2, MinOfTwo
      <4>4. st.StReadPtr + c \in Nat /\ st.StReadPtr + c < 2 * StBufmax
        BY <3>2, <4>1, <4>2, RingSize
      <4>5. (st.StReadPtr + c) % StBufmax = Pos(st.StReadPtr + c)
        BY <4>4, PosIsMod
      <4>. QED BY <4>2, <4>3, <4>5 DEF c
    <3>. QED BY <3>2, <3>3, <3>4, MultipleOfRing
  <2>. QED BY <2>1, <2>2 DEF PointersInStep
<1>. QED BY <1>1, Invariance, PTL

\* For a ring of any size: the counted sectors are the next sectors of the
\* stream, in order and complete (or lost to a device error), whatever the
\* reading thread is writing and whoever has started, paused or sought in
\* between.
THEOREM StreamIsInOrder == ASSUME ReaderOutranks PROVE Spec => []RingHoldsStream
<1>1. IInv => RingHoldsStream
  <2>. SUFFICES ASSUME IInv, Tracking, st.StStat
                PROVE  /\ st.Stlsn = nextLsn + st.StStreamed
                       /\ \A i \in 0 .. st.StStreamed - 1 :
                            ring[(st.StReadPtr + i) % StBufmax] \in {nextLsn + i, Failed}
    BY DEF RingHoldsStream
  <2>1. Data /\ st \in Streams /\ InStep(st)
    BY Types DEF IInv, Pointers
  <2>2. ASSUME NEW i \in 0 .. st.StStreamed - 1
        PROVE  (st.StReadPtr + i) % StBufmax = Pos(st.StReadPtr + i)
    <3>1. st.StReadPtr + i \in Nat /\ st.StReadPtr + i < 2 * StBufmax
      BY <2>1, RingSize DEF Streams, InStep
    <3>. QED BY <3>1, PosIsMod
  <2>. QED BY <2>1, <2>2 DEF Data
<1>. QED BY <1>1, Invariance, PTL

\* When sceCdStStop has returned, no read, no hand-over and no alarm is left
\* that would write into the ring the game has taken back.
THEOREM StoppedIsQuiet == ASSUME ReaderOutranks PROVE Spec => []QuietAfterStop
<1>1. IInv => QuietAfterStop
  BY Types DEF IInv, QuietAfterStop, Control, Stopped, Held, InFlight, Pending,
     InDevice
<1>. QED BY <1>1, Invariance, PTL

-----------------------------------------------------------------------------
(* The stream as the game sees it                                          *)

\* Where the game's thread is in sceCdStRead.
InRead == {"rdwait", "rdclear", "rdcopy", "rddma"}
\* The locals of sceCdStRead are set while it runs and only then, and a
\* transfer to the EE is never empty.
Asking ==
  /\ pc["game"] \in InRead => call.left > 0
  /\ pc["game"] \notin InRead => call.left = 0 /\ call.block = FALSE
  /\ pc["game"] = "rddma" => call.copied > 0

\* What the ring r holds for the sectors that s counts, from sector n on.
Sectors(s, n, r) ==
  [l \in n .. n + s.StStreamed - 1 |-> r[Pos(s.StReadPtr + (l - n))]]
\* The mapping in terms of StStreamed and Pos.
Mapped ==
  /\ st.StStat => /\ First = nextLsn /\ End = nextLsn + st.StStreamed
                  /\ Taken = IF pc["game"] = "rddma" THEN nextLsn + call.copied ELSE nextLsn
                  /\ Contents = Sectors(st, nextLsn, ring)
  /\ ~st.StStat => First = 0 /\ Taken = 0 /\ End = 0 /\ Contents = << >>

\* In a state of the invariant the refinement mapping has this form.
LEMMA MappingIs == Typed /\ Pointers /\ Data => Mapped
<1>. SUFFICES ASSUME Typed, Pointers, Data PROVE Mapped
  OBVIOUS
<1>1. CASE st.StStat
  <2>1. st \in Streams /\ InStep(st) /\ nextLsn \in Nat /\ st.Stlsn = nextLsn + st.StStreamed
    BY <1>1, Types DEF Pointers, Data
  <2>. DEFINE c == st.StStreamed
              r == st.StReadPtr
  <2>2. c \in Nat /\ r \in Nat /\ r < StBufmax /\ c <= StBufmax
    BY <2>1, RingSize DEF Streams, InStep
  <2>3. First = nextLsn /\ End = nextLsn + c
    BY <1>1, <2>1 DEF First, End
  <2>4. ASSUME NEW l \in nextLsn .. nextLsn + c - 1
        PROVE  (r + (l - nextLsn)) % StBufmax = Pos(r + (l - nextLsn))
    <3>. HIDE DEF c, r
    <3>1. r + (l - nextLsn) \in Nat /\ r + (l - nextLsn) < 2 * StBufmax
      BY <2>1, <2>2, RingSize
    <3>. QED BY <3>1, PosIsMod
  <2>5. Contents = Sectors(st, nextLsn, ring)
    <3>1. Contents = [l \in nextLsn .. nextLsn + c - 1 |-> ring[(r + (l - nextLsn)) % StBufmax]]
      <4>1. First .. End - 1 = nextLsn .. nextLsn + c - 1
        BY <2>1, <2>2, <2>3
      <4>. QED BY <4>1, Zenon DEF Contents
    <3>2. @ = [l \in nextLsn .. nextLsn + c - 1 |-> ring[Pos(r + (l - nextLsn))]]
      BY <2>4, Zenon
    <3>. QED BY <3>1, <3>2, Zenon DEF Sectors
  <2>. QED BY <1>1, <2>3, <2>5 DEF Mapped, Taken
<1>2. CASE ~st.StStat
  <2>1. First = 0 /\ End = 0 /\ Taken = 0
    BY <1>2 DEF First, End, Taken
  <2>2. Contents = << >>
    BY <2>1 DEF Contents
  <2>. QED BY <1>2, <2>1, <2>2 DEF Mapped
<1>. QED BY <1>1, <1>2

\* The locals of sceCdStRead when it begins ...
LEMMA ReadLocals ==
  ASSUME NEW n, NEW b, NEW ee
  PROVE  /\ [NoCall EXCEPT !.left = n, !.block = b, !.ee = ee].left = n
         /\ [NoCall EXCEPT !.left = n, !.block = b, !.ee = ee].block = b
BY DEF NoCall

\* ... and when it goes on, or waits for a transfer.
LEMMA MoreLocals ==
  ASSUME NEW c \in CallRecs, NEW n, NEW p
  PROVE  /\ [c EXCEPT !.left = @ - n].left = c.left - n
         /\ [c EXCEPT !.left = @ - n].block = c.block
         /\ [c EXCEPT !.copied = n, !.rdptr = p].copied = n
         /\ [c EXCEPT !.copied = n, !.rdptr = p].left = c.left
         /\ [c EXCEPT !.copied = n, !.rdptr = p].block = c.block
BY DEF CallRecs

\* Other calls ask for nothing.
LEMMA OtherLocals ==
  ASSUME NEW l
  PROVE  /\ NoCall.left = 0 /\ NoCall.block = FALSE
         /\ [NoCall EXCEPT !.after = "start", !.lsn = l].left = 0
         /\ [NoCall EXCEPT !.after = "start", !.lsn = l].block = FALSE
BY DEF NoCall

\* A step that neither asks for nor delivers sectors.
Passive ==
  /\ Still
  /\ call'.left = call.left /\ call'.block = call.block
  /\ pc'["game"] \in InRead <=> pc["game"] \in InRead
  /\ pc'["game"] = "rddma" <=> pc["game"] = "rddma"

\* Such a step changes nothing of what the call asks for.
LEMMA PassiveAsking == ASSUME Asking, Passive PROVE Asking'
BY DEF Asking, Passive, Still

\* To the game such a step is invisible.
LEMMA PassiveIsInvisible ==
  ASSUME Mapped, Mapped', Tracking, Tracking', Passive
  PROVE  UNCHANGED Fifo!fvars
<1>1. Sectors(st', nextLsn', ring') = Sectors(st, nextLsn, ring)
  BY DEF Passive, Still, Sectors
<1>2. First' = First /\ End' = End /\ Contents' = Contents
  BY <1>1 DEF Mapped, Passive, Still
<1>3. Taken' = Taken
  BY DEF Mapped, Passive, Still
<1>. QED BY <1>2, <1>3 DEF Fifo!fvars, Passive, Still

\* Filling, ...
LEMMA FillIsPassive ==
  ASSUME Typed, NEW t \in Threads, Fill(t) PROVE Passive
<1>1. Still
  BY FillIsStill
<1>2. UNCHANGED call
  BY DEF Fill, StFill, StFillFull, StFillRead, StFillFail, StReschedule
<1>3. PICK l \in Filling \cup {"idle", "wait"} : Goto(t, l) /\ pc[t] \in Filling
  BY DEF Fill, StFill, StFillFull, StFillRead, StFillFail, StReschedule,
     Filling, Return, At
<1>4. /\ pc'["game"] \in InRead <=> pc["game"] \in InRead
      /\ pc'["game"] = "rddma" <=> pc["game"] = "rddma"
  BY <1>3, Types, GotoEffect DEF Filling, Threads, GameLabels, ReaderLabels, InRead
<1>. QED BY <1>1, <1>2, <1>4 DEF Passive

\* ... the reading thread, unless it writes or counts a bank, ...
LEMMA ReaderIsPassive ==
  ASSUME Typed, ReaderDone \/ ReaderSignal \/ (StmCallback /\ ~st.StIsReading) PROVE Passive
<1>1. Still
  BY ReaderIsStill
<1>2. UNCHANGED call
  BY DEF ReaderDone, ReaderSignal, StmCallback
<1>3. PICK l \in {"signalstm", "signal", "wait", "stm", "fill"} : Goto("reader", l)
  BY DEF ReaderDone, CbEvent, ReaderSignal, StmCallback
<1>4. pc'["game"] = pc["game"]
  BY <1>3, Types, GotoEffect DEF Threads, GameLabels, ReaderLabels
<1>. QED BY <1>1, <1>2, <1>4 DEF Passive

\* ... the alarms ...
LEMMA AlarmIsPassive ==
  ASSUME Typed, EventAlarm \/ StmScheduleCb PROVE Passive
<1>1. Still
  BY AlarmIsStill
<1>2. UNCHANGED <<call, pc>>
  BY DEF EventAlarm, StmScheduleCb
<1>. QED BY <1>1, <1>2 DEF Passive

\* ... and most steps of the game's calls are passive.
LEMMA GameStepIsPassive ==
  ASSUME Typed, AltEvent \/ AltEnd \/ GameSignal \/ SyncCheck \/ SyncWake \/ StPaused
                \/ StReadWait \/ StReadClear
  PROVE  Passive
<1>1. Still
  BY GameStepIsStill
<1>2. UNCHANGED call
  BY DEF AltEvent, AltEnd, GameSignal, SyncCheck, SyncWake, StPaused,
     StReadWait, StReadClear
<1>3. CASE StReadWait \/ StReadClear
  <2>1. pc["game"] \in {"rdwait", "rdclear"}
    BY <1>3 DEF StReadWait, StReadClear, At
  <2>2. PICK l \in {"rdclear", "rdcopy"} : Goto("game", l)
    BY <1>3 DEF StReadWait, StReadClear
  <2>3. pc'["game"] = l
    BY <2>2, Types, GotoEffect DEF Threads, GameLabels
  <2>. QED BY <1>1, <1>2, <2>1, <2>3 DEF Passive, InRead
<1>4. CASE ~(StReadWait \/ StReadClear)
  <2>1. pc["game"] \in GameLabels \ InRead
    BY <1>4 DEF AltEvent, AltEnd, GameSignal, SyncCheck, SyncWake, StPaused, At,
       GameLabels, InRead
  <2>2. PICK l \in GameLabels \ InRead : Goto("game", l)
    BY <1>4, Types DEF AltEvent, CbEvent, AltEnd, GameSignal, SyncCheck, SyncWake,
       StPaused, GameLabels, InRead, CallRecs
  <2>3. pc'["game"] = l
    BY <2>2, Types, GotoEffect DEF Threads
  <2>. QED BY <1>1, <1>2, <2>1, <2>3 DEF Passive, InRead
<1>. QED BY <1>3, <1>4

\* So are the calls, except sceCdStInit and sceCdStRead.
LEMMA GameCallIsPassive ==
  ASSUME Typed, Asking, GameCall, ~sceCdStInit,
         \A n \in Requests, b, ee \in BOOLEAN : ~sceCdStRead(n, b, ee)
  PROVE  Passive
<1>1. Still
  BY GameCallIsStill
<1>2. pc["game"] = "idle" /\ call.left = 0 /\ call.block = FALSE
  BY DEF GameCall, sceCdRead, NCommand, sceCdStandby, sceCdCallback, sceCdSync,
     sceCdStStop, sceCdStPause, sceCdStResume, sceCdStStart, Call,
     At, Asking, InRead
<1>3. call'.left = call.left /\ call'.block = call.block
  <2>1. call' = call \/ \E lsn \in StartLsns : call' = [NoCall EXCEPT !.after = "start", !.lsn = lsn]
    BY DEF GameCall, sceCdRead, NCommand, sceCdStandby, sceCdCallback, sceCdSync,
       sceCdStStop, sceCdStPause, sceCdStResume, sceCdStStart
  <2>. QED BY <1>2, <2>1, OtherLocals
<1>4. pc' = pc \/ \E l \in GameLabels \ InRead : Goto("game", l)
  BY DEF GameCall, sceCdRead, NCommand, sceCdStandby, CbEvent, sceCdCallback,
     sceCdSync, sceCdStStop, sceCdStPause, sceCdStResume, sceCdStStart,
     GameLabels, InRead
<1>5. pc'["game"] \notin InRead
  BY <1>2, <1>4, Types, GotoEffect DEF Threads, InRead
<1>. QED BY <1>1, <1>2, <1>3, <1>5 DEF Passive, InRead

\* What the device does is invisible to the game.
LEMMA DeviceIsInvisible ==
  ASSUME Typed, Control, Pointers, Asking, Mapped, Mapped', Tracking, Tracking',
         ReaderWake \/ DeviceReads \/ DeviceFails
  PROVE  UNCHANGED Fifo!fvars /\ Asking'
<1>1. UNCHANGED <<st, nextLsn, call>> /\ pc'["game"] = pc["game"]
  BY Types, GotoEffect DEF ReaderWake, DeviceReads, DeviceFails, DeviceAnswers, stream,
     history, Threads, ReaderLabels
<1>2. st.StStat => Sectors(st, nextLsn, ring') = Sectors(st, nextLsn, ring)
  <2>. SUFFICES ASSUME st.StStat
                PROVE  Sectors(st, nextLsn, ring') = Sectors(st, nextLsn, ring)
    OBVIOUS
  <2>. DEFINE S == nextLsn .. nextLsn + st.StStreamed - 1
  <2>1. ASSUME NEW l \in S
        PROVE  ring'[Pos(st.StReadPtr + (l - nextLsn))] = ring[Pos(st.StReadPtr + (l - nextLsn))]
    <3>1. l - nextLsn \in 0 .. st.StStreamed - 1
      BY Types DEF Streams
    <3>. QED BY <3>1, KeepsCounted
  <2>. HIDE DEF S
  <2>2. [l \in S |-> ring'[Pos(st.StReadPtr + (l - nextLsn))]]
          = [l \in S |-> ring[Pos(st.StReadPtr + (l - nextLsn))]]
    BY <2>1, Zenon
  <2>. QED BY <2>2, Zenon DEF Sectors, S
<1>3. First' = First /\ End' = End /\ Taken' = Taken
  BY <1>1 DEF First, End, Taken
<1>4. Contents' = Contents
  BY <1>1, <1>2 DEF Mapped
<1>5. Asking'
  BY <1>1 DEF Asking
<1>. QED BY <1>1, <1>3, <1>4, <1>5 DEF Fifo!fvars

\* sceCdStInit finds no stream and starts none.
LEMMA InitIsInvisible ==
  ASSUME Typed, Asking, Mapped, Mapped', Tracking, Tracking', sceCdStInit
  PROVE  UNCHANGED Fifo!fvars /\ Asking'
<1>1. st.StStat = FALSE /\ st'.StStat = FALSE
  BY Types, ResetHas DEF sceCdStInit, Has, Streams
<1>2. UNCHANGED <<pc, call>>
  BY DEF sceCdStInit
<1>. QED BY <1>1, <1>2 DEF Mapped, Asking, Fifo!fvars

\* A stream starts empty, ...
LEMMA StartedStarts ==
  ASSUME Typed, Control, Asking, Mapped', Tracking, Tracking', StStarted
  PROVE  Fifo!Start /\ Asking'
<1>1. /\ Has(st', call.lsn, 0, 0, 0, TRUE, FALSE) /\ nextLsn' = call.lsn /\ call.lsn \in Nat
      /\ call' = NoCall
  BY Types, StartHas DEF StStarted, CallRecs
<1>2. pc["game"] = "start" /\ pc'["game"] = "fill"
  BY Types, GotoEffect DEF StStarted, At, Threads, GameLabels
<1>3. st.StStat = FALSE
  BY <1>2, Types DEF Control, Calls, Streams
<1>4. st'.StStat = TRUE /\ st'.StStreamed = 0
  BY <1>1 DEF Has
<1>5. Sectors(st', nextLsn', ring') = << >>
  BY <1>1, <1>4 DEF Sectors
<1>6. First' = call.lsn /\ Taken' = call.lsn /\ End' = call.lsn /\ Contents' = << >>
  BY <1>1, <1>2, <1>4, <1>5 DEF Mapped
<1>7. call.left = 0 /\ call.block = FALSE /\ call'.left = 0 /\ call'.block = FALSE
  BY <1>1, <1>2, OtherLocals DEF Asking, InRead
<1>8. Asking'
  BY <1>2, <1>7 DEF Asking, InRead
<1>. QED BY <1>1, <1>3, <1>4, <1>6, <1>7, <1>8 DEF Fifo!Start

\* ... and is stopped between calls of sceCdStRead.
LEMMA StoppedStops ==
  ASSUME Typed, Control, Asking, Mapped', Tracking, Tracking', StStopped
  PROVE  Fifo!Stop /\ Asking'
<1>1. st'.StStat = FALSE /\ call' = call
  BY Types, StopHas DEF StStopped, Has
<1>2. pc["game"] = "stop" /\ pc'["game"] = "sync"
  BY Types, GotoEffect DEF StStopped, At, Threads, GameLabels
<1>3. st.StStat = TRUE
  BY <1>2, Types DEF Control, Calls, Streams
<1>4. First' = 0 /\ Taken' = 0 /\ End' = 0 /\ Contents' = << >>
  BY <1>1 DEF Mapped
<1>5. Asking' /\ call.left = 0
  BY <1>1, <1>2 DEF Asking, InRead
<1>. QED BY <1>1, <1>3, <1>4, <1>5 DEF Fifo!Stop

\* sceCdStRead asks.
LEMMA ReadRequests ==
  ASSUME Typed, Asking, Mapped, Mapped', Tracking, Tracking',
         NEW n \in Requests, NEW b \in BOOLEAN, NEW ee \in BOOLEAN, sceCdStRead(n, b, ee)
  PROVE  Fifo!Request /\ Asking'
<1>1. /\ UNCHANGED <<st, nextLsn, ring>> /\ st.StStat
      /\ call' = [NoCall EXCEPT !.left = n, !.block = b, !.ee = ee]
  BY DEF sceCdStRead, stream
<1>2. pc["game"] = "idle" /\ pc'["game"] = "rdwait"
  BY Types, GotoEffect DEF sceCdStRead, Call, At, Threads, GameLabels
<1>3. call'.left = n /\ call'.block = b /\ n \in Nat \ {0}
  BY <1>1, ReadLocals, CallAssumption
<1>4. call.left = 0
  BY <1>2 DEF Asking, InRead
<1>5. First' = First /\ End' = End /\ Contents' = Contents /\ Taken' = Taken
  BY <1>1, <1>2 DEF Mapped
<1>6. Asking'
  BY <1>2, <1>3 DEF Asking, InRead
<1>. QED BY <1>1, <1>3, <1>4, <1>5, <1>6 DEF Fifo!Request

\* A bank that StmCallback counts lies in free places and holds the sectors
\* that follow, or some that the device failed to read.
LEMMA CountsReadAhead ==
  ASSUME Typed, Control, Pointers, Data', Mapped, Mapped', Asking, Tracking, Tracking',
         StmCallback, st.StIsReading
  PROVE  Fifo!ReadAhead /\ Asking'
<1>. DEFINE c == st.StStreamed
            r == st.StReadPtr
            e == nextLsn + c
            B == StBanksize
            v(l) == ring[Pos(r + (l - nextLsn))]
<1>1. UNCHANGED <<nextLsn, call, ring>> /\ pc'["game"] = pc["game"] /\ pc["reader"] = "stm"
  BY Types, GotoEffect DEF StmCallback, At, Threads, ReaderLabels
<1>2. st.StStat = TRUE
  BY Types DEF Control, Stopped, Streams
<1>3. /\ c \in Nat /\ r \in Nat /\ B \in Nat \ {0} /\ nextLsn \in Nat /\ StBufmax \in Nat
      /\ e \in Nat
  BY Types, RingSize, RingAssumption DEF Streams
<1>4. c + B <= StBufmax
  <2>1. OwnRead
    BY Zenon DEF StmCallback, Tracking
  <2>2. Ended
    BY <1>1, <2>1, Types DEF OwnRead, Ended, Streams, NoBank
  <2>. QED BY <1>3, <2>2 DEF Control, Held, BankFree
<1>5. /\ st'.StStreamed = c + B /\ st'.StReadPtr = r /\ st'.StStat = TRUE
      /\ st' \in Streams
  BY <1>2, Types, CountHas DEF StmCallback, Pointers, Has
<1>6. /\ First = nextLsn /\ First' = nextLsn /\ End = e /\ End' = nextLsn + (c + B)
      /\ Taken' = Taken
  BY <1>1, <1>2, <1>5 DEF Mapped
<1>7. Contents = [l \in nextLsn .. e - 1 |-> v(l)]
  <2>1. Contents = Sectors(st, nextLsn, ring)
    BY <1>2 DEF Mapped
  <2>2. nextLsn .. nextLsn + c - 1 = nextLsn .. e - 1
    BY <1>3
  <2>. QED BY <2>1, <2>2, Zenon DEF Sectors
<1>8. Contents' = [l \in nextLsn .. nextLsn + (c + B) - 1 |-> v(l)]
  <2>1. Contents' = Sectors(st', nextLsn, ring)
    BY <1>1, <1>5 DEF Mapped
  <2>. QED BY <1>5, <2>1, Zenon DEF Sectors
<1>9. \A l \in e .. e + B - 1 : v(l) \in {l, Failed}
  <2>. SUFFICES ASSUME NEW l \in e .. e + B - 1 PROVE v(l) \in {l, Failed}
    OBVIOUS
  <2>1. l - nextLsn \in 0 .. st'.StStreamed - 1 /\ nextLsn + (l - nextLsn) = l
    BY <1>3, <1>5
  <2>2. ring'[Pos(st'.StReadPtr + (l - nextLsn))] \in {nextLsn' + (l - nextLsn), Failed}
    BY <1>5, <2>1 DEF Data
  <2>. QED BY <1>1, <1>5, <2>1, <2>2
<1>. DEFINE bad == {l \in e .. e + B - 1 : v(l) = Failed}
<1>10. nextLsn .. nextLsn + (c + B) - 1 = nextLsn .. e + B - 1 /\ nextLsn + (c + B) = e + B
  BY <1>3
<1>11. \A l \in nextLsn .. e + B - 1 :
         v(l) = IF l < e THEN Contents[l] ELSE IF l \in bad THEN Failed ELSE l
  <2>. SUFFICES ASSUME NEW l \in nextLsn .. e + B - 1
                PROVE  v(l) = IF l < e THEN Contents[l] ELSE IF l \in bad THEN Failed ELSE l
    OBVIOUS
  <2>1. CASE l < e
    <3>1. l \in nextLsn .. e - 1
      BY <1>3, <2>1
    <3>. HIDE DEF v
    <3>2. Contents[l] = v(l)
      BY <1>7, <3>1, Zenon
    <3>. QED BY <2>1, <3>2
  <2>2. CASE ~(l < e)
    <3>1. l \in e .. e + B - 1
      BY <1>3, <2>2
    <3>2. v(l) = l \/ v(l) = Failed
      BY <1>9, <3>1
    <3>. HIDE DEF v
    <3>. QED BY <2>2, <3>1, <3>2, Zenon DEF bad
  <2>. QED BY <2>1, <2>2
<1>. HIDE DEF v, bad
<1>12. Contents' = [l \in nextLsn .. e + B - 1 |->
                      IF l < e THEN Contents[l] ELSE IF l \in bad THEN Failed ELSE l]
  BY <1>8, <1>10, <1>11, Zenon
<1>13. bad \in SUBSET (e .. e + B - 1)
  BY DEF bad
<1>. HIDE DEF e
<1>14. e + B <= nextLsn + StBufmax
  BY <1>3, <1>4 DEF e
<1>15. \E b \in SUBSET (End .. End + StBanksize - 1) :
         Contents' = [l \in First .. End + StBanksize - 1 |->
                       IF l < End THEN Contents[l] ELSE IF l \in b THEN Failed ELSE l]
  BY <1>6, <1>12, <1>13, Zenon
<1>16. Asking'
  BY <1>1 DEF Asking
<1>. QED BY <1>1, <1>2, <1>5, <1>6, <1>10, <1>14, <1>15, <1>16 DEF Fifo!ReadAhead

\* What is delivered is the beginning of what is held; the places of the rest
\* do not change.
LEMMA DeliverHandsOver ==
  ASSUME Typed, Pointers, Mapped, Mapped', Asking, st.StStat, pc["game"] \in InRead,
         NEW n, NEW p, Hands(n, p), Deliver(n, p), UNCHANGED ring
  PROVE  Fifo!HandOver(n) /\ Asking'
<1>. DEFINE c == st.StStreamed
            r == st.StReadPtr
            v(l) == ring[Pos(r + (l - nextLsn))]
<1>1. /\ c \in Nat /\ r \in Nat /\ nextLsn \in Nat /\ n \in Nat /\ n <= c /\ c <= StBufmax
      /\ r < StBufmax /\ StBufmax \in Nat /\ p = Pos(r + n) /\ call \in CallRecs
      /\ call.left \in Nat
  BY Types, RingSize DEF Streams, Hands, Pointers, InStep, CallRecs
<1>2. st'.StStreamed = c - n /\ st'.StReadPtr = p /\ st'.StStat = st.StStat
  <2>1. Has(st', st.Stlsn, st.StWritePtr, p, c - n, st.StStat, st.StIsReading)
    BY Types, DeliverHas DEF Deliver, Hands
  <2>. QED BY <2>1 DEF Has
<1>3. nextLsn' = nextLsn + n /\ ring' = ring
  BY DEF Deliver
<1>4. First = nextLsn /\ First' = nextLsn + n /\ End = nextLsn + c /\ End' = End
  BY <1>1, <1>2, <1>3 DEF Mapped
<1>5. Contents = [l \in nextLsn .. End - 1 |-> v(l)]
  <2>1. Contents = Sectors(st, nextLsn, ring)
    BY DEF Mapped
  <2>2. nextLsn .. nextLsn + c - 1 = nextLsn .. End - 1
    BY <1>1, <1>4
  <2>. QED BY <2>1, <2>2, Zenon DEF Sectors
<1>6. Contents' = [l \in First' .. End - 1 |-> ring[Pos(p + (l - (nextLsn + n)))]]
  <2>1. Contents' = Sectors(st', nextLsn + n, ring)
    BY <1>2, <1>3 DEF Mapped
  <2>2. (nextLsn + n) .. (nextLsn + n) + (c - n) - 1 = First' .. End - 1
    BY <1>1, <1>4
  <2>. QED BY <1>2, <2>1, <2>2, Zenon DEF Sectors
<1>. HIDE DEF v
<1>7. \A l \in First' .. End - 1 : ring[Pos(p + (l - (nextLsn + n)))] = Contents[l]
  <2>. SUFFICES ASSUME NEW l \in First' .. End - 1
                PROVE  ring[Pos(p + (l - (nextLsn + n)))] = Contents[l]
    OBVIOUS
  <2>. HIDE DEF c, r
  <2>1. l \in nextLsn .. End - 1 /\ Pos(p + (l - (nextLsn + n))) = Pos(r + (l - nextLsn))
    BY <1>1, <1>4 DEF Pos
  <2>2. Contents[l] = v(l)
    BY <1>5, <2>1, Zenon
  <2>. QED BY <2>1, <2>2, Zenon DEF v
<1>8. Contents' = [l \in First' .. End - 1 |-> Contents[l]]
  BY <1>6, <1>7, Zenon
<1>9. CASE call.block /\ n < call.left
  <2>1. call' = [call EXCEPT !.left = @ - n] /\ pc'["game"] = "rdwait"
    BY <1>9, Types, GotoEffect DEF Deliver, Threads, GameLabels
  <2>2. call'.left = call.left - n /\ call'.block = call.block
    BY <1>1, <2>1, MoreLocals
  <2>3. Taken' = First'
    BY <1>2, <1>3, <1>4, <2>1 DEF Mapped
  <2>4. Asking'
    BY <1>1, <1>9, <2>1, <2>2 DEF Asking, InRead
  <2>. QED BY <1>2, <1>4, <1>8, <1>9, <2>2, <2>3, <2>4 DEF Fifo!HandOver
<1>10. CASE ~(call.block /\ n < call.left)
  <2>1. call' = NoCall /\ pc'["game"] = "fill"
    BY <1>10, Types, GotoEffect DEF Deliver, Threads, GameLabels
  <2>2. call'.left = 0 /\ call'.block = FALSE
    BY <2>1, OtherLocals
  <2>3. Taken' = First'
    BY <1>2, <1>3, <1>4, <2>1 DEF Mapped
  <2>4. Asking'
    BY <2>1, <2>2 DEF Asking, InRead
  <2>. QED BY <1>2, <1>4, <1>8, <1>10, <2>2, <2>3, <2>4 DEF Fifo!HandOver
<1>. QED BY <1>9, <1>10

\* A read copies what is on hand.
LEMMA OnHandIs ==
  ASSUME Typed, Pointers, Mapped, st.StStat
  PROVE  Fifo!OnHand = Copied(call.left)
<1>1. call.left \in Nat /\ st \in Streams /\ InStep(st)
  BY Types DEF Pointers, CallRecs
<1>2. st.StStreamed \in Nat /\ nextLsn \in Nat
  BY <1>1, Types DEF Streams
<1>3. Copied(call.left) = IF call.left <= st.StStreamed THEN call.left ELSE st.StStreamed
  BY <1>1, CopyIsFifo
<1>4. End - First = st.StStreamed
  BY <1>2 DEF Mapped
<1>5. Fifo!OnHand = Min({call.left, st.StStreamed})
  <2>1. Fifo!OnHand = Min({call.left, End - First})
    BY Zenon DEF Fifo!OnHand, Fifo!Min, Min
  <2>. QED BY <1>4, <2>1, Zenon
<1>. QED BY <1>1, <1>2, <1>3, <1>5, MinOfTwo

\* What is on hand goes to IOP memory at once, ...
LEMMA CopyCopies ==
  ASSUME Typed, Control, Pointers, Mapped, Mapped', Asking,
         StReadCopy, ~(call.ee /\ Copied(call.left) > 0)
  PROVE  Fifo!Copy /\ Asking'
<1>. DEFINE n == Copied(call.left)
            p == ReadPtrAfter(call.left)
<1>1. Hands(n, p)
  BY CopyHands
<1>2. Deliver(n, p) /\ UNCHANGED ring /\ pc["game"] = "rdcopy"
  BY DEF StReadCopy, At
<1>3. st.StStat /\ call.left > 0
  BY <1>2 DEF Control, Calls, Asking, InRead
<1>4. n = Fifo!OnHand
  BY <1>3, OnHandIs
<1>. HIDE DEF n, p
<1>5. Fifo!HandOver(n) /\ Asking'
  BY <1>1, <1>2, <1>3, DeliverHandsOver DEF InRead
<1>6. Taken = First
  BY <1>2, <1>3 DEF Mapped
<1>. QED BY <1>3, <1>4, <1>5, <1>6 DEF Fifo!Copy

\* ... or to the EE by a transfer that leaves it in the ring ...
LEMMA DmaTransfers ==
  ASSUME Typed, Control, Pointers, Mapped, Mapped', Asking,
         StReadCopy, call.ee, Copied(call.left) > 0
  PROVE  Fifo!Transfer /\ Asking'
<1>. DEFINE n == Copied(call.left)
            p == ReadPtrAfter(call.left)
<1>1. /\ UNCHANGED <<st, nextLsn, ring>> /\ pc["game"] = "rdcopy"
      /\ call' = [call EXCEPT !.copied = n, !.rdptr = p]
  BY DEF StReadCopy, At
<1>2. pc'["game"] = "rddma"
  BY Types, GotoEffect DEF StReadCopy, Threads, GameLabels
<1>3. st.StStat /\ call.left > 0
  BY <1>1 DEF Control, Calls, Asking, InRead
<1>4. n = Fifo!OnHand /\ n > 0
  BY <1>3, OnHandIs
<1>. HIDE DEF n, p
<1>5. call'.copied = n /\ call'.left = call.left /\ call'.block = call.block
  BY <1>1, Types, MoreLocals
<1>6. /\ Taken = First /\ Taken' = First + n /\ First' = First /\ End' = End
      /\ Contents' = Contents
  BY <1>1, <1>2, <1>3, <1>5 DEF Mapped
<1>7. Asking'
  BY <1>2, <1>3, <1>4, <1>5 DEF Asking, InRead
<1>. QED BY <1>1, <1>3, <1>4, <1>5, <1>6, <1>7 DEF Fifo!Transfer

\* ... until it has ended.
LEMMA DmaTransferred ==
  ASSUME Typed, Control, Pointers, Mapped, Mapped', Asking, StReadDma
  PROVE  Fifo!Transferred /\ Asking'
<1>1. Deliver(call.copied, call.rdptr) /\ UNCHANGED ring /\ pc["game"] = "rddma"
  BY DEF StReadDma, At
<1>2. Hands(call.copied, call.rdptr)
  BY <1>1, Types DEF Pointers, Hands, CallRecs
<1>3. st.StStat /\ call.left > 0 /\ call.copied > 0
  BY <1>1 DEF Control, Calls, Asking, InRead
<1>4. Fifo!HandOver(call.copied) /\ Asking'
  BY <1>1, <1>2, <1>3, DeliverHandsOver DEF InRead
<1>5. Taken - First = call.copied /\ Taken > First
  BY <1>1, <1>3, Types DEF Mapped, CallRecs
<1>. QED BY <1>3, <1>4, <1>5 DEF Fifo!Transferred

\* A step of the stream, as long as the driver keeps track.
Moves ==
  \/ Fifo!Start \/ Fifo!Stop \/ Fifo!ReadAhead \/ Fifo!Request
  \/ Fifo!Copy \/ Fifo!Transfer \/ Fifo!Transferred

\* Every step of the driver is one of the stream, or invisible.
LEMMA StepMoves ==
  ASSUME Typed, Control, Pointers, Asking, Mapped, Mapped', Data', Tracking, Tracking', Next
  PROVE  (Moves \/ UNCHANGED Fifo!fvars) /\ Asking'
<1>1. CASE Passive
  BY <1>1, PassiveAsking, PassiveIsInvisible
<1>2. CASE Reader
  BY <1>1, <1>2, ReaderIsPassive, DeviceIsInvisible, CountsReadAhead DEF Reader, Moves
<1>3. CASE EventAlarm \/ StmScheduleCb
  BY <1>1, <1>3, AlarmIsPassive
<1>4. ASSUME NEW t \in Threads, Fill(t) PROVE (Moves \/ UNCHANGED Fifo!fvars) /\ Asking'
  BY <1>1, <1>4, FillIsPassive
<1>5. CASE GameStep
  <2>1. CASE StReadCopy
    BY <2>1, CopyCopies, DmaTransfers DEF Moves
  <2>2. CASE StStarted \/ StStopped \/ StReadDma
    BY <2>2, StartedStarts, StoppedStops, DmaTransferred DEF Moves
  <2>. QED BY <1>1, <1>5, <2>1, <2>2, GameStepIsPassive DEF GameStep
<1>6. CASE GameCall
  <2>1. CASE \E n \in Requests, b, ee \in BOOLEAN : sceCdStRead(n, b, ee)
    BY <2>1, ReadRequests DEF Moves
  <2>2. CASE sceCdStInit
    BY <2>2, InitIsInvisible
  <2>. QED BY <1>1, <1>6, <2>1, <2>2, GameCallIsPassive
<1>. QED BY <1>2, <1>3, <1>4, <1>5, <1>6 DEF Next

\* The refinement as the induction carries it.
RInv == IInv /\ (Tracking => Asking)

\* A step that loses track ends what the stream promises.
LEMMA RefinesStep ==
  ASSUME ReaderOutranks, RInv, [Next]_vars
  PROVE  RInv' /\ [Fifo!Next]_(Fifo!fvars)
<1>1. IInv /\ IInv' /\ (Tracking => Asking)
  BY StepHolds DEF RInv
<1>2. CASE UNCHANGED vars
  <2>. USE <1>2 DEF vars, drive, cb, handover, stream, history, bounds
  <2>1. Tracking' = Tracking
    BY DEF Tracking, ReaderBusy
  <2>2. Asking' <=> Asking
    BY DEF Asking
  <2>3. UNCHANGED <<First, Taken, End, Contents>>
    BY DEF First, Taken, End, Contents
  <2>. QED BY <1>1, <2>1, <2>2, <2>3, Zenon DEF RInv, Fifo!fvars
<1>3. CASE Next /\ ~Tracking'
  <2>1. Tracking
    BY <1>3 DEF Next
  <2>. QED BY <1>1, <1>3, <2>1 DEF RInv, Fifo!Next
<1>4. CASE Next /\ Tracking'
  <2>1. Tracking /\ Typed /\ Control /\ Pointers /\ Data /\ Asking
    BY <1>1, <1>4 DEF Next, IInv
  <2>2. Typed' /\ Pointers' /\ Data'
    BY <1>1, <1>4 DEF IInv
  <2>3. Mapped
    BY <2>1, MappingIs
  <2>4. Mapped'
    BY <2>2, MappingIs, PTL
  <2>5. (Moves \/ UNCHANGED Fifo!fvars) /\ Asking'
    BY <1>4, <2>1, <2>2, <2>3, <2>4, StepMoves
  <2>6. (~Tracking)' = ~Tracking
    BY <1>4, <2>1
  <2>. QED BY <1>1, <2>1, <2>5, <2>6, Zenon DEF RInv, Fifo!Next, Moves
<1>. QED BY <1>2, <1>3, <1>4

\* At first there is no stream and no call.
LEMMA RefinesInit == Init => RInv /\ Fifo!Init
<1>. SUFFICES ASSUME Init PROVE RInv /\ Fifo!Init
  OBVIOUS
<1>1. IInv
  BY InitHolds
<1>2. pc["game"] = "idle" /\ call.left = 0 /\ call.block = FALSE
  BY OtherLocals DEF Init, Return, Threads
<1>3. Asking
  BY <1>2 DEF Asking, InRead
<1>4. Tracking
  BY DEF Init, Tracking, ReaderBusy, Return, Threads
<1>5. st.StStat = FALSE
  BY DEF Init
<1>6. Mapped
  BY <1>1, <1>4, MappingIs DEF IInv
<1>7. First = 0 /\ Taken = 0 /\ End = 0 /\ Contents = << >>
  BY <1>5, <1>6 DEF Mapped
<1>. QED BY <1>1, <1>2, <1>3, <1>4, <1>5, <1>7 DEF RInv, Fifo!Init

\* For a ring of any size, any requests and any order of reads, alarms,
\* callbacks and calls: until the driver has lost track, what the game gets
\* from streaming.c is what it would get from a queue. Every sector comes once
\* and in order, a call gets as many as are on hand, and no place is reused
\* while a transfer from it goes on.
THEOREM StreamIsFifo == ASSUME ReaderOutranks PROVE Spec => ImplementsFifo
<1>1. Init => RInv /\ Fifo!Init
  BY RefinesInit
<1>2. RInv /\ [Next]_vars => RInv' /\ [Fifo!Next]_(Fifo!fvars)
  BY RefinesStep
<1>. QED BY <1>1, <1>2, PTL DEF Spec, ImplementsFifo, Fifo!Spec

-----------------------------------------------------------------------------
(* The ring is refilled                                                    *)

\* A bank is being read for the stream, or someone is about to ask for one.
Feeding ==
  \/ InFlight \/ Ended \/ stmAlarm
  \/ pc["reader"] \in {"fill", "fillread"}
  \/ pc["game"] \in {"fill", "fillread", "fillfail", "resched"}
\* A running stream with a free bank is being fed, unless it is about to be
\* stopped or paused.
Fed == Stm0Callback /\ ~pausedRead /\ BankFree => Feeding \/ pc["game"] \in {"stop", "pause"}
\* What the stream waits for is on its way.
Awaited ==
  ~pausedRead /\ st.StIsReading =>
    \/ InFlight \/ Ended
    \/ pc["game"] \in {"fillread", "fillfull", "fillfail"}
    \/ pc["reader"] \in {"fillread", "fillfull"}
\* A stream that is stopped or paused waits for nothing, and the game does not
\* read from it.
Resting ==
  ~pausedRead /\ ~Stm0Callback =>
    ~st.StIsReading /\ ~stmAlarm /\ pc["game"] \notin Filling \cup InRead
\* A thread gives up for want of a bank only while none is free.
Full == \A t \in Threads : pc[t] = "fillfull" => ~BankFree
\* A read that waits has taken all there was, and a bank is counted only
\* after the event that wakes it.
Asked ==
  /\ pc["game"] = "rdwait" /\ 8 \notin intr_ef => st.StStreamed = 0
  /\ pc["reader"] = "stm" => 8 \in intr_ef
Feed == Fed /\ Awaited /\ Resting /\ Full /\ Asked

\* A step of the game's thread outside of StFillStreamBuffer that leaves the
\* stream alone; it may hand over a read of its own to a ready drive.
LEMMA FeedElsewhere ==
  ASSUME Typed, Tracking, Control, Feed, ReaderBlocked,
         UNCHANGED <<reading, Stm0Callback, st>>,
         pausedRead => pausedRead',
         pc'["game"] \in InRead => Stm0Callback \/ pausedRead' \/ pc["game"] \in InRead,
         pc'["reader"] = pc["reader"],
         pc["game"] \notin Filling \cup {"stop", "pause"},
         pc'["game"] \in GameLabels \ Filling,
         \/ stmAlarm' = stmAlarm
         \/ stmAlarm' = FALSE /\ pc'["game"] \in {"stop", "pause"},
         \/ UNCHANGED <<rthread_sema, cdread>>
         \/ ~sync_flag /\ rthread_sema' = 1 /\ cdread'.ptr = NoBank,
         pc'["game"] = "rdwait" => 8 \in intr_ef'
  PROVE  Feed'
<1>. USE Types
<1>1. InFlight' <=> InFlight
  BY DEF InFlight, Pending, InDevice, Tracking, ReaderBusy, ReaderBlocked
<1>2. Ended' <=> Ended
  BY DEF Ended
<1>3. BankFree' <=> BankFree
  BY DEF BankFree
<1>. QED BY <1>1, <1>2, <1>3 DEF Feed, Fed, Awaited, Resting, Full, Asked, InRead, Feeding, Filling,
            ReaderBlocked, Threads

\* The reading thread takes the read.
LEMMA WakeFeeds ==
  ASSUME ReaderOutranks, Typed, Tracking, Control, Pointers, Feed, Tracking', ReaderWake
  PROVE  Feed'
<1>. USE Types
<1>1. /\ UNCHANGED <<cdread, Stm0Callback, stmAlarm, st, pausedRead, intr_ef>>
      /\ rthread_sema = 1 /\ rthread_sema' = 0 /\ reading' = cdread
      /\ pc["reader"] = "wait" /\ pc'["reader"] = "transfer"
      /\ pc'["game"] = pc["game"]
  BY GotoEffect DEF ReaderWake, Threads, GameLabels, ReaderLabels, At, MayRun, drive, cb, handover, stream, history
<1>. QED BY <1>1 DEF Feed, Fed, Awaited, Resting, Full, Asked, InRead, Feeding,
     Control, OneRead, Stopped, Calls, Held, ReaderAt, GameAt, InFlight, Pending, InDevice,
     Ended, Filling, BankFree, Tracking, ReaderBusy, Threads, ReaderBlocked

\* The device answers.
LEMMA AnswerFeeds ==
  ASSUME ReaderOutranks, Typed, Tracking, Control, Pointers, Feed, Tracking', DeviceReads \/ DeviceFails
  PROVE  Feed'
<1>. USE Types
<1>1. /\ UNCHANGED <<rthread_sema, cdread, reading, Stm0Callback, stmAlarm, st, pausedRead, intr_ef>>
      /\ pc["reader"] = "transfer" /\ pc'["reader"] = "done"
      /\ pc'["game"] = pc["game"]
  BY GotoEffect DEF DeviceReads, DeviceFails, DeviceAnswers, Threads, GameLabels, ReaderLabels, At, MayRun, drive, cb, handover, stream, history
<1>. QED BY <1>1 DEF Feed, Fed, Awaited, Resting, Full, Asked, InRead, Feeding,
     Control, OneRead, Stopped, Calls, Held, ReaderAt, GameAt, InFlight, Pending, InDevice,
     Ended, Filling, BankFree, Tracking, ReaderBusy, Threads, ReaderBlocked

\* A read ends: one of a running stream is then about to be counted.
LEMMA DoneFeeds ==
  ASSUME ReaderOutranks, Typed, Tracking, Control, Pointers, Feed, Tracking', ReaderDone
  PROVE  Feed'
<1>. USE Types
<1>1. /\ UNCHANGED <<rthread_sema, cdread, reading, Stm0Callback, stmAlarm, st, pausedRead, intr_ef>>
      /\ pc["reader"] = "done"
      /\ pc'["reader"] \in IF Stm0Callback THEN {"signalstm"} ELSE {"signal", "wait"}
      /\ pc'["game"] = pc["game"]
  BY GotoEffect DEF ReaderDone, CbEvent, Threads, GameLabels, ReaderLabels, At, MayRun, drive, cb, handover, stream, history
<1>. QED BY <1>1 DEF Feed, Fed, Awaited, Resting, Full, Asked, InRead, Feeding,
     Control, OneRead, Stopped, Calls, Held, ReaderAt, GameAt, InFlight, Pending, InDevice,
     Ended, Filling, BankFree, Tracking, ReaderBusy, Threads, ReaderBlocked

\* The event wakes a read that waits, before the bank is counted.
LEMMA SignalFeeds ==
  ASSUME ReaderOutranks, Typed, Tracking, Control, Pointers, Feed, Tracking', ReaderSignal
  PROVE  Feed'
<1>. USE Types
<1>1. /\ UNCHANGED <<rthread_sema, cdread, reading, Stm0Callback, stmAlarm, st, pausedRead>>
      /\ 8 \in intr_ef'
      /\ \/ pc["reader"] = "signal" /\ pc'["reader"] = "wait"
         \/ pc["reader"] = "signalstm" /\ pc'["reader"] = IF Stm0Callback THEN "stm" ELSE "wait"
      /\ pc'["game"] = pc["game"]
  BY GotoEffect DEF ReaderSignal, SetEventFlag9, Threads, GameLabels, ReaderLabels, At, MayRun, drive, cb, handover, stream, history
<1>. QED BY <1>1 DEF Feed, Fed, Awaited, Resting, Full, Asked, InRead, Feeding,
     Control, OneRead, Stopped, Calls, Held, ReaderAt, GameAt, InFlight, Pending, InDevice,
     Ended, Filling, BankFree, Tracking, ReaderBusy, Threads, ReaderBlocked

\* A bank is counted, or was not the stream's; the next is asked for.
LEMMA CountFeeds ==
  ASSUME ReaderOutranks, Typed, Tracking, Control, Pointers, Feed, Tracking', StmCallback
  PROVE  Feed'
<1>. USE Types
<1>1. /\ UNCHANGED <<rthread_sema, cdread, reading, Stm0Callback, stmAlarm, pausedRead, intr_ef>>
      /\ pc["reader"] = "stm" /\ pc'["reader"] = "fill"
      /\ pc'["game"] = pc["game"]
  BY GotoEffect DEF StmCallback, Threads, GameLabels, ReaderLabels, At, drive, handover
<1>2. st'.StIsReading = FALSE
  <2>1. CASE st.StIsReading
    <3>1. st' = CountBank(st)
      BY <2>1 DEF StmCallback
    <3>2. Has(CountBank(st), st.Stlsn + StBanksize, Wrap(st.StWritePtr + StBanksize), st.StReadPtr,
              st.StStreamed + StBanksize, st.StStat, FALSE)
      BY CountHas DEF Pointers
    <3>. QED BY <3>1, <3>2 DEF Has
  <2>2. CASE ~st.StIsReading
    BY <2>2 DEF StmCallback, Streams
  <2>. QED BY <2>1, <2>2
<1>3. st.StIsReading => Ended
  <2>1. st.StIsReading => OwnRead
    BY Zenon DEF StmCallback, Tracking
  <2>2. OwnRead => reading.ptr = st.StWritePtr
    BY DEF OwnRead
  <2>3. st.StWritePtr # NoBank
    BY DEF Streams, NoBank
  <2>. QED BY <1>1, <2>1, <2>2, <2>3 DEF Ended
<1>4. 8 \in intr_ef' /\ pc'["game"] # "fillfull" /\ Stm0Callback
  BY <1>1, <1>3 DEF Feed, Asked, Control, ReaderAt, GameAt
<1>5. Fed' /\ Full' /\ Asked' /\ Resting'
  BY <1>1, <1>4 DEF Fed, Full, Asked, Feeding, Threads, Resting, InRead
<1>6. Awaited'
  BY <1>1, <1>2 DEF Feed, Awaited, InFlight, Pending, InDevice, Ended, Filling
<1>. QED BY <1>4, <1>5, <1>6 DEF Feed

\* event_alarm_cb: a read of the stream is not in flight then.
LEMMA EventFeeds ==
  ASSUME ReaderOutranks, Typed, Tracking, Control, Pointers, Feed, Tracking', EventAlarm
  PROVE  Feed'
<1>. USE Types
<1>1. /\ UNCHANGED <<reading, Stm0Callback, stmAlarm, st, pausedRead, pc>>
      /\ 8 \in intr_ef'
      /\ ~ReaderBusy
      /\ UNCHANGED <<rthread_sema, cdread>> \/ cdread'.ptr = NoBank
  BY DEF EventAlarm, SetEventFlag9, Tracking, Threads, GameLabels, ReaderLabels, At, MayRun, drive, cb, handover, stream, history
<1>. QED BY <1>1 DEF Feed, Fed, Awaited, Resting, Full, Asked, InRead, Feeding,
     Control, OneRead, Stopped, Calls, Held, ReaderAt, GameAt, InFlight, Pending, InDevice,
     Ended, Filling, BankFree, Tracking, ReaderBusy, Threads, ReaderBlocked

\* StmScheduleCb reads a bank, or the stream waits for one, or none is free.
LEMMA ScheduleFeeds ==
  ASSUME ReaderOutranks, Typed, Tracking, Control, Pointers, Feed, Tracking', StmScheduleCb
  PROVE  Feed'
<1>. USE Types
<1>1. UNCHANGED <<reading, Stm0Callback, pausedRead, pc>> /\ stmAlarm /\ stmAlarm' = FALSE
  BY DEF StmScheduleCb, history
<1>2. CASE (st.StIsReading \/ ~BankFree) /\ UNCHANGED <<st, drive, handover>>
  <2>1. UNCHANGED <<st, rthread_sema, cdread, intr_ef>>
    BY <1>2 DEF drive, handover
  <2>2. (InFlight' <=> InFlight) /\ (Ended' <=> Ended) /\ (BankFree' <=> BankFree)
    BY <1>1, <2>1 DEF InFlight, Pending, InDevice, Ended, BankFree
  <2>. QED BY <1>1, <1>2, <2>1, <2>2 DEF Feed, Fed, Awaited, Resting, Full, Asked, InRead, Feeding, Threads,
              Control, GameAt, ReaderAt
<1>3. CASE /\ ~st.StIsReading /\ BankFree /\ ~sync_flag
           /\ st' = [st EXCEPT !.StIsReading = TRUE]
           /\ AsyncRead(st.Stlsn, st.StWritePtr)
  <2>1. Has(st', st.Stlsn, st.StWritePtr, st.StReadPtr, st.StStreamed, st.StStat, TRUE)
    BY <1>3, SetReading
  <2>2. rthread_sema' = 1 /\ cdread'.ptr = st.StWritePtr /\ (8 \in intr_ef' <=> 8 \in intr_ef)
    BY <1>3 DEF AsyncRead
  <2>3. InFlight'
    BY <2>2 DEF InFlight, Pending, NoBank, Streams
  <2>4. (BankFree' <=> BankFree) /\ st'.StStreamed = st.StStreamed
    BY <2>1 DEF BankFree, Has
  <2>. QED BY <1>1, <2>2, <2>3, <2>4 DEF Feed, Fed, Awaited, Resting, Full, Asked, InRead, Feeding, Threads
<1>. QED BY <1>2, <1>3 DEF StmScheduleCb

\* A thread allocates a bank: it finds none only if none is free, and leaves it
\* to another only if the stream waits for one.
LEMMA AllocFeeds ==
  ASSUME ReaderOutranks, Typed, Tracking, Control, Pointers, Feed, Tracking', NEW t \in Threads, StFill(t)
  PROVE  Feed'
<1>. USE Types
<1>1. /\ UNCHANGED <<rthread_sema, cdread, reading, Stm0Callback, pausedRead, intr_ef>>
      /\ pc[t] = "fill" /\ (t = "game" => ReaderBlocked)
      /\ \A u \in Threads : u # t => pc'[u] = pc[u]
      /\ \/ st.StIsReading /\ UNCHANGED <<stmAlarm, st>> /\ pc'[t] = Return(t)
         \/ /\ ~st.StIsReading /\ stmAlarm' = FALSE
            /\ Has(st', st.Stlsn, st.StWritePtr, st.StReadPtr, st.StStreamed, st.StStat, TRUE)
            /\ pc'[t] = IF BankFree THEN "fillread" ELSE "fillfull"
  <2>1. /\ UNCHANGED <<rthread_sema, cdread, reading, Stm0Callback, pausedRead, intr_ef>>
        /\ pc[t] = "fill" /\ (t = "game" => ReaderBlocked)
    BY DEF StFill, At, MayRun, drive, handover, history
  <2>2. Return(t) \in {"idle", "wait"}
    BY DEF Return
  <2>3. CASE st.StIsReading
    <3>1. UNCHANGED <<stmAlarm, st>> /\ Goto(t, Return(t))
      BY <2>3 DEF StFill
    <3>2. pc'[t] = Return(t) /\ \A u \in Threads : u # t => pc'[u] = pc[u]
      BY <2>2, <3>1, GotoEffect DEF GameLabels, ReaderLabels
    <3>. QED BY <2>1, <2>3, <3>1, <3>2
  <2>4. CASE ~st.StIsReading
    <3>1. /\ stmAlarm' = FALSE /\ st' = [st EXCEPT !.StIsReading = TRUE]
          /\ Goto(t, IF BankFree THEN "fillread" ELSE "fillfull")
      BY <2>4 DEF StFill
    <3>2. Has(st', st.Stlsn, st.StWritePtr, st.StReadPtr, st.StStreamed, st.StStat, TRUE)
      BY <3>1, SetReading
    <3>3. /\ pc'[t] = IF BankFree THEN "fillread" ELSE "fillfull"
          /\ \A u \in Threads : u # t => pc'[u] = pc[u]
      BY <3>1, GotoEffect DEF GameLabels, ReaderLabels
    <3>. QED BY <2>1, <2>4, <3>1, <3>2, <3>3
  <2>. QED BY <2>3, <2>4
<1>. QED BY <1>1 DEF Feed, Fed, Awaited, Resting, Full, Asked, InRead, Feeding,
     Control, OneRead, Stopped, Calls, Held, ReaderAt, GameAt, InFlight, Pending, InDevice,
     Ended, Filling, BankFree, Tracking, ReaderBusy, Threads, ReaderBlocked, Has, Return

\* A thread gives up.
LEMMA FullFeeds ==
  ASSUME ReaderOutranks, Typed, Tracking, Control, Pointers, Feed, Tracking', NEW t \in Threads, StFillFull(t)
  PROVE  Feed'
<1>. USE Types
<1>1. /\ UNCHANGED <<rthread_sema, cdread, reading, Stm0Callback, stmAlarm, pausedRead, intr_ef>>
      /\ pc[t] = "fillfull" /\ pc'[t] = Return(t)
      /\ \A u \in Threads : u # t => pc'[u] = pc[u]
      /\ Has(st', st.Stlsn, st.StWritePtr, st.StReadPtr, st.StStreamed, st.StStat, FALSE)
  BY GotoEffect, SetReading DEF StFillFull, Return, Threads, GameLabels, ReaderLabels, At, MayRun, drive, cb, handover, stream, history
<1>. QED BY <1>1 DEF Feed, Fed, Awaited, Resting, Full, Asked, InRead, Feeding,
     Control, OneRead, Stopped, Calls, Held, ReaderAt, GameAt, InFlight, Pending, InDevice,
     Ended, Filling, BankFree, Tracking, ReaderBusy, Threads, ReaderBlocked, Has, Return

\* The drive accepts the stream's read or refuses it.
LEMMA ReadFeeds ==
  ASSUME ReaderOutranks, Typed, Tracking, Control, Pointers, Feed, Tracking', NEW t \in Threads, StFillRead(t)
  PROVE  Feed'
<1>. USE Types
<1>1. /\ UNCHANGED <<reading, Stm0Callback, stmAlarm, st, pausedRead>>
      /\ 8 \in intr_ef' <=> 8 \in intr_ef
      /\ pc[t] = "fillread"
      /\ \A u \in Threads : u # t => pc'[u] = pc[u]
      /\ \/ sync_flag /\ pc'[t] = "fillfail" /\ UNCHANGED <<rthread_sema, cdread>>
         \/ ~sync_flag /\ pc'[t] = Return(t) /\ rthread_sema' = 1 /\ cdread'.ptr = bank[t]
  BY GotoEffect DEF StFillRead, AsyncRead, Return, Threads, GameLabels, ReaderLabels, At, MayRun, drive, cb, handover, stream, history
<1>. QED BY <1>1 DEF Feed, Fed, Awaited, Resting, Full, Asked, InRead, Feeding,
     Control, OneRead, Stopped, Calls, Held, ReaderAt, GameAt, InFlight, Pending, InDevice,
     Ended, Filling, BankFree, Tracking, ReaderBusy, Threads, ReaderBlocked, Return, NoBank, Streams

\* After a refusal the alarm will try again.
LEMMA FailFeeds ==
  ASSUME ReaderOutranks, Typed, Tracking, Control, Pointers, Feed, Tracking', StFillFail("game")
  PROVE  Feed'
<1>. USE Types
<1>1. /\ UNCHANGED <<rthread_sema, cdread, reading, Stm0Callback, stmAlarm, pausedRead, intr_ef>>
      /\ Has(st', st.Stlsn, st.StWritePtr, st.StReadPtr, st.StStreamed, st.StStat, FALSE)
      /\ pc["game"] = "fillfail" /\ pc'["game"] = "resched"
      /\ pc'["reader"] = pc["reader"] /\ ReaderBlocked
  BY GotoEffect, SetReading DEF StFillFail, Threads, GameLabels, ReaderLabels, At, MayRun, drive, cb, handover, stream, history
<1>. QED BY <1>1 DEF Feed, Fed, Awaited, Resting, Full, Asked, InRead, Feeding,
     Control, OneRead, Stopped, Calls, Held, ReaderAt, GameAt, InFlight, Pending, InDevice,
     Ended, Filling, BankFree, Tracking, ReaderBusy, Threads, ReaderBlocked, Has

\* It is set.
LEMMA RescheduleFeeds ==
  ASSUME ReaderOutranks, Typed, Tracking, Control, Pointers, Feed, Tracking', StReschedule("game")
  PROVE  Feed'
<1>. USE Types
<1>1. /\ UNCHANGED <<rthread_sema, cdread, reading, Stm0Callback, st, pausedRead, intr_ef>>
      /\ stmAlarm' = TRUE
      /\ pc["game"] = "resched" /\ pc'["game"] = "idle"
      /\ pc'["reader"] = pc["reader"] /\ ReaderBlocked
  BY GotoEffect DEF StReschedule, Return, Threads, GameLabels, ReaderLabels, At, MayRun, drive, cb, handover, stream, history
<1>. QED BY <1>1 DEF Feed, Fed, Awaited, Resting, Full, Asked, InRead, Feeding,
     Control, OneRead, Stopped, Calls, Held, ReaderAt, GameAt, InFlight, Pending, InDevice,
     Ended, Filling, BankFree, Tracking, ReaderBusy, Threads, ReaderBlocked

\* A stream that starts asks for its first bank.
LEMMA StartedFeeds ==
  ASSUME ReaderOutranks, Typed, Tracking, Control, Pointers, Feed, Tracking', StStarted
  PROVE  Feed'
<1>. USE Types
<1>1. /\ UNCHANGED <<rthread_sema, cdread, reading, stmAlarm, pausedRead, intr_ef>>
      /\ Stm0Callback' = TRUE
      /\ Has(st', call.lsn, 0, 0, 0, TRUE, FALSE)
      /\ pc["game"] = "start" /\ pc'["game"] = "fill"
      /\ pc'["reader"] = pc["reader"] /\ ReaderBlocked
  BY GotoEffect, StartHas DEF StStarted, CallRecs, Threads, GameLabels, ReaderLabels, At, MayRun, drive, cb, handover, stream, history
<1>. QED BY <1>1 DEF Feed, Fed, Awaited, Resting, Full, Asked, InRead, Feeding,
     Control, OneRead, Stopped, Calls, Held, ReaderAt, GameAt, InFlight, Pending, InDevice,
     Ended, Filling, BankFree, Tracking, ReaderBusy, Threads, ReaderBlocked, Has

\* One that stops or pauses waits for nothing more.
LEMMA StoppedFeeds ==
  ASSUME ReaderOutranks, Typed, Tracking, Control, Pointers, Feed, Tracking', StStopped \/ StPaused
  PROVE  Feed'
<1>. USE Types
<1>1. /\ UNCHANGED <<rthread_sema, cdread, reading, stmAlarm, pausedRead, intr_ef>>
      /\ Stm0Callback' = FALSE
      /\ pc["game"] \in {"stop", "pause"} /\ pc'["game"] = "sync"
      /\ pc'["reader"] = pc["reader"] /\ ReaderBlocked
  BY GotoEffect DEF StStopped, StPaused, Threads, GameLabels, ReaderLabels, At, MayRun, drive, handover, history
<1>2. st'.StIsReading = FALSE
  <2>1. CASE StStopped
    <3>1. Has(st', st.Stlsn, 0, 0, 0, FALSE, FALSE)
      BY <2>1, StopHas DEF StStopped
    <3>. QED BY <3>1 DEF Has
  <2>2. CASE StPaused
    <3>1. Has(st', st.Stlsn, st.StWritePtr, st.StReadPtr, st.StStreamed, st.StStat, FALSE)
      BY <2>2, SetReading DEF StPaused
    <3>. QED BY <3>1 DEF Has
  <2>. QED BY <2>1, <2>2
<1>3. ~stmAlarm
  BY <1>1 DEF Control, Calls
<1>. QED BY <1>1, <1>2, <1>3 DEF Feed, Fed, Awaited, Resting, Full, Asked, InRead, Filling, Threads,
            ReaderBlocked

\* One that is resumed asks for a bank.
LEMMA ResumeFeeds ==
  ASSUME ReaderOutranks, Typed, Tracking, Control, Pointers, Feed, Tracking', sceCdStResume
  PROVE  Feed'
<1>. USE Types
<1>1. /\ UNCHANGED <<rthread_sema, cdread, reading, stmAlarm, st, pausedRead, intr_ef>>
      /\ Stm0Callback' = TRUE
      /\ pc["game"] = "idle" /\ pc'["game"] = "fill"
      /\ pc'["reader"] = pc["reader"] /\ ReaderBlocked
  BY GotoEffect DEF sceCdStResume, Call, Threads, GameLabels, ReaderLabels, At, MayRun, drive, cb, handover, stream, history
<1>. QED BY <1>1 DEF Feed, Fed, Awaited, Resting, Full, Asked, InRead, Feeding,
     Control, OneRead, Stopped, Calls, Held, ReaderAt, GameAt, InFlight, Pending, InDevice,
     Ended, Filling, BankFree, Tracking, ReaderBusy, Threads, ReaderBlocked

\* The ring is given while no stream runs.
LEMMA InitFeeds ==
  ASSUME ReaderOutranks, Typed, Tracking, Control, Pointers, Feed, Tracking', sceCdStInit
  PROVE  Feed'
<1>. USE Types
<1>1. /\ UNCHANGED <<rthread_sema, cdread, reading, Stm0Callback, pausedRead, intr_ef>>
      /\ stmAlarm' = FALSE
      /\ ~st.StStat /\ st'.StIsReading = FALSE
      /\ pc["game"] = "idle" /\ pc'["game"] = "idle"
      /\ pc'["reader"] = pc["reader"] /\ ReaderBlocked
  BY GotoEffect, ResetHas DEF sceCdStInit, Call, Has, Threads, GameLabels, ReaderLabels, At, MayRun, drive, cb, handover, stream, history
<1>. QED BY <1>1 DEF Feed, Fed, Awaited, Resting, Full, Asked, InRead, Feeding,
     Control, OneRead, Stopped, Calls, Held, ReaderAt, GameAt, InFlight, Pending, InDevice,
     Ended, Filling, BankFree, Tracking, ReaderBusy, Threads, ReaderBlocked

\* The steps of the game's thread that leave the stream alone, ...
LEMMA GameStepFeeds ==
  ASSUME ReaderOutranks, Typed, Tracking, Control, Feed,
         \/ AltEvent \/ AltEnd \/ GameSignal \/ SyncCheck \/ SyncWake \/ StReadWait \/ StReadClear
         \/ StReadCopy /\ call.ee /\ Copied(call.left) > 0
  PROVE  Feed'
<1>1. /\ UNCHANGED <<reading, Stm0Callback, st, pausedRead, stmAlarm, rthread_sema, cdread>>
      /\ ReaderBlocked
  BY DEF AltEvent, AltEnd, GameSignal, SyncCheck, SyncWake, StReadWait, StReadClear, StReadCopy,
     At, MayRun, handover, stream, history
<1>2. CASE AltEvent \/ AltEnd \/ GameSignal \/ SyncCheck \/ SyncWake
  <2>1. pc["game"] \in {"altread", "altend", "altsignal", "flag", "sync", "syncwait"}
    BY <1>2 DEF AltEvent, AltEnd, GameSignal, SyncCheck, SyncWake, At
  <2>2. PICK l \in {"altsignal", "altend", "flag", "idle", "syncwait", "start", "sync"} : Goto("game", l)
    BY <1>2, Types DEF AltEvent, CbEvent, AltEnd, GameSignal, SyncCheck, SyncWake, CallRecs
  <2>3. pc'["game"] = l /\ pc'["reader"] = pc["reader"]
    BY <2>2, Types, GotoEffect DEF Threads, GameLabels
  <2>. QED BY <1>1, <2>1, <2>3, FeedElsewhere DEF GameLabels, Filling, InRead
<1>3. CASE StReadWait \/ StReadClear \/ (StReadCopy /\ call.ee /\ Copied(call.left) > 0)
  <2>1. pc["game"] \in {"rdwait", "rdclear", "rdcopy"}
    BY <1>3 DEF StReadWait, StReadClear, StReadCopy, At
  <2>2. PICK l \in {"rdclear", "rdcopy", "rddma"} : Goto("game", l)
    BY <1>3 DEF StReadWait, StReadClear, StReadCopy
  <2>3. pc'["game"] = l /\ pc'["reader"] = pc["reader"]
    BY <2>2, Types, GotoEffect DEF Threads, GameLabels
  <2>. QED BY <1>1, <2>1, <2>3, FeedElsewhere DEF GameLabels, Filling, InRead
<1>. QED BY <1>2, <1>3

\* ... and the calls that begin without asking for a bank.
LEMMA GameCallFeeds ==
  ASSUME ReaderOutranks, Typed, Tracking, Control, Feed,
         \/ sceCdRead \/ NCommand \/ sceCdStandby \/ sceCdCallback \/ sceCdSync
         \/ sceCdStStop \/ sceCdStPause
         \/ \E lsn \in StartLsns : sceCdStStart(lsn)
         \/ \E n \in Requests, b, ee \in BOOLEAN : sceCdStRead(n, b, ee)
  PROVE  Feed'
<1>1. UNCHANGED <<reading, Stm0Callback, st>> /\ ReaderBlocked /\ pc["game"] = "idle"
  BY DEF sceCdRead, NCommand, sceCdStandby, sceCdCallback, sceCdSync, sceCdStStop, sceCdStPause,
     sceCdStStart, sceCdStRead, Call, At, MayRun, stream
<1>2. CASE sceCdRead
  <2>1. UNCHANGED <<stmAlarm, pausedRead>>
    BY <1>2 DEF sceCdRead, stream, history
  <2>2. pc'["game"] \in {"idle", "altread"} /\ pc'["reader"] = pc["reader"]
    BY <1>1, <1>2, Types, GotoEffect DEF sceCdRead, Threads, GameLabels
  <2>3. \/ UNCHANGED <<rthread_sema, cdread>>
        \/ ~sync_flag /\ rthread_sema' = 1 /\ cdread'.ptr = NoBank
    BY <1>2 DEF sceCdRead, AsyncRead, handover
  <2>. QED BY <1>1, <2>1, <2>2, <2>3, FeedElsewhere DEF GameLabels, Filling, InRead
<1>3. CASE NCommand \/ sceCdStandby \/ sceCdCallback \/ sceCdSync
  <2>1. UNCHANGED <<stmAlarm, pausedRead, rthread_sema, cdread>>
    BY <1>3 DEF NCommand, sceCdStandby, sceCdCallback, sceCdSync, stream, history, handover
  <2>2. pc' = pc \/ \E l \in {"flag", "idle", "sync"} : Goto("game", l)
    BY <1>3 DEF NCommand, sceCdStandby, sceCdCallback, sceCdSync, CbEvent
  <2>3. pc'["game"] \in {"flag", "idle", "sync"} /\ pc'["reader"] = pc["reader"]
    BY <1>1, <2>2, Types, GotoEffect DEF Threads, GameLabels
  <2>. QED BY <1>1, <2>1, <2>3, FeedElsewhere DEF GameLabels, Filling, InRead
<1>4. CASE sceCdStStop \/ sceCdStPause \/ \E lsn \in StartLsns : sceCdStStart(lsn)
  <2>1. UNCHANGED <<pausedRead, rthread_sema, cdread>>
    BY <1>4 DEF sceCdStStop, sceCdStPause, sceCdStStart, history, handover
  <2>2. \/ stmAlarm' = FALSE /\ \E l \in {"stop", "pause"} : Goto("game", l)
        \/ stmAlarm' = stmAlarm /\ Goto("game", "start")
    BY <1>4 DEF sceCdStStop, sceCdStPause, sceCdStStart
  <2>3. /\ pc'["reader"] = pc["reader"]
        /\ \/ stmAlarm' = FALSE /\ pc'["game"] \in {"stop", "pause"}
           \/ stmAlarm' = stmAlarm /\ pc'["game"] = "start"
    BY <2>2, Types, GotoEffect DEF Threads, GameLabels
  <2>. QED BY <1>1, <2>1, <2>3, FeedElsewhere DEF GameLabels, Filling, InRead
<1>5. CASE \E n \in Requests, b, ee \in BOOLEAN : sceCdStRead(n, b, ee)
  <2>1. /\ UNCHANGED <<stmAlarm, rthread_sema, cdread>> /\ 8 \in intr_ef'
        /\ pausedRead' = (pausedRead \/ ~Stm0Callback) /\ Goto("game", "rdwait")
    BY <1>5, Types DEF sceCdStRead, stream, handover
  <2>2. pc'["game"] = "rdwait" /\ pc'["reader"] = pc["reader"]
    BY <2>1, Types, GotoEffect DEF Threads, GameLabels
  <2>. QED BY <1>1, <2>1, <2>2, Types, FeedElsewhere DEF GameLabels, Filling, InRead
<1>. QED BY <1>2, <1>3, <1>4, <1>5

\* A read asks for no more than leaves a bank free, and one that goes to the
\* EE does not block.
Modest ==
  /\ call.left <= StBufmax - StBanksize + 1
  /\ call.ee => ~call.block
  /\ pc["game"] = "rddma" => call.ee

\* A read that has taken all there was and waits for more leaves a bank free,
\* for which the stream was asked before it began to wait; one that returns
\* asks for a bank.
LEMMA DeliverFeeds ==
  ASSUME ReaderOutranks, Typed, Tracking, Control, Pointers, Feed, Modest, NEW n, NEW p,
         Hands(n, p), Deliver(n, p), ReaderBlocked,
         pc["game"] = "rddma" \/ (pc["game"] = "rdcopy" /\ n = Copied(call.left)),
         UNCHANGED <<rthread_sema, cdread, reading, Stm0Callback, stmAlarm, pausedRead, intr_ef>>
  PROVE  Feed'
<1>1. /\ call.left \in Nat /\ st \in Streams /\ InStep(st) /\ st.StStreamed \in Nat
      /\ n \in Nat /\ StBufmax \in Nat /\ StBanksize \in Nat
  BY Types, RingSize DEF Pointers, CallRecs, Streams, Hands
<1>2. Has(st', st.Stlsn, st.StWritePtr, p, st.StStreamed - n, st.StStat, st.StIsReading)
  BY <1>1, DeliverHas DEF Deliver, Hands
<1>3. st'.StStreamed = st.StStreamed - n /\ st'.StIsReading = st.StIsReading
  BY <1>2 DEF Has
<1>4. PICK l \in {"rdwait", "fill"} : Goto("game", l) /\ (l = "rdwait" => call.block /\ n < call.left)
  BY DEF Deliver
<1>5. pc'["game"] = l /\ pc'["reader"] = pc["reader"]
  BY <1>4, Types, GotoEffect DEF Threads, GameLabels
<1>6. (InFlight' <=> InFlight) /\ (Ended' <=> Ended)
  BY <1>5 DEF InFlight, Pending, InDevice, Ended
<1>7. l = "rdwait" => BankFree /\ st'.StStreamed = 0
  <2>. SUFFICES ASSUME l = "rdwait" PROVE BankFree /\ st'.StStreamed = 0
    OBVIOUS
  <2>1. n = Copied(call.left) /\ n < call.left
    BY <1>4 DEF Modest
  <2>2. n = IF call.left <= st.StStreamed THEN call.left ELSE st.StStreamed
    BY <1>1, <2>1, CopyIsFifo
  <2>3. n = st.StStreamed
    BY <1>1, <2>1, <2>2
  <2>. QED BY <1>1, <1>3, <2>1, <2>3 DEF BankFree, Modest
<1>8. Fed'
  BY <1>4, <1>5, <1>6, <1>7 DEF Feed, Fed, Feeding
<1>9. Awaited'
  BY <1>3, <1>5, <1>6 DEF Feed, Awaited
<1>10. Resting'
  BY <1>3, <1>5 DEF Feed, Resting, InRead
<1>11. Full' /\ Asked'
  BY <1>4, <1>5, <1>7 DEF Full, Feed, Asked, ReaderBlocked, Threads
<1>. QED BY <1>8, <1>9, <1>10, <1>11 DEF Feed

\* A step that neither begins a read of the game nor takes part in one.
Aside ==
  /\ UNCHANGED call
  /\ pc'["game"] = "rddma" => pc["game"] = "rddma"

\* A step aside leaves the call as it is.
LEMMA AsideIsModest == ASSUME Modest, Aside PROVE Modest'
BY DEF Modest, Aside

\* A call other than a read asks for nothing.
LEMMA OthersAreModest ==
  ASSUME NEW l, pc'["game"] # "rddma",
         call' = NoCall \/ call' = [NoCall EXCEPT !.after = "start", !.lsn = l]
  PROVE  Modest'
<1>1. call'.left = 0 /\ call'.ee = FALSE
  <2>1. NoCall.left = 0 /\ NoCall.ee = FALSE
    BY DEF NoCall
  <2>2. /\ [NoCall EXCEPT !.after = "start", !.lsn = l].left = 0
        /\ [NoCall EXCEPT !.after = "start", !.lsn = l].ee = FALSE
    BY DEF NoCall
  <2>. QED BY <2>1, <2>2
<1>. QED BY <1>1, RingSize DEF Modest

\* Most steps are steps aside.
LEMMA StepsAside ==
  ASSUME Typed, Next, ~StStarted, ~StReadCopy, ~StReadDma,
         \A l \in StartLsns : ~sceCdStStart(l),
         \A n \in Requests, b \in BOOLEAN : ~sceCdStRead(n, b, FALSE),
         \A n \in Requests : ~sceCdStRead(n, FALSE, TRUE)
  PROVE  Aside
<1>1. CASE Reader
  <2>1. UNCHANGED call /\ \E l \in ReaderLabels : Goto("reader", l)
    BY <1>1 DEF Reader, ReaderWake, DeviceReads, DeviceFails, DeviceAnswers, ReaderDone, CbEvent,
       ReaderSignal, StmCallback, ReaderLabels
  <2>. QED BY <2>1, Types, GotoEffect DEF Aside, Threads
<1>2. CASE EventAlarm \/ StmScheduleCb
  BY <1>2 DEF EventAlarm, StmScheduleCb, Aside
<1>3. ASSUME NEW t \in Threads, Fill(t) PROVE Aside
  <2>1. UNCHANGED call /\ \E l \in Filling \cup {"idle", "wait"} : Goto(t, l)
    BY <1>3 DEF Fill, StFill, StFillFull, StFillRead, StFillFail, StReschedule, Return, Filling
  <2>. QED BY <2>1, Types, GotoEffect DEF Aside, Threads, Filling, GameLabels, ReaderLabels
<1>4. CASE GameStep
  <2>1. UNCHANGED call /\ \E l \in GameLabels \ {"rddma"} : Goto("game", l)
    BY <1>4, Types DEF GameStep, AltEvent, CbEvent, AltEnd, GameSignal, SyncCheck, SyncWake,
       StStopped, StPaused, StReadWait, StReadClear, CallRecs, GameLabels
  <2>. QED BY <2>1, Types, GotoEffect DEF Aside, Threads
<1>5. CASE GameCall
  <2>1. UNCHANGED call /\ (pc' = pc \/ \E l \in GameLabels \ {"rddma"} : Goto("game", l))
    BY <1>5 DEF GameCall, sceCdRead, NCommand, sceCdStandby, CbEvent, sceCdCallback, sceCdSync,
       sceCdStInit, sceCdStStop, sceCdStPause, sceCdStResume, GameLabels
  <2>. QED BY <2>1, Types, GotoEffect DEF Aside, Threads
<1>. QED BY <1>1, <1>2, <1>3, <1>4, <1>5 DEF Next

\* The rest of a request is smaller than the request.
LEMMA DeliverIsModest ==
  ASSUME Typed, Modest, NEW n \in Nat, NEW p, Deliver(n, p) PROVE Modest'
<1>0. pc'["game"] \in {"rdwait", "fill"}
  BY Types, GotoEffect DEF Deliver, Threads, GameLabels
<1>1. CASE call.block /\ n < call.left
  <2>1. call' = [call EXCEPT !.left = @ - n]
    BY <1>1 DEF Deliver
  <2>2. /\ call'.left = call.left - n /\ call'.block = call.block /\ call'.ee = call.ee
        /\ call.left \in Nat
    BY <2>1, Types DEF CallRecs
  <2>3. call'.left <= StBufmax - StBanksize + 1
    BY <2>2, RingSize DEF Modest
  <2>. QED BY <1>0, <2>2, <2>3 DEF Modest
<1>2. CASE ~(call.block /\ n < call.left)
  BY <1>0, <1>2, OthersAreModest DEF Deliver
<1>. QED BY <1>1, <1>2

\* Every step keeps Modest.
LEMMA ModestHolds ==
  ASSUME Typed, Pointers, Modest, Next PROVE Modest'
<1>1. CASE Aside
  BY <1>1, AsideIsModest
<1>2. CASE StStarted
  <2>1. call' = NoCall /\ pc'["game"] = "fill"
    BY <1>2, Types, GotoEffect DEF StStarted, Threads, GameLabels
  <2>. QED BY <2>1, OthersAreModest
<1>3. CASE \E l \in StartLsns : sceCdStStart(l)
  <2>. PICK l \in StartLsns : sceCdStStart(l)
    BY <1>3
  <2>1. /\ call' = [NoCall EXCEPT !.after = "start", !.lsn = l]
        /\ pc'["game"] \in {"stop", "start"}
    BY Types, GotoEffect DEF sceCdStStart, Threads, GameLabels
  <2>. QED BY <2>1, OthersAreModest
<1>4. ASSUME NEW n \in Requests, NEW b \in BOOLEAN, NEW ee \in BOOLEAN, ee => ~b,
             sceCdStRead(n, b, ee)
      PROVE  Modest'
  <2>1. call' = [NoCall EXCEPT !.left = n, !.block = b, !.ee = ee] /\ pc'["game"] = "rdwait"
    BY <1>4, Types, GotoEffect DEF sceCdStRead, Threads, GameLabels
  <2>2. call'.left = n /\ call'.block = b /\ call'.ee = ee
    BY <2>1 DEF NoCall
  <2>. QED BY <1>4, <2>1, <2>2, RequestAssumption DEF Modest
<1>5. CASE (StReadCopy /\ ~(call.ee /\ Copied(call.left) > 0)) \/ StReadDma
  <2>1. PICK n, p : Hands(n, p) /\ Deliver(n, p)
    BY <1>5, DeliversFifo
  <2>. QED BY <2>1, DeliverIsModest DEF Hands
<1>6. CASE StReadCopy /\ call.ee /\ Copied(call.left) > 0
  <2>1. PICK n, p : call' = [call EXCEPT !.copied = n, !.rdptr = p]
    BY <1>6 DEF StReadCopy
  <2>2. call'.left = call.left /\ call'.block = call.block /\ call'.ee = call.ee
    BY <2>1, Types DEF CallRecs
  <2>. QED BY <1>6, <2>2 DEF Modest
<1>. QED BY <1>1, <1>2, <1>3, <1>4, <1>5, <1>6, StepsAside

\* Every step keeps Feed.
LEMMA FeedHolds ==
  ASSUME ReaderOutranks, Typed, Tracking, Control, Pointers, Feed, Modest, Tracking', Next
  PROVE  Feed'
<1>1. CASE Reader
  BY <1>1, WakeFeeds, AnswerFeeds, DoneFeeds, SignalFeeds, CountFeeds DEF Reader
<1>2. CASE EventAlarm \/ StmScheduleCb
  BY <1>2, EventFeeds, ScheduleFeeds
<1>3. CASE Fill("game")
  BY <1>3, AllocFeeds, FullFeeds, ReadFeeds, FailFeeds, RescheduleFeeds DEF Fill, Threads
<1>4. CASE Fill("reader")
  <2>1. ~StFillFail("reader") /\ ~StReschedule("reader")
    BY DEF StFillFail, StReschedule, At, Control, ReaderAt
  <2>. QED BY <1>4, <2>1, AllocFeeds, FullFeeds, ReadFeeds DEF Fill, Threads
<1>5. CASE GameStep
  <2>1. CASE StReadCopy /\ ~(call.ee /\ Copied(call.left) > 0)
    <3>1. /\ Deliver(Copied(call.left), ReadPtrAfter(call.left))
          /\ ReaderBlocked /\ pc["game"] = "rdcopy"
          /\ UNCHANGED <<rthread_sema, cdread, reading, Stm0Callback, stmAlarm, pausedRead, intr_ef>>
      BY <2>1 DEF StReadCopy, At, MayRun, drive, handover
    <3>. QED BY <3>1, CopyHands, DeliverFeeds
  <2>2. CASE StReadDma
    <3>1. /\ Deliver(call.copied, call.rdptr)
          /\ ReaderBlocked /\ pc["game"] = "rddma"
          /\ UNCHANGED <<rthread_sema, cdread, reading, Stm0Callback, stmAlarm, pausedRead, intr_ef>>
      BY <2>2 DEF StReadDma, At, MayRun, drive, handover
    <3>2. Hands(call.copied, call.rdptr)
      BY <3>1, Types DEF Pointers, Hands, CallRecs
    <3>. QED BY <3>1, <3>2, DeliverFeeds
  <2>. QED BY <1>5, <2>1, <2>2, GameStepFeeds, StartedFeeds, StoppedFeeds DEF GameStep
<1>6. CASE GameCall
  BY <1>6, GameCallFeeds, ResumeFeeds, InitFeeds DEF GameCall
<1>. QED BY <1>1, <1>2, <1>3, <1>4, <1>5, <1>6 DEF Next, Threads

\* The invariant with what keeps the stream fed.
FInv == IInv /\ (Tracking => Feed) /\ Modest

\* At first there is nothing to feed.
LEMMA FeedsInit == Init => FInv
<1>. SUFFICES ASSUME Init PROVE FInv
  OBVIOUS
<1>1. pc["game"] = "idle" /\ pc["reader"] = "wait"
  BY DEF Init, Return, Threads
<1>2. call.left = 0 /\ call.ee = FALSE
  BY DEF Init, NoCall
<1>3. Modest
  BY <1>1, <1>2, RingSize DEF Modest
<1>4. ~Stm0Callback /\ ~stmAlarm /\ st.StIsReading = FALSE
  BY DEF Init
<1>5. Feed
  BY <1>1, <1>4 DEF Feed, Fed, Awaited, Resting, Full, Asked, Filling, InRead, Threads
<1>. QED BY <1>3, <1>5, InitHolds DEF FInv

\* Every step keeps it.
LEMMA FeedsStep ==
  ASSUME ReaderOutranks, FInv, [Next]_vars PROVE FInv'
<1>1. IInv /\ IInv' /\ (Tracking => Feed) /\ Modest
  BY StepHolds DEF FInv
<1>2. CASE Next
  <2>1. Tracking /\ Typed /\ Control /\ Pointers /\ Feed
    BY <1>1, <1>2 DEF Next, IInv
  <2>2. Modest'
    BY <1>1, <1>2, <2>1, ModestHolds
  <2>3. Tracking' => Feed'
    BY <1>1, <1>2, <2>1, FeedHolds
  <2>. QED BY <1>1, <2>2, <2>3 DEF FInv
<1>3. CASE UNCHANGED vars
  <2>. USE <1>3 DEF vars, drive, cb, handover, stream, history, bounds
  <2>1. Modest' <=> Modest
    BY DEF Modest
  <2>2. Tracking' <=> Tracking
    BY DEF Tracking, ReaderBusy
  <2>3. Feed' <=> Feed
    BY DEF Feed, Fed, Awaited, Resting, Full, Asked, Feeding, InFlight, Pending, InDevice,
       Ended, BankFree
  <2>. QED BY <1>1, <2>1, <2>2, <2>3 DEF FInv
<1>. QED BY <1>2, <1>3

\* A running stream with a free bank is being fed, unless the game is about
\* to stop or pause it; and a blocking sceCdStRead that waits is always
\* waiting for a bank that someone else is reading or about to ask for.
NotStarved ==
  Tracking /\ Stm0Callback /\ ~pausedRead =>
    /\ BankFree => Feeding \/ pc["game"] \in {"stop", "pause"}
    /\ pc["game"] = "rdwait" /\ 8 \notin intr_ef =>
         InFlight \/ Ended \/ stmAlarm \/ pc["reader"] \in {"fill", "fillread"}

\* For a ring of any size and any requests that leave room for a bank: the
\* stream does not starve. StFillStreamBuffer's early returns (StIsReading is
\* set, no bank is free, the drive is busy), StmCallback and the alarm never
\* each rely on another to ask for the next bank, and a read never waits on a
\* ring that nobody refills.
THEOREM StreamIsFed == ASSUME ReaderOutranks PROVE Spec => []NotStarved
<1>1. FInv => NotStarved
  <2>. SUFFICES ASSUME FInv, Tracking, Stm0Callback, ~pausedRead
                PROVE  /\ BankFree => Feeding \/ pc["game"] \in {"stop", "pause"}
                       /\ pc["game"] = "rdwait" /\ 8 \notin intr_ef =>
                            InFlight \/ Ended \/ stmAlarm \/ pc["reader"] \in {"fill", "fillread"}
    BY DEF NotStarved
  <2>1. Fed /\ Asked
    BY DEF FInv, Feed
  <2>2. st.StStreamed = 0 => BankFree
    BY RingSize DEF BankFree
  <2>. QED BY <2>1, <2>2 DEF Fed, Asked, Feeding
<1>2. Init => FInv
  BY FeedsInit
<1>3. FInv /\ [Next]_vars => FInv'
  BY FeedsStep
<1>. QED BY <1>1, <1>2, <1>3, PTL DEF Spec

=============================================================================
