-------------------------------- MODULE Bgm ---------------------------------
(***************************************************************************)
(* The background music of src/src/sound.c.  bgmIoThread decodes the Ogg   *)
(* file into a ring of buffers, bgmThread hands them to audsrv, and the    *)
(* GUI thread starts and stops the two (gui.c, opl.c).  inSema counts the  *)
(* free parts of the ring and outSema the ones to play.                    *)
(*                                                                         *)
(* One step is one access to state that another thread uses.  The GUI      *)
(* thread outranks both (31 against 0x40 and 0x41) and may run at any      *)
(* time; what it does between two waits is one step.  deferredAudioInit    *)
(* has run by then: it is queued before deferredInit, which ends the       *)
(* intro.                                                                  *)
(*                                                                         *)
(* An operator whose name ends in _Bug is a wrong version of the one below *)
(* it.                                                                     *)
(***************************************************************************)
EXTENDS Integers

CONSTANTS
  RingCount,   \* BGM_RING_BUFFER_COUNT
  MaxStarts,   \* bound: calls of bgmStart
  MaxWakeups   \* bound: wakeups that the kernel counts

ASSUME RingAssumption  == RingCount \in Nat \ {0}
ASSUME BoundAssumption == MaxStarts \in Nat /\ MaxWakeups \in Nat \ {0}

VARIABLES
  terminateFlag,
  bgmIsPlaying,
  rdPtr,
  wrPtr,
  inSema,              \* the count of the semaphore
  outSema,
  bgmThreadRunning,
  bgmIoThreadRunning,
  gEnableBGM,
  audio_initialized,
  player,              \* where bgmThread is
  decoder,             \* where bgmIoThread is
  gui,                 \* where the GUI thread is
  after,               \* where it continues when bgmStop has returned
  wakeups,             \* WakeupThread calls that bgmThread has not used up
  partsToRead,
  toSignal,            \* how many parts bgmIoThread has still to signal
  starts,              \* calls of bgmStart so far
  clash                \* the ring was set up or freed under a live thread

ring     == <<rdPtr, wrPtr>>
semas    == <<inSema, outSema>>
running  == <<bgmThreadRunning, bgmIoThreadRunning>>
settings == <<gEnableBGM, audio_initialized>>
caller   == <<gui, after, starts, clash>>
locals   == <<partsToRead, toSignal>>
vars     == <<terminateFlag, bgmIsPlaying, ring, semas, running, settings, player,
              decoder, caller, wakeups, locals>>

PlayerLabels  == {"dormant", "ready", "check", "sleep", "poll", "play", "signal",
                  "stop", "notrunning", "notplaying"}
DecoderLabels == {"dormant", "ready", "wait", "poll", "decode", "advance", "signal",
                  "wake", "loop", "notrunning", "terminate", "wakelast"}
GuiLabels     == {"start", "menu", "stopio", "stopbgm", "theme", "ended"}

-----------------------------------------------------------------------------
(* The configuration is loaded; guiMainLoop is about to begin.             *)
Init ==
  /\ terminateFlag = FALSE /\ bgmIsPlaying = FALSE
  /\ rdPtr = 0 /\ wrPtr = 0 /\ inSema = 0 /\ outSema = 0
  /\ bgmThreadRunning = FALSE /\ bgmIoThreadRunning = FALSE
  /\ gEnableBGM \in BOOLEAN /\ audio_initialized = TRUE
  /\ player = "dormant" /\ decoder = "dormant"
  /\ gui = "start" /\ after = "menu" /\ starts = 0 /\ clash = FALSE
  /\ wakeups = 0 /\ partsToRead = 0 /\ toSignal = 0

-----------------------------------------------------------------------------
(* bgmThread                                                               *)

PlayerStart ==
  /\ player = "ready"
  /\ bgmThreadRunning' = TRUE
  /\ player' = "check"
  /\ UNCHANGED <<terminateFlag, bgmIsPlaying, ring, semas, bgmIoThreadRunning, settings,
                 decoder, caller, wakeups, locals>>

PlayerCheck ==
  /\ player = "check"
  /\ player' = IF terminateFlag THEN "stop" ELSE "sleep"
  /\ UNCHANGED <<terminateFlag, bgmIsPlaying, ring, semas, running, settings, decoder,
                 caller, wakeups, locals>>

(* SleepThread returns at once if a wakeup is pending.                     *)
PlayerSleep ==
  /\ player = "sleep"
  /\ wakeups > 0
  /\ wakeups' = wakeups - 1
  /\ player' = "poll"
  /\ UNCHANGED <<terminateFlag, bgmIsPlaying, ring, semas, running, settings, decoder,
                 caller, locals>>

PlayerPoll ==
  /\ player = "poll"
  /\ \/ outSema > 0 /\ outSema' = outSema - 1 /\ player' = "play"
     \/ outSema = 0 /\ player' = "check" /\ UNCHANGED outSema
  /\ UNCHANGED <<terminateFlag, bgmIsPlaying, ring, inSema, running, settings, decoder,
                 caller, wakeups, locals>>

(* audsrv has taken the part at rdPtr.                                     *)
PlayerPlay ==
  /\ player = "play"
  /\ rdPtr' = (rdPtr + 1) % RingCount
  /\ player' = "signal"
  /\ UNCHANGED <<terminateFlag, bgmIsPlaying, wrPtr, semas, running, settings, decoder,
                 caller, wakeups, locals>>

PlayerSignal ==
  /\ player = "signal"
  /\ inSema' = inSema + 1
  /\ player' = "poll"
  /\ UNCHANGED <<terminateFlag, bgmIsPlaying, ring, outSema, running, settings, decoder,
                 caller, wakeups, locals>>

PlayerStop ==
  /\ player = "stop"
  /\ rdPtr' = 0 /\ wrPtr' = 0
  /\ player' = "notrunning"
  /\ UNCHANGED <<terminateFlag, bgmIsPlaying, semas, running, settings, decoder, caller,
                 wakeups, locals>>

PlayerNotRunning ==
  /\ player = "notrunning"
  /\ bgmThreadRunning' = FALSE
  /\ player' = "notplaying"
  /\ UNCHANGED <<terminateFlag, bgmIsPlaying, ring, semas, bgmIoThreadRunning, settings,
                 decoder, caller, wakeups, locals>>

PlayerNotPlaying ==
  /\ player = "notplaying"
  /\ bgmIsPlaying' = FALSE
  /\ player' = "dormant"
  /\ UNCHANGED <<terminateFlag, ring, semas, running, settings, decoder, caller, wakeups,
                 locals>>

-----------------------------------------------------------------------------
(* bgmIoThread                                                             *)

DecoderStart ==
  /\ decoder = "ready"
  /\ bgmIoThreadRunning' = TRUE
  /\ decoder' = "wait"
  /\ UNCHANGED <<terminateFlag, bgmIsPlaying, ring, semas, bgmThreadRunning, settings,
                 player, caller, wakeups, locals>>

DecoderWait ==
  /\ decoder = "wait"
  /\ inSema > 0 /\ inSema' = inSema - 1
  /\ partsToRead' = 1
  /\ decoder' = "poll"
  /\ UNCHANGED <<terminateFlag, bgmIsPlaying, ring, outSema, running, settings, player,
                 caller, wakeups, toSignal>>

(* The parts end at the end of the buffer array.                           *)
RoomInRing == wrPtr + partsToRead < RingCount

DecoderPoll ==
  /\ decoder = "poll"
  /\ \/ /\ RoomInRing /\ inSema > 0
        /\ inSema' = inSema - 1
        /\ partsToRead' = partsToRead + 1
        /\ UNCHANGED decoder
     \/ /\ ~(RoomInRing /\ inSema > 0)
        /\ decoder' = "decode"
        /\ UNCHANGED <<inSema, partsToRead>>
  /\ UNCHANGED <<terminateFlag, bgmIsPlaying, ring, outSema, running, settings, player,
                 caller, wakeups, toSignal>>

(* ov_read fills the part at wrPtr, or reports an error.                   *)
DecoderDecode ==
  /\ decoder = "decode"
  /\ terminateFlag' \in {terminateFlag, TRUE}
  /\ decoder' = "advance"
  /\ UNCHANGED <<bgmIsPlaying, ring, semas, running, settings, player, caller, wakeups,
                 locals>>

(* The pointer moves on by one part.                                       *)
DecoderStep_Bug ==
  /\ decoder = "advance"
  /\ wrPtr' = (wrPtr + 1) % RingCount
  /\ toSignal' = partsToRead
  /\ decoder' = "signal"
  /\ UNCHANGED <<terminateFlag, bgmIsPlaying, rdPtr, semas, running, settings, player,
                 caller, wakeups, partsToRead>>

DecoderAdvance ==
  /\ decoder = "advance"
  /\ wrPtr' = (wrPtr + partsToRead) % RingCount
  /\ toSignal' = partsToRead
  /\ decoder' = "signal"
  /\ UNCHANGED <<terminateFlag, bgmIsPlaying, rdPtr, semas, running, settings, player,
                 caller, wakeups, partsToRead>>

DecoderSignal ==
  /\ decoder = "signal"
  /\ toSignal' = toSignal - 1
  /\ outSema' = outSema + 1
  /\ decoder' = IF toSignal' = 0 THEN "wake" ELSE "signal"
  /\ UNCHANGED <<terminateFlag, bgmIsPlaying, ring, inSema, running, settings, player,
                 caller, wakeups, partsToRead>>

(* WakeupThread(bgmThreadID).  A thread that has returned cannot be woken; *)
(* the count stops at MaxWakeups, beyond which one more only makes         *)
(* bgmThread look at outSema once more.                                    *)
Woken == IF player = "dormant" \/ wakeups = MaxWakeups THEN wakeups ELSE wakeups + 1

(* The parts are signalled but nobody is woken.                            *)
DecoderWake_Bug ==
  /\ decoder = "wake"
  /\ decoder' = "loop"
  /\ UNCHANGED <<terminateFlag, bgmIsPlaying, ring, semas, running, settings, player,
                 caller, wakeups, locals>>

DecoderWake ==
  /\ decoder = "wake"
  /\ wakeups' = Woken
  /\ decoder' = "loop"
  /\ UNCHANGED <<terminateFlag, bgmIsPlaying, ring, semas, running, settings, player,
                 caller, locals>>

DecoderLoop ==
  /\ decoder = "loop"
  /\ decoder' = IF ~terminateFlag /\ gEnableBGM THEN "wait" ELSE "notrunning"
  /\ UNCHANGED <<terminateFlag, bgmIsPlaying, ring, semas, running, settings, player,
                 caller, wakeups, locals>>

DecoderNotRunning ==
  /\ decoder = "notrunning"
  /\ bgmIoThreadRunning' = FALSE
  /\ decoder' = "terminate"
  /\ UNCHANGED <<terminateFlag, bgmIsPlaying, ring, semas, bgmThreadRunning, settings,
                 player, caller, wakeups, locals>>

DecoderTerminate ==
  /\ decoder = "terminate"
  /\ terminateFlag' = TRUE
  /\ decoder' = "wakelast"
  /\ UNCHANGED <<bgmIsPlaying, ring, semas, running, settings, player, caller, wakeups,
                 locals>>

DecoderWakeLast ==
  /\ decoder = "wakelast"
  /\ wakeups' = Woken
  /\ decoder' = "dormant"
  /\ UNCHANGED <<terminateFlag, bgmIsPlaying, ring, semas, running, settings, player,
                 caller, locals>>

-----------------------------------------------------------------------------
(* The GUI thread                                                          *)

(* DeleteThread refuses a thread that has not returned, and the next       *)
(* CreateThread gives its stack away.                                      *)
Idle == player = "dormant" /\ decoder = "dormant"

Quiet == UNCHANGED <<starts, clash, terminateFlag, ring, running, bgmIsPlaying, semas,
                     wakeups, locals, player, decoder>>

(* bgmStart, from a place where the GUI thread continues at label.  It     *)
(* gives up silently if a semaphore, a thread or the file is not to be     *)
(* had.                                                                    *)
bgmStart(label) ==
  /\ gui' = label
  /\ \/ ~audio_initialized' /\ Quiet
     \/ /\ audio_initialized' /\ starts < MaxStarts /\ Idle
        /\ starts' = starts + 1
        /\ terminateFlag' = FALSE
        /\ rdPtr' = 0 /\ wrPtr' = 0
        /\ bgmThreadRunning' = FALSE /\ bgmIoThreadRunning' = FALSE
        /\ \/ /\ bgmIsPlaying' = TRUE
              /\ inSema' = RingCount /\ outSema' = 0 /\ wakeups' = 0
              /\ partsToRead' = 0 /\ toSignal' = 0
              /\ player' = "ready" /\ decoder' = "ready"
           \/ UNCHANGED <<bgmIsPlaying, semas, wakeups, locals, player, decoder>>
        /\ UNCHANGED clash
     \/ /\ audio_initialized' /\ starts < MaxStarts /\ ~Idle
        /\ clash' = TRUE
        /\ UNCHANGED <<starts, terminateFlag, ring, running, bgmIsPlaying, semas, wakeups,
                       locals, player, decoder>>

(* guiMainLoop begins.                                                     *)
MainLoop ==
  /\ gui = "start"
  /\ UNCHANGED <<settings, after>>
  /\ \/ gEnableBGM /\ bgmStart("menu")
     \/ ~gEnableBGM /\ gui' = "menu" /\ Quiet

(* guiSetAudioSettingsState.                                               *)
AudioSettings ==
  /\ gui = "menu"
  /\ gEnableBGM' \in BOOLEAN
  /\ UNCHANGED <<audio_initialized, after>>
  /\ \/ gEnableBGM' /\ ~bgmIsPlaying /\ bgmStart("menu")
     \/ ~(gEnableBGM' /\ ~bgmIsPlaying) /\ gui' = "menu" /\ Quiet

(* bgmStop: the flag and a wakeup, then two loops that wait for an alarm.  *)
bgmStop(label) ==
  /\ after' = label
  /\ \/ /\ audio_initialized
        /\ gui' = "stopio"
        /\ terminateFlag' = TRUE
        /\ wakeups' = Woken
     \/ /\ ~audio_initialized
        /\ gui' = label
        /\ UNCHANGED <<terminateFlag, wakeups>>
  /\ UNCHANGED <<starts, clash, ring, running, bgmIsPlaying, semas, locals, player, decoder>>

StopWaitIo ==
  /\ gui = "stopio"
  /\ ~bgmIoThreadRunning
  /\ gui' = "stopbgm"
  /\ UNCHANGED <<settings, after>> /\ Quiet

(* ... and bgmDeinit.                                                      *)
StopWaitBgm ==
  /\ gui = "stopbgm"
  /\ ~bgmThreadRunning
  /\ clash' = ~Idle
  /\ gui' = after
  /\ UNCHANGED <<settings, after, starts, terminateFlag, ring, running, bgmIsPlaying,
                 semas, wakeups, locals, player, decoder>>

(* guiShowUIConfig with another theme: stop, applyConfig, start.           *)
ThemeStop ==
  /\ gui = "menu" /\ starts < MaxStarts
  /\ \/ bgmIsPlaying /\ bgmStop("theme")
     \/ ~bgmIsPlaying /\ gui' = "theme" /\ UNCHANGED after /\ Quiet
  /\ UNCHANGED settings

ThemeStart ==
  /\ gui = "theme"
  /\ UNCHANGED <<settings, after>>
  /\ \/ gEnableBGM /\ ~bgmIsPlaying /\ bgmStart("menu")
     \/ ~(gEnableBGM /\ ~bgmIsPlaying) /\ gui' = "menu" /\ Quiet

(* audioEnd, when the NBD server is loaded or the program ends.            *)
AudioEnd ==
  /\ gui = "menu" /\ starts < MaxStarts
  /\ LET stops == audio_initialized /\ gEnableBGM /\ bgmIsPlaying
     IN  \/ stops /\ bgmStop("ended")
         \/ ~stops /\ gui' = "ended" /\ UNCHANGED after /\ Quiet
  /\ UNCHANGED settings

(* audsrv_quit ends audioEnd; when the NBD server is unloaded, audioInit   *)
(* may fail, and bgmStart follows.                                         *)
AudioRestart ==
  /\ gui = "ended"
  /\ audio_initialized' \in BOOLEAN
  /\ UNCHANGED <<gEnableBGM, after>>
  /\ \/ gEnableBGM /\ bgmStart("menu")
     \/ ~gEnableBGM /\ gui' = "menu" /\ Quiet

-----------------------------------------------------------------------------
Player ==
  \/ PlayerStart \/ PlayerCheck \/ PlayerSleep \/ PlayerPoll \/ PlayerPlay
  \/ PlayerSignal \/ PlayerStop \/ PlayerNotRunning \/ PlayerNotPlaying

Decoder ==
  \/ DecoderStart \/ DecoderWait \/ DecoderPoll \/ DecoderDecode \/ DecoderAdvance
  \/ DecoderSignal \/ DecoderWake \/ DecoderLoop \/ DecoderNotRunning
  \/ DecoderTerminate \/ DecoderWakeLast

Stopping == StopWaitIo \/ StopWaitBgm

User == MainLoop \/ AudioSettings \/ ThemeStop \/ ThemeStart \/ AudioEnd \/ AudioRestart

(* The two threads have one and the same priority.                         *)
DecoderMayRun_Bug == TRUE

(* bgmIoThread has the lower priority, it runs while bgmThread sleeps or   *)
(* waits for audsrv.                                                       *)
DecoderMayRun ==
  \/ player \in {"dormant", "play", "stop"}
  \/ player = "sleep" /\ wakeups = 0

(* What two sessions at once do to each other is not described further.    *)
Next ==
  \/ ~clash /\ Player
  \/ ~clash /\ DecoderMayRun /\ Decoder
  \/ ~clash /\ Stopping
  \/ ~clash /\ User
  \/ clash /\ UNCHANGED vars

Spec == Init /\ [][Next]_vars

(* The GUI thread waits for every vertical sync and sleeps in bgmStop, and *)
(* bgmThread sleeps or waits for audsrv: each thread gets to run.          *)
FairSpec ==
  /\ Spec
  /\ WF_vars(~clash /\ Player) /\ WF_vars(~clash /\ DecoderMayRun /\ Decoder) /\ WF_vars(~clash /\ Stopping)

-----------------------------------------------------------------------------
FlagsOK ==
  /\ terminateFlag \in BOOLEAN /\ bgmIsPlaying \in BOOLEAN
  /\ bgmThreadRunning \in BOOLEAN /\ bgmIoThreadRunning \in BOOLEAN
  /\ gEnableBGM \in BOOLEAN /\ audio_initialized \in BOOLEAN /\ clash \in BOOLEAN

CountsOK ==
  /\ rdPtr \in 0 .. RingCount - 1 /\ wrPtr \in 0 .. RingCount - 1
  /\ inSema \in 0 .. RingCount /\ outSema \in 0 .. RingCount
  /\ partsToRead \in 0 .. RingCount /\ toSignal \in 0 .. RingCount
  /\ wakeups \in 0 .. MaxWakeups /\ starts \in 0 .. MaxStarts
  /\ player \in PlayerLabels /\ decoder \in DecoderLabels
  /\ gui \in GuiLabels /\ after \in {"menu", "theme", "ended"}

TypeOK == FlagsOK /\ CountsOK

(* The parts that each thread has taken out of a semaphore.                *)
HeldByPlayer  == IF player \in {"play", "signal"} THEN 1 ELSE 0
HeldByDecoder == IF decoder \in {"poll", "decode", "advance"} THEN partsToRead
                 ELSE IF decoder = "signal" THEN toSignal ELSE 0

(* Every part of the ring is free, to be played, or held by one thread:    *)
(* no part is lost or signalled twice.                                     *)
PartsConserved ==
  ~Idle => inSema + outSema + HeldByPlayer + HeldByDecoder = RingCount

(* The parts that are decoded and not yet taken by audsrv.                 *)
Unplayed == outSema + (IF player = "play" THEN 1 ELSE 0)
                    + (IF decoder = "signal" THEN toSignal ELSE 0)

Ended == player \in {"notrunning", "notplaying", "dormant"}

(* No part is lost or signalled twice, so that no pointer leaves the       *)
(* buffer array and no semaphore passes its maximum count.  The two        *)
(* pointers stay in step: the parts between rdPtr and wrPtr are the ones   *)
(* signalled and not yet played, also across the end of the buffer, until  *)
(* bgmThread ends and resets both.                                         *)
PointersInStep ==
  /\ TypeOK
  /\ PartsConserved
  /\ ~Ended => (rdPtr + Unplayed) % RingCount = wrPtr

(* ov_read never writes into a part that audsrv is still to be given.      *)
NoOverwrite ==
  ~Ended /\ decoder = "decode" =>
    \A k \in 0 .. Unplayed - 1 : (rdPtr + k) % RingCount # wrPtr

Stopped == player \in {"stop", "notrunning", "notplaying", "dormant"}

PlayerWaits  == player = "sleep" /\ wakeups = 0
DecoderWaits == decoder = "wait" /\ inSema = 0

(* Neither thread waits for one that cannot go on: bgmIoThread waits for a *)
(* free part only while bgmThread is there to free one, and bgmThread      *)
(* sleeps only while bgmIoThread is on its way to wake it, be it with a    *)
(* part or because the music ends.                                         *)
NoStandstill ==
  /\ DecoderWaits => ~PlayerWaits /\ ~Stopped
  /\ PlayerWaits => decoder # "dormant"

(* bgmStop returns: neither thread is left waiting for the other.          *)
StopReturns == gui \in {"stopio", "stopbgm"} ~> (gui \notin {"stopio", "stopbgm"} \/ clash)

(* While the music is on, bgmThread always gets another part to play.      *)
KeepsPlaying ==
  (player = "sleep" /\ ~terminateFlag) ~> (player = "play" \/ terminateFlag \/ clash)

=============================================================================
