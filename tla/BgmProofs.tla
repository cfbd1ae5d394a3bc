----------------------------- MODULE BgmProofs ------------------------------
(***************************************************************************)
(* Machine-checked proofs about Bgm, for a ring of any size and any number *)
(* of sessions.  Only NeverStandsStill uses that 0x40 outranks 0x41.        *)
(***************************************************************************)
EXTENDS Bgm, TLAPS

(* What bgmIoThread holds: at least one part, none of them behind the end  *)
(* of the buffer array.                                                    *)
PartsHeld ==
  /\ decoder \in {"poll", "decode", "advance"} =>
       partsToRead >= 1 /\ wrPtr + partsToRead <= RingCount
  /\ decoder = "signal" => toSignal >= 1

(* PointersInStep without the remainder: the pointers differ by Unplayed,  *)
(* or by that and the size of the ring.                                    *)
InStep ==
  ~Ended => \/ rdPtr + Unplayed = wrPtr
            \/ rdPtr + Unplayed = wrPtr + RingCount

Counting == CountsOK /\ PartsConserved /\ PartsHeld /\ InStep

IInv == FlagsOK /\ Counting

-----------------------------------------------------------------------------
(* A pointer that has run past the end of the ring by less than its size.  *)
LEMMA Remainder ==
  ASSUME NEW i \in 0 .. 2 * RingCount - 1
  PROVE  i % RingCount = IF i < RingCount THEN i ELSE i - RingCount
BY RingAssumption, SMTT(30)

LEMMA InitHolds == Init => IInv
<1> SUFFICES ASSUME Init PROVE IInv
  OBVIOUS
<1>1. FlagsOK  BY Zenon DEF Init, FlagsOK
<1>2. Counting
  BY RingAssumption, BoundAssumption
     DEF Init, Counting, CountsOK, PartsConserved, PartsHeld, InStep, Idle, Ended,
         PlayerLabels, DecoderLabels, GuiLabels
<1> QED BY <1>1, <1>2 DEF IInv

(* No step of bgmThread breaks the counts and pointers.                    *)
LEMMA PlayerCounts == ASSUME Counting, Player PROVE Counting'
<1> USE RingAssumption, BoundAssumption
    DEF Counting, CountsOK, PartsConserved, HeldByPlayer, HeldByDecoder, PartsHeld, InStep,
        Unplayed, Ended, Idle, PlayerLabels, DecoderLabels, GuiLabels,
        ring, semas, running, settings, caller, locals
<1>1. CASE PlayerStart  BY <1>1 DEF PlayerStart
<1>2. CASE PlayerCheck  BY <1>2 DEF PlayerCheck
<1>3. CASE PlayerSleep  BY <1>3 DEF PlayerSleep
<1>4. CASE PlayerPoll  BY <1>4 DEF PlayerPoll
<1>5. CASE PlayerPlay
  <2>1. rdPtr + 1 \in 0 .. 2 * RingCount - 1
    BY <1>5 DEF PlayerPlay
  <2>2. rdPtr' = IF rdPtr + 1 < RingCount THEN rdPtr + 1 ELSE rdPtr + 1 - RingCount
    BY <1>5, <2>1, Remainder DEF PlayerPlay
  <2> QED BY <1>5, <2>2 DEF PlayerPlay
<1>6. CASE PlayerSignal  BY <1>6 DEF PlayerSignal
<1>7. CASE PlayerStop  BY <1>7 DEF PlayerStop
<1>8. CASE PlayerNotRunning  BY <1>8 DEF PlayerNotRunning
<1>9. CASE PlayerNotPlaying  BY <1>9 DEF PlayerNotPlaying
<1> QED
  BY <1>1, <1>2, <1>3, <1>4, <1>5, <1>6, <1>7, <1>8, <1>9 DEF Player

(* Nor does a step of bgmIoThread.                                         *)
LEMMA DecoderCounts == ASSUME Counting, Decoder PROVE Counting'
<1> USE RingAssumption, BoundAssumption
    DEF Counting, CountsOK, PartsConserved, HeldByPlayer, HeldByDecoder, PartsHeld, InStep,
        Unplayed, Ended, Idle, PlayerLabels, DecoderLabels, GuiLabels,
        ring, semas, running, settings, caller, locals
<1>1. CASE DecoderStart  BY <1>1 DEF DecoderStart
<1>2. CASE DecoderWait  BY <1>2 DEF DecoderWait
<1>3. CASE DecoderPoll  BY <1>3 DEF DecoderPoll, RoomInRing
<1>4. CASE DecoderDecode  BY <1>4 DEF DecoderDecode
<1>5. CASE DecoderAdvance
  <2>1. wrPtr + partsToRead \in 0 .. 2 * RingCount - 1
    BY <1>5 DEF DecoderAdvance
  <2>2. wrPtr' = IF wrPtr + partsToRead < RingCount THEN wrPtr + partsToRead ELSE wrPtr + partsToRead - RingCount
    BY <1>5, <2>1, Remainder DEF DecoderAdvance
  <2> QED BY <1>5, <2>2 DEF DecoderAdvance
<1>6. CASE DecoderSignal  BY <1>6 DEF DecoderSignal
<1>7. CASE DecoderWake  BY <1>7 DEF DecoderWake, Woken
<1>8. CASE DecoderLoop  BY <1>8 DEF DecoderLoop
<1>9. CASE DecoderNotRunning  BY <1>9 DEF DecoderNotRunning
<1>10. CASE DecoderTerminate  BY <1>10 DEF DecoderTerminate
<1>11. CASE DecoderWakeLast  BY <1>11 DEF DecoderWakeLast, Woken
<1> QED
  BY <1>1, <1>2, <1>3, <1>4, <1>5, <1>6, <1>7, <1>8, <1>9, <1>10, <1>11 DEF Decoder

(* The flags, under the steps of bgmThread ...                             *)
LEMMA PlayerFlags == ASSUME FlagsOK, Player PROVE FlagsOK'
<1> USE DEF FlagsOK, ring, semas, running, settings, caller, locals
<1>1. CASE PlayerStart  BY <1>1, Zenon DEF PlayerStart
<1>2. CASE PlayerCheck  BY <1>2, Zenon DEF PlayerCheck
<1>3. CASE PlayerSleep  BY <1>3, Zenon DEF PlayerSleep
<1>4. CASE PlayerPoll  BY <1>4, Zenon DEF PlayerPoll
<1>5. CASE PlayerPlay  BY <1>5, Zenon DEF PlayerPlay
<1>6. CASE PlayerSignal  BY <1>6, Zenon DEF PlayerSignal
<1>7. CASE PlayerStop  BY <1>7, Zenon DEF PlayerStop
<1>8. CASE PlayerNotRunning  BY <1>8, Zenon DEF PlayerNotRunning
<1>9. CASE PlayerNotPlaying  BY <1>9, Zenon DEF PlayerNotPlaying
<1> QED
  BY <1>1, <1>2, <1>3, <1>4, <1>5, <1>6, <1>7, <1>8, <1>9 DEF Player

(* ... and of bgmIoThread.                                                 *)
LEMMA DecoderFlags == ASSUME FlagsOK, Decoder PROVE FlagsOK'
<1> USE DEF FlagsOK, ring, semas, running, settings, caller, locals
<1>1. CASE DecoderStart  BY <1>1, Zenon DEF DecoderStart
<1>2. CASE DecoderWait  BY <1>2, Zenon DEF DecoderWait
<1>3. CASE DecoderPoll  BY <1>3, Zenon DEF DecoderPoll
<1>4. CASE DecoderDecode  BY <1>4, Zenon DEF DecoderDecode
<1>5. CASE DecoderAdvance  BY <1>5, Zenon DEF DecoderAdvance
<1>6. CASE DecoderSignal  BY <1>6, Zenon DEF DecoderSignal
<1>7. CASE DecoderWake  BY <1>7, Zenon DEF DecoderWake
<1>8. CASE DecoderLoop  BY <1>8, Zenon DEF DecoderLoop
<1>9. CASE DecoderNotRunning  BY <1>9, Zenon DEF DecoderNotRunning
<1>10. CASE DecoderTerminate  BY <1>10, Zenon DEF DecoderTerminate
<1>11. CASE DecoderWakeLast  BY <1>11, Zenon DEF DecoderWakeLast
<1> QED
  BY <1>1, <1>2, <1>3, <1>4, <1>5, <1>6, <1>7, <1>8, <1>9, <1>10, <1>11 DEF Decoder

(* bgmStart sets up counts and pointers anew.                              *)
LEMMA StartCounts ==
  ASSUME Counting, bgmStart("menu"), UNCHANGED after
  PROVE  Counting'
BY RingAssumption, BoundAssumption
   DEF bgmStart, Quiet, Counting, CountsOK, PartsConserved, HeldByPlayer, HeldByDecoder,
       PartsHeld, InStep, Unplayed, Ended, Idle, PlayerLabels, DecoderLabels, GuiLabels,
       ring, semas, running, locals

(* No step of the GUI thread breaks the counts and pointers.               *)
LEMMA GuiCounts == ASSUME Counting, Stopping \/ User PROVE Counting'
<1> USE RingAssumption, BoundAssumption
    DEF Counting, CountsOK, PartsConserved, HeldByPlayer, HeldByDecoder, PartsHeld, InStep,
        Unplayed, Ended, Idle, PlayerLabels, DecoderLabels, GuiLabels,
        ring, semas, running, settings, caller, locals
<1>1. CASE StopWaitIo    BY <1>1 DEF StopWaitIo, Quiet
<1>2. CASE StopWaitBgm   BY <1>2 DEF StopWaitBgm
<1>3. CASE MainLoop      BY <1>3, StartCounts DEF MainLoop, Quiet
<1>4. CASE AudioSettings BY <1>4, StartCounts DEF AudioSettings, Quiet
<1>5. CASE ThemeStop     BY <1>5 DEF ThemeStop, bgmStop, Woken, Quiet
<1>6. CASE ThemeStart    BY <1>6, StartCounts DEF ThemeStart, Quiet
<1>7. CASE AudioEnd      BY <1>7 DEF AudioEnd, bgmStop, Woken, Quiet
<1>8. CASE AudioRestart  BY <1>8, StartCounts DEF AudioRestart, Quiet
<1> QED
  BY <1>1, <1>2, <1>3, <1>4, <1>5, <1>6, <1>7, <1>8 DEF Stopping, User

(* The flags, under the steps of the GUI thread.                           *)
LEMMA GuiFlags ==
  ASSUME FlagsOK, Stopping \/ User
  PROVE  FlagsOK'
<1> USE DEF FlagsOK, ring, semas, running, settings, caller, locals, Idle
<1>1. CASE StopWaitIo  BY <1>1, Zenon DEF StopWaitIo, Quiet
<1>2. CASE StopWaitBgm  BY <1>2, Zenon DEF StopWaitBgm
<1>3. CASE MainLoop  BY <1>3, Zenon DEF MainLoop, bgmStart, Quiet
<1>4. CASE AudioSettings  BY <1>4, Zenon DEF AudioSettings, bgmStart, Quiet
<1>5. CASE ThemeStop  BY <1>5, Zenon DEF ThemeStop, bgmStop, Quiet
<1>6. CASE ThemeStart  BY <1>6, Zenon DEF ThemeStart, bgmStart, Quiet
<1>7. CASE AudioEnd  BY <1>7, Zenon DEF AudioEnd, bgmStop, Quiet
<1>8. CASE AudioRestart  BY <1>8, Zenon DEF AudioRestart, bgmStart, Quiet
<1> QED
  BY <1>1, <1>2, <1>3, <1>4, <1>5, <1>6, <1>7, <1>8 DEF Stopping, User

(* The inductive invariant holds in every behaviour of the three threads.  *)
THEOREM Invariance == Spec => []IInv
<1>1. IInv /\ UNCHANGED vars => IInv'
  BY DEF vars, ring, semas, running, settings, caller, locals, IInv, FlagsOK, Counting,
     CountsOK, PartsConserved, HeldByPlayer, HeldByDecoder, PartsHeld, InStep, Unplayed,
     Ended, Idle
<1>2. IInv /\ [Next]_vars => IInv'
  BY <1>1, PlayerCounts, DecoderCounts, GuiCounts, PlayerFlags, DecoderFlags, GuiFlags
     DEF Next, IInv
<1> QED
  BY <1>2, InitHolds, PTL DEF Spec

(* No part of the ring is lost or signalled twice, and rdPtr and wrPtr     *)
(* stay in step while bgmThread runs, however the threads interleave.      *)
THEOREM InStepCorrect == Spec => []PointersInStep
<1>1. ASSUME IInv, ~Ended PROVE (rdPtr + Unplayed) % RingCount = wrPtr
  <2>1. /\ rdPtr \in 0 .. RingCount - 1 /\ wrPtr \in 0 .. RingCount - 1
        /\ Unplayed \in 0 .. RingCount
    BY <1>1, RingAssumption
       DEF IInv, Counting, CountsOK, PartsConserved, PartsHeld, HeldByPlayer, HeldByDecoder,
           Unplayed, Ended, Idle
  <2>2. rdPtr + Unplayed \in 0 .. 2 * RingCount - 1
    BY <2>1, RingAssumption
  <2>3. \/ rdPtr + Unplayed = wrPtr
        \/ rdPtr + Unplayed = wrPtr + RingCount
    BY <1>1 DEF IInv, Counting, InStep
  <2> HIDE DEF Unplayed
  <2> QED BY <2>1, <2>2, <2>3, Remainder, RingAssumption
<1>2. IInv => TypeOK /\ PartsConserved  BY DEF IInv, Counting, TypeOK
<1>3. IInv => PointersInStep  BY <1>1, <1>2 DEF PointersInStep
<1> QED BY <1>3, Invariance, PTL

(* The decoder never overwrites a part that is still to be played.         *)
THEOREM OverwriteFree == Spec => []NoOverwrite
<1>1. ASSUME IInv, ~Ended, decoder = "decode", NEW k \in 0 .. Unplayed - 1
      PROVE  (rdPtr + k) % RingCount # wrPtr
  <2>1. /\ rdPtr \in 0 .. RingCount - 1 /\ wrPtr \in 0 .. RingCount - 1
        /\ Unplayed \in 0 .. RingCount - 1
    BY <1>1, RingAssumption
       DEF IInv, Counting, CountsOK, PartsConserved, PartsHeld, HeldByPlayer, HeldByDecoder,
           Unplayed, Ended, Idle
  <2>2. rdPtr + k \in 0 .. 2 * RingCount - 1
    BY <1>1, <2>1, RingAssumption
  <2>3. \/ rdPtr + Unplayed = wrPtr
        \/ rdPtr + Unplayed = wrPtr + RingCount
    BY <1>1 DEF IInv, Counting, InStep
  <2> HIDE DEF Unplayed
  <2> QED BY <1>1, <2>1, <2>2, <2>3, Remainder, RingAssumption
<1>2. IInv => NoOverwrite  BY <1>1 DEF NoOverwrite
<1> QED BY <1>2, Invariance, PTL

-----------------------------------------------------------------------------
(* bgmThread looks at terminateFlag only with outSema drained, and sleeps  *)
(* on filled parts only while the decoder is about to wake it.             *)
Heard ==
  /\ player \in {"ready", "check"} => outSema = 0
  /\ player = "sleep" /\ outSema > 0 => wakeups > 0 \/ decoder \in {"signal", "wake"}

(* A sleeping bgmThread is told of the end, and each thread ends only once *)
(* the flag is set.                                                        *)
Told ==
  /\ terminateFlag /\ player = "sleep" =>
       wakeups > 0 \/ decoder \in {"advance", "signal", "wake", "wakelast"}
  /\ player \in {"stop", "notrunning", "notplaying"} => terminateFlag
  /\ player = "dormant" /\ decoder # "dormant" => terminateFlag
  /\ decoder \in {"wakelast", "dormant"} /\ player # "dormant" => terminateFlag

(* bgmThread leaves bgmIoThread a free part when it ends.                  *)
Supplied ==
  /\ decoder = "ready" => inSema = RingCount
  /\ Stopped /\ decoder = "wait" => inSema > 0

Awake == Heard /\ Told /\ Supplied

(* The threads keep each other awake, under the steps of bgmThread ...     *)
LEMMA PlayerKeepsAwake == ASSUME IInv, Awake, Player PROVE Awake'
<1> USE RingAssumption, BoundAssumption
    DEF IInv, Counting, CountsOK, FlagsOK, PartsConserved, PartsHeld, HeldByPlayer, HeldByDecoder,
        Idle, Awake, Heard, Told, Supplied, Stopped, semas, running, locals
<1>1. CASE PlayerStart  BY <1>1 DEF PlayerStart
<1>2. CASE PlayerCheck  BY <1>2 DEF PlayerCheck
<1>3. CASE PlayerSleep  BY <1>3 DEF PlayerSleep
<1>4. CASE PlayerPoll  BY <1>4 DEF PlayerPoll
<1>5. CASE PlayerPlay  BY <1>5 DEF PlayerPlay
<1>6. CASE PlayerSignal  BY <1>6 DEF PlayerSignal
<1>7. CASE PlayerStop  BY <1>7 DEF PlayerStop
<1>8. CASE PlayerNotRunning  BY <1>8 DEF PlayerNotRunning
<1>9. CASE PlayerNotPlaying  BY <1>9 DEF PlayerNotPlaying
<1> QED
  BY <1>1, <1>2, <1>3, <1>4, <1>5, <1>6, <1>7, <1>8, <1>9 DEF Player

(* ... of bgmIoThread, which does not run between the other's last look at *)
(* outSema and its look at terminateFlag ...                               *)
LEMMA DecoderKeepsAwake == ASSUME IInv, Awake, Decoder, DecoderMayRun PROVE Awake'
<1> USE RingAssumption, BoundAssumption
    DEF IInv, Counting, CountsOK, FlagsOK, PartsConserved, PartsHeld, HeldByPlayer, HeldByDecoder,
        Idle, Awake, Heard, Told, Supplied, Stopped, semas, running, locals, DecoderMayRun
<1>1. CASE DecoderStart  BY <1>1 DEF DecoderStart
<1>2. CASE DecoderWait  BY <1>2 DEF DecoderWait
<1>3. CASE DecoderPoll  BY <1>3 DEF DecoderPoll
<1>4. CASE DecoderDecode  BY <1>4 DEF DecoderDecode
<1>5. CASE DecoderAdvance  BY <1>5 DEF DecoderAdvance
<1>6. CASE DecoderSignal  BY <1>6 DEF DecoderSignal
<1>7. CASE DecoderWake  BY <1>7 DEF DecoderWake, Woken
<1>8. CASE DecoderLoop  BY <1>8 DEF DecoderLoop
<1>9. CASE DecoderNotRunning  BY <1>9 DEF DecoderNotRunning
<1>10. CASE DecoderTerminate  BY <1>10 DEF DecoderTerminate
<1>11. CASE DecoderWakeLast  BY <1>11 DEF DecoderWakeLast, Woken
<1> QED
  BY <1>1, <1>2, <1>3, <1>4, <1>5, <1>6, <1>7, <1>8, <1>9, <1>10, <1>11 DEF Decoder

(* ... and of the GUI thread, which starts both or tells both to end.      *)
LEMMA GuiKeepsAwake == ASSUME IInv, Awake, Stopping \/ User PROVE Awake'
<1> USE RingAssumption, BoundAssumption
    DEF IInv, Counting, CountsOK, FlagsOK, Idle, Awake, Heard, Told, Supplied, Stopped,
        semas, running, settings, caller, locals
<1>1. CASE StopWaitIo \/ StopWaitBgm  BY <1>1 DEF StopWaitIo, StopWaitBgm, Quiet
<1>2. CASE \E label : bgmStart(label)  BY <1>2 DEF bgmStart, Quiet
<1>3. CASE \E label : bgmStop(label)  BY <1>3 DEF bgmStop, Woken
<1>4. CASE Quiet  BY <1>4 DEF Quiet
<1> QED
  BY <1>1, <1>2, <1>3, <1>4
     DEF Stopping, User, MainLoop, AudioSettings, ThemeStop, ThemeStart, AudioEnd, AudioRestart

(* With the priorities of the two threads, for a ring of any size: neither *)
(* waits for one that cannot go on, while the music plays and while it     *)
(* ends.                                                                   *)
THEOREM NeverStandsStill == Spec => []NoStandstill
<1>1. Init => Awake
  BY DEF Init, Awake, Heard, Told, Supplied, Stopped
<1>2. IInv /\ Awake /\ [Next]_vars => Awake'
  <2>1. Awake /\ UNCHANGED vars => Awake'
    BY DEF vars, semas, Awake, Heard, Told, Supplied, Stopped
  <2> QED
    BY <2>1, PlayerKeepsAwake, DecoderKeepsAwake, GuiKeepsAwake DEF Next
<1>3. IInv /\ Awake => NoStandstill
  BY RingAssumption
     DEF IInv, Counting, CountsOK, PartsConserved, HeldByPlayer, HeldByDecoder, Idle, Awake, Heard,
         Told, Supplied, Stopped, NoStandstill, PlayerWaits, DecoderWaits
<1> QED BY <1>1, <1>2, <1>3, Invariance, PTL DEF Spec
=============================================================================
