----------------------------- MODULE StreamFifo -----------------------------
(***************************************************************************)
(* What the streaming calls of src/modules/iopcore/cdvdman promise a game, *)
(* without threads, alarms, banks that wrap around or a drive: from the    *)
(* sector at which it was started a stream hands over every sector, once   *)
(* and in order, either as it is on the disc or as one the device failed   *)
(* to read.  The driver reads ahead by whole banks, into the places of     *)
(* sectors that the game has finished with.  Cdvdman implements this       *)
(* specification.                                                          *)
(***************************************************************************)
EXTENDS Integers, FiniteSetsExt

CONSTANTS
  Capacity,   \* places for sectors read ahead
  BankSize,   \* sectors that are read at a time
  Lost        \* what is handed over for a sector that could not be read

VARIABLES
  open,       \* a stream has been started
  first,      \* the oldest sector whose place is in use
  taken,      \* sectors before this one are with the game, or on their way
  end,        \* sectors before this one have been read
  held,       \* what was read for each of the sectors first .. end - 1
  want,       \* how many sectors the game's call still asks for, 0: no call
  block,      \* whether that call waits for all of them
  broken      \* the driver has lost track and promises nothing more

fvars == <<open, first, taken, end, held, want, block, broken>>

Init ==
  /\ open = FALSE /\ want = 0 /\ block = FALSE /\ broken = FALSE
  /\ first = 0 /\ taken = 0 /\ end = 0 /\ held = << >>

(* A stream is empty where it starts.                                      *)
Start ==
  /\ ~open /\ want = 0
  /\ open' = TRUE
  /\ first' \in Nat /\ taken' = first' /\ end' = first' /\ held' = << >>
  /\ UNCHANGED <<want, block>>

(* A stream is stopped between calls; what was read ahead is forgotten.    *)
Stop ==
  /\ open /\ want = 0
  /\ open' = FALSE
  /\ first' = 0 /\ taken' = 0 /\ end' = 0 /\ held' = << >>
  /\ UNCHANGED <<want, block>>

(* The next bank has been read, all of it or but for the sectors bad.      *)
ReadAhead ==
  /\ open /\ end + BankSize <= first + Capacity
  /\ end' = end + BankSize
  /\ \E bad \in SUBSET (end .. end + BankSize - 1) :
       held' = [l \in first .. end + BankSize - 1 |->
                  IF l < end THEN held[l] ELSE IF l \in bad THEN Lost ELSE l]
  /\ UNCHANGED <<open, first, taken, want, block>>

(* The game asks for sectors.                                              *)
Request ==
  /\ open /\ want = 0
  /\ want' \in Nat \ {0} /\ block' \in BOOLEAN
  /\ UNCHANGED <<open, first, taken, end, held>>

(* What a call gets now: as much as it wants, or all there is.             *)
OnHand == Min({want, end - first})

(* The game has n sectors more.  A call that waits for more goes on.       *)
HandOver(n) ==
  /\ first' = first + n /\ taken' = first'
  /\ held' = [l \in first' .. end - 1 |-> held[l]]
  /\ IF block /\ n < want THEN want' = want - n /\ UNCHANGED block
                          ELSE want' = 0 /\ block' = FALSE
  /\ UNCHANGED <<open, end>>

(* A call to IOP memory copies what is on hand, in one step.               *)
Copy ==
  /\ open /\ want > 0 /\ taken = first
  /\ HandOver(OnHand)

(* A call to the EE first starts the transfer of what is on hand, which    *)
(* keeps its places until the transfer has ended.                          *)
Transfer ==
  /\ open /\ want > 0 /\ taken = first /\ OnHand > 0
  /\ taken' = first + OnHand
  /\ UNCHANGED <<open, first, end, held, want, block>>

Transferred ==
  /\ open /\ want > 0 /\ taken > first
  /\ HandOver(taken - first)

Next ==
  /\ ~broken
  /\ \/ broken' = TRUE
     \/ /\ Start \/ Stop \/ ReadAhead \/ Request \/ Copy \/ Transfer \/ Transferred
        /\ UNCHANGED broken

Spec == Init /\ [][Next]_fvars
=============================================================================
