------------------------- MODULE CompatUpdateProofs -------------------------
(***************************************************************************)
(* Machine-checked proofs about CompatUpdate, for any devices, numbers of  *)
(* games and retries, and any number of updates and queued requests.       *)
(***************************************************************************)
EXTENDS CompatUpdate, FiniteSetTheorems, TLAPS

Requests == [kind : {"all", "single", "other"}, dev : Devices \cup {NoDevice}]

Labels == {"idle", "connect", "loop", "item", "send", "itemend", "close", "finish", "other"}
Modes  == {"PERSISTENT", "CLOSED"}
Whys   == {"first", "again", "retry"}
Records ==
  [pc : Labels, i : Nat, count : Nat, result : Int, HttpSocket : BOOLEAN, ConnMode : Modes,
   retries : Int, tries : Int, why : Whys, failed : BOOLEAN]

(* A queue holds a request of an update.                                   *)
HasUpdate(q) == \E k \in 1 .. Len(q) : q[k].kind # "other"

Shared ==
  /\ status \in Stats /\ queue \in Seq(Requests)
  /\ dlg \in {"closed", "started", "asking", "removing", "single"}
  /\ report \in Stats /\ starts \in 0 .. MaxStarts

Flags == stop \in BOOLEAN /\ waiting \in BOOLEAN /\ misused \in BOOLEAN

(* The variables of compatUpdate.                                          *)
Locals == w \in Records /\ (w.pc = "idle" => w = Idle)

(* The request the worker is at stays at the head of its queue.            *)
Serving ==
  w.pc # "idle" => queue # << >> /\ (queue[1].kind = "other" <=> w.pc = "other")

(* Which parts of compatUpdate are reached with an open connection.        *)
Sockets ==
  /\ ~misused /\ open \in {0, 1}
  /\ w.pc \in {"idle", "connect", "finish", "other"} => open = 0
  /\ w.pc \in {"connect", "item", "send"} => w.ConnMode = "PERSISTENT"
  /\ w.pc \in {"item", "send"} => w.HttpSocket /\ open = 1
  /\ w.pc = "itemend" => (w.HttpSocket <=> open = 1)
  /\ w.pc = "itemend" /\ (w.result >= 0 \/ w.ConnMode = "CLOSED") => w.HttpSocket
  /\ w.pc \in {"loop", "close"} => IF w.ConnMode = "CLOSED" THEN open = 0
                                   ELSE w.HttpSocket <=> open = 1
  /\ w.pc = "loop" /\ w.ConnMode = "PERSISTENT" /\ w.result >= 0 => w.HttpSocket

(* A failed game ends the loop with a negative result; a loop that ends    *)
(* with another one has gone through all games.                            *)
Progress ==
  /\ w.pc \in {"connect", "item", "send"} => ~w.failed
  /\ w.pc \in {"itemend", "loop", "close", "finish"} /\ w.failed => w.result < 0
  /\ w.pc \in {"connect", "loop"} => w.i <= w.count
  /\ w.pc \in {"item", "send", "itemend"} => w.i < w.count
  /\ w.pc = "connect" /\ w.why # "first" => w.i < w.count
  /\ w.pc \in {"close", "finish"} /\ w.result >= 0 => w.i = w.count \/ stop

(* The flag is set from the cancelling until the next start, and           *)
(* ioRemoveRequests returns only when the worker has nothing left to do.   *)
Stopping ==
  /\ status = "ABORTED" => stop
  /\ stop => dlg = "removing" \/ ~HasUpdate(queue)
  /\ dlg = "closed" /\ report = "ABORTED" => ~HasUpdate(queue)

IInv == Shared /\ Flags /\ Locals /\ Serving /\ Sockets /\ Progress /\ Stopping

-----------------------------------------------------------------------------
(* -1 has the bit of a connection error set.                               *)
LEMMA ConnErrMinus1 == ConnErr(-1) = -1
<1>1. ASSUME NEW r \in Int, r < 0, r >= -1 PROVE r % 32768 >= 16384
  BY <1>1
<1>2. -1 \in Int /\ -1 < 0 /\ -1 >= -1
  OBVIOUS
<1>3. \A r \in Int : r < 0 /\ r >= -1 => ConnErr(r) = r
  BY <1>1 DEF ConnErr, IsConnErr
<1> QED BY <1>2, <1>3

(* The devices of an update, in some order.                                *)
LEMMA SetToSeqType == ASSUME NEW S \in SUBSET Devices PROVE SetToSeq(S) \in Seq(Devices)
<1>1. IsFiniteSet(S)
  BY DevicesAssumption, FS_Subset
<1>2. Cardinality(S) \in Nat /\ ExistsBijection(1 .. Cardinality(S), S)
  BY <1>1, FS_CardinalityType
<1>3. \E f \in [1 .. Cardinality(S) -> S] : IsInjective(f)
  BY <1>2 DEF ExistsBijection, Bijection, Injection
<1>4. SetToSeq(S) \in [1 .. Cardinality(S) -> S]
  BY <1>3 DEF SetToSeq
<1> QED BY <1>2, <1>4

(* What the two threads make of the queue.                                 *)
LEMMA QueueFacts ==
  ASSUME queue \in Seq(Requests)
  PROVE  /\ Outstanding <=> HasUpdate(queue)
         /\ queue # << >> =>
              /\ Tail(queue) \in Seq(Requests) /\ Head(queue) = queue[1] /\ queue[1] \in Requests
              /\ HasUpdate(Tail(queue)) => HasUpdate(queue)
              /\ queue[1].kind # "other" => HasUpdate(queue)
         /\ queue = << >> => ~HasUpdate(queue)
         /\ \A r \in Requests :
              /\ Append(queue, r) \in Seq(Requests) /\ Append(queue, r) # << >>
              /\ queue # << >> => Append(queue, r)[1] = queue[1]
              /\ r.kind = "other" => (HasUpdate(Append(queue, r)) <=> HasUpdate(queue))
<1>1. Len(queue) \in Nat /\ (Outstanding <=> HasUpdate(queue))
  BY DEF Outstanding, HasUpdate
<1>2. ASSUME queue # << >>
      PROVE  /\ Tail(queue) \in Seq(Requests) /\ Head(queue) = queue[1] /\ queue[1] \in Requests
             /\ HasUpdate(Tail(queue)) => HasUpdate(queue)
             /\ queue[1].kind # "other" => HasUpdate(queue)
  <2>1. /\ Len(queue) >= 1 /\ Len(Tail(queue)) = Len(queue) - 1
        /\ \A k \in 1 .. Len(queue) - 1 : Tail(queue)[k] = queue[k + 1]
        /\ Tail(queue) \in Seq(Requests) /\ Head(queue) = queue[1] /\ queue[1] \in Requests
    BY <1>2
  <2>2. HasUpdate(Tail(queue)) => HasUpdate(queue)
    BY <1>1, <2>1 DEF HasUpdate
  <2>3. queue[1].kind # "other" => HasUpdate(queue)
    BY <1>1, <2>1 DEF HasUpdate
  <2> QED BY <2>1, <2>2, <2>3
<1>3. queue = << >> => ~HasUpdate(queue)
  BY DEF HasUpdate
<1>4. ASSUME NEW r \in Requests
      PROVE  /\ Append(queue, r) \in Seq(Requests) /\ Append(queue, r) # << >>
             /\ queue # << >> => Append(queue, r)[1] = queue[1]
             /\ r.kind = "other" => (HasUpdate(Append(queue, r)) <=> HasUpdate(queue))
  <2>1. /\ Append(queue, r) \in Seq(Requests) /\ Len(Append(queue, r)) = Len(queue) + 1
        /\ Append(queue, r)[Len(queue) + 1] = r
        /\ \A k \in 1 .. Len(queue) : Append(queue, r)[k] = queue[k]
    OBVIOUS
  <2>2. Append(queue, r) # << >>
    BY <1>1, <2>1
  <2>3. queue # << >> => Append(queue, r)[1] = queue[1]
    OBVIOUS
  <2>4. r.kind = "other" => (HasUpdate(Append(queue, r)) <=> HasUpdate(queue))
    BY <1>1, <2>1 DEF HasUpdate
  <2> QED BY <2>1, <2>2, <2>3, <2>4
<1> QED BY <1>1, <1>2, <1>3, <1>4

(* The queue when oplUpdateGameCompat has put a request for each device.   *)
LEMMA StartedQueue ==
  ASSUME queue \in Seq(Requests), NEW S \in SUBSET Devices, oplUpdateGameCompat(SetToSeq(S))
  PROVE  queue' \in Seq(Requests) /\ (queue # << >> => queue' # << >> /\ queue'[1] = queue[1])
<1> DEFINE devs == SetToSeq(S)
           all == [k \in 1 .. Len(devs) |-> All(devs[k])]
<1>1. devs \in Seq(Devices)
  BY SetToSeqType
<1>2. queue' = queue \o all
  BY DEF oplUpdateGameCompat
<1> HIDE DEF devs
<1>3. all \in Seq(Requests)
  BY <1>1 DEF All, Requests
<1> HIDE DEF all
<1> QED BY <1>2, <1>3

(* The variables shared by the two threads keep their types.               *)
LEMMA SharedStep == ASSUME IInv, Next PROVE Shared'
<1> USE DevicesAssumption, CountsAssumption, BoundsAssumption
    DEF IInv, Idle, shared, conn, dialog, Shared, Stats, Serving
<1>1. CASE Begin  BY <1>1, QueueFacts DEF Begin, At, Stays, Request, IsSingle, Served, Outcome
<1>2. CASE ConnectFails  BY <1>2 DEF ConnectFails, At, Stays
<1>3. CASE ConnectTry  BY <1>3 DEF ConnectTry, At, Stays, Opened
<1>4. CASE NextItem  BY <1>4 DEF NextItem, At, Stays
<1>5. CASE Item  BY <1>5 DEF Item, At, Stays
<1>6. CASE SendOk  BY <1>6 DEF SendOk, At, Stays
<1>7. CASE SendFails  BY <1>7 DEF SendFails, At, Stays, Closed
<1>8. CASE SendStops  BY <1>8 DEF SendStops, At, Stays
<1>9. CASE ItemEnd  BY <1>9 DEF ItemEnd, At, Stays, Closed
<1>10. CASE LastClose  BY <1>10 DEF LastClose, At, Stays, Closed
<1>11. CASE Finish  BY <1>11, QueueFacts DEF Finish, At, Served, IsSingle, Request, Outcome
<1>12. CASE OtherBegin  BY <1>12, QueueFacts DEF OtherBegin, At, Stays, Request
<1>13. CASE OtherEnd  BY <1>13, QueueFacts DEF OtherEnd, At
<1>14. CASE Refresh  BY <1>14 DEF Refresh, In
<1>15. CASE Declined  BY <1>15 DEF Declined, In
<1>16. CASE RemoveRequests  BY <1>16, QueueFacts DEF RemoveRequests, In, WorkerReady
<1>17. CASE SingleDone  BY <1>17 DEF SingleDone, In
<1>18. CASE Cancel  BY <1>18 DEF Cancel, In
<1>19. CASE Abort  BY <1>19 DEF Abort, In
<1>20. CASE AddOther
  <2>1. Other \in Requests  BY DEF Other, Requests
  <2> QED BY <1>20, <2>1, QueueFacts DEF AddOther, In
<1>21. CASE \E S \in SUBSET Devices : oplUpdateGameCompat(SetToSeq(S))
  <2> PICK S \in SUBSET Devices : oplUpdateGameCompat(SetToSeq(S))
    BY <1>21
  <2>1. queue' \in Seq(Requests)
    BY StartedQueue DEF oplUpdateGameCompat
  <2> QED BY <2>1 DEF oplUpdateGameCompat, In
<1>22. CASE \E d \in Devices : oplUpdateGameCompatSingle(d)
  <2>1. ASSUME NEW d \in Devices PROVE Single(d) \in Requests  BY DEF Single, Requests
  <2> QED BY <1>22, <2>1, QueueFacts DEF oplUpdateGameCompatSingle, In
<1> QED
  BY <1>1, <1>2, <1>3, <1>4, <1>5, <1>6, <1>7, <1>8, <1>9, <1>10, <1>11, <1>12, <1>13, <1>14,
     <1>15, <1>16, <1>17, <1>18, <1>19, <1>20, <1>21, <1>22 DEF Next, WorkerStep, GuiStep,
     DialogStep

(* The flags stay Boolean.                                                 *)
LEMMA FlagsStep == ASSUME IInv, Next PROVE Flags'
<1> USE DevicesAssumption, CountsAssumption, BoundsAssumption
    DEF IInv, Idle, shared, conn, dialog, Flags
<1>1. CASE Begin  BY <1>1, Zenon DEF Begin, At, Stays, Request, IsSingle, Served, Outcome
<1>2. CASE ConnectFails  BY <1>2, Zenon DEF ConnectFails, At, Stays
<1>3. CASE ConnectTry  BY <1>3, Zenon DEF ConnectTry, At, Stays, Opened
<1>4. CASE NextItem  BY <1>4, Zenon DEF NextItem, At, Stays
<1>5. CASE Item  BY <1>5, Zenon DEF Item, At, Stays
<1>6. CASE SendOk  BY <1>6, Zenon DEF SendOk, At, Stays
<1>7. CASE SendFails  BY <1>7, Zenon DEF SendFails, At, Stays, Closed
<1>8. CASE SendStops  BY <1>8, Zenon DEF SendStops, At, Stays
<1>9. CASE ItemEnd  BY <1>9, Zenon DEF ItemEnd, At, Stays, Closed
<1>10. CASE LastClose  BY <1>10, Zenon DEF LastClose, At, Stays, Closed
<1>11. CASE Finish  BY <1>11, Zenon DEF Finish, At, Served, IsSingle, Request, Outcome
<1>12. CASE OtherBegin  BY <1>12, Zenon DEF OtherBegin, At, Stays, Request
<1>13. CASE OtherEnd  BY <1>13, Zenon DEF OtherEnd, At
<1>14. CASE Refresh  BY <1>14, Zenon DEF Refresh, In
<1>15. CASE Declined  BY <1>15, Zenon DEF Declined, In
<1>16. CASE RemoveRequests  BY <1>16, Zenon DEF RemoveRequests, In, WorkerReady
<1>17. CASE SingleDone  BY <1>17, Zenon DEF SingleDone, In
<1>18. CASE Cancel  BY <1>18, Zenon DEF Cancel, In
<1>19. CASE Abort  BY <1>19, Zenon DEF Abort, In
<1>20. CASE AddOther  BY <1>20, Zenon DEF AddOther, In, Other
<1>21. CASE \E S \in SUBSET Devices : oplUpdateGameCompat(SetToSeq(S))
  BY <1>21, Zenon DEF oplUpdateGameCompat, In
<1>22. CASE \E d \in Devices : oplUpdateGameCompatSingle(d)
  BY <1>22, Zenon DEF oplUpdateGameCompatSingle, In, Single
<1> QED
  BY <1>1, <1>2, <1>3, <1>4, <1>5, <1>6, <1>7, <1>8, <1>9, <1>10, <1>11, <1>12, <1>13, <1>14,
     <1>15, <1>16, <1>17, <1>18, <1>19, <1>20, <1>21, <1>22 DEF Next, WorkerStep, GuiStep,
     DialogStep

(* What is assigned to the variables of compatUpdate has their types.      *)
LEMMA Members ==
  /\ "idle" \in Labels /\ "connect" \in Labels /\ "loop" \in Labels /\ "item" \in Labels
  /\ "send" \in Labels /\ "itemend" \in Labels /\ "close" \in Labels /\ "finish" \in Labels
  /\ "other" \in Labels /\ "PERSISTENT" \in Modes /\ "CLOSED" \in Modes
  /\ "first" \in Whys /\ "again" \in Whys /\ "retry" \in Whys
  /\ \A n \in Counts : n \in Nat /\ 1 \in Nat
  /\ Retries \in Int /\ ConnErr(-1) \in Int
BY ConnErrMinus1, CountsAssumption DEF Labels, Modes, Whys

(* What is read from them.                                                 *)
LEMMA FieldTypes ==
  ASSUME w \in Records
  PROVE  /\ w.pc \in Labels /\ w.i \in Nat /\ w.i + 1 \in Nat /\ w.count \in Nat
         /\ w.result \in Int /\ w.HttpSocket \in BOOLEAN /\ w.ConnMode \in Modes
         /\ w.retries \in Int /\ w.retries - 1 \in Int /\ w.tries \in Int /\ w.tries - 1 \in Int
         /\ w.why \in Whys /\ w.failed \in BOOLEAN
BY DEF Records

(* So has the state of the worker between two requests.                    *)
LEMMA IdleType == Idle \in Records
BY Members DEF Idle, Records

-----------------------------------------------------------------------------
(* What each step does to the variables of compatUpdate.  First:           *)
(* CompatAttemptConnection has given up.                                   *)
LEMMA ConnectFailsEffect ==
  ASSUME w \in Records, ConnectFails
  PROVE  /\ w' \in Records
         /\ ~w'.HttpSocket /\ w'.result = ConnErr(-1) /\ w'.failed
         /\ w'.i = w.i /\ w'.count = w.count /\ w'.ConnMode = w.ConnMode /\ w'.why = w.why
         /\ w.why = "first" => w'.pc = "finish"
         /\ w.why = "again" => w'.pc = "close"
         /\ w.why = "retry" => w'.pc = "itemend"
<1> DEFINE p == CASE w.why = "first" -> "finish"
                  [] w.why = "again" -> "close"
                  [] w.why = "retry" -> "itemend"
<1>1. p \in Labels
  BY FieldTypes, Members DEF Whys
<1>2. w' = [w EXCEPT !.HttpSocket = FALSE, !.result = ConnErr(-1), !.failed = TRUE, !.pc = p]
  BY DEF ConnectFails
<1>3. /\ w.why = "first" => p = "finish"
      /\ w.why = "again" => p = "close"
      /\ w.why = "retry" => p = "itemend"
  OBVIOUS
<1> HIDE DEF p
<1>4. w' \in Records
  BY <1>1, <1>2, Members, Zenon DEF Records
<1> QED BY <1>2, <1>3, <1>4 DEF Records

(* An attempt fails or gives a connection.                                 *)
LEMMA ConnectTryEffect ==
  ASSUME w \in Records, ConnectTry
  PROVE  /\ w' \in Records
         /\ w'.i = w.i /\ w'.count = w.count /\ w'.result = w.result
         /\ w'.ConnMode = w.ConnMode /\ w'.why = w.why /\ w'.failed = w.failed
         /\ \/ w'.pc = w.pc /\ UNCHANGED conn
            \/ /\ w'.HttpSocket /\ Opened
               /\ w.why = "first" => w'.pc = "loop"
               /\ w.why = "again" => w'.pc = "item"
               /\ w.why = "retry" => w'.pc = "send"
<1> DEFINE p == CASE w.why = "first" -> "loop"
                  [] w.why = "again" -> "item"
                  [] w.why = "retry" -> "send"
           r == IF w.why = "retry" THEN w.retries - 1 ELSE w.retries
<1>1. p \in Labels /\ r \in Int
  BY FieldTypes, Members DEF Whys
<1>2. \/ w' = [w EXCEPT !.tries = w.tries - 1] /\ UNCHANGED conn
      \/ w' = [w EXCEPT !.HttpSocket = TRUE, !.retries = r, !.pc = p] /\ Opened
  BY Zenon DEF ConnectTry
<1>3. /\ w.why = "first" => p = "loop"
      /\ w.why = "again" => p = "item"
      /\ w.why = "retry" => p = "send"
  OBVIOUS
<1> HIDE DEF p, r
<1>4. CASE w' = [w EXCEPT !.tries = w.tries - 1] /\ UNCHANGED conn
  <2>1. w' \in Records
    BY <1>4, FieldTypes, Zenon DEF Records
  <2> QED BY <1>4, <2>1 DEF Records
<1>5. CASE w' = [w EXCEPT !.HttpSocket = TRUE, !.retries = r, !.pc = p] /\ Opened
  <2>1. w' \in Records
    BY <1>1, <1>5, FieldTypes, Zenon DEF Records
  <2> QED BY <1>3, <1>5, <2>1 DEF Records
<1> QED BY <1>2, <1>4, <1>5

(* A request ends at once, or begins to connect.                           *)
LEMMA BeginEffect ==
  ASSUME w = Idle, Begin, queue \in Seq(Requests)
  PROVE  /\ w' \in Records /\ UNCHANGED conn
         /\ \/ /\ w' = Idle /\ queue' = Tail(queue)
               /\ status' \in Stats /\ (status' = "ABORTED" => stop)
            \/ /\ w'.pc = "connect" /\ w'.why = "first" /\ w'.i = 0 /\ w'.count \in Nat
               /\ ~w'.failed /\ w'.ConnMode = "PERSISTENT" /\ UNCHANGED <<queue, status>>
<1>1. CASE \E s \in Stats : Served(s) /\ (s = "ABORTED" => stop)
  BY <1>1, IdleType DEF Begin, Served
<1>2. CASE \E n \in Nat : /\ Stays
                          /\ w' = [w EXCEPT !.pc = "connect", !.count = n, !.tries = Retries,
                                            !.why = "first"]
  <2> PICK n \in Nat : w' = [Idle EXCEPT !.pc = "connect", !.count = n, !.tries = Retries,
                                         !.why = "first"]
    BY <1>2
  <2>1. w' \in Records
    BY IdleType, Members, Zenon DEF Records
  <2> QED BY <1>2, <2>1 DEF Idle, Begin, Stays
<1>3. Outcome(-ENOMEM) \in Stats /\ Outcome(0) \in Stats /\ "ERROR" \in Stats
  BY DEF Outcome, Stats
<1>4. (Outcome(-ENOMEM) = "ABORTED" \/ Outcome(0) = "ABORTED") => stop
  BY DEF Outcome
<1>5. (IF IsSingle THEN {1} ELSE Counts \ {0}) \subseteq Nat
  BY CountsAssumption
<1> QED BY <1>1, <1>2, <1>3, <1>4, <1>5 DEF Begin

(* The loop ends, reconnects or takes the next game.                       *)
LEMMA NextItemEffect ==
  ASSUME w \in Records, NextItem
  PROVE  /\ w' \in Records
         /\ w'.i = w.i /\ w'.count = w.count /\ w'.result = w.result
         /\ w'.HttpSocket = w.HttpSocket /\ w'.failed = w.failed
         /\ \/ /\ w'.pc = "close" /\ w'.ConnMode = w.ConnMode
               /\ stop \/ w.result < 0 \/ w.i >= w.count
            \/ /\ w.result >= 0 /\ w.i < w.count
               /\ \/ /\ w.ConnMode = "CLOSED" /\ w'.pc = "connect" /\ w'.why = "again"
                     /\ w'.ConnMode = "PERSISTENT"
                  \/ w.ConnMode # "CLOSED" /\ w'.pc = "item" /\ w'.ConnMode = w.ConnMode
<1>0. ~(w.result < 0) => w.result >= 0
  BY FieldTypes
<1>4. ~(w.i >= w.count) => w.i < w.count
  BY FieldTypes
<1>1. CASE stop \/ w.result < 0 \/ w.i >= w.count
  <2>1. w' = [w EXCEPT !.pc = "close"]
    BY <1>1, Zenon DEF NextItem
  <2>2. w' \in Records
    BY <2>1, Members, Zenon DEF Records
  <2>3. /\ w'.pc = "close" /\ w'.ConnMode = w.ConnMode /\ w'.i = w.i /\ w'.count = w.count
        /\ w'.result = w.result /\ w'.HttpSocket = w.HttpSocket /\ w'.failed = w.failed
    BY <2>1 DEF Records
  <2> QED BY <1>1, <2>2, <2>3, Zenon
<1>2. CASE ~(stop \/ w.result < 0 \/ w.i >= w.count) /\ w.ConnMode = "CLOSED"
  <2>1. w' = [w EXCEPT !.pc = "connect", !.ConnMode = "PERSISTENT", !.tries = Retries,
                          !.why = "again"]
    BY <1>2, Zenon DEF NextItem
  <2>2. w' \in Records
    BY <2>1, Members, Zenon DEF Records
  <2>3. /\ w'.pc = "connect" /\ w'.why = "again" /\ w'.ConnMode = "PERSISTENT" /\ w'.i = w.i
        /\ w'.count = w.count /\ w'.result = w.result
        /\ w'.HttpSocket = w.HttpSocket /\ w'.failed = w.failed
    BY <2>1 DEF Records
  <2> QED BY <1>0, <1>4, <1>2, <2>2, <2>3, Zenon
<1>3. CASE ~(stop \/ w.result < 0 \/ w.i >= w.count) /\ w.ConnMode # "CLOSED"
  <2>1. w' = [w EXCEPT !.pc = "item"]
    BY <1>3, Zenon DEF NextItem
  <2>2. w' \in Records
    BY <2>1, Members, Zenon DEF Records
  <2>3. /\ w'.pc = "item" /\ w'.ConnMode = w.ConnMode /\ w'.i = w.i /\ w'.count = w.count
        /\ w'.result = w.result /\ w'.HttpSocket = w.HttpSocket /\ w'.failed = w.failed
    BY <2>1 DEF Records
  <2> QED BY <1>0, <1>4, <1>3, <2>2, <2>3, Zenon
<1> QED BY <1>1, <1>2, <1>3, Zenon

(* A game is skipped, or asked for.                                        *)
LEMMA ItemEffect ==
  ASSUME w \in Records, Item
  PROVE  /\ w' \in Records /\ w'.pc \in {"itemend", "send"}
         /\ w'.i = w.i /\ w'.count = w.count /\ w'.result = w.result
         /\ w'.HttpSocket = w.HttpSocket /\ w'.ConnMode = w.ConnMode /\ w'.failed = w.failed
<1>1. CASE w' = [w EXCEPT !.pc = "itemend"]
  <2>1. w' \in Records
    BY <1>1, Members, Zenon DEF Records
  <2> QED BY <1>1, <2>1 DEF Records
<1>2. CASE w' = [w EXCEPT !.pc = "send", !.retries = Retries]
  <2>1. w' \in Records
    BY <1>2, Members, Zenon DEF Records
  <2> QED BY <1>2, <2>1 DEF Records
<1> QED BY <1>1, <1>2 DEF Item

(* What an answer leaves in the record.                                    *)
Answered(v, r, f, m) ==
  [v EXCEPT !.result = r, !.failed = f, !.ConnMode = m, !.pc = "itemend"]

LEMMA AnsweredIs ==
  ASSUME NEW v \in Records, NEW r \in Int, NEW f \in BOOLEAN, NEW m \in Modes
  PROVE  LET u == Answered(v, r, f, m)
         IN  /\ u \in Records /\ u.pc = "itemend" /\ u.failed = f /\ u.result = r
             /\ u.i = v.i /\ u.count = v.count /\ u.HttpSocket = v.HttpSocket
<1> "itemend" \in Labels
  BY Members
<1> QED BY Zenon DEF Records, Answered

(* The server has answered.                                                *)
LEMMA SendOkEffect ==
  ASSUME w \in Records, SendOk
  PROVE  /\ w' \in Records /\ w'.pc = "itemend" /\ (w'.failed => w.failed \/ w'.result < 0)
         /\ w'.i = w.i /\ w'.count = w.count /\ w'.HttpSocket = w.HttpSocket
<1>1. PICK r, mode :
        /\ r \in Int /\ mode \in Modes
        /\ w' = [w EXCEPT !.result = r, !.failed = w.failed \/ r < 0, !.ConnMode = mode,
                          !.pc = "itemend"]
  <2>1. PICK r \in {200, 304, -EIO, -ENOMEM}, mode \in {"PERSISTENT", "CLOSED"} :
          w' = [w EXCEPT !.result = r, !.failed = w.failed \/ r < 0, !.ConnMode = mode,
                         !.pc = "itemend"]
    BY Zenon DEF SendOk
  <2>2. r \in Int /\ mode \in Modes
    BY Members DEF EIO, ENOMEM
  <2> QED BY <2>1, <2>2, Zenon
<1> DEFINE f == w.failed \/ r < 0
<1>2. f \in BOOLEAN
  BY Zenon
<1>3. w' = Answered(w, r, f, mode)
  BY <1>1, Zenon DEF Answered
<1> HIDE DEF f
<1>4. r \in Int /\ mode \in Modes
  BY <1>1
<1>5. /\ w' \in Records /\ w'.pc = "itemend" /\ w'.failed = f /\ w'.result = r
      /\ w'.i = w.i /\ w'.count = w.count /\ w'.HttpSocket = w.HttpSocket
  BY <1>2, <1>3, <1>4, AnsweredIs, SMT
<1>6. f => w.failed \/ r < 0
  BY DEF f
<1> QED BY <1>5, <1>6

(* The request failed: the connection is made again.                       *)
LEMMA SendFailsEffect ==
  ASSUME w \in Records, SendFails
  PROVE  /\ w' \in Records
         /\ w'.pc = "connect" /\ w'.result = ConnErr(-1) /\ w'.ConnMode = "PERSISTENT"
         /\ w'.why = "retry" /\ w'.i = w.i /\ w'.count = w.count
         /\ w'.HttpSocket = w.HttpSocket /\ w'.failed = w.failed
<1>1. w' \in Records
  BY FieldTypes, Members, Zenon DEF SendFails, At, Records
<1> QED BY <1>1 DEF SendFails, At, Records

(* The retries are used up, or the update is cancelled.                    *)
LEMMA SendStopsEffect ==
  ASSUME w \in Records, SendStops
  PROVE  /\ w' \in Records
         /\ w'.pc = "itemend" /\ w'.failed = (w.failed \/ w.result < 0) /\ w'.i = w.i
         /\ w'.count = w.count /\ w'.result = w.result /\ w'.HttpSocket = w.HttpSocket
         /\ w'.ConnMode = w.ConnMode /\ w'.why = w.why
<1>1. w' \in Records
  BY FieldTypes, Members, Zenon DEF SendStops, At, Records
<1> QED BY <1>1 DEF SendStops, At, Records

(* The next game.                                                          *)
LEMMA ItemEndEffect ==
  ASSUME w \in Records, ItemEnd
  PROVE  /\ w' \in Records
         /\ w'.pc = "loop" /\ w'.i = w.i + 1 /\ w'.count = w.count /\ w'.result = w.result
         /\ w'.HttpSocket = w.HttpSocket /\ w'.ConnMode = w.ConnMode /\ w'.why = w.why
         /\ w'.failed = w.failed
<1>1. w' \in Records
  BY FieldTypes, Members, Zenon DEF ItemEnd, At, Records
<1> QED BY <1>1 DEF ItemEnd, At, Records

(* The last connection is closed.                                          *)
LEMMA LastCloseEffect ==
  ASSUME w \in Records, LastClose
  PROVE  /\ w' \in Records
         /\ w'.pc = "finish" /\ w'.i = w.i /\ w'.count = w.count /\ w'.result = w.result
         /\ w'.HttpSocket = w.HttpSocket /\ w'.ConnMode = w.ConnMode /\ w'.why = w.why
         /\ w'.failed = w.failed
<1>1. w' \in Records
  BY FieldTypes, Members, Zenon DEF LastClose, At, Records
<1> QED BY <1>1 DEF LastClose, At, Records

(* The request of another component.                                       *)
LEMMA OtherBeginEffect ==
  ASSUME w \in Records, OtherBegin
  PROVE  /\ w' \in Records
         /\ w'.pc = "other" /\ w'.i = w.i /\ w'.count = w.count /\ w'.result = w.result
         /\ w'.HttpSocket = w.HttpSocket /\ w'.ConnMode = w.ConnMode /\ w'.why = w.why
         /\ w'.failed = w.failed
<1>1. w' \in Records
  BY FieldTypes, Members, Zenon DEF OtherBegin, At, Records
<1> QED BY <1>1 DEF OtherBegin, At, Records

(* The invariant holds before the first update.                            *)
LEMMA InitHolds == Init => IInv
<1> SUFFICES ASSUME Init PROVE IInv
  OBVIOUS
<1> USE DEF Init
<1>1. Shared  BY BoundsAssumption DEF Shared, Stats
<1>2. Flags  BY Zenon DEF Flags
<1>3. Locals  BY IdleType DEF Locals
<1>4. w.pc = "idle" /\ ~HasUpdate(queue)  BY DEF Idle, HasUpdate
<1>5. Serving /\ Progress /\ Stopping
  BY <1>4 DEF Serving, Progress, Stopping
<1>6. Sockets
  BY <1>4 DEF Sockets
<1> QED BY <1>1, <1>2, <1>3, <1>5, <1>6 DEF IInv

(* So do the variables of compatUpdate keep theirs; between requests they  *)
(* have their first values.                                                *)
LEMMA LocalsStep == ASSUME IInv, Next PROVE Locals'
<1> USE DEF IInv, shared, conn, dialog, Locals, Shared
<1>1. CASE Begin
  <2>1. w = Idle /\ UNCHANGED <<stop, dialog>>
    BY <1>1 DEF Begin, At
  <2> QED BY <1>1, <2>1, BeginEffect DEF Idle
<1>2. CASE ConnectFails
  <2>1. w.pc = "connect" /\ w.why \in Whys
    BY <1>2, FieldTypes DEF ConnectFails, At
  <2> QED BY <1>2, <2>1, ConnectFailsEffect, FieldTypes DEF Whys
<1>3. CASE ConnectTry
  <2>1. w.pc = "connect" /\ w.why \in Whys
    BY <1>3, FieldTypes DEF ConnectTry, At
  <2> QED BY <1>3, <2>1, ConnectTryEffect, FieldTypes DEF Whys
<1>4. CASE NextItem  BY <1>4, NextItemEffect DEF NextItem, At, Stays
<1>5. CASE Item  BY <1>5, ItemEffect DEF Item, At, Stays
<1>6. CASE SendOk  BY <1>6, SendOkEffect DEF SendOk, At, Stays
<1>7. CASE SendFails  BY <1>7, SendFailsEffect, ConnErrMinus1 DEF SendFails, At, Stays, Closed
<1>8. CASE SendStops  BY <1>8, SendStopsEffect DEF SendStops, At, Stays
<1>9. CASE ItemEnd  BY <1>9, ItemEndEffect DEF ItemEnd, At, Stays, Closed
<1>10. CASE LastClose  BY <1>10, LastCloseEffect DEF LastClose, At, Stays, Closed
<1>11. CASE Finish  BY <1>11, IdleType DEF Finish, At, Served, IsSingle, Request, Outcome, Idle
<1>12. CASE OtherBegin  BY <1>12, OtherBeginEffect DEF OtherBegin, At, Stays, Request
<1>13. CASE OtherEnd  BY <1>13, IdleType DEF OtherEnd, At, Idle
<1>14. CASE Refresh  BY <1>14 DEF Refresh, In
<1>15. CASE Declined  BY <1>15 DEF Declined, In
<1>16. CASE RemoveRequests  BY <1>16 DEF RemoveRequests, In, WorkerReady
<1>17. CASE SingleDone  BY <1>17 DEF SingleDone, In
<1>18. CASE Cancel  BY <1>18 DEF Cancel, In
<1>19. CASE Abort  BY <1>19 DEF Abort, In
<1>20. CASE AddOther  BY <1>20 DEF AddOther, In, Other
<1>21. CASE \E S \in SUBSET Devices : oplUpdateGameCompat(SetToSeq(S))
  BY <1>21 DEF oplUpdateGameCompat, In
<1>22. CASE \E d \in Devices : oplUpdateGameCompatSingle(d)
  BY <1>22 DEF oplUpdateGameCompatSingle, In, Single
<1> QED
  BY <1>1, <1>2, <1>3, <1>4, <1>5, <1>6, <1>7, <1>8, <1>9, <1>10, <1>11, <1>12, <1>13, <1>14,
     <1>15, <1>16, <1>17, <1>18, <1>19, <1>20, <1>21, <1>22 DEF Next, WorkerStep, GuiStep,
     DialogStep

(* Nobody takes the request being served from the queue.                   *)
LEMMA ServingStep == ASSUME IInv, Next PROVE Serving'
<1> USE DEF IInv, shared, conn, dialog, Serving, Shared, Locals
<1>1. CASE Begin  BY <1>1, BeginEffect, QueueFacts DEF Begin, At, Stats, Request
<1>2. CASE ConnectFails
  <2>1. w.pc = "connect" /\ w.why \in Whys /\ queue' = queue
    BY <1>2, FieldTypes DEF ConnectFails, At, Stays
  <2> QED BY <1>2, <2>1, ConnectFailsEffect DEF Whys
<1>3. CASE ConnectTry
  <2>1. w.pc = "connect" /\ w.why \in Whys /\ queue' = queue
    BY <1>3, FieldTypes DEF ConnectTry, At, Stays
  <2> QED BY <1>3, <2>1, ConnectTryEffect DEF Whys
<1>4. CASE NextItem  BY <1>4, NextItemEffect DEF NextItem, At, Stays
<1>5. CASE Item  BY <1>5, ItemEffect DEF Item, At, Stays
<1>6. CASE SendOk  BY <1>6, SendOkEffect DEF SendOk, At, Stays
<1>7. CASE SendFails  BY <1>7, SendFailsEffect, ConnErrMinus1 DEF SendFails, At, Stays, Closed
<1>8. CASE SendStops  BY <1>8, SendStopsEffect DEF SendStops, At, Stays
<1>9. CASE ItemEnd  BY <1>9, ItemEndEffect DEF ItemEnd, At, Stays, Closed
<1>10. CASE LastClose  BY <1>10, LastCloseEffect DEF LastClose, At, Stays, Closed
<1>11. CASE Finish
  BY <1>11, IdleType, QueueFacts DEF Finish, At, Served, IsSingle, Request, Outcome, Idle
<1>12. CASE OtherBegin  BY <1>12, OtherBeginEffect, QueueFacts DEF OtherBegin, At, Stays, Request
<1>13. CASE OtherEnd  BY <1>13, IdleType, QueueFacts DEF OtherEnd, At, Idle
<1>14. CASE Refresh  BY <1>14 DEF Refresh, In
<1>15. CASE Declined  BY <1>15 DEF Declined, In
<1>16. CASE RemoveRequests  BY <1>16, QueueFacts DEF RemoveRequests, In, WorkerReady
<1>17. CASE SingleDone  BY <1>17 DEF SingleDone, In
<1>18. CASE Cancel  BY <1>18 DEF Cancel, In
<1>19. CASE Abort  BY <1>19 DEF Abort, In
<1>20. CASE AddOther  BY <1>20, QueueFacts DEF AddOther, In, Other
<1>21. CASE \E S \in SUBSET Devices : oplUpdateGameCompat(SetToSeq(S))
  <2> PICK S \in SUBSET Devices : oplUpdateGameCompat(SetToSeq(S))
    BY <1>21
  <2>1. queue # << >> => queue' # << >> /\ queue'[1] = queue[1]
    BY StartedQueue
  <2> QED BY <2>1 DEF oplUpdateGameCompat, In
<1>22. CASE \E d \in Devices : oplUpdateGameCompatSingle(d)
  BY <1>22, QueueFacts DEF oplUpdateGameCompatSingle, In, Single
<1> QED
  BY <1>1, <1>2, <1>3, <1>4, <1>5, <1>6, <1>7, <1>8, <1>9, <1>10, <1>11, <1>12, <1>13, <1>14,
     <1>15, <1>16, <1>17, <1>18, <1>19, <1>20, <1>21, <1>22 DEF Next, WorkerStep, GuiStep,
     DialogStep

(* HttpCloseConnection where HttpSocket says whether a socket is open.     *)
LEMMA OnceClosed ==
  ASSUME open \in {0, 1}, ~misused, w.HttpSocket <=> open = 1, Closed
  PROVE  open' = 0 /\ ~misused'
<1>1. CASE open = 1
  <2>1. open > 0 /\ open - 1 = 0 /\ open # 0
    BY <1>1
  <2> QED BY <1>1, <2>1, Zenon DEF Closed
<1>2. CASE open # 1
  <2>1. open = 0
    BY <1>2
  <2> QED BY <1>2, <2>1, Zenon DEF Closed
<1> QED BY <1>1, <1>2

(* Every step leaves the connection as the code that follows expects it.   *)
LEMMA SocketsStep == ASSUME IInv, Next PROVE Sockets'
<1> USE DEF IInv, shared, conn, dialog, Sockets, Locals, Shared
<1>1. CASE Begin
  <2>1. w = Idle /\ UNCHANGED <<stop, dialog>>
    BY <1>1 DEF Begin, At
  <2> QED BY <1>1, <2>1, BeginEffect DEF Idle
<1>2. CASE ConnectFails
  BY <1>2, ConnectFailsEffect, ConnErrMinus1, FieldTypes DEF ConnectFails, At, Stays, Whys, Modes
<1>3. CASE ConnectTry
  <2>1. w.pc = "connect" /\ w.why \in Whys /\ open = 0 /\ ~misused
    BY <1>3, FieldTypes DEF ConnectTry, At
  <2>2. Opened => open' = 1 /\ ~misused'
    <3>1. ~(open > 0) /\ 0 + 1 = 1  BY <2>1
    <3> QED BY <2>1, <3>1, Zenon DEF Opened
  <2> QED BY <1>3, <2>1, <2>2, ConnectTryEffect, FieldTypes DEF Whys
<1>4. CASE NextItem  BY <1>4, NextItemEffect, FieldTypes DEF NextItem, At, Stays, Whys, Modes
<1>5. CASE Item  BY <1>5, ItemEffect, FieldTypes DEF Item, At, Stays, Whys, Modes
<1>6. CASE SendOk  BY <1>6, SendOkEffect, FieldTypes DEF SendOk, At, Stays, Whys, Modes
<1>7. CASE SendFails
  <2>1. w.pc = "send" /\ Closed
    BY <1>7 DEF SendFails, At
  <2>2. open' = 0 /\ ~misused'
    BY <2>1, OnceClosed
  <2> QED BY <1>7, <2>1, <2>2, SendFailsEffect, ConnErrMinus1
<1>8. CASE SendStops  BY <1>8, SendStopsEffect, FieldTypes DEF SendStops, At, Stays, Whys, Modes
<1>9. CASE ItemEnd
  <2>1. w.pc = "itemend" /\ w.ConnMode \in Modes
    BY <1>9, FieldTypes DEF ItemEnd, At
  <2>2. IF w.ConnMode = "CLOSED" THEN open' = 0 /\ ~misused' ELSE UNCHANGED conn
    BY <1>9, <2>1, OnceClosed DEF ItemEnd
  <2> QED BY <1>9, <2>1, <2>2, ItemEndEffect, FieldTypes DEF Modes
<1>10. CASE LastClose
  <2>1. w.pc = "close" /\ w.ConnMode \in Modes
    BY <1>10, FieldTypes DEF LastClose, At
  <2>2. IF w.ConnMode = "PERSISTENT" THEN open' = 0 /\ ~misused' ELSE UNCHANGED conn
    BY <1>10, <2>1, OnceClosed DEF LastClose
  <2> QED BY <1>10, <2>1, <2>2, LastCloseEffect, FieldTypes DEF Modes
<1>11. CASE Finish
  BY <1>11, FieldTypes, IdleType DEF Finish, At, Served, IsSingle, Request, Outcome,
         Idle
<1>12. CASE OtherBegin
  BY <1>12, OtherBeginEffect, FieldTypes DEF OtherBegin, At, Stays, Request, Whys, Modes
<1>13. CASE OtherEnd  BY <1>13, FieldTypes, IdleType DEF OtherEnd, At, Idle, Whys, Modes
<1>14. CASE Refresh  BY <1>14 DEF Refresh, In, Whys, Modes
<1>15. CASE Declined  BY <1>15 DEF Declined, In, Whys, Modes
<1>16. CASE RemoveRequests  BY <1>16 DEF RemoveRequests, In, WorkerReady, Whys, Modes
<1>17. CASE SingleDone  BY <1>17 DEF SingleDone, In, Whys, Modes
<1>18. CASE Cancel  BY <1>18 DEF Cancel, In, Whys, Modes
<1>19. CASE Abort  BY <1>19 DEF Abort, In, Whys, Modes
<1>20. CASE AddOther  BY <1>20 DEF AddOther, In, Other, Whys, Modes
<1>21. CASE \E S \in SUBSET Devices : oplUpdateGameCompat(SetToSeq(S))
  BY <1>21 DEF oplUpdateGameCompat, In, Whys, Modes
<1>22. CASE \E d \in Devices : oplUpdateGameCompatSingle(d)
  BY <1>22 DEF oplUpdateGameCompatSingle, In, Single, Whys, Modes
<1> QED
  BY <1>1, <1>2, <1>3, <1>4, <1>5, <1>6, <1>7, <1>8, <1>9, <1>10, <1>11, <1>12, <1>13, <1>14,
     <1>15, <1>16, <1>17, <1>18, <1>19, <1>20, <1>21, <1>22 DEF Next, WorkerStep, GuiStep,
     DialogStep

(* No failed game is hidden and none is left out.                          *)
LEMMA ProgressStep == ASSUME IInv, Next PROVE Progress'
<1> USE DEF IInv, shared, conn, dialog, Progress, Locals, Serving, Stopping, Shared
<1>1. CASE Begin
  <2>1. w = Idle /\ UNCHANGED <<stop, dialog>>
    BY <1>1 DEF Begin, At
  <2> QED BY <1>1, <2>1, BeginEffect, FieldTypes DEF Idle
<1>2. CASE ConnectFails
  <2>1. w \in Records /\ w.why \in Whys /\ w.pc = "connect"
    BY <1>2, FieldTypes DEF ConnectFails, At
  <2>2. w.why # "first" => w.i < w.count
    BY <2>1
  <2>3. w'.result < 0 /\ w'.failed /\ w'.i = w.i /\ w'.count = w.count
    BY <1>2, <2>1, ConnectFailsEffect, ConnErrMinus1
  <2>4. \/ w.why = "first" /\ w'.pc = "finish"
        \/ w.why = "again" /\ w'.pc = "close"
        \/ w.why = "retry" /\ w'.pc = "itemend"
    BY <1>2, <2>1, ConnectFailsEffect, Zenon DEF Whys
  <2>5. w'.result \in Int
    BY <1>2, <2>1, ConnectFailsEffect, ConnErrMinus1
  <2> QED BY <2>2, <2>3, <2>4, <2>5
<1>3. CASE ConnectTry
  BY <1>3, ConnectTryEffect, FieldTypes DEF ConnectTry, At, Stays, Opened, Whys, Modes
<1>4. CASE NextItem  BY <1>4, NextItemEffect, FieldTypes DEF NextItem, At, Stays, Whys, Modes
<1>5. CASE Item  BY <1>5, ItemEffect, FieldTypes DEF Item, At, Stays, Whys, Modes
<1>6. CASE SendOk  BY <1>6, SendOkEffect, FieldTypes DEF SendOk, At, Stays, Whys, Modes
<1>7. CASE SendFails
  BY <1>7, SendFailsEffect, ConnErrMinus1, FieldTypes DEF SendFails, At, Stays, Closed, Whys, Modes
<1>8. CASE SendStops  BY <1>8, SendStopsEffect, FieldTypes DEF SendStops, At, Stays, Whys, Modes
<1>9. CASE ItemEnd  BY <1>9, ItemEndEffect, FieldTypes DEF ItemEnd, At, Stays, Closed, Whys, Modes
<1>10. CASE LastClose
  BY <1>10, LastCloseEffect, FieldTypes DEF LastClose, At, Stays, Closed, Whys, Modes
<1>11. CASE Finish
  BY <1>11, FieldTypes, IdleType, QueueFacts DEF Finish, At, Served, IsSingle, Request, Outcome,
         Idle
<1>12. CASE OtherBegin
  BY <1>12, OtherBeginEffect, FieldTypes, QueueFacts DEF OtherBegin, At, Stays, Request, Whys, Modes
<1>13. CASE OtherEnd  BY <1>13, FieldTypes, IdleType, QueueFacts DEF OtherEnd, At, Idle, Whys, Modes
<1>14. CASE Refresh  BY <1>14 DEF Refresh, In, Whys, Modes
<1>15. CASE Declined  BY <1>15 DEF Declined, In, Whys, Modes
<1>16. CASE RemoveRequests  BY <1>16, QueueFacts DEF RemoveRequests, In, WorkerReady, Whys, Modes
<1>17. CASE SingleDone  BY <1>17 DEF SingleDone, In, Whys, Modes
<1>18. CASE Cancel  BY <1>18 DEF Cancel, In, Whys, Modes
<1>19. CASE Abort  BY <1>19 DEF Abort, In, Whys, Modes
<1>20. CASE AddOther  BY <1>20, QueueFacts DEF AddOther, In, Other, Whys, Modes
<1>21. CASE \E S \in SUBSET Devices : oplUpdateGameCompat(SetToSeq(S))
  BY <1>21, QueueFacts DEF oplUpdateGameCompat, In, Whys, Modes
<1>22. CASE \E d \in Devices : oplUpdateGameCompatSingle(d)
  BY <1>22, QueueFacts DEF oplUpdateGameCompatSingle, In, Single, Whys, Modes
<1> QED
  BY <1>1, <1>2, <1>3, <1>4, <1>5, <1>6, <1>7, <1>8, <1>9, <1>10, <1>11, <1>12, <1>13, <1>14,
     <1>15, <1>16, <1>17, <1>18, <1>19, <1>20, <1>21, <1>22 DEF Next, WorkerStep, GuiStep,
     DialogStep

(* The flag stays set until the queue has no update in it.                 *)
LEMMA StoppingStep == ASSUME IInv, Next PROVE Stopping'
<1> USE DEF IInv, shared, conn, dialog, Stopping, Shared, Serving, Locals
<1>1. CASE Begin  BY <1>1, BeginEffect, QueueFacts DEF Begin, At, Stats, Request
<1>2. CASE ConnectFails
  BY <1>2, ConnectFailsEffect, ConnErrMinus1 DEF ConnectFails, At, Stays, Whys, Modes
<1>3. CASE ConnectTry  BY <1>3, ConnectTryEffect DEF ConnectTry, At, Stays, Opened, Whys, Modes
<1>4. CASE NextItem  BY <1>4, NextItemEffect DEF NextItem, At, Stays
<1>5. CASE Item  BY <1>5, ItemEffect DEF Item, At, Stays
<1>6. CASE SendOk  BY <1>6, SendOkEffect DEF SendOk, At, Stays
<1>7. CASE SendFails  BY <1>7, SendFailsEffect, ConnErrMinus1 DEF SendFails, At, Stays, Closed
<1>8. CASE SendStops  BY <1>8, SendStopsEffect DEF SendStops, At, Stays
<1>9. CASE ItemEnd  BY <1>9, ItemEndEffect DEF ItemEnd, At, Stays, Closed
<1>10. CASE LastClose  BY <1>10, LastCloseEffect DEF LastClose, At, Stays, Closed
<1>11. CASE Finish
  BY <1>11, IdleType, QueueFacts DEF Finish, At, Served, IsSingle, Request, Outcome, Idle
<1>12. CASE OtherBegin  BY <1>12, OtherBeginEffect, QueueFacts DEF OtherBegin, At, Stays, Request
<1>13. CASE OtherEnd  BY <1>13, IdleType, QueueFacts DEF OtherEnd, At, Idle
<1>14. CASE Refresh  BY <1>14 DEF Refresh, In
<1>15. CASE Declined  BY <1>15 DEF Declined, In
<1>16. CASE RemoveRequests  BY <1>16, QueueFacts DEF RemoveRequests, In, WorkerReady
<1>17. CASE SingleDone  BY <1>17 DEF SingleDone, In
<1>18. CASE Cancel  BY <1>18 DEF Cancel, In
<1>19. CASE Abort  BY <1>19 DEF Abort, In
<1>20. CASE AddOther
  <2>1. Other \in Requests /\ Other.kind = "other"  BY DEF Other, Requests
  <2> QED BY <1>20, <2>1, QueueFacts DEF AddOther, In
<1>21. CASE \E S \in SUBSET Devices : oplUpdateGameCompat(SetToSeq(S))
  BY <1>21, QueueFacts DEF oplUpdateGameCompat, In
<1>22. CASE \E d \in Devices : oplUpdateGameCompatSingle(d)
  BY <1>22, QueueFacts DEF oplUpdateGameCompatSingle, In, Single
<1> QED
  BY <1>1, <1>2, <1>3, <1>4, <1>5, <1>6, <1>7, <1>8, <1>9, <1>10, <1>11, <1>12, <1>13, <1>14,
     <1>15, <1>16, <1>17, <1>18, <1>19, <1>20, <1>21, <1>22 DEF Next, WorkerStep, GuiStep,
     DialogStep

-----------------------------------------------------------------------------
(* A step that changes nothing keeps the invariant.                        *)
LEMMA StutterHolds == ASSUME IInv, UNCHANGED vars PROVE IInv'
<1> USE DEF IInv, vars, shared, conn, dialog
<1>1. Flags'  BY Zenon DEF Flags
<1>2. (Shared /\ Locals /\ Serving)'  BY DEF Shared, Locals, Serving
<1>3. (Sockets /\ Progress /\ Stopping)'  BY DEF Sockets, Progress, Stopping
<1> QED BY <1>1, <1>2, <1>3

(* The inductive invariant holds in every state.                           *)
THEOREM Invariance == Spec => []IInv
<1>1. IInv /\ [Next]_vars => IInv'
  BY SharedStep, FlagsStep, LocalsStep, ServingStep, SocketsStep, ProgressStep, StoppingStep,
     StutterHolds DEF IInv
<1> QED BY InitHolds, <1>1, PTL DEF Spec

(* Whatever fails, is retried or is cancelled, compatUpdate has at most    *)
(* one socket open, closes each once and leaves none open.                 *)
THEOREM NoSocketLeaks == Spec => []SocketsClosed
<1>1. IInv => SocketsClosed
  <2> SUFFICES ASSUME IInv PROVE SocketsClosed
    OBVIOUS
  <2>1. TypeOK
    BY DEF IInv, Shared, Flags, Sockets, Requests, TypeOK
  <2>2. ~misused /\ (w.pc \in {"idle", "finish", "other"} => open = 0)
    BY DEF IInv, Sockets
  <2> QED BY <2>1, <2>2 DEF SocketsClosed
<1> QED BY Invariance, <1>1, PTL

(* When the dialog has reported the cancellation, no request of the update *)
(* is queued or being served.                                              *)
THEOREM NothingLeftAfterAbort == Spec => []AbortStopsAll
<1>1. IInv => AbortStopsAll
  BY DEF IInv, Stopping, HasUpdate, AbortStopsAll, Outstanding
<1> QED BY Invariance, <1>1, PTL

(* compatUpdate sets OPL_COMPAT_UPDATE_STAT_DONE only if it went through   *)
(* all games of the device and none of them failed.                        *)
THEOREM DoneIsComplete == Spec => DoneMeansUpdated
<1>1. IInv /\ [Next]_vars =>
        [w.pc = "finish" /\ status' = "DONE" => ~w.failed /\ w.i = w.count]_vars
  <2> SUFFICES ASSUME IInv, Next, w.pc = "finish", status' = "DONE"
               PROVE  ~w.failed /\ w.i = w.count
    BY DEF vars
  <2>1. Finish
    BY DEF Next, WorkerStep, GuiStep, DialogStep, At, In, WorkerReady, Begin, ConnectFails,
           ConnectTry, NextItem, Item, SendOk, SendFails, SendStops, ItemEnd, LastClose,
           OtherBegin, OtherEnd, Refresh, Declined, RemoveRequests, SingleDone, Cancel, Abort,
           AddOther, oplUpdateGameCompat, oplUpdateGameCompatSingle
  <2>2. ~stop /\ w.result >= 0
    BY <2>1 DEF Finish, Served, Outcome
  <2>3. w.result \in Int
    BY FieldTypes DEF IInv, Locals
  <2> QED BY <2>2, <2>3 DEF IInv, Progress
<1>2. Spec => [][Next]_vars
  BY DEF Spec
<1> QED BY Invariance, <1>1, <1>2, PTL DEF DoneMeansUpdated
=============================================================================
