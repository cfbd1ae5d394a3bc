---------------------------- MODULE IoManProofs ----------------------------
(***************************************************************************)
(* Machine-checked proofs about IoMan, for every set of request types,     *)
(* every startup and every number of calls.                                *)
(***************************************************************************)
EXTENDS IoMan, SequenceTheorems, TLAPS

(* The node gReqEnd should point to.                                       *)
LastOf == IF reqs = << >> THEN NULL ELSE reqs[Len(reqs)]

(* Threads that have passed the checks of ioPutRequest and not linked yet: *)
(* each accounts for a node that is still to be allocated.                 *)
ToLink(t) == IF pc[t] \in {"putwait", "puttail", "putlink"} THEN 1 ELSE 0

Counted == nextId + ToLink(Main) + ToLink(Io) <= calls + 1

(* Nodes are in the order of their allocation.                             *)
Ordered ==
  /\ \A i, j \in 1 .. Len(reqs) : i < j => reqs[i] < reqs[j]
  /\ \A i \in 1 .. Len(reqs) : reqs[i] < nextId

(* The tail pointer, also while somebody is changing the list.             *)
TailOK ==
  /\ pc[Io] # "exited" => \/ gReqEnd = LastOf
                          \/ pc[Io] = "popend" /\ reqs = << >>
  /\ \A t \in Threads : pc[t] = "putlink" => loc[t] = gReqEnd

(* The worker's request is the head of the list until it is popped.        *)
CurOK ==
  pc[Io] \in {"handle", "popwait", "pop"} \cup PutLabels =>
    reqs # << >> /\ cur = reqs[1]

(* Served requests are older than everything in the list, but for the head *)
(* that waits to be popped.                                                *)
ServedAreOld ==
  \A h \in handled :
    /\ h < nextId
    /\ \A i \in 1 .. Len(reqs) :
         h < reqs[i] \/ (pc[Io] \in {"popwait", "pop"} /\ i = 1 /\ h = cur)

(* A blocked queue is empty, except while ioBlockOps(1) still waits; only  *)
(* the GUI thread changes the flag, so it never puts while it is set.      *)
Quiet ==
  isIOBlocked /\ pc[Main] # "blockspin" => reqs = << >> /\ pc[Main] \notin PutLabels

(* Termination comes last.                                                 *)
Ending ==
  /\ pc[Io] \in {"cleanup", "exited"} => gIOTerminate
  /\ gIOTerminate => pc[Main] = "ended" /\ isIOBlocked
  /\ pc[Main] = "blockspin" => isIOBlocked
  /\ isIORunning <=> pc[Io] # "exited"
  /\ dropped = {}
  /\ pc[Main] = "reg" => regs # << >>

IInv == /\ TypeOK /\ Counted /\ MutualExclusion /\ Ordered /\ TailOK
        /\ CurOK /\ ServedAreOld /\ Quiet /\ Ending

(***************************************************************************)
(* With the kernel's priorities.                                           *)
(***************************************************************************)

(* Every node in the list has a type with a handler, but for the one a     *)
(* thread is filling.                                                      *)
Filled ==
  /\ \A i \in 1 .. Len(reqs) :
       rtype[reqs[i]] \in handlers \/ \E t \in Threads : pc[t] = "putfill" /\ loc[t] = reqs[i]
  /\ \A t \in Threads : pc[t] \in PutLabels => ptype[t] \in handlers
  /\ \A t \in Threads : pc[t] = "putfill" => loc[t] \in Nodes

(* While the GUI thread fills a node the worker is blocked, and what it is *)
(* blocked on is not available before the node is filled.                  *)
FillExcludesWorker ==
  pc[Main] = "putfill" =>
    \/ pc[Io] \in {"handle", "popwait", "putwait"}
    \/ pc[Io] = "sleep" /\ wakeups = 0
    \/ pc[Io] = "procwait" /\ procSema = 0

PoppedIsServed == pc[Io] \in {"popwait", "pop"} => cur \in handled

Conserved ==
  \A n \in 1 .. nextId - 1 : n \in Elements(reqs) \cup handled \cup removed \cup dropped

StrictInv == Filled /\ FillExcludesWorker /\ PoppedIsServed

-----------------------------------------------------------------------------
(* The shapes of the list the actions produce.                             *)

(* Linking behind the tail appends.                                        *)
LEMMA LinkedAppends ==
  ASSUME TypeOK, Ordered, NEW new
  PROVE  Linked(LastOf, new) = Append(reqs, new)
<1>1. CASE reqs = << >>
  BY <1>1 DEF Linked, LastOf, NULL, TypeOK
<1>2. CASE reqs # << >>
  <2>1. Len(reqs) \in Nat /\ Len(reqs) >= 1
    BY <1>2 DEF TypeOK
  <2>2. LastOf = reqs[Len(reqs)] /\ LastOf \in Nodes
    BY <1>2, <2>1 DEF LastOf, TypeOK
  <2>3. LastOf # NULL
    BY <2>2, BoundsAssumption DEF Nodes, NULL
  <2>4. \A i \in 1 .. Len(reqs) : reqs[i] = LastOf => i = Len(reqs)
    <3>1. \A i \in 1 .. Len(reqs) : reqs[i] \in Nat
      BY BoundsAssumption DEF TypeOK, Nodes
    <3>2. QED
      BY <2>1, <2>2, <3>1 DEF Ordered
  <2>5. Position(LastOf) = Len(reqs)
    BY <2>1, <2>2, <2>4 DEF Position
  <2>6. SubSeq(reqs, 1, Len(reqs)) = reqs
    BY <2>1 DEF TypeOK
  <2>7. InList(LastOf)
    BY <2>1, <2>2 DEF InList
  <2>8. Linked(LastOf, new) = Append(SubSeq(reqs, 1, Position(LastOf)), new)
    BY <2>3, <2>7, Zenon DEF Linked
  <2>9. QED
    BY <2>5, <2>6, <2>8, Zenon
<1>3. QED
  BY <1>1, <1>2

(* Popping the worker's request takes the head.                            *)
LEMMA AfterIsTail ==
  ASSUME TypeOK, Ordered, reqs # << >>, cur = reqs[1]
  PROVE  After(cur) = Tail(reqs)
<1>1. Len(reqs) \in Nat /\ Len(reqs) >= 1
  BY DEF TypeOK
<1>2. \A i \in 1 .. Len(reqs) : reqs[i] = cur => i = 1
  <2>1. \A i \in 1 .. Len(reqs) : reqs[i] \in Nat
    BY BoundsAssumption DEF TypeOK, Nodes
  <2>2. QED
    BY <1>1, <2>1 DEF Ordered
<1>3. Position(cur) + 1 = 2
  BY <1>1, <1>2 DEF Position
<1>4. SubSeq(reqs, 2, Len(reqs)) = Tail(reqs)
  BY TailIsSubSeq DEF TypeOK
<1>5. InList(cur)
  BY <1>1 DEF InList
<1>6. After(cur) = SubSeq(reqs, Position(cur) + 1, Len(reqs))
  BY <1>5, Zenon DEF After
<1>7. QED
  BY <1>3, <1>4, <1>6, Zenon

(* Removing the (k+1)-th node shifts the ones behind it.                   *)
LEMMA WithoutShape ==
  ASSUME TypeOK, NEW k \in Nat, k < Len(reqs)
  PROVE  /\ Without(k) \in Seq(Nodes)
         /\ Len(Without(k)) = Len(reqs) - 1
         /\ \A i \in 1 .. Len(reqs) - 1 :
              Without(k)[i] = IF i <= k THEN reqs[i] ELSE reqs[i + 1]
<1> DEFINE a == SubSeq(reqs, 1, k)
           b == SubSeq(reqs, k + 2, Len(reqs))
<1>1. Len(reqs) \in Nat /\ reqs \in Seq(Nodes)
  BY DEF TypeOK
<1>2. a \in Seq(Nodes) /\ Len(a) = k /\ \A i \in 1 .. k : a[i] = reqs[i]
  BY <1>1
<1>3. b \in Seq(Nodes) /\ Len(b) = Len(reqs) - k - 1
      /\ \A i \in 1 .. Len(b) : b[i] = reqs[i + k + 1]
  BY <1>1
<1> HIDE DEF a, b
<1>4. /\ a \o b \in Seq(Nodes)
      /\ Len(a \o b) = Len(a) + Len(b)
      /\ \A i \in 1 .. Len(a) + Len(b) :
           (a \o b)[i] = IF i <= Len(a) THEN a[i] ELSE b[i - Len(a)]
  BY <1>2, <1>3, ConcatProperties, Zenon
<1>5. Len(a \o b) = Len(reqs) - 1
  BY <1>1, <1>2, <1>3, <1>4
<1>6. ASSUME NEW i \in 1 .. Len(reqs) - 1
      PROVE  (a \o b)[i] = IF i <= k THEN reqs[i] ELSE reqs[i + 1]
  <2>1. CASE i <= k
    BY <1>1, <1>2, <1>3, <1>4, <2>1
  <2>2. CASE ~(i <= k)
    <3>1. i - k \in 1 .. Len(b) /\ (i - k) + k + 1 = i + 1
      BY <1>1, <1>3, <2>2
    <3>2. (a \o b)[i] = b[i - k]
      BY <1>1, <1>2, <1>3, <1>4, <2>2
    <3>3. QED
      BY <1>1, <1>3, <2>2, <3>1, <3>2
  <2>3. QED
    BY <1>1, <2>1, <2>2
<1>7. Without(k) = a \o b
  BY DEF a, b, Without
<1>8. QED
  BY <1>4, <1>5, <1>6, <1>7

-----------------------------------------------------------------------------
(* What each way of changing the list preserves.                           *)

LEMMA ElementsAreNat ==
  ASSUME TypeOK
  PROVE  \A i \in 1 .. Len(reqs) : reqs[i] \in Nat
BY BoundsAssumption DEF TypeOK, Nodes

(* The list grows by a new node.                                           *)
LEMMA AppendKeeps ==
  ASSUME TypeOK, Ordered, nextId \in Nodes, reqs' = Append(reqs, nextId),
         nextId' = nextId + 1
  PROVE  /\ reqs' \in Seq(Nodes) /\ Len(reqs') = Len(reqs) + 1
         /\ \A i \in 1 .. Len(reqs) : reqs'[i] = reqs[i]
         /\ reqs'[Len(reqs) + 1] = nextId
         /\ Ordered'
         /\ reqs' # << >> /\ LastOf' = nextId /\ (reqs # << >> => reqs'[1] = reqs[1])
         /\ \A i \in 1 .. Len(reqs') :
              nextId <= reqs'[i] \/ \E j \in 1 .. Len(reqs) : reqs'[i] = reqs[j] /\ i = j
<1>1. reqs \in Seq(Nodes) /\ Len(reqs) \in Nat /\ nextId \in Nat
  BY BoundsAssumption DEF TypeOK, Nodes
<1>2. /\ reqs' \in Seq(Nodes) /\ Len(reqs') = Len(reqs) + 1
      /\ \A i \in 1 .. Len(reqs) : reqs'[i] = reqs[i]
      /\ reqs'[Len(reqs) + 1] = nextId
  BY <1>1
<1>3. \A i \in 1 .. Len(reqs') : reqs'[i] < nextId + 1
  BY <1>1, <1>2, ElementsAreNat DEF Ordered
<1>4. ASSUME NEW i \in 1 .. Len(reqs'), NEW j \in 1 .. Len(reqs'), i < j
      PROVE  reqs'[i] < reqs'[j]
  <2>1. i \in 1 .. Len(reqs) /\ reqs'[i] = reqs[i]
    BY <1>1, <1>2, <1>4
  <2>2. CASE j \in 1 .. Len(reqs)
    BY <1>2, <1>4, <2>1, <2>2 DEF Ordered
  <2>3. CASE j = Len(reqs) + 1
    BY <1>2, <2>1, <2>3 DEF Ordered
  <2>4. QED
    BY <1>1, <1>2, <2>2, <2>3
<1>5. reqs' # << >> /\ LastOf' = nextId /\ (reqs # << >> => reqs'[1] = reqs[1])
  BY <1>1, <1>2 DEF LastOf
<1>6. \A i \in 1 .. Len(reqs') :
        nextId <= reqs'[i] \/ \E j \in 1 .. Len(reqs) : reqs'[i] = reqs[j] /\ i = j
  BY <1>1, <1>2
<1>7. QED
  BY <1>2, <1>3, <1>4, <1>5, <1>6 DEF Ordered

(* The list loses its head.                                                *)
LEMMA TailKeeps ==
  ASSUME TypeOK, Ordered, reqs # << >>, reqs' = Tail(reqs), nextId' = nextId
  PROVE  /\ reqs' \in Seq(Nodes) /\ Len(reqs') = Len(reqs) - 1
         /\ \A i \in 1 .. Len(reqs) - 1 : reqs'[i] = reqs[i + 1]
         /\ Ordered'
         /\ reqs' # << >> => LastOf' = LastOf
         /\ \A i \in 1 .. Len(reqs') : \E j \in 1 .. Len(reqs) : reqs'[i] = reqs[j] /\ j # 1
<1>1. reqs \in Seq(Nodes) /\ Len(reqs) \in Nat
  BY DEF TypeOK
<1>2. /\ reqs' \in Seq(Nodes) /\ Len(reqs') = Len(reqs) - 1
      /\ \A i \in 1 .. Len(reqs) - 1 : reqs'[i] = reqs[i + 1]
  BY <1>1, HeadTailProperties
<1>3. \A i \in 1 .. Len(reqs') : i + 1 \in 1 .. Len(reqs) /\ reqs'[i] = reqs[i + 1]
  BY <1>1, <1>2
<1>4. ASSUME NEW i \in 1 .. Len(reqs'), NEW j \in 1 .. Len(reqs'), i < j
      PROVE  reqs'[i] < reqs'[j]
  <2>1. i + 1 < j + 1
    BY <1>1, <1>2, <1>4
  <2>2. QED
    BY <1>3, <2>1 DEF Ordered
<1>5. \A i \in 1 .. Len(reqs') : reqs'[i] < nextId'
  BY <1>3 DEF Ordered
<1>6. reqs' # << >> => LastOf' = LastOf
  BY <1>1, <1>2, <1>3 DEF LastOf
<1>7. \A i \in 1 .. Len(reqs') : \E j \in 1 .. Len(reqs) : reqs'[i] = reqs[j] /\ j # 1
  BY <1>1, <1>2, <1>3
<1>8. QED
  BY <1>2, <1>4, <1>5, <1>6, <1>7 DEF Ordered

(* The list loses any one node; the last node stays last unless it is the  *)
(* one that goes.                                                          *)
LEMMA WithoutKeeps ==
  ASSUME TypeOK, Ordered, NEW k \in Nat, k < Len(reqs), reqs' = Without(k),
         nextId' = nextId, gReqEnd = LastOf,
         gReqEnd' = TailAfterRemoval(k, reqs[k + 1])
  PROVE  /\ reqs' \in Seq(Nodes) /\ gReqEnd' \in Nodes \cup {NULL}
         /\ \A i \in 1 .. Len(reqs') : \E j \in 1 .. Len(reqs) : reqs'[i] = reqs[j]
         /\ \A j \in 1 .. Len(reqs) :
              j # k + 1 => \E i \in 1 .. Len(reqs') : reqs'[i] = reqs[j]
         /\ Ordered'
         /\ gReqEnd' = LastOf'
<1> DEFINE old(i) == IF i <= k THEN i ELSE i + 1
<1>1. reqs \in Seq(Nodes) /\ Len(reqs) \in Nat
  BY DEF TypeOK
<1>2. /\ reqs' \in Seq(Nodes) /\ Len(reqs') = Len(reqs) - 1
      /\ \A i \in 1 .. Len(reqs) - 1 :
           reqs'[i] = IF i <= k THEN reqs[i] ELSE reqs[i + 1]
  BY WithoutShape
<1>3. \A i \in 1 .. Len(reqs') : old(i) \in 1 .. Len(reqs) /\ reqs'[i] = reqs[old(i)]
  BY <1>1, <1>2
<1>4. \A i, j \in 1 .. Len(reqs') : i < j => old(i) < old(j)
  BY <1>1, <1>2
<1>5. \A j \in 1 .. Len(reqs) : j # k + 1 => \E i \in 1 .. Len(reqs') : old(i) = j
  <2>1. SUFFICES ASSUME NEW j \in 1 .. Len(reqs), j # k + 1
                 PROVE  \E i \in 1 .. Len(reqs') : old(i) = j
    OBVIOUS
  <2>2. CASE j <= k
    BY <1>1, <1>2, <2>2
  <2>3. CASE ~(j <= k)
    <3>1. j - 1 \in 1 .. Len(reqs') /\ ~(j - 1 <= k) /\ (j - 1) + 1 = j
      BY <1>1, <1>2, <2>1, <2>3
    <3>2. old(j - 1) = j
      BY <3>1
    <3>3. QED
      BY <3>1, <3>2
  <2>4. QED
    BY <2>2, <2>3
<1>6. Ordered'
  <2>1. ASSUME NEW i \in 1 .. Len(reqs'), NEW j \in 1 .. Len(reqs'), i < j
        PROVE  reqs'[i] < reqs'[j]
    <3> HIDE DEF old
    <3>1. old(i) < old(j)
      BY <1>4, <2>1
    <3>2. QED
      BY <1>3, <3>1 DEF Ordered
  <2>2. \A i \in 1 .. Len(reqs') : reqs'[i] < nextId'
    <3> HIDE DEF old
    <3> QED  BY <1>3 DEF Ordered
  <2>3. QED
    BY <2>1, <2>2 DEF Ordered
<1>7. reqs # << >> /\ gReqEnd = reqs[Len(reqs)] /\ gReqEnd \in Nodes
  BY <1>1 DEF LastOf
<1>8. reqs[k + 1] = gReqEnd <=> k + 1 = Len(reqs)
  <2>1. k + 1 \in 1 .. Len(reqs) /\ Len(reqs) \in 1 .. Len(reqs)
    BY <1>1
  <2>2. k + 1 < Len(reqs) => reqs[k + 1] # reqs[Len(reqs)]
    <3>1. k + 1 < Len(reqs) => reqs[k + 1] < reqs[Len(reqs)]
      BY <2>1 DEF Ordered
    <3>2. reqs[k + 1] \in Nat /\ reqs[Len(reqs)] \in Nat
      BY <2>1, ElementsAreNat
    <3>3. QED
      BY <3>1, <3>2
  <2>3. QED
    BY <1>1, <1>7, <2>1, <2>2
<1>9. gReqEnd' = LastOf' /\ gReqEnd' \in Nodes \cup {NULL}
  <2>1. CASE k + 1 < Len(reqs)
    <3>1. gReqEnd' = gReqEnd
      BY <1>1, <1>8, <2>1 DEF TailAfterRemoval
    <3>2. Len(reqs') >= 1 /\ reqs'[Len(reqs')] = reqs[Len(reqs)]
      BY <1>1, <1>2, <2>1
    <3>3. QED
      BY <1>1, <1>2, <1>7, <3>1, <3>2 DEF LastOf
  <2>2. CASE k + 1 = Len(reqs) /\ k = 0
    BY <1>1, <1>2, <1>8, <2>2 DEF TailAfterRemoval, LastOf
  <2>3. CASE k + 1 = Len(reqs) /\ k # 0
    <3>1. gReqEnd' = reqs[k]
      BY <1>1, <1>8, <2>3 DEF TailAfterRemoval
    <3>2. Len(reqs') = k /\ k >= 1 /\ reqs'[k] = reqs[k] /\ reqs[k] \in Nodes
      BY <1>1, <1>2, <2>3
    <3>3. QED
      BY <1>2, <3>1, <3>2 DEF LastOf
  <2>4. QED
    BY <1>1, <2>1, <2>2, <2>3
<1>10. \A i \in 1 .. Len(reqs') : \E j \in 1 .. Len(reqs) : reqs'[i] = reqs[j]
  <2> HIDE DEF old
  <2> QED  BY <1>3
<1>11. \A j \in 1 .. Len(reqs) :
         j # k + 1 => \E i \in 1 .. Len(reqs') : reqs'[i] = reqs[j]
  <2> HIDE DEF old
  <2> QED  BY <1>3, <1>5
<1>12. QED
  BY <1>2, <1>6, <1>9, <1>10, <1>11

(* A change of the list keeps ServedAreOld when every node of the new list *)
(* is a new one or an old one, and the served head does not move.          *)
LEMMA OldStays ==
  ASSUME TypeOK, ServedAreOld, handled' = handled, cur' = cur,
         nextId' \in Nat, nextId <= nextId',
         reqs' \in Seq(Nodes),
         \A i \in 1 .. Len(reqs') :
           \/ nextId <= reqs'[i]
           \/ \E j \in 1 .. Len(reqs) :
                /\ reqs'[i] = reqs[j]
                /\ j = 1 /\ pc[Io] \in {"popwait", "pop"} =>
                     i = 1 /\ pc'[Io] \in {"popwait", "pop"}
  PROVE  ServedAreOld'
<1>1. nextId \in Nat /\ \A h \in handled : h \in Nat
  BY BoundsAssumption DEF TypeOK, Nodes
<1>2. \A i \in 1 .. Len(reqs') : reqs'[i] \in Nat
  BY BoundsAssumption DEF Nodes
<1>3. ASSUME NEW h \in handled, NEW i \in 1 .. Len(reqs')
      PROVE  h < reqs'[i] \/ (pc'[Io] \in {"popwait", "pop"} /\ i = 1 /\ h = cur)
  <2>1. CASE nextId <= reqs'[i]
    BY <1>1, <1>2, <2>1 DEF ServedAreOld
  <2>2. CASE \E j \in 1 .. Len(reqs) :
               /\ reqs'[i] = reqs[j]
               /\ j = 1 /\ pc[Io] \in {"popwait", "pop"} =>
                    i = 1 /\ pc'[Io] \in {"popwait", "pop"}
    BY <2>2 DEF ServedAreOld
  <2>3. QED
    BY <2>1, <2>2
<1>4. \A h \in handled : h < nextId'
  BY <1>1 DEF ServedAreOld
<1>5. QED
  BY <1>3, <1>4 DEF ServedAreOld

-----------------------------------------------------------------------------
(* What the three actions that change the list do to it, given IInv.       *)

LEMMA PutLinkEffect ==
  ASSUME IInv, NEW t \in Threads, PutLink(t)
  PROVE  /\ nextId \in Nodes /\ nextId' = nextId + 1
         /\ pc[Io] # "exited" /\ gReqEnd = LastOf
         /\ reqs' = Append(reqs, nextId)
<1> USE BoundsAssumption DEF PutLink, IInv, TypeOK, MutualExclusion, HasEnd, Main, Io, Threads
<1>1. pc[Io] # "exited" /\ gReqEnd = LastOf /\ loc[t] = LastOf
  BY DEF TailOK, Ending, PutLabels
<1>2. nextId \in Nodes
  BY DEF Counted, ToLink, Nodes
<1>3. reqs' = Append(reqs, nextId)
  BY <1>1, LinkedAppends
<1>4. QED
  BY <1>1, <1>2, <1>3

LEMMA WorkerPopEffect ==
  ASSUME IInv, WorkerPop
  PROVE  reqs # << >> /\ cur = reqs[1] /\ reqs' = Tail(reqs) /\ nextId' = nextId
<1>1. reqs # << >> /\ cur = reqs[1]
  BY DEF WorkerPop, IInv, CurOK
<1>2. QED
  BY <1>1, AfterIsTail DEF WorkerPop, IInv

LEMMA RemoveWalkEffect ==
  ASSUME IInv, RemoveWalk
  PROVE  /\ pc[Main] = "rmwalk" /\ pc[Io] \notin {"exited", "popend", "popwait", "pop"}
         /\ gReqEnd = LastOf /\ loc[Main] \in Nat
         /\ UNCHANGED <<rtype, nextId, semas, regVars, flags, cur, putVars, handled, dropped>>
         /\ \/ /\ loc[Main] < Len(reqs)
               /\ reqs' = Without(loc[Main])
               /\ gReqEnd' = TailAfterRemoval(loc[Main], reqs[loc[Main] + 1])
               /\ removed' = removed \cup {reqs[loc[Main] + 1]}
               /\ UNCHANGED <<loc, pc>>
            \/ /\ \/ loc' = [loc EXCEPT ![Main] = loc[Main] + 1] /\ pc' = pc
                  \/ loc' = loc /\ pc' = [pc EXCEPT ![Main] = "rmsignal"]
               /\ UNCHANGED <<reqs, gReqEnd, removed>>
<1>1. pc[Main] = "rmwalk" /\ pc[Io] \notin {"exited", "popend", "popwait", "pop"}
  BY DEF RemoveWalk, IInv, TypeOK, MutualExclusion, HasEnd, IoHasProc, MainHasProc, Ending,
         Main, Io
<1>2. gReqEnd = LastOf /\ loc[Main] \in Nat
  BY <1>1 DEF IInv, TypeOK, TailOK, Threads, Main, Io
<1>3. UNCHANGED <<rtype, nextId, semas, regVars, flags, cur, putVars, handled, dropped>>
  BY DEF RemoveWalk
<1>4. QED
  BY <1>1, <1>2, <1>3 DEF RemoveWalk, Goto

-----------------------------------------------------------------------------
(* Every step of either thread preserves IInv, whatever the scheduler.     *)
LEMMA IInvStep ==
  ASSUME IInv, [Next]_vars
  PROVE  IInv'
<1> USE BoundsAssumption, TypesAssumption
<1> USE DEF listVars, semas, regVars, flags, locals, putVars, hist, vars, Goto, Caller,
            WaitProc, WaitEnd, SignalProc, SignalEnd, Main, Io, Threads, NULL, Nodes,
            PutLabels, IoLabels, MainLabels
<1> USE DEF TypeOK, Counted, ToLink, MutualExclusion, IoHasProc, MainHasProc, HasEnd, Ordered,
            TailOK, LastOf, CurOK, ServedAreOld, Quiet, Ending, IInv
<1>1. ASSUME NEW t \in Threads, NEW type \in Types, PutBegin(t, type)
      PROVE  IInv'
  BY <1>1, SMTT(30) DEF PutBegin
<1>2. ASSUME NEW t \in Threads, PutWait(t)
      PROVE  IInv'
  BY <1>2 DEF PutWait
<1>3. ASSUME NEW t \in Threads, PutTail(t)
      PROVE  IInv'
  BY <1>3 DEF PutTail
<1>4. ASSUME NEW t \in Threads, PutLink(t)
      PROVE  IInv'
  <2> USE DEF PutLink
  <2>1. pc[Io] # "exited" /\ gReqEnd = LastOf
    BY <1>4, PutLinkEffect
  <2>2. nextId \in Nodes /\ nextId + 1 \in 1 .. MaxCalls + 1 /\ nextId' = nextId + 1
    BY <1>4, PutLinkEffect
  <2>3. reqs' = Append(reqs, nextId)
    BY <1>4, PutLinkEffect
  <2>4. /\ reqs' \in Seq(Nodes) /\ Len(reqs') = Len(reqs) + 1
        /\ \A i \in 1 .. Len(reqs) : reqs'[i] = reqs[i]
        /\ reqs'[Len(reqs) + 1] = nextId
        /\ Ordered'
        /\ reqs' # << >> /\ LastOf' = nextId /\ (reqs # << >> => reqs'[1] = reqs[1])
        /\ \A i \in 1 .. Len(reqs') :
             nextId <= reqs'[i] \/ \E j \in 1 .. Len(reqs) : reqs'[i] = reqs[j] /\ i = j
    BY <2>2, <2>3, AppendKeeps
  <2>5. TypeOK' /\ Counted' /\ MutualExclusion' /\ Quiet' /\ Ending'
    BY <1>4, <2>1, <2>2, <2>4, SMTT(30)
  <2>6. gReqEnd' = LastOf'
    BY <1>4, <2>4, Zenon DEF PutLink
  <2>7. TailOK' /\ CurOK'
    BY <1>4, <2>1, <2>4, <2>6
  <2>8. ServedAreOld'
    <3>1. pc[Io] \in {"popwait", "pop"} => pc'[Io] \in {"popwait", "pop"}
      BY <1>4
    <3>2. handled' = handled /\ cur' = cur /\ nextId' \in Nat /\ nextId <= nextId'
      BY <1>4, <2>2
    <3>3. TypeOK /\ ServedAreOld
      OBVIOUS
    <3> HIDE DEF TypeOK, ServedAreOld, IInv
    <3>4. QED
      BY <2>4, <3>1, <3>2, <3>3, OldStays
  <2>9. QED
    BY <2>4, <2>5, <2>7, <2>8
<1>5. ASSUME NEW t \in Threads, PutFill(t)
      PROVE  IInv'
  <2> USE DEF PutFill
  <2>1. TypeOK' /\ Counted' /\ MutualExclusion'
    BY <1>5
  <2>2. Ordered' /\ TailOK' /\ CurOK' /\ Quiet' /\ Ending'
    BY <1>5
  <2>3. ServedAreOld'
    BY <1>5
  <2>4. QED
    BY <2>1, <2>2, <2>3
<1>6. ASSUME NEW t \in Threads, PutWake(t)
      PROVE  IInv'
  BY <1>6 DEF PutWake
<1>7. CASE WorkerCheck
  BY <1>7, SMTT(30) DEF WorkerCheck
<1>8. CASE WorkerSleep
  BY <1>8 DEF WorkerSleep
<1>9. CASE WorkerLock
  BY <1>9 DEF WorkerLock
<1>10. CASE WorkerLoop
  BY <1>10 DEF WorkerLoop
<1>11. CASE WorkerHandled
  <2> USE DEF WorkerHandled
  <2>1. reqs # << >> /\ cur = reqs[1] /\ cur \in Nodes /\ cur < nextId
    BY <1>11
  <2>2. TypeOK' /\ Counted' /\ MutualExclusion' /\ Quiet' /\ Ending'
    BY <1>11, <2>1
  <2>3. Ordered' /\ TailOK' /\ CurOK'
    BY <1>11, <2>1
  <2>4. \A i \in 1 .. Len(reqs) : cur < reqs[i] \/ i = 1
    <3>1. Len(reqs) \in Nat
      BY DEF TypeOK
    <3>2. QED
      BY <2>1, <3>1 DEF Ordered
  <2>5. ServedAreOld'
    BY <1>11, <2>1, <2>4 DEF ServedAreOld
  <2>6. QED
    BY <2>2, <2>3, <2>5
<1>12. CASE WorkerPopWait
  BY <1>12 DEF WorkerPopWait
<1>13. CASE WorkerPop
  <2> USE DEF WorkerPop
  <2>1. reqs # << >> /\ cur = reqs[1] /\ nextId' = nextId
    BY <1>13, WorkerPopEffect
  <2>2. reqs' = Tail(reqs)
    BY <1>13, WorkerPopEffect
  <2>3. /\ reqs' \in Seq(Nodes) /\ Len(reqs') = Len(reqs) - 1
        /\ \A i \in 1 .. Len(reqs) - 1 : reqs'[i] = reqs[i + 1]
        /\ Ordered'
        /\ reqs' # << >> => LastOf' = LastOf
        /\ \A i \in 1 .. Len(reqs') : \E j \in 1 .. Len(reqs) : reqs'[i] = reqs[j] /\ j # 1
    BY <2>1, <2>2, TailKeeps
  <2>4. TypeOK' /\ Counted' /\ MutualExclusion' /\ Quiet' /\ Ending' /\ CurOK'
    BY <1>13, <2>3
  <2>5. TailOK'
    BY <1>13, <2>1, <2>3
  <2>6. ServedAreOld'
    <3>1. handled' = handled /\ cur' = cur /\ nextId' \in Nat /\ nextId <= nextId'
      BY <1>13, <2>1
    <3>2. TypeOK /\ ServedAreOld
      OBVIOUS
    <3> HIDE DEF TypeOK, ServedAreOld, IInv
    <3>3. QED
      BY <2>3, <3>1, <3>2, OldStays
  <2>7. QED
    BY <2>3, <2>4, <2>5, <2>6
<1>14. CASE WorkerPopEnd
  BY <1>14 DEF WorkerPopEnd
<1>15. CASE WorkerUnlock
  BY <1>15 DEF WorkerUnlock
<1>16. CASE WorkerExit
  <2> USE DEF WorkerExit
  <2>1. reqs = << >> /\ Elements(reqs) = {}
    BY <1>16 DEF Elements
  <2>2. reqs' = reqs /\ dropped' = dropped
    BY <1>16, <2>1
  <2>3. TypeOK' /\ Counted' /\ MutualExclusion' /\ Quiet' /\ Ending'
    BY <1>16, <2>2, ZenonT(30)
  <2>4. Ordered' /\ TailOK' /\ CurOK' /\ ServedAreOld'
    BY <1>16, <2>2
  <2>5. QED
    BY <2>3, <2>4
<1>17. CASE RegisterWait
  BY <1>17 DEF RegisterWait
<1>18. CASE Register
  <2> USE DEF Register
  <2>1. regs # << >>
    BY <1>18
  <2>2. Head(regs) \in Types /\ Tail(regs) \in Seq(Types)
    BY <2>1, HeadTailProperties DEF TypeOK
  <2>3. handlers' \in SUBSET Types /\ regs' \in Seq(Types)
    BY <1>18, <2>2
  <2>4. QED
    BY <1>18, <2>3
<1>19. CASE InitDone
  BY <1>19 DEF InitDone
<1>20. ASSUME NEW type \in Types, RemoveBegin(type)
      PROVE  IInv'
  BY <1>20 DEF RemoveBegin
<1>21. CASE RemoveLockProc
  BY <1>21 DEF RemoveLockProc
<1>22. CASE RemoveLockEnd
  BY <1>22 DEF RemoveLockEnd
<1>23. CASE RemoveWalk
  <2> DEFINE kept == loc[Main]
             req  == reqs[kept + 1]
  <2>1. /\ pc[Main] = "rmwalk" /\ pc[Io] # "exited" /\ pc[Io] # "popend"
        /\ gReqEnd = LastOf /\ kept \in Nat
        /\ UNCHANGED <<rtype, nextId, semas, regVars, flags, cur, putVars, handled, dropped>>
    BY <1>23, RemoveWalkEffect
  <2>2. CASE /\ kept < Len(reqs)
             /\ reqs' = Without(kept)
             /\ gReqEnd' = TailAfterRemoval(kept, req)
             /\ removed' = removed \cup {req}
             /\ UNCHANGED <<loc, pc>>
    <3>1. nextId' = nextId
      BY <2>1
    <3>2. /\ reqs' \in Seq(Nodes) /\ gReqEnd' \in Nodes \cup {NULL}
          /\ \A i \in 1 .. Len(reqs') : \E j \in 1 .. Len(reqs) : reqs'[i] = reqs[j]
          /\ Ordered' /\ gReqEnd' = LastOf'
      BY <2>1, <2>2, <3>1, WithoutKeeps
    <3>3. req \in Nodes
      BY <2>1, <2>2 DEF TypeOK
    <3>4. TypeOK'
      <4>1. removed' \in SUBSET Nodes
        BY <2>2, <3>3 DEF TypeOK
      <4> HIDE DEF req, kept
      <4>2. QED
        BY <2>1, <2>2, <3>2, <4>1
    <3>5. Counted' /\ MutualExclusion' /\ Ending' /\ TailOK' /\ CurOK'
      BY <2>1, <2>2, <3>2
    <3>6. Quiet'
      <4>1. Len(reqs) \in Nat /\ reqs # << >>
        BY <2>1, <2>2
      <4>2. QED
        BY <2>1, <2>2, <4>1
    <3>7. ServedAreOld'
      <4>1. pc[Io] \notin {"popwait", "pop"} /\ nextId \in Nat
        BY <2>1
      <4>2. QED
        BY <2>1, <2>2, <3>2, <4>1, OldStays, SMTT(30)
    <3>8. QED
      BY <3>2, <3>4, <3>5, <3>6, <3>7
  <2>3. CASE /\ \/ loc' = [loc EXCEPT ![Main] = kept + 1] /\ pc' = pc
                \/ loc' = loc /\ pc' = [pc EXCEPT ![Main] = "rmsignal"]
             /\ UNCHANGED <<reqs, gReqEnd, removed>>
    BY <2>1, <2>3
  <2>4. QED
    BY <1>23, <2>2, <2>3, RemoveWalkEffect
<1>24. CASE RemoveSignal
  BY <1>24 DEF RemoveSignal
<1>25. CASE BlockBegin
  BY <1>25 DEF BlockBegin
<1>26. CASE BlockDone
  BY <1>26 DEF BlockDone
<1>27. CASE Unblock
  BY <1>27, ZenonT(30) DEF Unblock
<1>28. CASE End
  BY <1>28 DEF End
<1>29. CASE CountBegin
  BY <1>29 DEF CountBegin
<1>30. CASE CountLock
  BY <1>30 DEF CountLock
<1>31. CASE CountDone
  BY <1>31 DEF CountDone
<1>32. CASE UNCHANGED vars
  BY <1>32
<1>33. QED
  BY <1>1, <1>2, <1>3, <1>4, <1>5, <1>6, <1>7, <1>8, <1>9, <1>10, <1>11, <1>12, <1>13, <1>14, <1>15, <1>16, <1>17, <1>18, <1>19, <1>20, <1>21, <1>22, <1>23, <1>24, <1>25, <1>26, <1>27, <1>28, <1>29, <1>30, <1>31, <1>32
  DEF Next, IoNext, WorkerStep, PutStep, MainBusy, MainNew, MainStep, MainCall, Stopped


LEMMA IInvInit == Init => IInv
<1> SUFFICES ASSUME Init PROVE IInv
  OBVIOUS
<1> USE BoundsAssumption, TypesAssumption
<1> USE DEF Init, NULL, Nodes, Main, Io, Threads, PutLabels, IoLabels, MainLabels
<1>1. /\ pc[Main] = "init" /\ pc[Io] = "check" /\ pc \in [Threads -> {"init", "check"}]
      /\ Len(reqs) = 0 /\ reqs \in Seq(Nodes) /\ regs \in Seq(Types)
  OBVIOUS
<1>2. TypeOK
  <2>1. /\ rtype \in [Nodes -> Types \cup {Uninit}] /\ handlers \in SUBSET Types
        /\ loc \in [Threads -> Nat] /\ ptype \in [Threads -> Types]
        /\ ret \in [Threads -> {"IO_OK", "IO_ERR_IO_BLOCKED", "IO_ERR_INVALID_HANDLER"}]
    OBVIOUS
  <2>2. pc \in [Threads -> PutLabels \cup IoLabels \cup MainLabels]
    BY <1>1
  <2>3. /\ gReqEnd \in Nodes \cup {NULL} /\ cur \in Nodes \cup {NULL}
        /\ nextId \in 1 .. MaxCalls + 1 /\ calls \in 0 .. MaxCalls /\ wakeups \in Nat
        /\ procSema \in {0, 1} /\ endSema \in {0, 1}
    OBVIOUS
  <2>4. isIOBlocked \in BOOLEAN /\ gIOTerminate \in BOOLEAN /\ isIORunning \in BOOLEAN
    OBVIOUS
  <2>5. handled \in SUBSET Nodes /\ removed \in SUBSET Nodes /\ dropped \in SUBSET Nodes
    OBVIOUS
  <2>6. pc[Io] \in PutLabels \cup IoLabels /\ pc[Main] \in PutLabels \cup MainLabels
    BY <1>1
  <2> HIDE DEF Init, PutLabels, IoLabels, MainLabels, Nodes
  <2>7. QED
    BY <1>1, <2>1, <2>2, <2>3, <2>4, <2>5, <2>6 DEF TypeOK
<1>3. Counted /\ MutualExclusion /\ CurOK /\ Quiet /\ Ending
  BY <1>1 DEF Counted, ToLink, MutualExclusion, IoHasProc, MainHasProc, HasEnd, CurOK,
              Quiet, Ending
<1>4. Ordered /\ TailOK /\ ServedAreOld
  BY <1>1 DEF Ordered, TailOK, LastOf, ServedAreOld
<1>5. QED
  BY <1>2, <1>3, <1>4 DEF IInv

(* IInv holds in every reachable state, with any scheduler.                *)
THEOREM Invariance == Spec => []IInv
<1>1. IInv /\ [Next]_vars => IInv'
  BY IInvStep
<1>2. QED
  BY IInvInit, <1>1, PTL DEF Spec

(* Every variable keeps its C type; no call allocates a node the bound on  *)
(* calls does not account for.                                             *)
THEOREM TypeCorrect == Spec => []TypeOK
<1>1. IInv => TypeOK
  BY DEF IInv
<1>2. QED
  BY Invariance, <1>1, PTL

(* gProcSemaId and gEndSemaId exclude the two threads from each other's    *)
(* sections, also after a registration that left gProcSemaId taken.        *)
THEOREM Exclusion == Spec => []MutualExclusion
<1>1. IInv => MutualExclusion
  BY DEF IInv
<1>2. QED
  BY Invariance, <1>1, PTL

(* gReqEnd is the last node, or NULL for an empty list, whenever a caller  *)
(* of ioPutRequest can take gEndSemaId.                                    *)
THEOREM TailCorrect == Spec => []TailIsLast
<1>1. IInv => TailIsLast
  BY DEF IInv, TypeOK, MutualExclusion, HasEnd, TailOK, LastOf, TailIsLast, Ending, Io
<1>2. QED
  BY Invariance, <1>1, PTL

(* ioBlockOps(1) returns only to a quiet queue, which stays quiet until    *)
(* ioBlockOps(0).                                                          *)
THEOREM BlockCorrect == Spec => []BlockedIsQuiet
<1>1. IInv => BlockedIsQuiet
  BY DEF IInv, Quiet, CurOK, BlockedIsQuiet
<1>2. QED
  BY Invariance, <1>1, PTL

(* ioEnd() drops no request.                                               *)
THEOREM EndCorrect == Spec => []NothingDropped
<1>1. IInv => NothingDropped
  BY DEF IInv, Ending, NothingDropped
<1>2. QED
  BY Invariance, <1>1, PTL

(* Handlers return in the order in which their requests were linked.       *)
THEOREM OrderCorrect == Spec => ServedInOrder
<1> DEFINE Ord == \A n \in handled' \ handled :
                    /\ \A h \in handled : h < n
                    /\ \A m \in Elements(reqs) : n <= m
<1>1. ASSUME IInv, [Next]_vars PROVE [Ord]_vars
  <2>1. CASE WorkerHandled
    <3>1. pc[Io] = "handle" /\ handled' = handled \cup {cur}
      BY <2>1 DEF WorkerHandled
    <3>2. reqs # << >> /\ cur = reqs[1] /\ Len(reqs) \in Nat
      BY <1>1, <3>1 DEF IInv, CurOK, TypeOK
    <3>3. \A h \in handled : h < cur
      BY <1>1, <3>1, <3>2 DEF IInv, ServedAreOld, TypeOK
    <3>4. \A i \in 1 .. Len(reqs) : cur <= reqs[i]
      BY <1>1, <3>2, ElementsAreNat DEF IInv, Ordered, TypeOK
    <3>5. QED
      BY <3>1, <3>3, <3>4 DEF Elements
  <2>2. CASE UNCHANGED handled
    BY <2>2
  <2>3. QED
    BY <1>1, <2>1, <2>2
    DEF Next, IoNext, WorkerStep, PutStep, MainBusy, MainNew, MainStep, MainCall, Stopped,
        PutBegin, PutWait, PutTail, PutLink, PutFill, PutWake, WorkerCheck, WorkerSleep,
        WorkerLock, WorkerLoop, WorkerPopWait, WorkerPop, WorkerPopEnd, WorkerUnlock,
        WorkerExit, RegisterWait, Register, InitDone, RemoveBegin, RemoveLockProc,
        RemoveLockEnd, RemoveWalk, RemoveSignal, BlockBegin, BlockDone, Unblock, End,
        CountBegin, CountLock, CountDone, vars, hist
<1>2. QED
  BY Invariance, <1>1, PTL DEF Spec, ServedInOrder

(* The worker never sleeps over a request or the order to end, with any    *)
(* scheduler: wakeups are counted and never fewer than what it has still   *)
(* to look at.                                                             *)
THEOREM WakeupCorrect == Spec => []NoLostWakeup
<1>1. Init => NoLostWakeup
  BY DEF Init, NoLostWakeup, Io, Threads
<1>2. ASSUME IInv, IInv', NoLostWakeup, [Next]_vars PROVE NoLostWakeup'
  <2> USE <1>2 DEF NoLostWakeup, IInv, TypeOK, Main, Io, Threads, Goto, Caller, PutLabels,
                   listVars, semas, regVars, flags, locals, putVars, hist
  <2>1. ASSUME NEW t \in Threads, PutLink(t) PROVE NoLostWakeup'
    BY <2>1 DEF PutLink
  <2>2. ASSUME NEW t \in Threads, PutWake(t) PROVE NoLostWakeup'
    BY <2>2 DEF PutWake
  <2>3. ASSUME NEW t \in Threads, \/ \E type \in Types : PutBegin(t, type)
                                  \/ PutWait(t) \/ PutTail(t) \/ PutFill(t)
        PROVE  NoLostWakeup'
    BY <2>3 DEF PutBegin, PutWait, PutTail, PutFill
  <2>4. CASE WorkerStep
    BY <2>4 DEF WorkerStep, WorkerCheck, WorkerSleep, WorkerLock, WorkerLoop, WorkerHandled,
       WorkerPopWait, WorkerPop, WorkerPopEnd, WorkerUnlock, WorkerExit, Quiet, Ending
  <2>5. CASE MainStep
    BY <2>5 DEF MainStep, RegisterWait, Register, InitDone, RemoveLockProc,
       RemoveLockEnd, RemoveWalk, RemoveSignal, BlockDone, CountLock, CountDone
  <2>6. CASE MainCall
    BY <2>6 DEF MainCall, RemoveBegin, BlockBegin, Unblock, End, CountBegin
  <2>7. CASE UNCHANGED vars
    BY <2>7 DEF vars
  <2>8. QED
    BY <2>1, <2>2, <2>3, <2>4, <2>5, <2>6, <2>7
    DEF Next, IoNext, PutStep, MainBusy, MainNew, Stopped
<1>3. QED
  BY <1>1, <1>2, Invariance, PTL DEF Spec

-----------------------------------------------------------------------------
(* With the kernel's strict priorities, every step preserves StrictInv.    *)
LEMMA StrictStep ==
  ASSUME StrictPriority, IInv, StrictInv, [Next]_vars
  PROVE  StrictInv'
<1> USE BoundsAssumption, TypesAssumption
<1> USE DEF listVars, semas, regVars, flags, locals, putVars, hist, vars, Goto, Caller,
            WaitProc, WaitEnd, SignalProc, SignalEnd, Main, Io, Threads, PutLabels
<1> USE DEF TypeOK, MutualExclusion, IoHasProc, MainHasProc, HasEnd, CurOK, Ending, IInv, Filled,
            FillExcludesWorker, PoppedIsServed, StrictInv, GuiMayRun, WorkerReady
<1>1. ASSUME NEW t \in Threads, NEW type \in Types, PutBegin(t, type), t = Main => GuiMayRun
      PROVE  StrictInv'
  BY <1>1 DEF PutBegin
<1>2. ASSUME NEW t \in Threads, PutWait(t), t = Main => GuiMayRun
      PROVE  StrictInv'
  BY <1>2 DEF PutWait
<1>3. ASSUME NEW t \in Threads, PutTail(t), t = Main => GuiMayRun
      PROVE  StrictInv'
  BY <1>3 DEF PutTail
<1>4. ASSUME NEW t \in Threads, PutLink(t), t = Main => GuiMayRun
      PROVE  StrictInv'
  <2>1. /\ nextId \in Nodes /\ nextId' = nextId + 1
        /\ Len(reqs') = Len(reqs) + 1 /\ Len(reqs) \in Nat
        /\ \A i \in 1 .. Len(reqs) : reqs'[i] = reqs[i]
        /\ reqs'[Len(reqs) + 1] = nextId
    BY <1>4, PutLinkEffect, AppendKeeps
  <2>2. /\ pc[t] = "putlink" /\ pc' = [pc EXCEPT ![t] = "putfill"]
        /\ loc' = [loc EXCEPT ![t] = nextId]
        /\ UNCHANGED <<rtype, semas, regVars, flags, cur, putVars, hist>>
    BY <1>4 DEF PutLink
  <2>3. Filled'
    <3>1. ASSUME NEW i \in 1 .. Len(reqs')
          PROVE  \/ rtype'[reqs'[i]] \in handlers'
                 \/ \E u \in Threads : pc'[u] = "putfill" /\ loc'[u] = reqs'[i]
      <4>1. CASE i = Len(reqs) + 1
        BY <2>1, <2>2, <4>1
      <4>2. CASE i \in 1 .. Len(reqs)
        BY <2>1, <2>2, <4>2
      <4>3. QED
        BY <2>1, <4>1, <4>2
    <3>2. QED
      BY <2>1, <2>2, <3>1
  <2>4. FillExcludesWorker' /\ PoppedIsServed'
    BY <1>4, <2>1, <2>2
  <2>5. QED
    BY <2>3, <2>4
<1>5. ASSUME NEW t \in Threads, PutFill(t), t = Main => GuiMayRun
      PROVE  StrictInv'
  BY <1>5 DEF PutFill
<1>6. ASSUME NEW t \in Threads, PutWake(t), t = Main => GuiMayRun
      PROVE  StrictInv'
  BY <1>6 DEF PutWake
<1>7. CASE WorkerCheck
  BY <1>7 DEF WorkerCheck
<1>8. CASE WorkerSleep
  BY <1>8 DEF WorkerSleep
<1>9. CASE WorkerLock
  BY <1>9 DEF WorkerLock
<1>10. CASE WorkerLoop
  <2>1. CASE reqs = << >> \/ gIOTerminate
    BY <1>10, <2>1 DEF WorkerLoop
  <2>2. CASE reqs # << >> /\ ~gIOTerminate
    <3>1. pc[Io] = "loop" /\ Len(reqs) \in Nat /\ Len(reqs) >= 1 /\ Head(reqs) = reqs[1]
      BY <1>10, <2>2 DEF WorkerLoop
    <3>2. rtype[reqs[1]] \in handlers
      BY <3>1
    <3>3. TypesRead(Head(reqs)) = {rtype[reqs[1]]}
      BY <3>1, <3>2 DEF TypesRead
    <3>4. pc' = [pc EXCEPT ![Io] = "handle"]
      BY <1>10, <2>2, <3>1, <3>2, <3>3 DEF WorkerLoop
    <3>5. UNCHANGED <<listVars, semas, regVars, flags, loc, putVars, hist>>
      BY <1>10 DEF WorkerLoop
    <3>6. QED
      BY <3>1, <3>4, <3>5
  <2>3. QED
    BY <2>1, <2>2
<1>11. CASE WorkerHandled
  BY <1>11 DEF WorkerHandled
<1>12. CASE WorkerPopWait
  BY <1>12 DEF WorkerPopWait
<1>13. CASE WorkerPop
  <2>1. /\ Len(reqs) \in Nat
        /\ \A i \in 1 .. Len(reqs') : \E j \in 1 .. Len(reqs) : reqs'[i] = reqs[j]
    BY <1>13, WorkerPopEffect, TailKeeps
  <2>2. /\ pc[Io] = "pop" /\ pc' = [pc EXCEPT ![Io] = "popend"]
        /\ UNCHANGED <<rtype, semas, regVars, flags, locals, putVars, hist>>
    BY <1>13 DEF WorkerPop
  <2>3. QED
    BY <2>1, <2>2
<1>14. CASE WorkerPopEnd
  BY <1>14 DEF WorkerPopEnd
<1>15. CASE WorkerUnlock
  BY <1>15 DEF WorkerUnlock
<1>16. CASE WorkerExit
  BY <1>16 DEF WorkerExit
<1>17. CASE RegisterWait
  BY <1>17 DEF RegisterWait
<1>18. CASE Register
  BY <1>18 DEF Register
<1>19. CASE InitDone
  BY <1>19 DEF InitDone
<1>20. ASSUME NEW type \in Types, RemoveBegin(type)
      PROVE  StrictInv'
  BY <1>20 DEF RemoveBegin
<1>21. CASE RemoveLockProc
  BY <1>21 DEF RemoveLockProc
<1>22. CASE RemoveLockEnd
  BY <1>22 DEF RemoveLockEnd
<1>23. CASE RemoveWalk
  <2>1. /\ pc[Main] = "rmwalk" /\ pc[Io] \notin {"popwait", "pop"}
        /\ UNCHANGED <<rtype, semas, regVars, flags, cur, putVars, handled>>
    BY <1>23, RemoveWalkEffect
  <2>2. \A i \in 1 .. Len(reqs') : \E j \in 1 .. Len(reqs) : reqs'[i] = reqs[j]
    BY <1>23, RemoveWalkEffect, WithoutKeeps
  <2>3. /\ pc'[Io] = pc[Io] /\ loc'[Io] = loc[Io]
        /\ pc'[Main] \in {"rmwalk", "rmsignal"}
    BY <1>23, RemoveWalkEffect
  <2>4. Filled'
    <3>1. \A i \in 1 .. Len(reqs) :
            rtype[reqs[i]] \in handlers \/ (pc[Io] = "putfill" /\ loc[Io] = reqs[i])
      BY <2>1
    <3>2. \A i \in 1 .. Len(reqs') :
            rtype'[reqs'[i]] \in handlers' \/ (pc'[Io] = "putfill" /\ loc'[Io] = reqs'[i])
      BY <2>1, <2>2, <2>3, <3>1
    <3>3. /\ \A t \in Threads : pc'[t] \in PutLabels => ptype'[t] \in handlers'
          /\ \A t \in Threads : pc'[t] = "putfill" => loc'[t] \in Nodes
      BY <2>1, <2>3
    <3>4. QED
      BY <3>2, <3>3
  <2>5. FillExcludesWorker' /\ PoppedIsServed'
    BY <2>1, <2>3
  <2>6. QED
    BY <2>4, <2>5
<1>24. CASE RemoveSignal
  BY <1>24 DEF RemoveSignal
<1>25. CASE BlockBegin
  BY <1>25 DEF BlockBegin
<1>26. CASE BlockDone
  BY <1>26 DEF BlockDone
<1>27. CASE Unblock
  BY <1>27 DEF Unblock
<1>28. CASE End
  BY <1>28 DEF End
<1>29. CASE CountBegin
  BY <1>29 DEF CountBegin
<1>30. CASE CountLock
  BY <1>30 DEF CountLock
<1>31. CASE CountDone
  BY <1>31 DEF CountDone
<1>32. CASE UNCHANGED vars
  BY <1>32
<1>33. QED
  BY <1>1, <1>2, <1>3, <1>4, <1>5, <1>6, <1>7, <1>8, <1>9, <1>10, <1>11, <1>12, <1>13, <1>14, <1>15, <1>16, <1>17, <1>18, <1>19, <1>20, <1>21, <1>22, <1>23, <1>24, <1>25, <1>26, <1>27, <1>28, <1>29, <1>30, <1>31, <1>32
  DEF Next, IoNext, WorkerStep, PutStep, MainBusy, MainNew, MainStep, MainCall, Stopped


LEMMA StrictInit == Init => StrictInv
BY DEF Init, StrictInv, Filled, FillExcludesWorker, PoppedIsServed, PutLabels, Main, Io,
       Threads

(* With strict priorities a node is filled before the worker can look at   *)
(* it, and a popped request has been served.                               *)
THEOREM StrictInvariance == ASSUME StrictPriority PROVE Spec => []StrictInv
<1>1. IInv /\ StrictInv /\ [Next]_vars => StrictInv'
  BY StrictStep
<1>2. QED
  BY StrictInit, Invariance, <1>1, PTL DEF Spec

(* The worker never reads a request that ioPutRequest is still filling.    *)
THEOREM FillCorrect == ASSUME StrictPriority PROVE Spec => []NoHalfBuiltRequest
<1>1. IInv /\ StrictInv => NoHalfBuiltRequest
  <2>1. SUFFICES ASSUME IInv, StrictInv, pc[Io] = "loop", reqs # << >>
                 PROVE  rtype[Head(reqs)] # Uninit
    BY DEF NoHalfBuiltRequest
  <2>2. Len(reqs) \in Nat /\ Len(reqs) >= 1 /\ Head(reqs) = reqs[1]
    BY <2>1 DEF IInv, TypeOK
  <2>3. rtype[reqs[1]] \in handlers
    BY <2>1, <2>2 DEF StrictInv, Filled, FillExcludesWorker, Threads, Main, Io
  <2>4. QED
    BY <2>1, <2>2, <2>3, TypesAssumption DEF IInv, TypeOK
<1>2. QED
  BY Invariance, StrictInvariance, <1>1, PTL

(* A step takes a request out of the list only into one of the histories.  *)
LEMMA ConservedStep ==
  ASSUME IInv, StrictInv, Conserved, [Next]_vars
  PROVE  Conserved'
<1> USE DEF Conserved, Elements
<1>1. ASSUME NEW t \in Threads, PutLink(t) PROVE Conserved'
  <2>1. /\ nextId \in Nat /\ nextId' = nextId + 1
        /\ Len(reqs) \in Nat /\ Len(reqs') = Len(reqs) + 1
        /\ \A i \in 1 .. Len(reqs) : reqs'[i] = reqs[i]
        /\ reqs'[Len(reqs) + 1] = nextId
    <3>1. TypeOK /\ Ordered
      BY DEF IInv
    <3>2. nextId \in Nat /\ Len(reqs) \in Nat
      BY <3>1, BoundsAssumption DEF TypeOK
    <3>3. QED
      BY <1>1, <3>1, <3>2, PutLinkEffect, AppendKeeps
  <2>2. nextId \in Elements(reqs')
    BY <2>1
  <2>3. Elements(reqs) \subseteq Elements(reqs')
    BY <2>1
  <2>4. UNCHANGED <<handled, removed, dropped>>
    BY <1>1 DEF PutLink, hist
  <2>5. \A n \in 1 .. nextId' - 1 : n = nextId \/ n \in 1 .. nextId - 1
    BY <2>1
  <2> HIDE DEF Elements
  <2>6. QED
    BY <2>2, <2>3, <2>4, <2>5
<1>2. CASE WorkerPop
  <2>1. /\ Len(reqs) \in Nat /\ Len(reqs') = Len(reqs) - 1 /\ cur = reqs[1]
        /\ \A i \in 1 .. Len(reqs) - 1 : reqs'[i] = reqs[i + 1]
    BY <1>2, WorkerPopEffect, TailKeeps DEF IInv, TypeOK
  <2>2. ASSUME NEW n \in Elements(reqs) PROVE n = cur \/ n \in Elements(reqs')
    <3>1. PICK j \in 1 .. Len(reqs) : n = reqs[j]
      BY <2>2
    <3>2. CASE j = 1
      BY <2>1, <3>1, <3>2
    <3>3. CASE j # 1
      <4>1. j - 1 \in 1 .. Len(reqs') /\ reqs'[j - 1] = reqs[j]
        BY <2>1, <3>3
      <4>2. QED
        BY <3>1, <4>1
    <3>4. QED
      BY <3>2, <3>3
  <2>3. cur \in handled
    BY <1>2 DEF WorkerPop, StrictInv, PoppedIsServed
  <2>4. UNCHANGED <<nextId, handled, removed, dropped>>
    BY <1>2 DEF WorkerPop, hist
  <2> HIDE DEF Elements
  <2>5. QED
    BY <2>2, <2>3, <2>4
<1>3. CASE RemoveWalk
  <2>1. \A n \in Elements(reqs) : n \in Elements(reqs') \/ n \in removed'
    BY <1>3, RemoveWalkEffect, WithoutKeeps DEF IInv
  <2>2. removed \subseteq removed' /\ UNCHANGED <<nextId, handled, dropped>>
    BY <1>3, RemoveWalkEffect
  <2> HIDE DEF Elements
  <2>3. QED
    BY <2>1, <2>2
<1>4. CASE WorkerExit
  <2>1. UNCHANGED <<nextId, handled, removed>> /\ dropped' = dropped \cup Elements(reqs)
    BY <1>4 DEF WorkerExit
  <2> HIDE DEF Elements
  <2>2. QED
    BY <2>1
<1>5. CASE WorkerHandled
  BY <1>5 DEF WorkerHandled, listVars
<1>6. CASE UNCHANGED <<reqs, nextId, handled, removed, dropped>>
  BY <1>6
<1> HIDE DEF Conserved, Elements
<1>7. QED
  BY <1>1, <1>2, <1>3, <1>4, <1>5, <1>6
  DEF Next, IoNext, WorkerStep, PutStep, MainBusy, MainNew, MainStep, MainCall, Stopped,
      PutBegin, PutWait, PutTail, PutFill, PutWake, WorkerCheck, WorkerSleep, WorkerLock,
      WorkerLoop, WorkerPopWait, WorkerPopEnd, WorkerUnlock, RegisterWait, Register,
      InitDone, RemoveBegin, RemoveLockProc, RemoveLockEnd, RemoveSignal,
      BlockBegin, BlockDone, Unblock, End, CountBegin, CountLock, CountDone, vars, hist,
      listVars, Threads, Main, Io

(* No interleaving of puts, pops and removals loses a request, runs one    *)
(* twice or reorders the list.                                             *)
THEOREM NoLoss == ASSUME StrictPriority PROVE Spec => []NoRequestLost
<1>1. Init => Conserved
  BY DEF Init, Conserved
<1>2. IInv /\ StrictInv /\ Conserved /\ [Next]_vars => Conserved'
  BY ConservedStep
<1>3. IInv /\ Conserved => NoRequestLost
  BY DEF IInv, Ordered, Conserved, NoRequestLost
<1>4. QED
  BY Invariance, StrictInvariance, <1>1, <1>2, <1>3, PTL DEF Spec

-----------------------------------------------------------------------------
(* IoMan implements IoService.                                             *)

Popping     == pc[Io] \in {"popwait", "pop"}
ListPending == PendingRequests = reqs
TailPending == reqs # << >> /\ PendingRequests = Tail(reqs)

(* Outside the worker's pop nothing in the list has been served.           *)
LEMMA PendingIsList ==
  IInv /\ ~Popping => ListPending
<1> SUFFICES ASSUME IInv, ~Popping PROVE PendingRequests = reqs
  BY DEF ListPending
<1>1. CASE reqs = << >>
  BY <1>1 DEF PendingRequests
<1>2. CASE reqs # << >>
  <2>1. Len(reqs) \in Nat /\ Len(reqs) >= 1 /\ Head(reqs) = reqs[1] /\ reqs[1] \in Nat
    BY <1>2, ElementsAreNat DEF IInv, TypeOK
  <2>2. Head(reqs) \notin handled
    BY <2>1 DEF IInv, ServedAreOld, Popping
  <2>3. QED
    BY <2>2 DEF PendingRequests
<1>3. QED
  BY <1>1, <1>2

(* While the worker pops, everything but the head is pending.              *)
LEMMA PendingIsTail ==
  IInv /\ StrictInv /\ Popping => TailPending
<1> SUFFICES ASSUME IInv, StrictInv, Popping
             PROVE  reqs # << >> /\ PendingRequests = Tail(reqs)
  BY DEF TailPending
<1>1. reqs # << >> /\ cur = reqs[1] /\ cur \in handled
  BY DEF Popping, IInv, CurOK, StrictInv, PoppedIsServed
<1>2. Head(reqs) = reqs[1]
  BY <1>1 DEF IInv, TypeOK
<1>3. QED
  BY <1>1, <1>2 DEF PendingRequests

(* Linking a node submits it.                                              *)
LEMMA LinkSubmits ==
  ASSUME IInv, IInv', StrictInv, StrictInv', NEW t \in Threads, PutLink(t)
  PROVE  Service!Submit
<1>1. /\ nextId \in Nodes /\ nextId' = nextId + 1 /\ nextId \in Nat
      /\ reqs' = Append(reqs, nextId) /\ reqs \in Seq(Nodes)
  BY PutLinkEffect, BoundsAssumption, SMTT(30) DEF IInv, TypeOK, Nodes
<1>2. UNCHANGED <<handled, isIOBlocked, gIOTerminate>>
  BY DEF PutLink, flags, hist
<1>3. Gate \in {"open", "flushing"} /\ Gate' = Gate
  <2>1. pc[t] = "putlink" /\ pc' = [pc EXCEPT ![t] = "putfill"]
    BY DEF PutLink, Goto
  <2>2. pc[Main] # "blockspin" => ~isIOBlocked
    BY <2>1 DEF IInv, Quiet, CurOK, PutLabels, Threads
  <2>3. pc'[Main] = "blockspin" <=> pc[Main] = "blockspin"
    BY <2>1 DEF IInv, TypeOK, Threads, Main, Io
  <2>4. QED
    BY <1>2, <2>2, <2>3 DEF Gate
<1>4. PendingRequests' = Append(PendingRequests, nextId)
  <2>1. Popping <=> Popping'
    BY DEF Popping, PutLink, Goto, IInv, TypeOK, Threads, Main, Io
  <2>2. CASE ~Popping
    <3>1. ListPending /\ ListPending'
      BY <2>1, <2>2, PendingIsList, PTL
    <3>2. QED
      BY <1>1, <3>1 DEF ListPending
  <2>3. CASE Popping
    <3>1. TailPending /\ TailPending'
      BY <2>1, <2>3, PendingIsTail, PTL
    <3>2. QED
      BY <1>1, <3>1, HeadTailAppend DEF TailPending
  <2>4. QED
    BY <2>2, <2>3
<1>5. QED
  BY <1>1, <1>2, <1>3, <1>4 DEF Service!Submit

(* The handler's return serves the oldest request.                         *)
LEMMA HandledServes ==
  ASSUME IInv, IInv', StrictInv, StrictInv', WorkerHandled
  PROVE  Service!Serve
<1>1. ~Popping /\ Popping' /\ pc[Io] = "handle"
  BY DEF WorkerHandled, Goto, Popping, IInv, TypeOK, Threads, Main, Io
<1>2. ListPending /\ TailPending'
  BY <1>1, PendingIsList, PendingIsTail, PTL
<1>3. reqs # << >> /\ cur = Head(reqs)
  BY <1>1 DEF IInv, CurOK, TypeOK
<1>4. UNCHANGED <<reqs, nextId>> /\ handled' = handled \cup {cur}
  BY DEF WorkerHandled, listVars
<1>5. Gate' = Gate
  BY DEF WorkerHandled, Goto, flags, Gate, IInv, TypeOK, Threads, Main, Io
<1>6. QED
  BY <1>2, <1>3, <1>4, <1>5 DEF ListPending, TailPending, Service!Serve

(* Popping a served request is invisible.                                  *)
LEMMA PopIsInvisible ==
  ASSUME IInv, IInv', StrictInv, StrictInv', WorkerPop
  PROVE  UNCHANGED Service!svars
<1>1. Popping /\ ~Popping'
  BY DEF WorkerPop, Goto, Popping, IInv, TypeOK, Threads, Main, Io
<1>2. TailPending /\ ListPending'
  BY <1>1, PendingIsList, PendingIsTail, PTL
<1>3. reqs' = Tail(reqs) /\ UNCHANGED <<nextId, handled>>
  BY WorkerPopEffect DEF WorkerPop, hist
<1>4. Gate' = Gate
  BY DEF WorkerPop, Goto, flags, Gate, IInv, TypeOK, Threads, Main, Io
<1>5. QED
  BY <1>2, <1>3, <1>4 DEF ListPending, TailPending, Service!svars

(* A step of the removal cancels a pending request, or is invisible.       *)
LEMMA WalkCancels ==
  ASSUME IInv, IInv', StrictInv, StrictInv', RemoveWalk
  PROVE  Service!Cancel \/ UNCHANGED Service!svars
<1> DEFINE kept == loc[Main]
<1>1. /\ ~Popping /\ kept \in Nat /\ pc[Main] = "rmwalk"
      /\ pc'[Io] = pc[Io] /\ pc'[Main] \in {"rmwalk", "rmsignal"}
      /\ UNCHANGED <<nextId, isIOBlocked, gIOTerminate, handled>>
  BY RemoveWalkEffect DEF Popping, flags, IInv, TypeOK, Threads, Main, Io
<1>2. ~Popping'
  BY <1>1 DEF Popping
<1>3. ListPending /\ ListPending'
  BY <1>1, <1>2, PendingIsList, PTL
<1>4. Gate' = Gate
  BY <1>1 DEF Gate
<1>5. CASE kept < Len(reqs) /\ reqs' = Without(kept)
  <2>1. Len(reqs) \in Nat
    BY DEF IInv, TypeOK
  <2>2. kept + 1 \in 1 .. Len(reqs) /\ (kept + 1) - 1 = kept /\ (kept + 1) + 1 = kept + 2
    BY <1>1, <1>5, <2>1
  <2>3. reqs' = SubSeq(reqs, 1, (kept + 1) - 1) \o SubSeq(reqs, (kept + 1) + 1, Len(reqs))
    BY <1>5, <2>2, Zenon DEF Without
  <2> HIDE DEF kept
  <2>4. \E k \in 1 .. Len(reqs) :
          reqs' = SubSeq(reqs, 1, k - 1) \o SubSeq(reqs, k + 1, Len(reqs))
    BY <2>2, <2>3, Zenon
  <2>5. QED
    BY <1>1, <1>3, <1>4, <2>4, Zenon DEF ListPending, Service!Cancel
<1>6. CASE UNCHANGED reqs
  BY <1>1, <1>3, <1>4, <1>6 DEF ListPending, Service!svars
<1>7. QED
  BY <1>5, <1>6, RemoveWalkEffect

(* Every step of ioman.c is a step of the service or invisible.            *)
LEMMA ServiceStep ==
  ASSUME IInv, IInv', StrictInv, StrictInv', [Next]_vars
  PROVE  [Service!Next]_Service!svars
<1> USE DEF Service!Next
<1>1. ASSUME NEW t \in Threads, PutLink(t) PROVE Service!Next
  BY <1>1, LinkSubmits
<1>2. CASE WorkerHandled
  BY <1>2, HandledServes
<1>3. CASE WorkerPop
  BY <1>3, PopIsInvisible
<1>4. CASE RemoveWalk
  BY <1>4, WalkCancels
<1>5. CASE WorkerExit
  <2>1. reqs = << >> /\ reqs' = << >>
    BY <1>5 DEF WorkerExit, IInv, Ending, Quiet
  <2>2. UNCHANGED <<nextId, handled, isIOBlocked, gIOTerminate>> /\ pc'[Main] = pc[Main]
    BY <1>5 DEF WorkerExit, Goto, IInv, TypeOK, Threads, Main, Io
  <2>3. QED
    BY <2>1, <2>2 DEF PendingRequests, Gate, Service!svars
<1>6. CASE BlockBegin
  BY <1>6 DEF BlockBegin, Goto, listVars, hist, IInv, TypeOK, Threads, Main, Io,
              PendingRequests, Gate, Service!Flush
<1>7. CASE BlockDone
  BY <1>7 DEF BlockDone, Goto, listVars, flags, hist, IInv, TypeOK, Ending, Threads, Main, Io,
              PendingRequests, Gate, Service!Close
<1>8. CASE Unblock
  BY <1>8 DEF Unblock, listVars, hist, IInv, Ending, PendingRequests, Gate, Service!Open
<1>9. CASE End
  BY <1>9 DEF End, Goto, listVars, hist, IInv, TypeOK, Ending, Threads, Main, Io,
              PendingRequests, Gate, Service!Finish
<1>10. CASE /\ UNCHANGED <<reqs, nextId, handled, isIOBlocked, gIOTerminate>>
            /\ pc[Main] = "blockspin" <=> pc'[Main] = "blockspin"
  BY <1>10 DEF PendingRequests, Gate, Service!svars
<1>11. ASSUME NEW t \in Threads, NEW type \in Types,
              PutBegin(t, type) \/ PutWait(t) \/ PutTail(t) \/ PutFill(t) \/ PutWake(t)
                \/ RemoveBegin(type)
       PROVE  [Service!Next]_Service!svars
  BY <1>10, <1>11 DEF PutBegin, PutWait, PutTail, PutFill, PutWake, RemoveBegin, Goto,
     Caller, listVars, flags, hist, IInv, TypeOK, Threads, Main, Io
<1>12. CASE WorkerCheck \/ WorkerSleep \/ WorkerLock \/ WorkerLoop \/ WorkerPopWait
            \/ WorkerPopEnd \/ WorkerUnlock
  BY <1>10, <1>12 DEF WorkerCheck, WorkerSleep, WorkerLock, WorkerLoop, WorkerPopWait,
     WorkerPopEnd, WorkerUnlock, Goto, listVars, flags, hist, IInv, TypeOK, Threads, Main, Io
<1>13. CASE RegisterWait \/ Register \/ InitDone \/ RemoveLockProc \/ RemoveLockEnd
            \/ RemoveSignal \/ CountBegin \/ CountLock \/ CountDone
  BY <1>10, <1>13 DEF RegisterWait, Register, InitDone, RemoveLockProc, RemoveLockEnd,
     RemoveSignal, CountBegin, CountLock, CountDone, Goto, listVars, flags, hist, IInv, TypeOK,
     Threads, Main, Io
<1>14. CASE UNCHANGED vars
  BY <1>10, <1>14 DEF vars, listVars, flags, hist
<1> HIDE DEF Service!Next
<1>15. QED
  BY <1>1, <1>2, <1>3, <1>4, <1>5, <1>6, <1>7, <1>8, <1>9, <1>11, <1>12, <1>13, <1>14,
     TypesAssumption
  DEF Next, IoNext, WorkerStep, PutStep, MainBusy, MainNew, MainStep, MainCall, Stopped,
      Threads

(* ioman.c, with the thread priorities OPL gives it, implements the        *)
(* service its header describes.                                           *)
THEOREM Refinement == ASSUME StrictPriority PROVE Spec => ImplementsService
<1>1. Init => Service!Init
  BY DEF Init, Service!Init, PendingRequests, Gate
<1>2. IInv /\ IInv' /\ StrictInv /\ StrictInv' /\ [Next]_vars
        => [Service!Next]_Service!svars
  BY ServiceStep
<1>3. QED
  BY Invariance, StrictInvariance, <1>1, <1>2, PTL
  DEF Spec, ImplementsService, Service!Spec
=============================================================================
