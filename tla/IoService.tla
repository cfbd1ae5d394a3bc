----------------------------- MODULE IoService -----------------------------
(***************************************************************************)
(* What ioman.h promises its callers, without threads, semaphores or       *)
(* nodes: a queue of requests served one at a time in the order of         *)
(* submission, from which pending requests can be cancelled, behind a gate *)
(* that ioBlockOps(1) closes only once nothing is pending and ioBlockOps(0)*)
(* opens again.  IoMan implements this specification.                      *)
(***************************************************************************)
EXTENDS Naturals, Sequences

VARIABLES
  accepted,   \* how many requests have been accepted; they are numbered from 1
  pending,    \* accepted and not served yet, in order
  served,     \* requests whose handler has returned
  gate        \* "open", "flushing", "closed" or "ended"

svars == <<accepted, pending, served, gate>>

Init ==
  /\ accepted = 0
  /\ pending = << >>
  /\ served = {}
  /\ gate = "open"

(* A request is accepted, at the end of the queue.  A handler that is      *)
(* running when the gate starts to close may still get one in.             *)
Submit ==
  /\ gate \in {"open", "flushing"}
  /\ accepted' = accepted + 1
  /\ pending' = Append(pending, accepted + 1)
  /\ UNCHANGED <<served, gate>>

(* The handler of the oldest request returns.                              *)
Serve ==
  /\ pending # << >>
  /\ served' = served \cup {Head(pending)}
  /\ pending' = Tail(pending)
  /\ UNCHANGED <<accepted, gate>>

Cancel ==
  /\ \E k \in 1 .. Len(pending) :
       pending' = SubSeq(pending, 1, k - 1) \o SubSeq(pending, k + 1, Len(pending))
  /\ UNCHANGED <<accepted, served, gate>>

Flush == gate = "open" /\ gate' = "flushing" /\ UNCHANGED <<accepted, pending, served>>

Close ==
  /\ gate = "flushing" /\ pending = << >>
  /\ gate' = "closed"
  /\ UNCHANGED <<accepted, pending, served>>

Open   == gate = "closed" /\ gate' = "open" /\ UNCHANGED <<accepted, pending, served>>
Finish == gate = "closed" /\ gate' = "ended" /\ UNCHANGED <<accepted, pending, served>>

Next == Submit \/ Serve \/ Cancel \/ Flush \/ Close \/ Open \/ Finish

Spec == Init /\ [][Next]_svars
=============================================================================
