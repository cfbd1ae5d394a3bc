---------------------------- MODULE SubmenuSort ----------------------------
(***************************************************************************)
(* submenuSort (src/src/menusys.c): the bubble sort of a submenu, node by  *)
(* node on its next and prev pointers.  A step is one comparison with the  *)
(* swap that may follow, or the end of a pass.  Node k is the k-th node of *)
(* the unsorted list; 0 stands for NULL.                                   *)
(***************************************************************************)
EXTENDS Submenu

CONSTANTS
  Texts,      \* titles, numbers in the order of strcasecmp
  MaxLength   \* bound: length of the list to sort

ASSUME SortAssumption == Texts \subseteq Nat /\ MaxLength \in Nat

VARIABLES
  text,     \* submenuItemGetText of each node
  next,     \* the next pointers
  prev,     \* the prev pointers
  head,     \* the local variable head, finally *submenu
  tip,      \* the local variable tip, NULL between two passes
  sorted,   \* the local variable sorted
  done      \* submenuSort has returned

sortVars == <<text, next, prev, head, tip, sorted, done>>

ListNodes == DOMAIN text

(* The list as submenuAppendItem built it.  A list of fewer than two nodes *)
(* is returned as it is.                                                   *)
SortInit ==
  /\ text \in UNION {[1 .. n -> Texts] : n \in 1 .. MaxLength}
  /\ next = [k \in ListNodes |-> IF k = Len(text) THEN NULL ELSE k + 1]
  /\ prev = [k \in ListNodes |-> k - 1]
  /\ head = 1 /\ tip = NULL /\ sorted = FALSE
  /\ done = (Len(text) = 1)

(* The outer loop: another pass, or the end.                               *)
Pass ==
  /\ ~done /\ tip = NULL
  /\ IF sorted THEN done' = TRUE /\ UNCHANGED <<tip, sorted>>
               ELSE tip' = head /\ sorted' = TRUE /\ UNCHANGED done
  /\ UNCHANGED <<text, next, prev, head>>

(* The links of a and b = a->next around their neighbours, without the     *)
(* neighbour before them.                                                  *)
SwapNext_Bug(a, b) == [next EXCEPT ![a] = next[b], ![b] = a]

(* swap(a, b): the next pointers afterwards.                               *)
SwapNext(a, b) ==
  [k \in ListNodes |-> CASE k = a -> next[b]
                         [] k = b -> a
                         [] k = prev[a] -> b
                         [] OTHER -> next[k]]

(* swap(a, b): the prev pointers afterwards.                               *)
SwapPrev(a, b) ==
  [k \in ListNodes |-> CASE k = b -> prev[a]
                         [] k = a -> b
                         [] k = next[b] -> a
                         [] OTHER -> prev[k]]

(* Equal titles are swapped too.                                           *)
OutOfOrder_Bug(a, b) == text[a] >= text[b]

OutOfOrder(a, b) == text[a] > text[b]

(* A swap does not ask for another pass.                                   *)
Compare_Bug ==
  /\ tip # NULL /\ next[tip] # NULL
  /\ LET nxt == next[tip] IN
     IF OutOfOrder(tip, nxt)
     THEN /\ next' = SwapNext(tip, nxt) /\ prev' = SwapPrev(tip, nxt)
          /\ head' = IF tip = head THEN nxt ELSE head
          /\ UNCHANGED <<tip, sorted>>
     ELSE /\ tip' = nxt
          /\ UNCHANGED <<next, prev, head, sorted>>
  /\ UNCHANGED <<text, done>>

(* The inner loop: tip and its successor are swapped, or tip moves on.     *)
Compare ==
  /\ tip # NULL /\ next[tip] # NULL
  /\ LET nxt == next[tip] IN
     IF OutOfOrder(tip, nxt)
     THEN /\ next' = SwapNext(tip, nxt) /\ prev' = SwapPrev(tip, nxt)
          /\ head' = IF tip = head THEN nxt ELSE head
          /\ sorted' = FALSE
          /\ UNCHANGED tip
     ELSE /\ tip' = nxt
          /\ UNCHANGED <<next, prev, head, sorted>>
  /\ UNCHANGED <<text, done>>

PassEnd ==
  /\ tip # NULL /\ next[tip] = NULL
  /\ tip' = NULL
  /\ UNCHANGED <<text, next, prev, head, sorted, done>>

Returned == done /\ UNCHANGED sortVars

SortNext == Pass \/ Compare \/ PassEnd \/ Returned

(* The loop runs on the GUI thread (or the worker) until it ends.          *)
SortSpec == SortInit /\ [][SortNext]_sortVars /\ WF_sortVars(Pass \/ Compare \/ PassEnd)

-----------------------------------------------------------------------------
(* The node reached from head in i - 1 steps.                              *)
Walk == LET w[i \in ListNodes] == IF i = 1 THEN head
                              ELSE IF w[i - 1] = NULL THEN NULL ELSE next[w[i - 1]]
        IN  [i \in ListNodes |-> w[i]]

(* At every step the pointers form one doubly linked list of all nodes:    *)
(* swap() loses no node and closes no circle, and prev is the way back.    *)
Linked ==
  /\ Members(Walk) = ListNodes
  /\ next[Walk[Len(text)]] = NULL
  /\ prev[head] = NULL
  /\ \A k \in ListNodes : next[k] # NULL => prev[next[k]] = k
  /\ tip \in {NULL} \cup ListNodes /\ sorted \in BOOLEAN /\ done \in BOOLEAN

(* When submenuSort has returned, the list is in the order of the titles,  *)
(* and equal titles are in the order in which they were appended.          *)
SortsStably == done => Walk = InOrder([k \in ListNodes |-> k], text)

(* submenuSort returns: a pass without a swap comes.                       *)
SortEnds == <>done
=============================================================================
