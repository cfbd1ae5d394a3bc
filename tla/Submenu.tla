------------------------------ MODULE Submenu ------------------------------
(***************************************************************************)
(* The game list of one device's menu (menu_item_t and submenu_list_t,     *)
(* src/include/menusys.h): the doubly linked list behind subMenu and the   *)
(* pointers submenu, current and pagestart into it.  A menu is a record;   *)
(* its list is the sequence of nodes reachable from subMenu; a node is a   *)
(* positive number and 0 stands for NULL.                                  *)
(*                                                                         *)
(* The operators are what gui.c does with the list (append, sort, clear)   *)
(* and how menusys.c moves in it.  D is the number of items that the       *)
(* theme's list element displays (displayedItems).  An operator ending in  *)
(* _Bug is a wrong version of the definition below it.                     *)
(***************************************************************************)
EXTENDS Naturals, Sequences, FiniteSets

NULL == 0

Members(l) == {l[i] : i \in 1 .. Len(l)}

(* The place of a node in the list.                                        *)
At(l, n) == CHOOSE i \in 1 .. Len(l) : l[i] = n

HasNext(l, n) == At(l, n) < Len(l)
HasPrev(l, n) == At(l, n) > 1

(* k times n = n->next, or n = n->prev, while there is one.                *)
Forward(l, n, k)  == l[IF At(l, n) + k > Len(l) THEN Len(l) ELSE At(l, n) + k]
Backward(l, n, k) == l[IF At(l, n) > k THEN At(l, n) - k ELSE 1]

EmptyMenu == [list |-> << >>, submenu |-> NULL, current |-> NULL,
              pagestart |-> NULL, remindLast |-> FALSE]

-----------------------------------------------------------------------------
(* What the deferred operations do to a menu.                              *)

(* The selected item does not move the page.                               *)
Appended_Bug(m, n, selected) ==
  LET first == m.submenu = NULL
  IN  [m EXCEPT !.list       = Append(@, n),
                !.submenu    = IF first THEN n ELSE @,
                !.current    = IF first \/ selected THEN n ELSE @,
                !.pagestart  = IF first THEN n ELSE @,
                !.remindLast = @ \/ selected]

(* GUI_OP_APPEND_MENU: the first item, and the last played game, become    *)
(* current.                                                                *)
Appended(m, n, selected) ==
  LET first == m.submenu = NULL
  IN  [m EXCEPT !.list       = Append(@, n),
                !.submenu    = IF first THEN n ELSE @,
                !.current    = IF first \/ selected THEN n ELSE @,
                !.pagestart  = IF first \/ selected THEN n ELSE @,
                !.remindLast = @ \/ selected]

(* The nodes of l in the order of their titles, equal titles in the order  *)
(* of the list.  SubmenuSort.tla shows that submenuSort computes this.     *)
InOrder(l, title) ==
  LET Before(i, j) == \/ title[l[i]] < title[l[j]]
                      \/ title[l[i]] = title[l[j]] /\ i < j
      Rank(j) == Cardinality({i \in 1 .. Len(l) : Before(i, j)})
  IN  [r \in 1 .. Len(l) |-> l[CHOOSE j \in 1 .. Len(l) : Rank(j) = r - 1]]

(* GUI_OP_SORT.                                                            *)
Sorted(m, title) ==
  LET l       == InOrder(m.list, title)
      head    == IF l = << >> THEN NULL ELSE l[1]
      current == IF m.remindLast THEN m.current ELSE head
  IN  [m EXCEPT !.list = l, !.submenu = head, !.current = current,
                !.pagestart = current]

-----------------------------------------------------------------------------
(* Moving in the list (menusys.c).                                         *)

FirstPage(m) ==
  IF m.current = NULL THEN m
  ELSE [m EXCEPT !.current = m.submenu, !.pagestart = m.submenu]

LastPage(m, D) ==
  IF m.current = NULL THEN m
  ELSE LET last == m.list[Len(m.list)]
       IN  [m EXCEPT !.current = last, !.pagestart = Backward(m.list, last, D - 1)]

(* Whether n is among the D items displayed from pagestart on.             *)
OnPage(m, n, D) ==
  /\ At(m.list, n) >= At(m.list, m.pagestart)
  /\ At(m.list, n) < At(m.list, m.pagestart) + D

NextV(m, D) ==
  IF m.current # NULL /\ HasNext(m.list, m.current)
  THEN LET n == Forward(m.list, m.current, 1)
       IN  [m EXCEPT !.current = n,
                     !.pagestart = IF OnPage(m, n, D) THEN @ ELSE n]
  ELSE FirstPage(m)

PrevV(m, D) ==
  IF m.current # NULL /\ HasPrev(m.list, m.current)
  THEN [m EXCEPT !.current = Backward(m.list, m.current, 1),
                 !.pagestart = IF @ = m.current THEN Backward(m.list, @, D) ELSE @]
  ELSE LastPage(m, D)

NextPage(m, D) ==
  IF m.pagestart # NULL /\ HasNext(m.list, m.pagestart)
  THEN LET n == Forward(m.list, m.pagestart, D)
       IN  [m EXCEPT !.current = n, !.pagestart = n]
  ELSE FirstPage(m)

PrevPage(m, D) ==
  IF m.pagestart # NULL /\ HasPrev(m.list, m.pagestart)
  THEN LET n == Backward(m.list, m.pagestart, D)
       IN  [m EXCEPT !.current = n, !.pagestart = n]
  ELSE LastPage(m, D)
=============================================================================
