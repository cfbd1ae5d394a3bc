---------------------------- MODULE GuiOpsProofs ----------------------------
(***************************************************************************)
(* Machine-checked proofs about GuiOps, for any devices, any lists of      *)
(* games that may be found on them and any number of updates.  None uses   *)
(* the priorities of the two threads.                                      *)
(***************************************************************************)
EXTENDS GuiOps, FiniteSetTheorems, TLAPS

-----------------------------------------------------------------------------
(* Lists                                                                   *)

NoRepeat(l) == \A i, j \in 1 .. Len(l) : l[i] = l[j] => i = j

\* A node linked at the end of a list.
LEMMA AppendIs ==
  ASSUME NEW S, NEW l \in Seq(S), NEW n \in S
  PROVE  /\ Append(l, n) \in Seq(S) /\ Append(l, n) # << >>
         /\ Len(Append(l, n)) = Len(l) + 1
         /\ \A i \in 1 .. Len(l) : Append(l, n)[i] = l[i]
         /\ Append(l, n)[Len(l) + 1] = n
         /\ Members(Append(l, n)) = Members(l) \cup {n}
<1>1. /\ Append(l, n) \in Seq(S) /\ Append(l, n) # << >>
      /\ Len(Append(l, n)) = Len(l) + 1
      /\ \A i \in 1 .. Len(l) : Append(l, n)[i] = l[i]
      /\ Append(l, n)[Len(l) + 1] = n
  OBVIOUS
<1>. DEFINE k == Len(l)
<1>2. k \in Nat /\ 1 .. k + 1 = 1 .. k \cup {k + 1}
  OBVIOUS
<1>. QED BY <1>1, <1>2 DEF Members

\* The head of a list and the rest of it.
LEMMA TailIs ==
  ASSUME NEW S, NEW l \in Seq(S), l # << >>
  PROVE  /\ Tail(l) \in Seq(S) /\ Len(l) \in Nat \ {0} /\ Len(Tail(l)) = Len(l) - 1
         /\ Head(l) = l[1] /\ Head(l) \in S
         /\ \A i \in 1 .. Len(l) - 1 : Tail(l)[i] = l[i + 1]
         /\ Members(l) = {Head(l)} \cup Members(Tail(l))
<1>1. /\ Tail(l) \in Seq(S) /\ Len(l) \in Nat \ {0} /\ Len(Tail(l)) = Len(l) - 1
      /\ Head(l) = l[1] /\ Head(l) \in S
      /\ \A i \in 1 .. Len(l) - 1 : Tail(l)[i] = l[i + 1]
  OBVIOUS
<1>. DEFINE k == Len(l)
<1>2. \A i \in 1 .. k : i = 1 \/ (i - 1 \in 1 .. k - 1 /\ (i - 1) + 1 = i)
  BY <1>1
<1>3. Members(l) \subseteq {Head(l)} \cup Members(Tail(l))
  BY <1>1, <1>2 DEF Members
<1>4. {Head(l)} \cup Members(Tail(l)) \subseteq Members(l)
  BY <1>1 DEF Members
<1>. QED BY <1>1, <1>3, <1>4

\* A list with nodes has members, and they are of its type.
LEMMA MembersIs ==
  ASSUME NEW S, NEW l \in Seq(S)
  PROVE  /\ Members(l) \subseteq S /\ Len(l) \in Nat
         /\ l = << >> <=> Members(l) = {}
         /\ l # << >> => l[1] \in Members(l)
         /\ \A i \in 1 .. Len(l) : l[i] \in Members(l)
<1>1. /\ Members(l) \subseteq S /\ Len(l) \in Nat
      /\ \A i \in 1 .. Len(l) : l[i] \in Members(l)
  BY DEF Members
<1>2. l # << >> => 1 \in 1 .. Len(l)
  OBVIOUS
<1>3. l = << >> => Members(l) = {}
  BY DEF Members
<1>. QED BY <1>1, <1>2, <1>3

\* A list without repetition has as many members as nodes.
LEMMA Counted ==
  ASSUME NEW S, NEW l \in Seq(S), NoRepeat(l)
  PROVE  Len(l) = Cardinality(Members(l))
<1>. DEFINE f == [i \in 1 .. Len(l) |-> l[i]]
<1>1. f \in Bijection(1 .. Len(l), Members(l))
  BY DEF NoRepeat, Members, Bijection, Injection, Surjection, IsInjective
<1>2. IsFiniteSet(1 .. Len(l)) /\ Cardinality(1 .. Len(l)) = Len(l)
  <2>1. Len(l) \in Nat /\ Len(l) \in Int /\ 1 \in Int
    OBVIOUS
  <2>. QED BY <2>1, FS_Interval
<1>. QED BY <1>1, <1>2, FS_Bijection DEF ExistsBijection

-----------------------------------------------------------------------------
(* Sorting                                                                 *)

\* InOrder is a permutation of the list in the order of the titles.
LEMMA InOrderSorts ==
  ASSUME NEW S, NEW l \in Seq(S), NEW title, \A i \in 1 .. Len(l) : title[l[i]] \in Nat
  PROVE  /\ InOrder(l, title) \in Seq(S)
         /\ Len(InOrder(l, title)) = Len(l)
         /\ Members(InOrder(l, title)) = Members(l)
         /\ NoRepeat(l) => NoRepeat(InOrder(l, title))
         /\ \A i, j \in 1 .. Len(l) :
              i < j => title[InOrder(l, title)[i]] <= title[InOrder(l, title)[j]]
<1>. DEFINE N == Len(l)
            Before(i, j) == \/ title[l[i]] < title[l[j]]
                            \/ title[l[i]] = title[l[j]] /\ i < j
            Below(j) == {i \in 1 .. N : Before(i, j)}
            Rank(j) == Cardinality(Below(j))
            Pos(r) == CHOOSE j \in 1 .. N : Rank(j) = r - 1
            s == [r \in 1 .. N |-> l[Pos(r)]]
<1>0. N \in Nat /\ InOrder(l, title) = s
  BY DEF InOrder
<1>1. /\ \A i \in 1 .. N : ~Before(i, i)
      /\ \A i, j \in 1 .. N : i # j => Before(i, j) \/ Before(j, i)
      /\ \A i, j, k \in 1 .. N : Before(i, j) /\ Before(j, k) => Before(i, k)
  OBVIOUS
<1>2. \A i, j \in 1 .. N : Before(i, j) => title[l[i]] <= title[l[j]]
  OBVIOUS
<1>. HIDE DEF Before
<1>3. \A j \in 1 .. N : IsFiniteSet(Below(j)) /\ Rank(j) \in 0 .. N - 1
  <2>. SUFFICES ASSUME NEW j \in 1 .. N PROVE IsFiniteSet(Below(j)) /\ Rank(j) \in 0 .. N - 1
    OBVIOUS
  <2>1. IsFiniteSet(1 .. N) /\ Cardinality(1 .. N) = N
    BY <1>0, FS_Interval
  <2>2. IsFiniteSet((1 .. N) \ {j}) /\ Cardinality((1 .. N) \ {j}) = N - 1
    BY <2>1, FS_RemoveElement
  <2>3. Below(j) \in SUBSET ((1 .. N) \ {j})
    BY <1>1
  <2>4. IsFiniteSet(Below(j)) /\ Rank(j) <= N - 1
    BY <2>2, <2>3, FS_Subset
  <2>5. Rank(j) \in Nat
    BY <2>4, FS_CardinalityType
  <2>. QED BY <2>4, <2>5, <1>0
<1>4. ASSUME NEW i \in 1 .. N, NEW j \in 1 .. N, Before(i, j) PROVE Rank(i) < Rank(j)
  <2>1. Below(i) \in SUBSET Below(j) /\ i \in Below(j) /\ i \notin Below(i)
    BY <1>1, <1>4
  <2>2. Rank(i) <= Rank(j) /\ Rank(i) # Rank(j)
    BY <1>3, <2>1, FS_Subset
  <2>3. Rank(i) \in Int /\ Rank(j) \in Int
    <3>. HIDE DEF Rank, N
    <3>1. Rank(i) \in 0 .. N - 1 /\ Rank(j) \in 0 .. N - 1
      BY <1>3
    <3>. QED BY <1>0, <3>1
  <2>. QED BY <2>2, <2>3
<1>. HIDE DEF Below
<1>5. \A i, j \in 1 .. N : Rank(i) = Rank(j) => i = j
  BY <1>1, <1>3, <1>4
<1>6. \A i, j \in 1 .. N : Rank(i) < Rank(j) => Before(i, j)
  BY <1>1, <1>3, <1>4
<1>. HIDE DEF Rank
<1>7. \A r \in 1 .. N : \E j \in 1 .. N : Rank(j) = r - 1
  <2>. DEFINE f == [j \in 1 .. N |-> Rank(j)]
  <2>1. f \in Injection(1 .. N, 0 .. N - 1)
    BY <1>3, <1>5 DEF Injection, IsInjective
  <2>2. /\ IsFiniteSet(0 .. N - 1)
        /\ Cardinality(1 .. N) = N /\ Cardinality(0 .. N - 1) = N
    <3>. HIDE DEF N
    <3>1. N \in Int /\ N - 1 \in Int /\ 0 \in Int /\ 1 \in Int
      BY <1>0
    <3>2. /\ IsFiniteSet(0 .. N - 1)
          /\ Cardinality(0 .. N - 1) = IF 0 > N - 1 THEN 0 ELSE N - 1 - 0 + 1
      BY <3>1, FS_Interval
    <3>3. Cardinality(1 .. N) = IF 1 > N THEN 0 ELSE N - 1 + 1
      BY <3>1, FS_Interval
    <3>. QED BY <1>0, <3>2, <3>3
  <2>3. f \in Surjection(1 .. N, 0 .. N - 1)
    BY <2>1, <2>2, FS_Injection
  <2>4. \A r \in 1 .. N : r - 1 \in 0 .. N - 1
    BY <1>0
  <2>. QED BY <2>3, <2>4 DEF Surjection
<1>8. \A r \in 1 .. N : Pos(r) \in 1 .. N /\ Rank(Pos(r)) = r - 1
  BY <1>7
<1>9. \A i \in 1 .. N : Rank(i) + 1 \in 1 .. N /\ Pos(Rank(i) + 1) = i
  <2>. HIDE DEF Pos, N
  <2>. SUFFICES ASSUME NEW i \in 1 .. N PROVE Rank(i) + 1 \in 1 .. N /\ Pos(Rank(i) + 1) = i
    OBVIOUS
  <2>1. Rank(i) \in 0 .. N - 1
    BY <1>3
  <2>2. Rank(i) + 1 \in 1 .. N /\ (Rank(i) + 1) - 1 = Rank(i)
    BY <2>1, <1>0
  <2>3. Pos(Rank(i) + 1) \in 1 .. N /\ Rank(Pos(Rank(i) + 1)) = Rank(i)
    BY <1>8, <2>2
  <2>. QED BY <1>5, <2>2, <2>3
<1>. HIDE DEF Pos, N
<1>10. s \in Seq(S) /\ Len(s) = N /\ \A r \in 1 .. N : s[r] = l[Pos(r)]
  <2>1. \A r \in 1 .. N : l[Pos(r)] \in S
    BY <1>8 DEF N
  <2>2. s \in [1 .. N -> S]
    BY <2>1
  <2>. QED BY <2>2, <1>0
<1>. HIDE DEF s
<1>11. Members(s) = Members(l)
  <2>1. Members(s) \subseteq Members(l)
    BY <1>8, <1>10 DEF Members, N
  <2>2. ASSUME NEW i \in 1 .. N PROVE l[i] \in Members(s)
    <3>1. l[i] = s[Rank(i) + 1]
      BY <1>9, <1>10
    <3>. QED BY <3>1, <1>9, <1>10 DEF Members
  <2>3. Members(l) \subseteq Members(s)
    BY <2>2 DEF Members, N
  <2>. QED BY <2>1, <2>3
<1>12. NoRepeat(l) => NoRepeat(s)
  <2>. SUFFICES ASSUME NoRepeat(l), NEW i \in 1 .. N, NEW j \in 1 .. N, s[i] = s[j]
                PROVE  i = j
    BY <1>10 DEF NoRepeat
  <2>1. Pos(i) = Pos(j)
    BY <1>8, <1>10 DEF NoRepeat, N
  <2>2. i - 1 = j - 1
    BY <1>8, <2>1
  <2>. QED BY <2>2, <1>0
<1>13. ASSUME NEW i \in 1 .. N, NEW j \in 1 .. N, i < j PROVE title[s[i]] <= title[s[j]]
  <2>1. Rank(Pos(i)) < Rank(Pos(j))
    BY <1>8, <1>13, <1>0
  <2>2. Before(Pos(i), Pos(j))
    BY <1>6, <1>8, <2>1
  <2>. QED BY <1>2, <1>8, <1>10, <2>2
<1>. QED BY <1>0, <1>10, <1>11, <1>12, <1>13 DEF N

-----------------------------------------------------------------------------
(* Menus                                                                   *)

MenuRecs == [list : Seq(Nat \ {0}), submenu : Nat, current : Nat, pagestart : Nat,
             remindLast : BOOLEAN]

\* A menu with a list without repetition, and submenu at its head.
Whole(m) ==
  /\ m \in MenuRecs /\ NoRepeat(m.list)
  /\ m.submenu = IF m.list = << >> THEN NULL ELSE m.list[1]

\* The cursor of a list with games is on a game of it.
OnList(m) == m.list # << >> => m.current \in Members(m.list) /\ m.pagestart \in Members(m.list)

\* A cleared menu is whole.
LEMMA EmptyIs == Whole(EmptyMenu) /\ EmptyMenu.list = << >> /\ OnList(EmptyMenu)
BY DEF Whole, OnList, EmptyMenu, MenuRecs, NoRepeat, NULL

\* What is known of the fields of a menu.
LEMMA Fields ==
  ASSUME NEW m, Whole(m)
  PROVE  /\ m.list \in Seq(Nat \ {0}) /\ m.submenu \in Nat /\ m.current \in Nat
         /\ m.pagestart \in Nat /\ m.remindLast \in BOOLEAN /\ NoRepeat(m.list)
         /\ m.submenu = NULL <=> m.list = << >>
         /\ m.list # << >> => m.submenu \in Members(m.list)
<1>1. /\ m.list \in Seq(Nat \ {0}) /\ m.submenu \in Nat /\ m.current \in Nat
      /\ m.pagestart \in Nat /\ m.remindLast \in BOOLEAN
  BY DEF Whole, MenuRecs
<1>. QED BY <1>1, MembersIs DEF Whole, NULL

\* GUI_OP_APPEND_MENU with a node that is not in the list.
LEMMA AppendedIs ==
  ASSUME NEW m, Whole(m), NEW n \in Nat \ {0}, n \notin Members(m.list), NEW sel \in BOOLEAN
  PROVE  /\ Whole(Appended(m, n, sel))
         /\ Members(Appended(m, n, sel).list) = Members(m.list) \cup {n}
         /\ OnList(m) => OnList(Appended(m, n, sel))
<1>. DEFINE l == Append(m.list, n)
            first == m.submenu = NULL
            s == IF first THEN n ELSE m.submenu
            c == IF first \/ sel THEN n ELSE m.current
            p == IF first \/ sel THEN n ELSE m.pagestart
            b == m.remindLast \/ sel
            a == Appended(m, n, sel)
<1>1. m \in MenuRecs
  BY DEF Whole
<1>2. l \in Seq(Nat \ {0}) /\ s \in Nat /\ c \in Nat /\ p \in Nat /\ b \in BOOLEAN
  BY Fields, AppendIs
<1>3. a \in MenuRecs /\ a.list = l /\ a.submenu = s /\ a.current = c /\ a.pagestart = p
  <2>1. a = [m EXCEPT !.list = l, !.submenu = s, !.current = c, !.pagestart = p,
                      !.remindLast = b]
    BY DEF Appended
  <2>. HIDE DEF a, l, s, c, p, b
  <2>. QED BY <1>1, <1>2, <2>1 DEF MenuRecs
<1>. HIDE DEF a
<1>4. NoRepeat(l)
  <2>1. m.list \in Seq(Nat \ {0}) /\ NoRepeat(m.list)
    BY Fields
  <2>2. \A i \in 1 .. Len(m.list) : m.list[i] # n
    BY DEF Members
  <2>3. Len(m.list) \in Nat
    BY <2>1
  <2>. QED BY <2>1, <2>2, <2>3, AppendIs DEF NoRepeat
<1>5. s = l[1] /\ l # << >>
  <2>1. CASE m.list = << >>
    BY <2>1, Fields
  <2>2. CASE m.list # << >>
    <3>1. m.list \in Seq(Nat \ {0}) /\ 1 \in 1 .. Len(m.list) /\ m.submenu = m.list[1]
      BY <2>2, Fields DEF Whole
    <3>. QED BY <2>2, <3>1, Fields, AppendIs
  <2>. QED BY <2>1, <2>2
<1>6. Members(l) = Members(m.list) \cup {n}
  BY Fields, AppendIs
<1>7. Whole(a)
  BY <1>3, <1>4, <1>5 DEF Whole
<1>8. OnList(m) => OnList(a)
  BY <1>3, <1>6, Fields DEF OnList
<1>. QED BY <1>3, <1>6, <1>7, <1>8 DEF a

\* GUI_OP_SORT.
LEMMA SortedIs ==
  ASSUME NEW m, Whole(m), NEW title, \A n \in Members(m.list) : title[n] \in Nat
  PROVE  /\ Whole(Sorted(m, title))
         /\ Members(Sorted(m, title).list) = Members(m.list)
         /\ \A i, j \in 1 .. Len(Sorted(m, title).list) :
              i < j => title[Sorted(m, title).list[i]] <= title[Sorted(m, title).list[j]]
         /\ OnList(m) => OnList(Sorted(m, title))
<1>. DEFINE l == InOrder(m.list, title)
            h == IF l = << >> THEN NULL ELSE l[1]
            c == IF m.remindLast THEN m.current ELSE h
            a == Sorted(m, title)
<1>0. m \in MenuRecs
  BY DEF Whole
<1>1. /\ l \in Seq(Nat \ {0}) /\ NoRepeat(l) /\ Members(l) = Members(m.list)
      /\ \A i, j \in 1 .. Len(l) : i < j => title[l[i]] <= title[l[j]]
  BY Fields, MembersIs, InOrderSorts
<1>. HIDE DEF l
<1>2. h \in Nat /\ (l # << >> => h \in Members(l))
  BY <1>1, MembersIs DEF NULL
<1>3. c \in Nat /\ m.remindLast \in BOOLEAN
  BY <1>2, Fields
<1>4. a = [m EXCEPT !.list = l, !.submenu = h, !.current = c, !.pagestart = c]
  BY DEF Sorted, l
<1>5. a \in MenuRecs /\ a.list = l /\ a.submenu = h /\ a.current = c /\ a.pagestart = c
  <2>. HIDE DEF a, h, c
  <2>. QED BY <1>0, <1>1, <1>2, <1>3, <1>4 DEF MenuRecs
<1>. HIDE DEF a
<1>6. Whole(a)
  BY <1>1, <1>5 DEF Whole
<1>7. l # << >> => m.list # << >>
  BY <1>1, MembersIs, Fields
<1>8. OnList(m) => OnList(a)
  BY <1>1, <1>2, <1>5, <1>7 DEF OnList
<1>. QED BY <1>1, <1>5, <1>6, <1>8 DEF a

\* A key press moves from a game to a game.
LEMMA MovedIs ==
  ASSUME NEW m, Whole(m), m.current \in Members(m.list), m.pagestart \in Members(m.list),
         NEW to \in {NextV(m, 1), PrevV(m, 1)}
  PROVE  Whole(to) /\ to.list = m.list /\ OnList(to)
<1>1. m.list # << >> /\ m \in MenuRecs /\ m.list \in Seq(Nat \ {0})
  BY Fields, MembersIs DEF Whole
<1>2. ASSUME NEW x \in Members(m.list), NEW y \in Members(m.list),
             to = [m EXCEPT !.current = x, !.pagestart = y]
      PROVE  Whole(to) /\ to.list = m.list /\ OnList(to)
  <2>1. x \in Nat /\ y \in Nat
    BY <1>1, MembersIs
  <2>2. /\ to \in MenuRecs /\ to.list = m.list /\ to.submenu = m.submenu
        /\ to.current = x /\ to.pagestart = y
    BY <1>1, <1>2, <2>1 DEF MenuRecs
  <2>. QED BY <2>2 DEF Whole, OnList
<1>3. \A n \in Members(m.list) : At(m.list, n) \in 1 .. Len(m.list) /\ m.list[At(m.list, n)] = n
  BY DEF Members, At
<1>4. Len(m.list) \in Nat \ {0} /\ \A i \in 1 .. Len(m.list) : m.list[i] \in Members(m.list)
  BY <1>1, MembersIs
<1>5. \A n \in Members(m.list) :
        /\ Forward(m.list, n, 1) \in Members(m.list)
        /\ Backward(m.list, n, 1) \in Members(m.list)
  <2>. SUFFICES ASSUME NEW n \in Members(m.list)
                PROVE  /\ Forward(m.list, n, 1) \in Members(m.list)
                       /\ Backward(m.list, n, 1) \in Members(m.list)
    OBVIOUS
  <2>. DEFINE k == At(m.list, n)
              e == Len(m.list)
  <2>1. k \in 1 .. e /\ e \in Nat \ {0}
    BY <1>3, <1>4
  <2>2. /\ Forward(m.list, n, 1) = m.list[IF k + 1 > e THEN e ELSE k + 1]
        /\ Backward(m.list, n, 1) = m.list[IF k > 1 THEN k - 1 ELSE 1]
    BY DEF Forward, Backward
  <2>. HIDE DEF k
  <2>3. /\ (IF k + 1 > e THEN e ELSE k + 1) \in 1 .. e
        /\ (IF k > 1 THEN k - 1 ELSE 1) \in 1 .. e
    <3>. HIDE DEF e
    <3>. QED BY <2>1
  <2>. QED BY <1>4, <2>2, <2>3
<1>6. m.submenu \in Members(m.list)
  BY <1>1, Fields
<1>7. CASE to = NextV(m, 1)
  <2>1. \E x, y \in Members(m.list) : to = [m EXCEPT !.current = x, !.pagestart = y]
    <3>. DEFINE n == Forward(m.list, m.current, 1)
                p == IF OnPage(m, n, 1) THEN m.pagestart ELSE n
    <3>1. m.current # NULL /\ n \in Members(m.list) /\ p \in Members(m.list)
      BY <1>1, <1>5, MembersIs DEF NULL
    <3>2. \/ to = [m EXCEPT !.current = n, !.pagestart = p]
          \/ to = [m EXCEPT !.current = m.submenu, !.pagestart = m.submenu]
      BY <1>7, <3>1 DEF NextV, FirstPage
    <3>. QED BY <1>6, <3>1, <3>2
  <2>. QED BY <1>2, <2>1
<1>8. CASE to = PrevV(m, 1)
  <2>1. m.list[Len(m.list)] \in Members(m.list)
    BY <1>4
  <2>2. \E x, y \in Members(m.list) : to = [m EXCEPT !.current = x, !.pagestart = y]
    <3>1. Backward(m.list, m.list[Len(m.list)], 1 - 1) \in Members(m.list)
      BY <1>3, <1>4, <2>1 DEF Backward
    <3>. DEFINE last == m.list[Len(m.list)]
                n == Backward(m.list, m.current, 1)
                p == IF m.pagestart = m.current THEN Backward(m.list, m.pagestart, 1)
                     ELSE m.pagestart
    <3>2. m.current # NULL /\ n \in Members(m.list) /\ p \in Members(m.list)
      BY <1>1, <1>5, MembersIs DEF NULL
    <3>3. \/ to = [m EXCEPT !.current = n, !.pagestart = p]
          \/ to = [m EXCEPT !.current = last,
                            !.pagestart = Backward(m.list, last, 1 - 1)]
      BY <1>8, <3>2 DEF PrevV, LastPage
    <3>. QED BY <2>1, <3>1, <3>2, <3>3
  <2>. QED BY <1>2, <2>2
<1>. QED BY <1>7, <1>8

-----------------------------------------------------------------------------
(* The inductive invariant                                                 *)

\* The operations of a menu update.
Own(op) == op.type \in {"APPEND_MENU", "SORT"}
\* Every operation but INIT_DONE names a device.
HasDevice(op) == op.type # "INIT_DONE" => op.dev \in Devices
IsSort(op, d) == op.type = "SORT" /\ op.dev = d
\* Operation n appends a game of the last list that was read from d.
IsGame(n, d) == ops[n].type = "APPEND_MENU" /\ ops[n].dev = d /\ ops[n].gen = gen[d]

\* The worker has applied what was deferred and has not deferred anything new;
\* it has emptied the menu.
Flushed == {"opsnull", "cleartest", "clearlock", "clear", "unlock", "reading"}
Emptied == {"unlock", "reading"}

Queues ==
  /\ ops \in Seq(Operations) /\ gUpdateList \in Seq(Linked)
  /\ lost \subseteq Linked /\ applied \subseteq Linked
  /\ todo \in [Threads -> Seq(Operations)]
  /\ gen \in [Devices -> Nat] /\ registered \subseteq Devices
Scalars ==
  /\ gUpdateEnd \in {NULL} \cup Linked
  /\ semaId \in {0, 1} /\ guiLockSema \in {0, 1}
  /\ selected \in Devices \cup {NoDevice} /\ wdev \in Devices \cup {NoDevice}
Flags == stray \in BOOLEAN
Places ==
  /\ pc \in [Threads -> GuiLabels \cup IoLabels]
  /\ pc[Gui] \in GuiLabels /\ pc[Io] \in IoLabels

\* What the place of a thread says of its variables.
Control ==
  /\ pc[Io] \notin {"idle", "dwait", "dlink", "dsignal"} => wdev \in Devices
  /\ pc[Gui] = "nav" => selected \in Devices
  /\ \A t \in Threads : /\ pc[t] \in {"dwait", "dlink"} => todo[t] # << >>
                        /\ pc[t] \notin {"dwait", "dlink", "dsignal"} => todo[t] = << >>
\* The list is in the order of linking, behind everything applied.
Ordered ==
  /\ \A i, j \in 1 .. Len(gUpdateList) : i < j => gUpdateList[i] < gUpdateList[j]
  /\ \A k \in applied, n \in Members(gUpdateList) : k < n
\* Only the worker defers games, and those of the list that it has read last.
Sources ==
  /\ \A i \in 1 .. Len(todo[Gui]) : HasDevice(todo[Gui][i]) /\ ~Own(todo[Gui][i])
  /\ \A i \in 1 .. Len(todo[Io]) :
       LET op == todo[Io][i] IN
       HasDevice(op) /\ (op.type = "APPEND_MENU" => op.gen = gen[op.dev])
  /\ \A n \in Linked :
       HasDevice(ops[n]) /\ (ops[n].type = "APPEND_MENU" => ops[n].gen <= gen[ops[n].dev])
\* No game of an earlier list is still deferred, and none at all when the
\* worker clears a menu and reads the next list.
Current ==
  /\ \A n \in Members(gUpdateList) : ops[n].type = "APPEND_MENU" => ops[n].gen = gen[ops[n].dev]
  /\ pc[Io] \in Flushed => \A n \in Members(gUpdateList) : ~Own(ops[n])
  /\ pc[Io] \in Emptied => menu[wdev].list = << >>
\* A menu shows games of the last list, each once, and all were applied.
Menus ==
  /\ menu = [d \in Devices |-> menu[d]]
  /\ \A d \in Devices :
       Whole(menu[d]) /\ \A n \in Members(menu[d].list) : n \in applied /\ IsGame(n, d)
\* The cursor of a list with games is on one of them.
Cursor == ~stray => \A d \in Devices : OnList(menu[d])
\* A game of the last list is in its menu or deferred.
Complete ==
  lost = {} => \A d \in Devices :
    \/ pc[Io] \in Emptied /\ d = wdev
    \/ \A n \in Linked : IsGame(n, d) => n \in Members(menu[d].list) \cup Members(gUpdateList)

Ascending(d) ==
  \A i, j \in 1 .. Len(menu[d].list) :
    i < j => ops[menu[d].list[i]].title <= ops[menu[d].list[j]].title
\* A SORT of d is deferred behind operation n, or still to be deferred.
SortQueued(n, d) == \E m \in Members(gUpdateList) : m > n /\ IsSort(ops[m], d)
SortToDo(d) == todo[Io] # << >> /\ IsSort(todo[Io][Len(todo[Io])], d)
SortAhead(n, d) == SortQueued(n, d) \/ SortToDo(d)
\* With gAutosort a menu is in order, or a SORT of it is still to come, and
\* one comes behind every game that is still deferred.
SortDue ==
  Autosort /\ lost = {} =>
    /\ \A d \in Devices : Ascending(d) \/ SortAhead(0, d)
    /\ \A n \in Members(gUpdateList) : ops[n].type = "APPEND_MENU" => SortAhead(n, ops[n].dev)
    /\ \A i \in 1 .. Len(todo[Io]) : todo[Io][i].type = "APPEND_MENU" => SortToDo(todo[Io][i].dev)

IInv ==
  /\ Queues /\ Scalars /\ Flags /\ Places /\ Control /\ Ordered /\ Sources /\ Current
  /\ Menus /\ Cursor /\ Complete /\ SortDue

-----------------------------------------------------------------------------
(* Steps that only move a thread                                           *)

USE DEF Threads, Gui, Io

\* What Goto does to the two program counters.
LEMMA GotoIs ==
  ASSUME Places, NEW t \in Threads, NEW l, Goto(t, l),
         t = Gui => l \in GuiLabels, t = Io => l \in IoLabels
  PROVE  /\ Places' /\ pc'[t] = l
         /\ \A u \in Threads : u # t => pc'[u] = pc[u]
BY DEF Places, Goto

content == <<ops, gUpdateList, applied, lost, menu, todo, gen, registered, stray>>

\* A step that changes nothing but places, semaphores, the tail pointer and
\* the worker's device.
LEMMA MovesOnly ==
  ASSUME IInv, UNCHANGED content, Scalars', Places', Control',
         pc'[Io] \in Flushed => pc[Io] \in Flushed \/ gUpdateList = << >>,
         pc'[Io] \in Emptied => (pc[Io] \in Emptied \/ menu[wdev].list = << >>) /\ wdev' = wdev,
         pc[Io] \in Emptied => pc'[Io] \in Emptied
  PROVE  IInv'
<1>1. Queues' /\ Flags' /\ Ordered' /\ Sources' /\ Menus' /\ Cursor'
  BY DEF content, IInv, Queues, Flags, Ordered, Sources, Menus, Cursor, IsGame, Linked
<1>2. SortDue'
  BY DEF content, IInv, SortDue, Ascending, SortAhead, SortQueued, SortToDo
<1>3. Current'
  BY MembersIs DEF content, IInv, Current, Members
<1>4. Complete'
  BY DEF content, IInv, Complete, IsGame, Linked
<1>. QED BY <1>1, <1>2, <1>3, <1>4 DEF IInv

\* A thread goes from one place to another; each place outside the deferring
\* of operations has nothing to defer.
LEMMA Moved ==
  ASSUME IInv, UNCHANGED <<content, wdev, selected>>,
         gUpdateEnd' \in {gUpdateEnd, NULL}, semaId' \in {0, 1}, guiLockSema' \in {0, 1},
         NEW t \in Threads, NEW l, Goto(t, l), t = Gui => l \in GuiLabels, t = Io => l \in IoLabels,
         l \in {"dwait", "dlink"} => todo[t] # << >>,
         l \notin {"dwait", "dlink", "dsignal"} => todo[t] = << >>,
         t = Gui /\ l = "nav" => selected \in Devices,
         t = Io /\ l \notin {"idle", "dwait", "dlink", "dsignal"} => wdev \in Devices,
         t = Io /\ l \in Flushed => pc[t] \in Flushed \/ gUpdateList = << >>,
         t = Io /\ l \in Emptied => pc[t] \in Emptied \/ menu[wdev].list = << >>,
         t = Io /\ pc[t] \in Emptied => l \in Emptied
  PROVE  IInv'
<1>1. Places' /\ pc'[t] = l /\ \A u \in Threads : u # t => pc'[u] = pc[u]
  BY GotoIs DEF IInv
<1>2. Scalars'
  BY DEF IInv, Scalars, Linked, content
<1>3. Control'
  BY <1>1 DEF IInv, Control, content
<1>. QED BY <1>1, <1>2, <1>3, MovesOnly

\* The waits and signals of guiDeferUpdate and guiHandleDeferredOps, and the
\* late reset of the tail, leave lists, plans and menus alone.
LEMMA SharedMoves ==
  ASSUME IInv, NEW t \in Threads,
         DeferWait(t) \/ DeferSignal(t) \/ OpsWait(t) \/ OpsSignal(t) \/ OpsNull(t)
  PROVE  IInv'
<1>0. /\ pc[t] \in {"dwait", "dlink"} => todo[t] # << >>
      /\ pc[t] \notin {"dwait", "dlink", "dsignal"} => todo[t] = << >>
      /\ t = Io /\ pc[t] \notin {"idle", "dwait", "dlink", "dsignal"} => wdev \in Devices
      /\ semaId \in {0, 1} /\ guiLockSema \in {0, 1}
  BY DEF IInv, Control, Scalars
<1>1. CASE DeferWait(t)
  <2>1. pc[t] = "dwait" /\ Goto(t, "dlink")
    BY <1>1 DEF DeferWait
  <2>. QED BY <1>0, <1>1, <2>1, Moved DEF DeferWait, WaitSema, content, queue, menuVars, work,
              nav, GuiLabels, IoLabels, Flushed, Emptied
<1>2. CASE DeferSignal(t)
  <2>. DEFINE l == IF todo[t] = << >> THEN Caller(t) ELSE "dwait"
  <2>1. pc[t] = "dsignal" /\ Goto(t, l) /\ UNCHANGED <<content, wdev, selected, gUpdateEnd>>
    BY <1>2 DEF DeferSignal, content, queue, menuVars, work, nav
  <2>2. semaId' \in {0, 1} /\ guiLockSema' \in {0, 1}
    BY <1>0, <1>2 DEF DeferSignal, SignalSema
  <2>. QED BY <1>0, <2>1, <2>2, Moved DEF Caller, GuiLabels, IoLabels, Flushed, Emptied
<1>3. CASE OpsWait(t)
  <2>1. pc[t] = "opswait" /\ Goto(t, "ops")
    BY <1>3 DEF OpsWait
  <2>. QED BY <1>0, <1>3, <2>1, Moved DEF OpsWait, WaitSema, content, queue, menuVars, work, nav,
              GuiLabels, IoLabels, Flushed, Emptied
<1>4. CASE OpsSignal(t)
  <2>1. pc[t] = "ops" /\ Goto(t, "opsnull") /\ gUpdateList = << >>
    BY <1>4 DEF OpsSignal
  <2>. QED BY <1>0, <1>4, <2>1, Moved DEF OpsSignal, SignalSema, content, queue, menuVars, work,
              nav, GuiLabels, IoLabels, Flushed, Emptied
<1>5. CASE OpsNull(t)
  <2>. DEFINE l == IF t = Gui THEN "vsync" ELSE "cleartest"
  <2>1. pc[t] = "opsnull" /\ Goto(t, l)
    BY <1>5 DEF OpsNull
  <2>. QED BY <1>0, <1>5, <2>1, Moved DEF OpsNull, content, menuVars, work, nav,
              GuiLabels, IoLabels, Flushed, Emptied
<1>. QED BY <1>1, <1>2, <1>3, <1>4, <1>5

\* The worker's test before a clear, and the lock around it.
LEMMA WorkerMoves ==
  ASSUME IInv, ClearTest \/ ClearLock \/ ClearUnlock
  PROVE  IInv'
<1>0. /\ pc[Io] \notin {"dwait", "dlink", "dsignal"} => todo[Io] = << >>
      /\ pc[Io] \notin {"idle", "dwait", "dlink", "dsignal"} => wdev \in Devices
      /\ semaId \in {0, 1} /\ guiLockSema \in {0, 1}
  BY DEF IInv, Control, Scalars
<1>1. CASE ClearTest
  <2>. DEFINE l == IF menu[wdev].list = << >> THEN "reading" ELSE "clearlock"
  <2>1. pc[Io] = "cleartest" /\ Goto(Io, l)
    BY <1>1 DEF ClearTest
  <2>. QED BY <1>0, <1>1, <2>1, Moved DEF ClearTest, content, queue, menuVars, work, nav,
              GuiLabels, IoLabels, Flushed, Emptied
<1>2. CASE ClearLock
  <2>1. pc[Io] = "clearlock" /\ Goto(Io, "clear")
    BY <1>2 DEF ClearLock
  <2>. QED BY <1>0, <1>2, <2>1, Moved DEF ClearLock, guiLock, content, queue, menuVars, work, nav,
              GuiLabels, IoLabels, Flushed, Emptied
<1>3. CASE ClearUnlock
  <2>1. pc[Io] = "unlock" /\ Goto(Io, "reading")
    BY <1>3 DEF ClearUnlock
  <2>. QED BY <1>0, <1>3, <2>1, Moved DEF ClearUnlock, guiUnlock, content, queue, menuVars, work,
              nav, GuiLabels, IoLabels, Flushed, Emptied
<1>. QED BY <1>1, <1>2, <1>3

\* menuDeferredUpdate for a device begins with the outstanding operations.
LEMMA BeginsUpdate ==
  ASSUME IInv, NEW d \in Devices, UpdateBegin(d)
  PROVE  IInv'
<1>1. pc[Io] = "idle" /\ Goto(Io, "opswait") /\ wdev' = d /\ UNCHANGED <<content, selected>>
  BY DEF UpdateBegin, content, queue, menuVars, nav
<1>2. Places' /\ pc'[Io] = "opswait" /\ pc'[Gui] = pc[Gui]
  BY <1>1, GotoIs DEF IInv, IoLabels
<1>3. Scalars' /\ Control'
  BY <1>1, <1>2 DEF IInv, Scalars, Control, Linked, content, UpdateBegin, queue, menuVars
<1>. QED BY <1>1, <1>2, <1>3, MovesOnly DEF Flushed, Emptied

\* What the GUI thread does without touching lists and menus.
LEMMA GuiMoves ==
  ASSUME IInv,
         \/ StartFrame \/ Render \/ EndFrame \/ NoInput \/ NavRead
         \/ Ask \/ DialogFrame \/ DialogFrameEnd \/ Confirmed
  PROVE  IInv'
<1>0. /\ pc[Gui] \notin {"dwait", "dlink", "dsignal"} => todo[Gui] = << >>
      /\ semaId \in {0, 1} /\ guiLockSema \in {0, 1} /\ selected \in Devices \cup {NoDevice}
  BY DEF IInv, Control, Scalars
<1>. SUFFICES /\ UNCHANGED <<content, wdev, selected, gUpdateEnd>>
              /\ semaId' \in {0, 1} /\ guiLockSema' \in {0, 1}
              /\ pc[Gui] \notin {"dwait", "dlink", "dsignal"}
              /\ \E l \in GuiLabels : /\ Goto(Gui, l) /\ l \notin {"dwait", "dlink", "dsignal"}
                                      /\ l = "nav" => selected \in Devices
  BY <1>0, Moved
<1>. USE DEF content, queue, menuVars, work, nav, GuiLabels
<1>1. CASE StartFrame
  BY <1>0, <1>1 DEF StartFrame, guiLock
<1>2. CASE Render
  BY <1>0, <1>2 DEF Render
<1>3. CASE EndFrame
  BY <1>0, <1>3 DEF EndFrame, guiUnlock
<1>4. CASE NoInput
  BY <1>0, <1>4 DEF NoInput
<1>5. CASE NavRead
  BY <1>0, <1>5 DEF NavRead
<1>6. CASE Ask
  BY <1>0, <1>6 DEF Ask
<1>7. CASE DialogFrame
  BY <1>0, <1>7 DEF DialogFrame, guiLock
<1>8. CASE DialogFrameEnd
  BY <1>0, <1>8 DEF DialogFrameEnd, guiUnlock
<1>9. CASE Confirmed
  BY <1>0, <1>9 DEF Confirmed
<1>. QED BY <1>1, <1>2, <1>3, <1>4, <1>5, <1>6, <1>7, <1>8, <1>9

-----------------------------------------------------------------------------
(* Deferring an operation                                                  *)

\* The thread's next operation becomes the last one linked.
LEMMA Defers ==
  ASSUME IInv, NEW t \in Threads, DeferLink(t)
  PROVE  IInv'
<1>. DEFINE n  == Len(ops) + 1
            op == Head(todo[t])
<1>0. /\ Queues /\ Scalars /\ Flags /\ Places /\ Control /\ Ordered /\ Sources
      /\ Current /\ Menus /\ Cursor /\ Complete /\ SortDue
  BY DEF IInv
<1>1. /\ pc[t] = "dlink" /\ Goto(t, "dsignal")
      /\ ops' = Append(ops, op) /\ gUpdateEnd' = n
      /\ \/ gUpdateList' = Append(gUpdateList, n) /\ lost' = lost
         \/ gUpdateList' = gUpdateList /\ lost' = lost \cup {n}
      /\ todo' = [todo EXCEPT ![t] = Tail(todo[t])]
      /\ UNCHANGED <<applied, semaId, guiLockSema, menu, selected, wdev, gen, registered, stray>>
  BY DEF DeferLink, Enqueued, menuVars, nav
<1>2. /\ ops \in Seq(Operations) /\ todo[t] \in Seq(Operations) /\ todo[t] # << >>
      /\ gUpdateList \in Seq(Linked) /\ applied \subseteq Linked
  BY <1>0, <1>1 DEF Queues, Control
<1>3. /\ op \in Operations /\ op = todo[t][1] /\ Len(todo[t]) \in Nat \ {0}
      /\ Tail(todo[t]) \in Seq(Operations) /\ Len(Tail(todo[t])) = Len(todo[t]) - 1
      /\ \A i \in 1 .. Len(todo[t]) - 1 : Tail(todo[t])[i] = todo[t][i + 1]
  BY <1>2, TailIs
<1>4. /\ todo'[t] = Tail(todo[t]) /\ \A u \in Threads : u # t => todo'[u] = todo[u]
      /\ todo' \in [Threads -> Seq(Operations)]
  BY <1>0, <1>1, <1>3 DEF Queues
<1>5. /\ ops' \in Seq(Operations) /\ Len(ops') = n /\ n \in Nat \ {0} /\ ops'[n] = op
      /\ \A k \in Linked : ops'[k] = ops[k]
  BY <1>1, <1>2, <1>3, AppendIs DEF Linked
<1>6. Linked' = Linked \cup {n} /\ n \notin Linked /\ \A k \in Linked : k < n /\ k \in Nat
  <2>1. Len(ops) \in Nat
    BY <1>2
  <2>. QED BY <2>1, <1>5 DEF Linked
<1>7. Members(gUpdateList) \subseteq Linked /\ Len(gUpdateList) \in Nat
  BY <1>2, MembersIs
<1>8. /\ gUpdateList' \in Seq(Linked')
      /\ Members(gUpdateList') \subseteq Members(gUpdateList) \cup {n}
      /\ Members(gUpdateList) \subseteq Members(gUpdateList')
      /\ lost' = {} => lost = {} /\ n \in Members(gUpdateList')
  <2>1. gUpdateList \in Seq(Linked') /\ n \in Linked'
    BY <1>2, <1>6
  <2>2. CASE gUpdateList' = Append(gUpdateList, n) /\ lost' = lost
    <3>. HIDE DEF n
    <3>. QED BY <2>1, <2>2, AppendIs
  <2>3. CASE gUpdateList' = gUpdateList /\ lost' = lost \cup {n}
    <3>. HIDE DEF n
    <3>. QED BY <2>1, <2>3
  <2>. QED BY <1>1, <2>2, <2>3
<1>9. Places' /\ pc'[t] = "dsignal" /\ \A u \in Threads : u # t => pc'[u] = pc[u]
  BY <1>0, <1>1, GotoIs DEF GuiLabels, IoLabels
<1>. HIDE DEF n, op
<1>10. Queues' /\ Scalars' /\ Flags'
  BY <1>0, <1>1, <1>4, <1>5, <1>6, <1>8 DEF Queues, Scalars, Flags, NULL
<1>11. Control'
  BY <1>0, <1>1, <1>4, <1>9 DEF Control
<1>12. Ordered'
  <2>1. \A k \in applied', m \in Members(gUpdateList') : k < m
    BY <1>0, <1>1, <1>2, <1>6, <1>8 DEF Ordered
  <2>2. \A i, j \in 1 .. Len(gUpdateList') : i < j => gUpdateList'[i] < gUpdateList'[j]
    <3>1. CASE gUpdateList' = Append(gUpdateList, n)
      <4>1. \A i \in 1 .. Len(gUpdateList) : gUpdateList[i] < n
        BY <1>2, <1>6, MembersIs
      <4>2. /\ Len(gUpdateList') = Len(gUpdateList) + 1
            /\ \A i \in 1 .. Len(gUpdateList) : gUpdateList'[i] = gUpdateList[i]
            /\ gUpdateList'[Len(gUpdateList) + 1] = n
        BY <3>1, <1>2, <1>5
      <4>. QED BY <1>0, <1>7, <4>1, <4>2 DEF Ordered
    <3>2. CASE gUpdateList' = gUpdateList
      BY <1>0, <3>2 DEF Ordered
    <3>. QED BY <1>1, <3>1, <3>2
  <2>. QED BY <2>1, <2>2 DEF Ordered
<1>13. /\ HasDevice(op) /\ (op.type = "APPEND_MENU" => op.gen = gen[op.dev])
       /\ t = Gui => ~Own(op)
  BY <1>0, <1>3 DEF Sources, Own
<1>14. Sources'
  <2>1. \A u \in Threads : \A i \in 1 .. Len(todo'[u]) :
          \E j \in 1 .. Len(todo[u]) : todo'[u][i] = todo[u][j]
    <3>. SUFFICES ASSUME NEW i \in 1 .. Len(todo'[t])
                  PROVE  \E j \in 1 .. Len(todo[t]) : todo'[t][i] = todo[t][j]
      BY <1>4
    <3>1. i + 1 \in 1 .. Len(todo[t]) /\ todo'[t][i] = todo[t][i + 1]
      BY <1>3, <1>4
    <3>. QED BY <3>1
  <2>2. \A i \in 1 .. Len(todo'[Gui]) : HasDevice(todo'[Gui][i]) /\ ~Own(todo'[Gui][i])
    BY <1>0, <2>1 DEF Sources
  <2>3. \A i \in 1 .. Len(todo'[Io]) :
          /\ HasDevice(todo'[Io][i])
          /\ todo'[Io][i].type = "APPEND_MENU" => todo'[Io][i].gen = gen[todo'[Io][i].dev]
    BY <1>0, <2>1 DEF Sources
  <2>4. HasDevice(op) /\ (op.type = "APPEND_MENU" => op.gen <= gen[op.dev])
    BY <1>3, <1>13 DEF Operations
  <2>5. \A k \in Linked' : HasDevice(ops'[k])
                           /\ (ops'[k].type = "APPEND_MENU" => ops'[k].gen <= gen[ops'[k].dev])
    BY <1>0, <1>5, <1>6, <2>4 DEF Sources
  <2>. QED BY <1>1, <2>2, <2>3, <2>5 DEF Sources, HasDevice
<1>15. Current'
  <2>1. pc'[Io] \in Flushed => t = Gui /\ pc[Io] \in Flushed
    BY <1>1, <1>9 DEF Flushed
  <2>2. pc'[Io] \in Emptied => t = Gui /\ pc[Io] \in Emptied
    BY <1>1, <1>9 DEF Emptied
  <2>. QED BY <1>0, <1>1, <1>5, <1>7, <1>8, <1>13, <2>1, <2>2 DEF Current, Own
<1>16. \A k \in Linked, d \in Devices : IsGame(k, d)' = IsGame(k, d)
  BY <1>1, <1>5 DEF IsGame
<1>17. Menus' /\ Cursor'
  BY <1>0, <1>1, <1>2, <1>16 DEF Menus, Cursor
<1>18. Complete'
  <2>. SUFFICES ASSUME lost' = {}, NEW d \in Devices, ~(pc'[Io] \in Emptied /\ d = wdev'),
                       NEW k \in Linked', IsGame(k, d)'
                PROVE  k \in Members(menu'[d].list) \cup Members(gUpdateList')
    BY DEF Complete
  <2>1. pc[Io] \in Emptied => pc'[Io] \in Emptied
    BY <1>1, <1>9 DEF Emptied
  <2>2. CASE k \in Linked
    BY <1>0, <1>1, <1>8, <1>16, <2>1, <2>2 DEF Complete
  <2>3. CASE k = n
    BY <1>8, <2>3
  <2>. QED BY <1>6, <2>2, <2>3
<1>19. SortDue'
  <2>. SUFFICES ASSUME Autosort, lost' = {} PROVE SortDue'
    BY DEF SortDue
  <2>1. lost = {} /\ n \in Members(gUpdateList')
    BY <1>8
  <2>2. ASSUME NEW d, SortToDo(d)
        PROVE  SortToDo(d)' \/ (t = Io /\ Len(todo[Io]) = 1 /\ IsSort(op, d))
    <3>1. CASE t = Gui
      BY <1>4, <2>2, <3>1 DEF SortToDo
    <3>2. CASE t = Io /\ Len(todo[Io]) = 1
      BY <1>3, <2>2, <3>2 DEF SortToDo
    <3>3. CASE t = Io /\ Len(todo[Io]) # 1
      <4>. DEFINE e == Len(todo[Io])
      <4>0. /\ todo'[Io] = Tail(todo[Io]) /\ e \in Nat \ {0, 1} /\ Len(todo'[Io]) = e - 1
            /\ \A i \in 1 .. e - 1 : todo'[Io][i] = todo[Io][i + 1]
        BY <1>3, <1>4, <3>3
      <4>. HIDE DEF e
      <4>1. e - 1 \in 1 .. e - 1 /\ Len(todo'[Io]) = e - 1 /\ (e - 1) + 1 = e /\ e - 1 # 0
        BY <4>0
      <4>2. todo'[Io] # << >> /\ todo'[Io][e - 1] = todo[Io][e]
        <5>1. Len(<< >>) = 0
          OBVIOUS
        <5>. QED BY <4>0, <4>1, <5>1
      <4>. QED BY <2>2, <4>1, <4>2 DEF SortToDo, e
    <3>. QED BY <3>1, <3>2, <3>3
  <2>3. ASSUME NEW d, NEW k \in Linked \cup {0}, SortAhead(k, d) PROVE SortAhead(k, d)'
    <3>1. CASE SortQueued(k, d)
      BY <1>5, <1>7, <1>8, <3>1 DEF SortAhead, SortQueued
    <3>2. CASE SortToDo(d)
      <4>1. k < n
        BY <1>5, <1>6
      <4>2. IsSort(op, d) => SortQueued(k, d)'
        BY <1>5, <2>1, <4>1 DEF SortQueued
      <4>. QED BY <2>2, <3>2, <4>2 DEF SortAhead
    <3>. QED BY <2>3, <3>1, <3>2 DEF SortAhead
  <2>4. \A d \in Devices : Ascending(d)' = Ascending(d)
    <3>. SUFFICES ASSUME NEW d \in Devices PROVE Ascending(d)' = Ascending(d)
      OBVIOUS
    <3>1. \A i \in 1 .. Len(menu[d].list) : menu[d].list[i] \in Linked
      BY <1>0, <1>2 DEF Menus, Members
    <3>. QED BY <1>1, <1>5, <3>1 DEF Ascending
  <2>5. \A d \in Devices : Ascending(d)' \/ SortAhead(0, d)'
    BY <1>0, <2>1, <2>3, <2>4 DEF SortDue
  <2>6. ASSUME NEW d, op.type = "APPEND_MENU", op.dev = d PROVE SortToDo(d)'
    <3>1. t = Io /\ SortToDo(d)
      BY <1>0, <1>3, <1>13, <2>1, <2>6 DEF SortDue, Own
    <3>. QED BY <2>2, <2>6, <3>1 DEF IsSort
  <2>7. ASSUME NEW d, NEW k \in Members(gUpdateList'), ops'[k].type = "APPEND_MENU",
               ops'[k].dev = d
        PROVE  SortAhead(k, d)'
    <3>1. CASE k = n
      BY <1>5, <2>6, <2>7, <3>1 DEF SortAhead
    <3>2. CASE k \in Members(gUpdateList)
      <4>1. k \in Linked /\ ops'[k] = ops[k]
        BY <1>5, <1>7, <3>2
      <4>2. SortAhead(k, d)
        BY <1>0, <2>1, <2>7, <3>2, <4>1 DEF SortDue
      <4>. QED BY <2>3, <4>1, <4>2
    <3>. QED BY <1>8, <3>1, <3>2
  <2>8. ASSUME NEW d, NEW i \in 1 .. Len(todo'[Io]), todo'[Io][i].type = "APPEND_MENU",
               todo'[Io][i].dev = d
        PROVE  SortToDo(d)'
    <3>1. CASE t = Gui
      <4>1. todo'[Io] = todo[Io]
        BY <1>4, <3>1
      <4>2. SortToDo(d)
        BY <1>0, <2>1, <2>8, <4>1 DEF SortDue
      <4>. QED BY <2>2, <3>1, <4>2
    <3>2. CASE t = Io
      <4>0. /\ Len(todo[Io]) \in Nat \ {0} /\ Len(todo'[Io]) = Len(todo[Io]) - 1
            /\ \A j \in 1 .. Len(todo[Io]) - 1 : todo'[Io][j] = todo[Io][j + 1]
        BY <1>3, <1>4, <3>2
      <4>1. i + 1 \in 1 .. Len(todo[Io]) /\ todo'[Io][i] = todo[Io][i + 1] /\ Len(todo[Io]) # 1
        BY <4>0
      <4>2. SortToDo(d)
        BY <1>0, <2>1, <2>8, <4>1 DEF SortDue
      <4>. QED BY <2>2, <4>1, <4>2
    <3>. QED BY <3>1, <3>2
  <2>. QED BY <2>5, <2>7, <2>8 DEF SortDue
<1>. QED BY <1>9, <1>10, <1>11, <1>12, <1>14, <1>15, <1>17, <1>18, <1>19 DEF IInv

-----------------------------------------------------------------------------
(* Applying an operation                                                   *)

\* The first operation of the list takes effect and leaves the list.
LEMMA Applies ==
  ASSUME IInv, NEW t \in Threads, OpsStep(t)
  PROVE  IInv'
<1>. DEFINE h  == Head(gUpdateList)
            op == ops[h]
<1>0. /\ Queues /\ Scalars /\ Flags /\ Places /\ Control /\ Ordered /\ Sources
      /\ Current /\ Menus /\ Cursor /\ Complete /\ SortDue
  BY DEF IInv
<1>1. /\ gUpdateList # << >> /\ gUpdateList' = Tail(gUpdateList) /\ HandleOp(h)
      /\ applied' = applied \cup {h}
      /\ UNCHANGED <<gUpdateEnd, ops, lost, semaId, guiLockSema, pc, todo, wdev, gen, registered,
                     stray>>
  BY DEF OpsStep, work, nav
<1>2. gUpdateList \in Seq(Linked) /\ ops \in Seq(Operations)
  BY <1>0 DEF Queues
<1>3. /\ gUpdateList' \in Seq(Linked) /\ h = gUpdateList[1] /\ h \in Linked
      /\ Members(gUpdateList) = {h} \cup Members(gUpdateList')
      /\ Len(gUpdateList) \in Nat \ {0} /\ Len(gUpdateList') = Len(gUpdateList) - 1
      /\ \A i \in 1 .. Len(gUpdateList) - 1 : gUpdateList'[i] = gUpdateList[i + 1]
  BY <1>1, <1>2, TailIs
<1>4. \A n \in Members(gUpdateList') : h < n
  <2>. SUFFICES ASSUME NEW i \in 1 .. Len(gUpdateList') PROVE h < gUpdateList'[i]
    BY DEF Members
  <2>1. i + 1 \in 1 .. Len(gUpdateList) /\ 1 \in 1 .. Len(gUpdateList) /\ 1 < i + 1
    BY <1>3
  <2>. QED BY <1>0, <1>3, <2>1 DEF Ordered
<1>5. /\ op \in Operations /\ HasDevice(op) /\ h \in Nat \ {0} /\ h \notin applied
      /\ op.type = "APPEND_MENU" => op.gen = gen[op.dev]
  <2>1. h \in Nat \ {0} /\ op \in Operations
    BY <1>2, <1>3 DEF Linked
  <2>2. h \notin applied
    <3>1. h \in Members(gUpdateList) /\ ~(h < h)
      BY <1>3, <2>1
    <3>. QED BY <1>0, <3>1 DEF Ordered
  <2>. QED BY <1>0, <1>3, <2>1, <2>2 DEF Sources, Current
<1>6. /\ selected' = IF op.type = "SELECT_MENU" \/ (op.type = "ADD_MENU" /\ selected = NoDevice)
                     THEN op.dev ELSE selected
      /\ op.type = "APPEND_MENU" => menu' = [menu EXCEPT ![op.dev] = Appended(@, h, op.sel)]
      /\ op.type = "SORT" => menu' = [menu EXCEPT ![op.dev] = Sorted(@, Title)]
      /\ ~Own(op) => menu' = menu
  BY <1>1 DEF HandleOp, Own
<1>7. \A n \in Members(gUpdateList) : n # h => n \in Members(gUpdateList')
  BY <1>3
<1>. HIDE DEF h, op
<1>8. Queues' /\ Scalars' /\ Flags' /\ Places'
  BY <1>0, <1>1, <1>3, <1>5, <1>6 DEF Queues, Scalars, Flags, Places, Linked, HasDevice
<1>9. Control'
  BY <1>0, <1>1, <1>5, <1>6 DEF Control, HasDevice
<1>10. Ordered'
  <2>1. \A k \in applied', n \in Members(gUpdateList') : k < n
    BY <1>0, <1>1, <1>3, <1>4 DEF Ordered
  <2>2. ASSUME NEW i \in 1 .. Len(gUpdateList'), NEW j \in 1 .. Len(gUpdateList'), i < j
        PROVE  gUpdateList'[i] < gUpdateList'[j]
    <3>1. i + 1 \in 1 .. Len(gUpdateList) /\ j + 1 \in 1 .. Len(gUpdateList) /\ i + 1 < j + 1
      BY <1>3, <2>2
    <3>. QED BY <1>0, <1>3, <3>1 DEF Ordered
  <2>. QED BY <2>1, <2>2 DEF Ordered
<1>11. Sources'
  BY <1>0, <1>1 DEF Sources, Linked, HasDevice
<1>12. \A n \in applied : Title[n] = ops[n].title /\ Title[n] \in Nat
  <2>. SUFFICES ASSUME NEW n \in applied PROVE Title[n] = ops[n].title /\ Title[n] \in Nat
    OBVIOUS
  <2>1. n \in 1 .. Len(ops) /\ ops[n] \in Operations
    BY <1>0, <1>2 DEF Queues, Linked
  <2>. QED BY <2>1 DEF Title, Operations
\* What the operation does to the menu of each device.
<1>13. ASSUME NEW d \in Devices
       PROVE  /\ Whole(menu'[d])
              /\ OnList(menu[d]) => OnList(menu'[d])
              /\ Members(menu'[d].list) = IF op.type = "APPEND_MENU" /\ op.dev = d
                                          THEN Members(menu[d].list) \cup {h}
                                          ELSE Members(menu[d].list)
              /\ IsSort(op, d) => Ascending(d)'
              /\ ~Own(op) \/ op.dev # d => menu'[d].list = menu[d].list
  <2>0. Whole(menu[d]) /\ \A n \in Members(menu[d].list) : n \in applied
    BY <1>0 DEF Menus
  <2>1. CASE op.dev # d \/ ~Own(op)
    <3>1. menu'[d] = menu[d]
      BY <1>0, <1>6, <2>1 DEF Menus, Own
    <3>. QED BY <2>0, <2>1, <3>1 DEF Own, IsSort
  <2>2. CASE op.dev = d /\ op.type = "APPEND_MENU"
    <3>1. menu'[d] = Appended(menu[d], h, op.sel)
      BY <1>0, <1>6, <2>2 DEF Menus
    <3>2. op.sel \in BOOLEAN
      BY <1>5 DEF Operations
    <3>3. h \notin Members(menu[d].list)
      BY <1>5, <2>0
    <3>4. /\ Whole(menu'[d]) /\ Members(menu'[d].list) = Members(menu[d].list) \cup {h}
          /\ OnList(menu[d]) => OnList(menu'[d])
      BY <1>5, <2>0, <3>1, <3>2, <3>3, AppendedIs
    <3>. QED BY <2>2, <3>4 DEF IsSort, Own
  <2>3. CASE IsSort(op, d)
    <3>1. menu'[d] = Sorted(menu[d], Title)
      BY <1>0, <1>6, <2>3 DEF Menus, IsSort
    <3>2. \A n \in Members(menu[d].list) : Title[n] \in Nat
      BY <1>12, <2>0
    <3>3. /\ Whole(menu'[d]) /\ Members(menu'[d].list) = Members(menu[d].list)
          /\ \A i, j \in 1 .. Len(menu'[d].list) :
               i < j => Title[menu'[d].list[i]] <= Title[menu'[d].list[j]]
          /\ OnList(menu[d]) => OnList(menu'[d])
      BY <2>0, <3>1, <3>2, SortedIs
    <3>4. \A i \in 1 .. Len(menu'[d].list) : menu'[d].list[i] \in applied
      BY <2>0, <3>3 DEF Members
    <3>5. Ascending(d)'
      BY <1>1, <1>12, <3>3, <3>4 DEF Ascending
    <3>. QED BY <2>3, <3>3, <3>5 DEF IsSort, Own
  <2>. QED BY <2>1, <2>2, <2>3 DEF Own, IsSort
<1>14. Current'
  <2>1. pc[Io] \in Flushed => ~Own(op)
    BY <1>0, <1>3 DEF Current, op
  <2>2. pc[Io] \in Emptied => menu'[wdev].list = << >>
    BY <1>0, <1>6, <2>1 DEF Current, Flushed, Emptied
  <2>. QED BY <1>0, <1>1, <1>3, <2>2 DEF Current, Own
<1>15. \A n, d : IsGame(n, d)' = IsGame(n, d)
  BY <1>1 DEF IsGame
<1>16. Menus'
  <2>1. menu' = [d \in Devices |-> menu'[d]]
    BY <1>0, <1>6 DEF Menus, Own
  <2>2. \A d \in Devices : \A n \in Members(menu'[d].list) : n \in applied' /\ IsGame(n, d)
    <3>1. \A d \in Devices : op.type = "APPEND_MENU" /\ op.dev = d => IsGame(h, d)
      BY <1>5 DEF IsGame, op
    <3>. QED BY <1>0, <1>1, <1>13, <3>1 DEF Menus
  <2>. QED BY <1>13, <1>15, <2>1, <2>2 DEF Menus
<1>17. Cursor'
  BY <1>0, <1>1, <1>13 DEF Cursor
<1>18. Complete'
  <2>. SUFFICES ASSUME lost = {}, NEW d \in Devices, ~(pc[Io] \in Emptied /\ d = wdev),
                       NEW n \in Linked, IsGame(n, d)
                PROVE  n \in Members(menu'[d].list) \cup Members(gUpdateList')
    BY <1>1, <1>15 DEF Complete, Linked
  <2>1. n \in Members(menu[d].list) \/ n \in Members(gUpdateList)
    BY <1>0 DEF Complete
  <2>2. n = h => op.type = "APPEND_MENU" /\ op.dev = d
    BY DEF IsGame, op
  <2>. QED BY <1>7, <1>13, <2>1, <2>2
<1>19. SortDue'
  <2>. SUFFICES ASSUME Autosort, lost = {} PROVE SortDue'
    BY <1>1 DEF SortDue
  <2>1. \A d : SortToDo(d)' = SortToDo(d)
    BY <1>1 DEF SortToDo
  <2>2. ASSUME NEW d, NEW k, SortAhead(k, d), ~IsSort(op, d) PROVE SortAhead(k, d)'
    BY <1>1, <1>7, <2>1, <2>2 DEF SortAhead, SortQueued, op
  <2>3. ASSUME NEW d, NEW k \in Linked, SortAhead(k, d), h <= k
        PROVE  SortAhead(k, d)' /\ SortAhead(0, d)'
    <3>1. CASE SortQueued(k, d)
      <4>1. PICK m \in Members(gUpdateList) : m > k /\ IsSort(ops[m], d)
        BY <3>1 DEF SortQueued
      <4>2. m \in Nat /\ k \in Nat
        BY <1>2, MembersIs DEF Linked
      <4>3. m \in Members(gUpdateList') /\ m > 0
        BY <1>5, <1>7, <2>3, <4>1, <4>2
      <4>. QED BY <1>1, <4>1, <4>3 DEF SortAhead, SortQueued
    <3>. QED BY <2>1, <2>3, <3>1 DEF SortAhead
  <2>4. ASSUME NEW d \in Devices PROVE Ascending(d)' \/ SortAhead(0, d)'
    <3>1. CASE op.type = "APPEND_MENU" /\ op.dev = d
      <4>1. SortAhead(h, d)
        BY <1>0, <1>3, <3>1 DEF SortDue, op
      <4>. QED BY <1>3, <1>5, <2>3, <4>1
    <3>2. CASE IsSort(op, d)
      BY <1>13, <3>2
    <3>3. CASE ~IsSort(op, d) /\ ~(op.type = "APPEND_MENU" /\ op.dev = d)
      <4>1. menu'[d].list = menu[d].list
        BY <1>13, <3>3 DEF IsSort, Own
      <4>2. Ascending(d)' = Ascending(d)
        BY <1>1, <4>1 DEF Ascending
      <4>. QED BY <1>0, <2>2, <3>3, <4>2 DEF SortDue
    <3>. QED BY <3>1, <3>2, <3>3
  <2>5. ASSUME NEW d, NEW k \in Members(gUpdateList'), ops[k].type = "APPEND_MENU", ops[k].dev = d
        PROVE  SortAhead(k, d)'
    <3>1. k \in Linked /\ k \in Members(gUpdateList) /\ h <= k
      <4>1. k \in Linked /\ k \in Members(gUpdateList) /\ h < k
        BY <1>2, <1>3, <1>4, MembersIs
      <4>. QED BY <1>5, <4>1 DEF Linked
    <3>2. SortAhead(k, d)
      BY <1>0, <2>5, <3>1 DEF SortDue
    <3>. QED BY <2>3, <3>1, <3>2
  <2>6. ASSUME NEW d, NEW i \in 1 .. Len(todo[Io]), todo[Io][i].type = "APPEND_MENU",
               todo[Io][i].dev = d
        PROVE  SortToDo(d)'
    BY <1>0, <2>1, <2>6 DEF SortDue
  <2>. QED BY <1>1, <2>4, <2>5, <2>6 DEF SortDue
<1>. QED BY <1>8, <1>9, <1>10, <1>11, <1>14, <1>16, <1>17, <1>18, <1>19 DEF IInv

-----------------------------------------------------------------------------
(* The worker's updates                                                    *)

\* submenuDestroy: the menu of the worker's device is empty.
LEMMA Clears ==
  ASSUME IInv, Clear
  PROVE  IInv'
<1>0. /\ Queues /\ Scalars /\ Flags /\ Places /\ Control /\ Ordered /\ Sources
      /\ Current /\ Menus /\ Cursor /\ Complete /\ SortDue
  BY DEF IInv
<1>1. /\ pc[Io] = "clear" /\ menu' = [menu EXCEPT ![wdev] = EmptyMenu] /\ Goto(Io, "unlock")
      /\ UNCHANGED <<gUpdateList, gUpdateEnd, ops, lost, applied, semaId, guiLockSema, selected,
                     todo, wdev, gen, registered, stray>>
  BY DEF Clear, queue, work, nav
<1>2. Places' /\ pc'[Io] = "unlock" /\ pc'[Gui] = pc[Gui] /\ wdev \in Devices
  BY <1>0, <1>1, GotoIs DEF IoLabels, Control
<1>3. /\ menu'[wdev] = EmptyMenu /\ \A d \in Devices : d # wdev => menu'[d] = menu[d]
      /\ menu' = [d \in Devices |-> menu'[d]]
  BY <1>0, <1>1, <1>2 DEF Menus
<1>4. Queues' /\ Scalars' /\ Flags' /\ Ordered' /\ Sources'
  BY <1>0, <1>1 DEF Queues, Scalars, Flags, Ordered, Sources, Linked, HasDevice
<1>5. Control'
  BY <1>0, <1>1, <1>2 DEF Control
<1>6. Current'
  BY <1>0, <1>1, <1>2, <1>3, EmptyIs DEF Current, Flushed, Emptied
<1>7. Menus' /\ Cursor'
  <2>1. Members(EmptyMenu.list) = {}
    BY EmptyIs DEF Members
  <2>2. \A n, d : IsGame(n, d)' = IsGame(n, d)
    BY <1>1 DEF IsGame
  <2>. QED BY <1>0, <1>1, <1>3, <2>1, <2>2, EmptyIs DEF Menus, Cursor
<1>8. Complete'
  <2>1. \A n, d : IsGame(n, d)' = IsGame(n, d)
    BY <1>1 DEF IsGame
  <2>. QED BY <1>0, <1>1, <1>2, <1>3, <2>1 DEF Complete, Emptied, Linked
<1>9. SortDue'
  <2>1. \A d, n : SortAhead(n, d)' = SortAhead(n, d) /\ SortToDo(d)' = SortToDo(d)
    BY <1>1 DEF SortAhead, SortQueued, SortToDo
  <2>2. \A d \in Devices : d # wdev => Ascending(d)' = Ascending(d)
    BY <1>1, <1>3 DEF Ascending
  <2>3. Ascending(wdev)'
    BY <1>1, <1>3, EmptyIs DEF Ascending
  <2>4. \A d \in Devices : Ascending(d)' \/ ~Ascending(d)
    BY <1>1, <2>2, <2>3
  <2>. QED BY <1>0, <1>1, <2>1, <2>4 DEF SortDue
<1>. QED BY <1>2, <1>4, <1>5, <1>6, <1>7, <1>8, <1>9 DEF IInv

\* The operations of an update: games of one reading, and a SORT at the end.
LEMMA DeferredIs ==
  ASSUME NEW d \in Devices, NEW games \in Seq(Nat), NEW last, NEW g \in Nat
  PROVE  LET s == Deferred(d, games, last, g) IN
         /\ s \in Seq(Operations)
         /\ \A i \in 1 .. Len(s) : /\ s[i].dev = d /\ s[i].type \in {"APPEND_MENU", "SORT"}
                                   /\ s[i].type = "APPEND_MENU" => s[i].gen = g
         /\ Autosort => s # << >> /\ IsSort(s[Len(s)], d)
<1>. DEFINE a == [i \in DOMAIN games |-> AppendMenu(d, games[i], i = last, g)]
            b == IF Autosort THEN <<SortMenu(d)>> ELSE << >>
            s == a \o b
<1>0. Deferred(d, games, last, g) = s
  BY DEF Deferred
<1>1. \A i \in 1 .. Len(games) :
        LET op == AppendMenu(d, games[i], i = last, g) IN
        op \in Operations /\ op.dev = d /\ op.type = "APPEND_MENU" /\ op.gen = g
  <2>. SUFFICES ASSUME NEW i \in 1 .. Len(games)
                PROVE  LET op == AppendMenu(d, games[i], i = last, g) IN
                       op \in Operations /\ op.dev = d /\ op.type = "APPEND_MENU" /\ op.gen = g
    OBVIOUS
  <2>1. games[i] \in Nat /\ (i = last) \in BOOLEAN
    OBVIOUS
  <2>. QED BY <2>1 DEF AppendMenu, Operations, Types
<1>2. SortMenu(d) \in Operations /\ IsSort(SortMenu(d), d)
  BY DEF SortMenu, Operations, Types, IsSort
<1>3. /\ a \in Seq(Operations) /\ Len(a) = Len(games)
      /\ \A i \in 1 .. Len(a) : a[i].dev = d /\ a[i].type = "APPEND_MENU" /\ a[i].gen = g
  <2>1. DOMAIN games = 1 .. Len(games) /\ Len(games) \in Nat
    OBVIOUS
  <2>2. a \in [1 .. Len(games) -> Operations]
    BY <1>1, <2>1
  <2>3. a \in Seq(Operations) /\ Len(a) = Len(games)
    BY <2>1, <2>2
  <2>. QED BY <1>1, <2>1, <2>3
<1>. HIDE DEF a
<1>4. CASE Autosort
  <2>1. b = <<SortMenu(d)>>
    BY <1>4
  <2>2. /\ s \in Seq(Operations) /\ Len(s) = Len(a) + 1 /\ s[Len(a) + 1] = SortMenu(d)
        /\ \A i \in 1 .. Len(a) : s[i] = a[i]
    <3>. DEFINE x == SortMenu(d)
    <3>1. x \in Operations /\ s = a \o <<x>>
      BY <1>2, <2>1
    <3>. HIDE DEF x, s
    <3>2. Append(a, x) = a \o <<x>>
      BY <1>3, <3>1
    <3>. QED BY <1>3, <3>1, <3>2, AppendIs, SMTT(30) DEF x
  <2>. HIDE DEF s
  <2>3. \A i \in 1 .. Len(s) : i = Len(a) + 1 \/ i \in 1 .. Len(a)
    BY <1>3, <2>2
  <2>4. Len(s) # 0 /\ s # << >>
    BY <1>3, <2>2
  <2>5. \A i \in 1 .. Len(s) : /\ s[i].dev = d /\ s[i].type \in {"APPEND_MENU", "SORT"}
                               /\ s[i].type = "APPEND_MENU" => s[i].gen = g
    BY <1>2, <1>3, <2>2, <2>3 DEF IsSort
  <2>. QED BY <1>0, <1>2, <2>2, <2>4, <2>5
<1>5. CASE ~Autosort
  <2>1. s = a
    <3>1. b = << >>
      BY <1>5
    <3>. QED BY <1>3, <3>1
  <2>. HIDE DEF s
  <2>. QED BY <1>0, <1>3, <1>5, <2>1
<1>. QED BY <1>4, <1>5

\* A thread at a place with nothing to defer gets operations to defer.
LEMMA TodoIs ==
  ASSUME Queues, NEW t \in Threads, NEW s \in Seq(Operations), todo' = [todo EXCEPT ![t] = s]
  PROVE  /\ todo' \in [Threads -> Seq(Operations)] /\ todo'[t] = s
         /\ \A u \in Threads : u # t => todo'[u] = todo[u]
BY DEF Queues

\* itemUpdate has returned: a new list of the worker's device.
LEMMA Reads ==
  ASSUME IInv, ItemUpdate
  PROVE  IInv'
<1>0. /\ Queues /\ Scalars /\ Flags /\ Places /\ Control /\ Ordered /\ Sources
      /\ Current /\ Menus /\ Cursor /\ Complete /\ SortDue
  BY DEF IInv
<1>1. /\ pc[Io] = "reading" /\ gen' = [gen EXCEPT ![wdev] = @ + 1]
      /\ Goto(Io, IF todo'[Io] = << >> THEN "idle" ELSE "dwait")
      /\ UNCHANGED <<gUpdateList, gUpdateEnd, ops, lost, applied, semaId, guiLockSema, selected,
                     menu, wdev, registered, stray>>
  BY DEF ItemUpdate, queue, menuVars, nav
<1>2. wdev \in Devices /\ gen \in [Devices -> Nat] /\ gen[wdev] + 1 \in Nat /\ todo[Io] = << >>
  BY <1>0, <1>1 DEF Control, Queues
<1>3. /\ gen' \in [Devices -> Nat] /\ gen'[wdev] = gen[wdev] + 1
      /\ \A d \in Devices : d # wdev => gen'[d] = gen[d]
  BY <1>1, <1>2
<1>4. PICK games \in GameLists : \E last \in {0} \cup DOMAIN games :
        todo' = [todo EXCEPT ![Io] = Deferred(wdev, games, last, gen[wdev] + 1)]
  BY DEF ItemUpdate
<1>. PICK last \in {0} \cup DOMAIN games :
        todo' = [todo EXCEPT ![Io] = Deferred(wdev, games, last, gen[wdev] + 1)]
  BY <1>4
<1>. DEFINE s == Deferred(wdev, games, last, gen[wdev] + 1)
<1>5. /\ s \in Seq(Operations)
      /\ \A i \in 1 .. Len(s) : /\ s[i].dev = wdev /\ s[i].type \in {"APPEND_MENU", "SORT"}
                                /\ s[i].type = "APPEND_MENU" => s[i].gen = gen[wdev] + 1
      /\ Autosort => s # << >> /\ IsSort(s[Len(s)], wdev)
  BY <1>2, ListsAssumption, DeferredIs
<1>6. todo' \in [Threads -> Seq(Operations)] /\ todo'[Io] = s /\ todo'[Gui] = todo[Gui]
  BY <1>0, <1>4, <1>5, TodoIs
<1>. HIDE DEF s
<1>7. /\ Places' /\ pc'[Gui] = pc[Gui] /\ pc'[Io] = IF s = << >> THEN "idle" ELSE "dwait"
  BY <1>0, <1>1, <1>6, GotoIs DEF IoLabels
<1>8. Queues' /\ Scalars' /\ Flags' /\ Ordered'
  BY <1>0, <1>1, <1>3, <1>6 DEF Queues, Scalars, Flags, Ordered, Linked
<1>9. Control'
  BY <1>0, <1>1, <1>6, <1>7 DEF Control
<1>10. Sources'
  <2>1. \A n \in Linked : ops[n].type = "APPEND_MENU" => ops[n].gen <= gen'[ops[n].dev]
    <3>. SUFFICES ASSUME NEW n \in Linked, ops[n].type = "APPEND_MENU"
                  PROVE  ops[n].gen <= gen'[ops[n].dev]
      OBVIOUS
    <3>1. ops[n] \in Operations /\ ops[n].dev \in Devices /\ ops[n].gen <= gen[ops[n].dev]
      BY <1>0 DEF Queues, Sources, HasDevice, Linked
    <3>2. ops[n].gen \in Nat /\ gen[ops[n].dev] \in Nat
      BY <1>2, <3>1 DEF Operations
    <3>. QED BY <1>3, <3>1, <3>2
  <2>2. \A i \in 1 .. Len(todo'[Gui]) : HasDevice(todo'[Gui][i]) /\ ~Own(todo'[Gui][i])
    BY <1>0, <1>6 DEF Sources
  <2>3. \A i \in 1 .. Len(todo'[Io]) :
          /\ HasDevice(todo'[Io][i])
          /\ todo'[Io][i].type = "APPEND_MENU" => todo'[Io][i].gen = gen'[todo'[Io][i].dev]
    BY <1>2, <1>3, <1>5, <1>6 DEF HasDevice
  <2>. QED BY <1>0, <1>1, <2>1, <2>2, <2>3 DEF Sources, HasDevice, Linked
<1>11. Current'
  BY <1>0, <1>1, <1>7 DEF Current, Flushed, Emptied, Own
<1>12. \A n, d : d \in Devices /\ d # wdev => IsGame(n, d)' = IsGame(n, d)
  BY <1>1, <1>3 DEF IsGame
<1>13. Menus' /\ Cursor'
  <2>1. menu[wdev].list = << >> /\ Members(menu[wdev].list) = {}
    BY <1>0, <1>1 DEF Current, Emptied, Members
  <2>. QED BY <1>0, <1>1, <1>12, <2>1 DEF Menus, Cursor
<1>14. Complete'
  <2>. SUFFICES ASSUME lost = {}, NEW d \in Devices, NEW n \in Linked, IsGame(n, d)'
                PROVE  n \in Members(menu[d].list) \cup Members(gUpdateList)
    BY <1>1 DEF Complete, Linked
  <2>1. d # wdev
    <3>. SUFFICES ASSUME d = wdev PROVE FALSE
      OBVIOUS
    <3>1. ops[n].gen = gen[wdev] + 1 /\ ops[n].gen <= gen[wdev] /\ gen[wdev] \in Nat
      BY <1>0, <1>1, <1>2, <1>3 DEF IsGame, Sources
    <3>. QED BY <3>1
  <2>. QED BY <1>0, <1>12, <2>1 DEF Complete
<1>15. SortDue'
  <2>. SUFFICES ASSUME Autosort, lost = {} PROVE SortDue'
    BY <1>1 DEF SortDue
  <2>1. \A n \in Members(gUpdateList) : ~Own(ops[n])
    BY <1>0, <1>1 DEF Current, Flushed
  <2>2. \A d : ~SortAhead(0, d)
    BY <1>2, <2>1 DEF SortAhead, SortQueued, SortToDo, IsSort, Own
  <2>3. \A d \in Devices : Ascending(d)'
    BY <1>0, <1>1, <2>2 DEF SortDue, Ascending
  <2>4. SortToDo(wdev)'
    BY <1>1, <1>5, <1>6 DEF SortToDo
  <2>5. \A i \in 1 .. Len(todo'[Io]) : todo'[Io][i].dev = wdev'
    BY <1>1, <1>5, <1>6
  <2>. QED BY <1>1, <2>1, <2>3, <2>4, <2>5 DEF SortDue, Own
<1>. QED BY <1>7, <1>8, <1>9, <1>10, <1>11, <1>13, <1>14, <1>15 DEF IInv

\* A thread gets operations to defer that are not those of an update.
LEMMA Plans ==
  ASSUME IInv, NEW t \in Threads, NEW s \in Seq(Operations), s # << >>,
         \A i \in 1 .. Len(s) : HasDevice(s[i]) /\ ~Own(s[i]),
         pc[t] \notin {"dwait", "dlink", "dsignal"} \cup Emptied,
         todo' = [todo EXCEPT ![t] = s], Goto(t, "dwait"),
         registered' \subseteq Devices,
         UNCHANGED <<gUpdateList, gUpdateEnd, ops, lost, applied, semaId, guiLockSema, selected,
                     menu, wdev, gen, stray>>
  PROVE  IInv'
<1>0. /\ Queues /\ Scalars /\ Flags /\ Places /\ Control /\ Ordered /\ Sources
      /\ Current /\ Menus /\ Cursor /\ Complete /\ SortDue
  BY DEF IInv
<1>1. /\ todo' \in [Threads -> Seq(Operations)] /\ todo'[t] = s /\ todo[t] = << >>
      /\ \A u \in Threads : u # t => todo'[u] = todo[u]
  BY <1>0, TodoIs DEF Control
<1>2. Places' /\ pc'[t] = "dwait" /\ \A u \in Threads : u # t => pc'[u] = pc[u]
  BY <1>0, GotoIs DEF GuiLabels, IoLabels
<1>3. Queues' /\ Scalars' /\ Flags' /\ Ordered'
  BY <1>0, <1>1 DEF Queues, Scalars, Flags, Ordered, Linked
<1>4. Control'
  BY <1>0, <1>1, <1>2 DEF Control
<1>5. Sources'
  <2>1. \A i \in 1 .. Len(todo'[Gui]) : HasDevice(todo'[Gui][i]) /\ ~Own(todo'[Gui][i])
    BY <1>0, <1>1 DEF Sources
  <2>2. \A i \in 1 .. Len(todo'[Io]) :
          /\ HasDevice(todo'[Io][i])
          /\ todo'[Io][i].type = "APPEND_MENU" => todo'[Io][i].gen = gen[todo'[Io][i].dev]
    BY <1>0, <1>1 DEF Sources, Own
  <2>. QED BY <1>0, <2>1, <2>2 DEF Sources, HasDevice, Linked
<1>6. Current'
  BY <1>0, <1>2 DEF Current, Flushed, Emptied, Own
<1>7. \A n, d : IsGame(n, d)' = IsGame(n, d)
  BY DEF IsGame
<1>8. Menus' /\ Cursor'
  BY <1>0, <1>7 DEF Menus, Cursor
<1>9. Complete'
  <2>1. pc'[Io] \in Emptied <=> pc[Io] \in Emptied
    BY <1>2 DEF Emptied
  <2>. QED BY <1>0, <1>7, <2>1 DEF Complete, Linked
<1>10. SortDue'
  <2>1. \A d : SortToDo(d) => SortToDo(d)'
    BY <1>1 DEF SortToDo
  <2>2. \A d, n : SortAhead(n, d) => SortAhead(n, d)'
    BY <2>1 DEF SortAhead, SortQueued
  <2>3. \A d \in Devices : Ascending(d)' = Ascending(d)
    BY DEF Ascending
  <2>4. Autosort /\ lost = {} => \A i \in 1 .. Len(todo'[Io]) : \A d :
          todo'[Io][i].type = "APPEND_MENU" /\ todo'[Io][i].dev = d => SortToDo(d)'
    BY <1>0, <1>1, <2>1 DEF SortDue, Own
  <2>. QED BY <1>0, <2>2, <2>3, <2>4 DEF SortDue
<1>. QED BY <1>2, <1>3, <1>4, <1>5, <1>6, <1>8, <1>9, <1>10 DEF IInv

\* The operations that initSupport and deferredInit defer: no game and no sort
\* among them.
LEMMA InitPlans ==
  ASSUME IInv, DeferredInit \/ \E d \in Devices : InitSupport(d)
  PROVE  IInv'
<1>0. registered \subseteq Devices
  BY DEF IInv, Queues
<1>1. /\ InitDone \in Operations /\ HasDevice(InitDone) /\ ~Own(InitDone)
      /\ \A d \in Devices : /\ SelectMenu(d) \in Operations /\ AddMenu(d) \in Operations
                            /\ HasDevice(SelectMenu(d)) /\ HasDevice(AddMenu(d))
                            /\ ~Own(SelectMenu(d)) /\ ~Own(AddMenu(d))
  BY DEF InitDone, SelectMenu, AddMenu, Operations, Types, HasDevice, Own
<1>2. CASE DeferredInit
  <2>1. PICK rest \in {<< >>} \cup {<<SelectMenu(d)>> : d \in registered} :
          todo' = [todo EXCEPT ![Io] = <<InitDone>> \o rest]
    BY <1>2 DEF DeferredInit
  <2>. DEFINE s == <<InitDone>> \o rest
  <2>2. /\ s \in Seq(Operations) /\ s # << >>
        /\ \A i \in 1 .. Len(s) : HasDevice(s[i]) /\ ~Own(s[i])
    <3>1. CASE rest = << >>
      <4>1. s = <<InitDone>>
        BY <3>1
      <4>. HIDE DEF s
      <4>. QED BY <1>1, <4>1
    <3>2. CASE rest # << >>
      <4>1. PICK d \in registered : rest = <<SelectMenu(d)>>
        BY <3>2
      <4>. DEFINE x == InitDone
                  y == SelectMenu(d)
      <4>2. s = <<x>> \o <<y>>
        BY <4>1
      <4>3. /\ x \in Operations /\ HasDevice(x) /\ ~Own(x)
            /\ y \in Operations /\ HasDevice(y) /\ ~Own(y)
        BY <1>0, <1>1
      <4>. HIDE DEF s, x, y
      <4>4. s = Append(<<x>>, y) /\ <<x>> \in Seq(Operations) /\ Len(<<x>>) = 1 /\ <<x>>[1] = x
        BY <4>2, <4>3
      <4>5. s \in Seq(Operations) /\ s # << >> /\ Len(s) = 2 /\ s[1] = x /\ s[2] = y
        BY <4>3, <4>4, AppendIs
      <4>. QED BY <4>3, <4>5
    <3>. QED BY <3>1, <3>2
  <2>. HIDE DEF s
  <2>3. todo' = [todo EXCEPT ![Io] = s]
    BY <2>1 DEF s
  <2>. QED BY <1>0, <1>2, <2>2, <2>3, Plans DEF DeferredInit, Emptied, queue, menuVars, nav
<1>3. ASSUME NEW d \in Devices, InitSupport(d) PROVE IInv'
  <2>. DEFINE s == <<AddMenu(d)>>
  <2>1. /\ s \in Seq(Operations) /\ s # << >>
        /\ \A i \in 1 .. Len(s) : HasDevice(s[i]) /\ ~Own(s[i])
    BY <1>1
  <2>2. todo' = [todo EXCEPT ![Gui] = s] /\ registered' \subseteq Devices
    BY <1>0, <1>3 DEF InitSupport
  <2>. HIDE DEF s
  <2>. QED BY <1>3, <2>1, <2>2, Plans DEF InitSupport, Emptied, queue, menuVars, nav
<1>. QED BY <1>2, <1>3

-----------------------------------------------------------------------------
(* Key presses                                                             *)

\* A move changes no list; on a live list it moves the cursor to a game.
LEMMA Navigates ==
  ASSUME IInv, NavMove
  PROVE  IInv'
<1>0. /\ Queues /\ Scalars /\ Flags /\ Places /\ Control /\ Ordered /\ Sources
      /\ Current /\ Menus /\ Cursor /\ Complete /\ SortDue
  BY DEF IInv
<1>1. /\ pc[Gui] = "nav" /\ Goto(Gui, "top")
      /\ UNCHANGED <<gUpdateList, gUpdateEnd, ops, lost, applied, semaId, guiLockSema, selected,
                     todo, wdev, gen, registered>>
  BY DEF NavMove, queue, work
<1>2. selected \in Devices /\ Whole(menu[selected])
  BY <1>0, <1>1 DEF Control, Menus
<1>. DEFINE m    == menu[selected]
            live == {navAt, m.current, m.pagestart} \subseteq Members(m.list)
<1>3. /\ stray' = (stray \/ (~live /\ m.list # << >>))
      /\ \/ live /\ \E to \in {NextV(m, 1), PrevV(m, 1)} : menu' = [menu EXCEPT ![selected] = to]
         \/ ~live /\ \E n \in 0 .. Len(ops) : menu' = [menu EXCEPT ![selected].current = n]
  BY DEF NavMove
<1>4. \E to : /\ Whole(to) /\ to.list = m.list /\ menu' = [menu EXCEPT ![selected] = to]
              /\ live => OnList(to)
  <2>1. CASE live
    <3>1. PICK to \in {NextV(m, 1), PrevV(m, 1)} : menu' = [menu EXCEPT ![selected] = to]
      BY <1>3, <2>1
    <3>. QED BY <1>2, <2>1, <3>1, MovedIs
  <2>2. CASE ~live
    <3>1. PICK n \in 0 .. Len(ops) : menu' = [menu EXCEPT ![selected].current = n]
      BY <1>3, <2>2
    <3>. DEFINE to == [m EXCEPT !.current = n]
    <3>2. n \in Nat /\ menu' = [menu EXCEPT ![selected] = to]
      BY <1>0, <3>1 DEF Queues
    <3>3. to \in MenuRecs /\ to.list = m.list /\ to.submenu = m.submenu
      <4>1. m \in MenuRecs
        BY <1>2 DEF Whole
      <4>. HIDE DEF m
      <4>. QED BY <3>2, <4>1 DEF MenuRecs
    <3>4. Whole(to)
      BY <1>2, <3>3 DEF Whole
    <3>. HIDE DEF to
    <3>. QED BY <2>2, <3>2, <3>3, <3>4
  <2>. QED BY <2>1, <2>2
<1>5. PICK to : /\ Whole(to) /\ to.list = m.list /\ menu' = [menu EXCEPT ![selected] = to]
                /\ live => OnList(to)
  BY <1>4
<1>6. /\ menu'[selected] = to /\ \A d \in Devices : d # selected => menu'[d] = menu[d]
      /\ menu' = [d \in Devices |-> menu'[d]]
  BY <1>0, <1>2, <1>5 DEF Menus
<1>7. \A d \in Devices : menu'[d].list = menu[d].list /\ Whole(menu'[d])
  BY <1>0, <1>5, <1>6 DEF Menus
<1>8. Places' /\ pc'[Gui] = "top" /\ pc'[Io] = pc[Io]
  BY <1>0, <1>1, GotoIs DEF GuiLabels
<1>9. Queues' /\ Scalars' /\ Ordered' /\ Sources'
  BY <1>0, <1>1 DEF Queues, Scalars, Ordered, Sources, Linked, HasDevice
<1>10. Flags'
  BY <1>0, <1>3 DEF Flags
<1>11. Control'
  BY <1>0, <1>1, <1>8 DEF Control
<1>12. Current'
  <2>1. pc[Io] \in Emptied => wdev \in Devices
    BY <1>0 DEF Control, Emptied
  <2>. QED BY <1>0, <1>1, <1>7, <1>8, <2>1 DEF Current
<1>13. \A n, d : IsGame(n, d)' = IsGame(n, d)
  BY <1>1 DEF IsGame
<1>14. Menus'
  BY <1>0, <1>1, <1>6, <1>7, <1>13 DEF Menus
<1>15. Cursor'
  <2>. SUFFICES ASSUME ~stray', NEW d \in Devices PROVE OnList(menu'[d])
    BY DEF Cursor
  <2>1. ~stray /\ (live \/ m.list = << >>)
    BY <1>0, <1>3 DEF Flags
  <2>2. CASE d = selected /\ ~live
    BY <1>5, <1>6, <2>1, <2>2 DEF OnList
  <2>. QED BY <1>0, <1>5, <1>6, <2>1, <2>2 DEF Cursor
<1>16. Complete'
  BY <1>0, <1>1, <1>7, <1>8, <1>13 DEF Complete, Linked
<1>17. SortDue'
  <2>1. \A d, n : SortAhead(n, d)' = SortAhead(n, d) /\ SortToDo(d)' = SortToDo(d)
    BY <1>1 DEF SortAhead, SortQueued, SortToDo
  <2>2. \A d \in Devices : Ascending(d)' = Ascending(d)
    BY <1>1, <1>7 DEF Ascending
  <2>. QED BY <1>0, <1>1, <2>1, <2>2 DEF SortDue
<1>. QED BY <1>8, <1>9, <1>10, <1>11, <1>12, <1>14, <1>15, <1>16, <1>17 DEF IInv

-----------------------------------------------------------------------------
(* The theorems                                                            *)

\* At the start nothing is deferred and every menu is empty.
LEMMA InitHolds == Init => IInv
<1>. SUFFICES ASSUME Init PROVE IInv
  OBVIOUS
<1>1. Queues /\ Scalars /\ Flags
  <2>1. Queues
    BY DEF Init, Queues, Linked
  <2>2. Scalars
    BY DEF Init, Scalars
  <2>3. Flags
    BY DEF Init, Flags
  <2>. QED BY <2>1, <2>2, <2>3
<1>2. Places /\ Control
  BY DEF Init, Places, Control, GuiLabels, IoLabels
<1>3. Ordered /\ Sources /\ Current /\ Complete /\ SortDue
  <2>1. \A d \in Devices : menu[d].list = << >>
    BY EmptyIs DEF Init
  <2>. QED BY <2>1 DEF Init, Ordered, Sources, Current, Complete, SortDue, Members, Linked,
              Flushed, Emptied, Ascending
<1>4. Menus /\ Cursor
  BY EmptyIs DEF Init, Menus, Cursor, Members
<1>. QED BY <1>1, <1>2, <1>3, <1>4 DEF IInv

\* Every step of either thread preserves the invariant.
LEMMA StepHolds == IInv /\ [Next]_vars => IInv'
<1>. SUFFICES ASSUME IInv, [Next]_vars PROVE IInv'
  OBVIOUS
<1>1. CASE UNCHANGED vars
  <2>1. UNCHANGED <<content, pc, wdev, selected, gUpdateEnd, semaId, guiLockSema>>
    BY <1>1 DEF vars, content, queue, menuVars, work, nav
  <2>2. Scalars' /\ Places' /\ Control'
    BY <2>1 DEF IInv, Scalars, Places, Control, content, Linked
  <2>. QED BY <2>1, <2>2, MovesOnly
<1>2. ASSUME NEW t \in Threads, Shared(t) PROVE IInv'
  BY <1>2, SharedMoves, Defers, Applies DEF Shared
<1>3. CASE IoStep
  BY <1>2, <1>3, BeginsUpdate, WorkerMoves, Clears, Reads, InitPlans DEF IoStep
<1>4. CASE GuiStep
  BY <1>2, <1>4, GuiMoves, InitPlans, Navigates DEF GuiStep
<1>. QED BY <1>1, <1>3, <1>4 DEF Next

\* The invariant holds in every reachable state.
THEOREM Invariance == Spec => []IInv
BY InitHolds, StepHolds, PTL DEF Spec

\* Whatever the devices hold and whichever thread applies them: operations
\* take effect in the order in which guiDeferUpdate linked them, each once.
THEOREM OpsInOrder == Spec => AppliedInOrder
<1>1. IInv /\ [Next]_vars => [\A n \in applied' \ applied : \A k \in applied : k < n]_vars
  <2>. SUFFICES ASSUME IInv, Next PROVE \A n \in applied' \ applied : \A k \in applied : k < n
    BY DEF vars
  <2>1. ASSUME NEW t \in Threads, OpsStep(t)
        PROVE  \A n \in applied' \ applied : \A k \in applied : k < n
    <3>1. applied' \ applied \subseteq {Head(gUpdateList)} /\ gUpdateList # << >>
      BY <2>1 DEF OpsStep
    <3>2. Head(gUpdateList) \in Members(gUpdateList)
      BY <3>1, TailIs DEF IInv, Queues
    <3>. QED BY <3>1, <3>2 DEF IInv, Ordered
  <2>2. ASSUME NEW t \in Threads, Shared(t)
        PROVE  \A n \in applied' \ applied : \A k \in applied : k < n
    <3>1. OpsStep(t) \/ applied' = applied
      BY <2>2 DEF Shared, DeferWait, DeferLink, DeferSignal, OpsWait, OpsSignal, OpsNull
    <3>. QED BY <2>1, <3>1
  <2>3. (\E t \in Threads : Shared(t)) \/ applied' = applied
    BY DEF Next, IoStep, GuiStep, UpdateBegin, ClearTest, ClearLock, Clear, ClearUnlock,
       ItemUpdate, DeferredInit, StartFrame, Render, EndFrame, NoInput, InitSupport, NavRead,
       NavMove, Ask, DialogFrame, DialogFrameEnd, Confirmed, vars
  <2>. QED BY <2>2, <2>3
<1>. QED BY <1>1, Invariance, PTL DEF Spec, AppliedInOrder

\* For any devices and lists of games: the menu of a device never mixes two
\* readings of it, and holds nothing of another device.
THEOREM MenusHoldOneReading == Spec => []OneReading
<1>1. IInv => OneReading
  <2>. SUFFICES ASSUME IInv PROVE OneReading
    OBVIOUS
  <2>1. TypeOK
    BY DEF IInv, Queues, Scalars, Places, Menus, TypeOK
  <2>. QED BY <2>1 DEF IInv, Menus, IsGame, OneReading
<1>. QED BY <1>1, Invariance, PTL

\* For any devices and lists of games: when the worker rests and nothing is
\* deferred, each menu shows the last reading of its device, all of it and in
\* order, unless an operation was lost, with the cursor on one of its games
\* unless a key press has followed a freed node.
THEOREM MenusAreComplete == Spec => []MenuIsComplete
<1>1. IInv => MenuIsComplete
  <2>. SUFFICES ASSUME IInv, lost = {}, pc[Io] = "idle", gUpdateList = << >>, NEW d \in Devices
                PROVE  LET m     == menu[d]
                           games == {n \in 1 .. Len(ops) : /\ ops[n].type = "APPEND_MENU"
                                                           /\ ops[n].dev = d /\ ops[n].gen = gen[d]}
                       IN  /\ Members(m.list) = games
                           /\ Len(m.list) = Cardinality(games)
                           /\ Autosort => \A i \in 1 .. Len(m.list) - 1 :
                                ops[m.list[i]].title <= ops[m.list[i + 1]].title
                           /\ ~stray /\ games # {} => {m.current, m.pagestart} \subseteq games
    BY DEF MenuIsComplete
  <2>. DEFINE l     == menu[d].list
              games == {n \in 1 .. Len(ops) : /\ ops[n].type = "APPEND_MENU"
                                              /\ ops[n].dev = d /\ ops[n].gen = gen[d]}
  <2>1. l \in Seq(Nat \ {0}) /\ NoRepeat(l) /\ Members(gUpdateList) = {}
    BY Fields DEF IInv, Menus, Members
  <2>2. Members(l) = games
    <3>1. Members(l) \subseteq games
      BY DEF IInv, Queues, Menus, IsGame, Linked
    <3>2. games \subseteq Members(l)
      BY <2>1 DEF IInv, Complete, IsGame, Linked, Emptied
    <3>. QED BY <3>1, <3>2
  <2>3. Len(l) = Cardinality(games)
    BY <2>1, <2>2, Counted
  <2>4. Autosort => \A i \in 1 .. Len(l) - 1 : ops[l[i]].title <= ops[l[i + 1]].title
    <3>. SUFFICES ASSUME Autosort, NEW i \in 1 .. Len(l) - 1
                  PROVE  ops[l[i]].title <= ops[l[i + 1]].title
      OBVIOUS
    <3>1. todo[Io] = << >>
      BY DEF IInv, Control
    <3>2. Ascending(d)
      BY <2>1, <3>1 DEF IInv, SortDue, SortAhead, SortQueued, SortToDo
    <3>3. i \in 1 .. Len(l) /\ i + 1 \in 1 .. Len(l) /\ i < i + 1
      BY <2>1
    <3>. QED BY <3>2, <3>3 DEF Ascending
  <2>5. ~stray /\ games # {} => {menu[d].current, menu[d].pagestart} \subseteq games
    BY <2>1, <2>2, MembersIs, SMTT(30) DEF IInv, Cursor, OnList
  <2>. QED BY <2>2, <2>3, <2>4, <2>5
<1>. QED BY <1>1, Invariance, PTL

-----------------------------------------------------------------------------
(* The two semaphores                                                      *)

Holds(t)   == pc[t] \in {"dlink", "dsignal", "ops"}
GuiFrame   == pc[Gui] \in {"render", "opswait", "ops", "opsnull", "vsync", "dlgframe"}
IoClearing == pc[Io] \in {"clear", "unlock"}

\* A semaphore is taken exactly while one thread is in a section it protects.
\* The GUI thread also links operations, but never in a frame.
Accounts ==
  /\ semaId = 0 <=> Holds(Gui) \/ Holds(Io)
  /\ ~(Holds(Gui) /\ Holds(Io))
  /\ guiLockSema = 0 <=> GuiFrame \/ IoClearing
  /\ ~(GuiFrame /\ IoClearing)

\* The thread waits for a semaphore that is taken.
Waiting(t) ==
  \/ pc[t] \in {"dwait", "opswait"} /\ semaId = 0
  \/ pc[t] \in {"top", "dlg", "clearlock"} /\ guiLockSema = 0

NoEmbrace == ~(Waiting(Gui) /\ Waiting(Io))

\* Every operation takes and gives back what the accounts say.
LEMMA AccountsKept == IInv /\ Accounts /\ [Next]_vars => Accounts'
<1>. SUFFICES ASSUME IInv, Accounts, [Next]_vars PROVE Accounts'
  OBVIOUS
<1>1. /\ Gui \in Threads /\ Io \in Threads /\ Gui # Io
      /\ pc \in [Threads -> GuiLabels \cup IoLabels]
      /\ pc[Gui] \in GuiLabels /\ pc[Io] \in IoLabels
      /\ semaId \in {0, 1} /\ guiLockSema \in {0, 1}
  BY DEF IInv, Places, Scalars, Threads, Gui, Io
<1>2. ASSUME NEW t \in Threads, Shared(t) PROVE Accounts'
  <2>1. t = Gui \/ t = Io
    BY DEF Threads
  <2>2. CASE DeferWait(t) \/ OpsWait(t)
    BY <1>1, <2>1, <2>2 DEF Accounts, Holds, GuiFrame, IoClearing, DeferWait, OpsWait, Goto, WaitSema
  <2>3. CASE DeferLink(t)
    BY <1>1, <2>1, <2>3 DEF Accounts, Holds, GuiFrame, IoClearing, DeferLink, Goto
  <2>4. CASE DeferSignal(t)
    BY <1>1, <2>1, <2>4 DEF Accounts, Holds, GuiFrame, IoClearing, DeferSignal, Goto, Caller, SignalSema
  <2>5. CASE OpsStep(t)
    BY <2>5 DEF Accounts, Holds, GuiFrame, IoClearing, OpsStep
  <2>6. CASE OpsSignal(t)
    BY <1>1, <2>1, <2>6 DEF Accounts, Holds, GuiFrame, IoClearing, OpsSignal, Goto, SignalSema
  <2>7. CASE OpsNull(t)
    BY <1>1, <2>1, <2>7 DEF Accounts, Holds, GuiFrame, IoClearing, OpsNull, Goto
  <2>. QED BY <1>2, <2>2, <2>3, <2>4, <2>5, <2>6, <2>7 DEF Shared
<1>3. ASSUME NEW d \in Devices, UpdateBegin(d) \/ InitSupport(d) PROVE Accounts'
  BY <1>1, <1>3 DEF Accounts, Holds, GuiFrame, IoClearing, UpdateBegin, InitSupport, Goto
<1>4. CASE ClearTest \/ ClearLock \/ Clear \/ ClearUnlock
  BY <1>1, <1>4 DEF Accounts, Holds, GuiFrame, IoClearing, ClearTest, ClearLock, Clear,
     ClearUnlock, Goto, guiLock, guiUnlock
<1>5. CASE ItemUpdate \/ DeferredInit
  BY <1>1, <1>5 DEF Accounts, Holds, GuiFrame, IoClearing, ItemUpdate, DeferredInit, Goto
<1>6. CASE StartFrame \/ Render \/ EndFrame \/ NoInput
  BY <1>1, <1>6 DEF Accounts, Holds, GuiFrame, IoClearing, StartFrame, Render, EndFrame,
     NoInput, Goto, guiLock, guiUnlock
<1>7. CASE NavRead \/ NavMove \/ Ask \/ Confirmed
  BY <1>1, <1>7 DEF Accounts, Holds, GuiFrame, IoClearing, NavRead, NavMove, Ask, Confirmed, Goto
<1>8. CASE DialogFrame \/ DialogFrameEnd
  BY <1>1, <1>8 DEF Accounts, Holds, GuiFrame, IoClearing, DialogFrame, DialogFrameEnd, Goto,
     guiLock, guiUnlock
<1>9. CASE UNCHANGED vars
  BY <1>9 DEF Accounts, Holds, GuiFrame, IoClearing, vars
<1>. QED BY <1>1, <1>2, <1>3, <1>4, <1>5, <1>6, <1>7, <1>8, <1>9 DEF Next, IoStep, GuiStep

\* For any devices, lists and schedules: the two threads never wait for each
\* other, although the GUI thread waits for gSemaId inside its frame, with the
\* GUI lock, and the worker takes both semaphores.
THEOREM NeverEmbraced == Spec => []NoEmbrace
<1>1. Init => Accounts
  BY DEF Init, Accounts, Holds, GuiFrame, IoClearing, Threads, Gui, Io
<1>2. IInv /\ Accounts => NoEmbrace
  BY DEF IInv, Places, Accounts, Holds, GuiFrame, IoClearing, NoEmbrace, Waiting, GuiLabels,
     IoLabels
<1>. QED BY <1>1, <1>2, AccountsKept, Invariance, PTL DEF Spec
=============================================================================
