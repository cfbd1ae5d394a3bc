--------------------------- MODULE MenuNavProofs ---------------------------
(***************************************************************************)
(* Machine-checked proofs about MenuNav, for any devices, titles, number   *)
(* of nodes and page lengths, and about SubmenuSort, for lists of any      *)
(* length.                                                                 *)
(***************************************************************************)
EXTENDS MenuNav, SubmenuSort, FiniteSetTheorems, WellFoundedInduction, TLAPS

-----------------------------------------------------------------------------
(* Lists                                                                   *)

NoRepeat(l) == \A i, j \in 1 .. Len(l) : l[i] = l[j] => i = j

\* A node linked at the end of a list.
LEMMA AppendIs ==
  ASSUME NEW S, NEW l \in Seq(S), NEW n \in S
  PROVE  /\ Append(l, n) \in Seq(S) /\ Append(l, n) # << >>
         /\ Len(Append(l, n)) = Len(l) + 1
         /\ \A i \in 1 .. Len(l) : Append(l, n)[i] = l[i]
         /\ Append(l, n)[Len(l) + 1] = n
         /\ Members(Append(l, n)) = Members(l) \cup {n}
<1>1. /\ Append(l, n) \in Seq(S) /\ Append(l, n) # << >>
      /\ Len(Append(l, n)) = Len(l) + 1
      /\ \A i \in 1 .. Len(l) : Append(l, n)[i] = l[i]
      /\ Append(l, n)[Len(l) + 1] = n
  OBVIOUS
<1>. DEFINE k == Len(l)
<1>2. k \in Nat /\ 1 .. k + 1 = 1 .. k \cup {k + 1}
  OBVIOUS
<1>. QED BY <1>1, <1>2 DEF Members

\* A list with nodes has members, and they are of its type.
LEMMA MembersIs ==
  ASSUME NEW S, NEW l \in Seq(S)
  PROVE  /\ Members(l) \subseteq S /\ Len(l) \in Nat
         /\ l = << >> <=> Members(l) = {}
         /\ l # << >> => l[1] \in Members(l)
         /\ \A i \in 1 .. Len(l) : l[i] \in Members(l)
<1>1. /\ Members(l) \subseteq S /\ Len(l) \in Nat
      /\ \A i \in 1 .. Len(l) : l[i] \in Members(l)
  BY DEF Members
<1>2. l # << >> => 1 \in 1 .. Len(l)
  OBVIOUS
<1>3. l = << >> => Members(l) = {}
  BY DEF Members
<1>. QED BY <1>1, <1>2, <1>3

\* InOrder is a permutation of the list.
LEMMA InOrderPermutes ==
  ASSUME NEW S, NEW l \in Seq(S), NEW str, \A i \in 1 .. Len(l) : str[l[i]] \in Nat
  PROVE  /\ InOrder(l, str) \in Seq(S)
         /\ Len(InOrder(l, str)) = Len(l)
         /\ Members(InOrder(l, str)) = Members(l)
         /\ NoRepeat(l) => NoRepeat(InOrder(l, str))
<1>. DEFINE N == Len(l)
            Before(i, j) == \/ str[l[i]] < str[l[j]]
                            \/ str[l[i]] = str[l[j]] /\ i < j
            Below(j) == {i \in 1 .. N : Before(i, j)}
            Rank(j) == Cardinality(Below(j))
            Pos(r) == CHOOSE j \in 1 .. N : Rank(j) = r - 1
            s == [r \in 1 .. N |-> l[Pos(r)]]
<1>0. N \in Nat /\ InOrder(l, str) = s
  BY DEF InOrder
<1>1. /\ \A i \in 1 .. N : ~Before(i, i)
      /\ \A i, j \in 1 .. N : i # j => Before(i, j) \/ Before(j, i)
      /\ \A i, j, k \in 1 .. N : Before(i, j) /\ Before(j, k) => Before(i, k)
  OBVIOUS
<1>. HIDE DEF Before
<1>2. \A j \in 1 .. N : IsFiniteSet(Below(j)) /\ Rank(j) \in 0 .. N - 1
  <2>. SUFFICES ASSUME NEW j \in 1 .. N PROVE IsFiniteSet(Below(j)) /\ Rank(j) \in 0 .. N - 1
    OBVIOUS
  <2>1. IsFiniteSet(1 .. N) /\ Cardinality(1 .. N) = N
    BY <1>0, FS_Interval
  <2>2. IsFiniteSet((1 .. N) \ {j}) /\ Cardinality((1 .. N) \ {j}) = N - 1
    BY <2>1, FS_RemoveElement
  <2>3. Below(j) \in SUBSET ((1 .. N) \ {j})
    BY <1>1
  <2>4. IsFiniteSet(Below(j)) /\ Rank(j) <= N - 1
    BY <2>2, <2>3, FS_Subset
  <2>5. Rank(j) \in Nat
    BY <2>4, FS_CardinalityType
  <2>. QED BY <2>4, <2>5, <1>0
<1>3. ASSUME NEW i \in 1 .. N, NEW j \in 1 .. N, Before(i, j) PROVE Rank(i) < Rank(j)
  <2>1. Below(i) \in SUBSET Below(j) /\ i \in Below(j) /\ i \notin Below(i)
    BY <1>1, <1>3
  <2>2. Rank(i) <= Rank(j) /\ Rank(i) # Rank(j)
    BY <1>2, <2>1, FS_Subset
  <2>3. Rank(i) \in Int /\ Rank(j) \in Int
    <3>. HIDE DEF Rank, N
    <3>1. Rank(i) \in 0 .. N - 1 /\ Rank(j) \in 0 .. N - 1
      BY <1>2
    <3>. QED BY <1>0, <3>1
  <2>. QED BY <2>2, <2>3
<1>. HIDE DEF Below
<1>4. \A i, j \in 1 .. N : Rank(i) = Rank(j) => i = j
  BY <1>1, <1>2, <1>3
<1>. HIDE DEF Rank
<1>5. \A r \in 1 .. N : \E j \in 1 .. N : Rank(j) = r - 1
  <2>. DEFINE f == [j \in 1 .. N |-> Rank(j)]
  <2>1. f \in Injection(1 .. N, 0 .. N - 1)
    BY <1>2, <1>4 DEF Injection, IsInjective
  <2>2. /\ IsFiniteSet(0 .. N - 1)
        /\ Cardinality(1 .. N) = N /\ Cardinality(0 .. N - 1) = N
    <3>. HIDE DEF N
    <3>1. N \in Int /\ N - 1 \in Int /\ 0 \in Int /\ 1 \in Int
      BY <1>0
    <3>2. /\ IsFiniteSet(0 .. N - 1)
          /\ Cardinality(0 .. N - 1) = IF 0 > N - 1 THEN 0 ELSE N - 1 - 0 + 1
      BY <3>1, FS_Interval
    <3>3. Cardinality(1 .. N) = IF 1 > N THEN 0 ELSE N - 1 + 1
      BY <3>1, FS_Interval
    <3>. QED BY <1>0, <3>2, <3>3
  <2>3. f \in Surjection(1 .. N, 0 .. N - 1)
    BY <2>1, <2>2, FS_Injection
  <2>4. \A r \in 1 .. N : r - 1 \in 0 .. N - 1
    BY <1>0
  <2>. QED BY <2>3, <2>4 DEF Surjection
<1>6. \A r \in 1 .. N : Pos(r) \in 1 .. N /\ Rank(Pos(r)) = r - 1
  BY <1>5
<1>7. \A i \in 1 .. N : Rank(i) + 1 \in 1 .. N /\ Pos(Rank(i) + 1) = i
  <2>. HIDE DEF Pos, N
  <2>. SUFFICES ASSUME NEW i \in 1 .. N PROVE Rank(i) + 1 \in 1 .. N /\ Pos(Rank(i) + 1) = i
    OBVIOUS
  <2>1. Rank(i) \in 0 .. N - 1
    BY <1>2
  <2>2. Rank(i) + 1 \in 1 .. N /\ (Rank(i) + 1) - 1 = Rank(i)
    BY <2>1, <1>0
  <2>3. Pos(Rank(i) + 1) \in 1 .. N /\ Rank(Pos(Rank(i) + 1)) = Rank(i)
    BY <1>6, <2>2
  <2>. QED BY <1>4, <2>2, <2>3
<1>. HIDE DEF Pos, N
<1>8. s \in Seq(S) /\ Len(s) = N /\ \A r \in 1 .. N : s[r] = l[Pos(r)]
  <2>1. \A r \in 1 .. N : l[Pos(r)] \in S
    BY <1>6 DEF N
  <2>2. s \in [1 .. N -> S]
    BY <2>1
  <2>. QED BY <2>2, <1>0
<1>. HIDE DEF s
<1>9. Members(s) = Members(l)
  <2>1. Members(s) \subseteq Members(l)
    BY <1>6, <1>8 DEF Members, N
  <2>2. ASSUME NEW i \in 1 .. N PROVE l[i] \in Members(s)
    <3>1. l[i] = s[Rank(i) + 1]
      BY <1>7, <1>8
    <3>. QED BY <3>1, <1>7, <1>8 DEF Members
  <2>3. Members(l) \subseteq Members(s)
    BY <2>2 DEF Members, N
  <2>. QED BY <2>1, <2>3
<1>10. NoRepeat(l) => NoRepeat(s)
  <2>. SUFFICES ASSUME NoRepeat(l), NEW i \in 1 .. N, NEW j \in 1 .. N, s[i] = s[j]
                PROVE  i = j
    BY <1>8 DEF NoRepeat
  <2>1. Pos(i) = Pos(j)
    BY <1>6, <1>8 DEF NoRepeat, N
  <2>2. i - 1 = j - 1
    BY <1>6, <2>1
  <2>. QED BY <2>2, <1>0
<1>. QED BY <1>0, <1>8, <1>9, <1>10 DEF N

\* The place of a node of the list.
LEMMA AtIs ==
  ASSUME NEW S, NEW l \in Seq(S)
  PROVE  /\ \A n \in Members(l) : At(l, n) \in 1 .. Len(l) /\ l[At(l, n)] = n
         /\ NoRepeat(l) => \A i \in 1 .. Len(l) : At(l, l[i]) = i
<1>1. \A n \in Members(l) : At(l, n) \in 1 .. Len(l) /\ l[At(l, n)] = n
  BY DEF Members, At
<1>2. \A i \in 1 .. Len(l) : l[i] \in Members(l)
  BY DEF Members
<1>. QED BY <1>1, <1>2 DEF NoRepeat

\* A set of places has a first and a last one.
LEMMA Ends ==
  ASSUME NEW N \in Nat, NEW P \in SUBSET (1 .. N), P # {}
  PROVE  /\ \E k \in P : \A j \in P : k <= j
         /\ \E k \in P : \A j \in P : k >= j
<1>. DEFINE R == OpToRel(<, Nat)
<1>1. ASSUME NEW S, S \subseteq Nat, S # {} PROVE \E k \in S : \A j \in S : k <= j
  <2>1. PICK x \in S : \A y \in S : ~(<<y, x>> \in R)
    BY <1>1, WFMin, NatLessThanWellFounded
  <2>2. \A x0, y \in Nat : y < x0 => <<y, x0>> \in R
    BY DEF OpToRel
  <2>. HIDE DEF R
  <2>3. ASSUME NEW y \in S PROVE x <= y
    <3>1. x \in Nat /\ y \in Nat
      BY <1>1
    <3>2. ~(y < x)
      BY <2>1, <2>2, <3>1
    <3>. QED BY <3>1, <3>2
  <2>. QED BY <2>3
<1>. HIDE DEF R
<1>2. \E k \in P : \A j \in P : k <= j
  <2>1. P \subseteq Nat
    OBVIOUS
  <2>. QED BY <1>1, <2>1
<1>. DEFINE Q == {N - k : k \in P}
<1>3. Q \subseteq Nat /\ Q # {}
  <2>1. \A k \in P : N - k \in Nat
    OBVIOUS
  <2>. QED BY <2>1
<1>4. PICK q \in Q : \A j \in Q : q <= j
  BY <1>1, <1>3
<1>5. PICK k \in P : q = N - k
  OBVIOUS
<1>6. ASSUME NEW j \in P PROVE k >= j
  <2>1. N - k <= N - j
    BY <1>4, <1>5
  <2>2. k \in Nat /\ j \in Nat
    OBVIOUS
  <2>. QED BY <2>1, <2>2
<1>. QED BY <1>2, <1>6

-----------------------------------------------------------------------------
(* Menus                                                                   *)

MenuRecs == [list : Seq(Nat \ {0}), submenu : Nat, current : Nat, pagestart : Nat,
             remindLast : BOOLEAN]

\* The cursor of a list with games is on the page of D items that is shown.
Sound(m, D) ==
  /\ m \in MenuRecs /\ NoRepeat(m.list)
  /\ m.list = << >> => m.submenu = NULL /\ m.current = NULL /\ m.pagestart = NULL
  /\ m.list # << >> => /\ m.submenu = m.list[1]
                       /\ {m.current, m.pagestart} \subseteq Members(m.list)
                       /\ OnPage(m, m.current, D)

\* What is known of the fields of such a menu.
LEMMA Fields ==
  ASSUME NEW D, NEW m, Sound(m, D)
  PROVE  /\ m.list \in Seq(Nat \ {0}) /\ m.remindLast \in BOOLEAN
         /\ m.submenu = NULL <=> m.list = << >>
         /\ m.current = NULL <=> m.list = << >>
         /\ m.pagestart = NULL <=> m.list = << >>
<1>1. m.list \in Seq(Nat \ {0}) /\ m.remindLast \in BOOLEAN
  BY DEF Sound, MenuRecs
<1>2. Members(m.list) \subseteq Nat \ {0} /\ (m.list # << >> => m.list[1] \in Members(m.list))
  BY <1>1, MembersIs
<1>. QED BY <1>1, <1>2 DEF Sound, NULL

\* A cursor and a page that are put on two places of the list not more than a
\* page apart.
LEMMA Placed ==
  ASSUME NEW D \in Nat \ {0}, NEW m \in MenuRecs, NoRepeat(m.list),
         m.list # << >>, m.submenu = m.list[1],
         NEW i \in 1 .. Len(m.list), NEW p \in 1 .. Len(m.list), p <= i, i < p + D,
         m.current = m.list[i], m.pagestart = m.list[p]
  PROVE  Sound(m, D)
<1>1. m.list \in Seq(Nat \ {0})
  BY DEF MenuRecs
<1>2. At(m.list, m.current) = i /\ At(m.list, m.pagestart) = p
  BY <1>1, AtIs
<1>3. {m.current, m.pagestart} \subseteq Members(m.list)
  BY <1>1, MembersIs
<1>. QED BY <1>2, <1>3 DEF Sound, OnPage

\* The places of the cursor and of the page of a list with games.
LEMMA Places ==
  ASSUME NEW D \in Nat \ {0}, NEW m, Sound(m, D), m.list # << >>
  PROVE  /\ At(m.list, m.current) \in 1 .. Len(m.list)
         /\ At(m.list, m.pagestart) \in 1 .. Len(m.list)
         /\ m.current = m.list[At(m.list, m.current)]
         /\ m.pagestart = m.list[At(m.list, m.pagestart)]
         /\ At(m.list, m.pagestart) <= At(m.list, m.current)
         /\ At(m.list, m.current) < At(m.list, m.pagestart) + D
         /\ Len(m.list) \in Nat \ {0} /\ Len(m.list) \in 1 .. Len(m.list)
         /\ 1 \in 1 .. Len(m.list)
<1>1. m.list \in Seq(Nat \ {0})
  BY Fields
<1>2. At(m.list, m.current) \in 1 .. Len(m.list) /\ At(m.list, m.pagestart) \in 1 .. Len(m.list)
      /\ m.current = m.list[At(m.list, m.current)]
      /\ m.pagestart = m.list[At(m.list, m.pagestart)]
  BY <1>1, AtIs DEF Sound
<1>3. Len(m.list) \in Nat \ {0}
  BY <1>1
<1>. QED BY <1>2, <1>3 DEF Sound, OnPage

\* The menu with its cursor and its page put on two places of the list.
Put(m, i, p) == [m EXCEPT !.current = m.list[i], !.pagestart = m.list[p]]

\* The cursor and the page move within the list.
LEMMA Moved ==
  ASSUME NEW D \in Nat \ {0}, NEW m, Sound(m, D), m.list # << >>,
         NEW i \in 1 .. Len(m.list), NEW p \in 1 .. Len(m.list), p <= i, i < p + D
  PROVE  Sound(Put(m, i, p), D) /\ Put(m, i, p).list = m.list
<1>. DEFINE c == m.list[i]
            q == m.list[p]
            a == Put(m, i, p)
<1>1. m \in MenuRecs /\ NoRepeat(m.list) /\ m.submenu = m.list[1]
  BY DEF Sound
<1>2. c \in Nat /\ q \in Nat
  BY Fields
<1>3. /\ a \in MenuRecs /\ a.list = m.list /\ a.submenu = m.submenu
      /\ a.current = c /\ a.pagestart = q
  <2>1. a = [m EXCEPT !.current = c, !.pagestart = q]
    BY DEF Put
  <2>. HIDE DEF a, c, q
  <2>. QED BY <1>1, <1>2, <2>1 DEF MenuRecs
<1>. HIDE DEF a
<1>4. Sound(a, D)
  BY <1>1, <1>3, Placed
<1>. QED BY <1>3, <1>4 DEF a

\* Every key press keeps the cursor on the page, whether it moves by one item or
\* by a page, and at both ends of the list.
LEMMA MovesKeepPage ==
  ASSUME NEW D \in Nat \ {0}, NEW m, Sound(m, D), NEW to \in Moves(m, D)
  PROVE  Sound(to, D) /\ to.list = m.list
<1>1. CASE m.list = << >>
  <2>1. to = m
    BY <1>1, Fields DEF Moves, NextV, PrevV, NextPage, PrevPage, FirstPage, LastPage
  <2>. QED BY <2>1
<1>2. CASE m.list # << >>
  <2>. DEFINE l == m.list
              N == Len(l)
              i == At(l, m.current)
              p == At(l, m.pagestart)
  <2>1. /\ i \in 1 .. N /\ p \in 1 .. N /\ p <= i /\ i < p + D
        /\ N \in Nat \ {0} /\ N \in 1 .. N /\ 1 \in 1 .. N
        /\ m.current = l[i] /\ m.pagestart = l[p]
    BY <1>2, Places
  <2>2. /\ m.current # NULL /\ m.pagestart # NULL /\ l \in Seq(Nat \ {0})
        /\ NoRepeat(l) /\ m.submenu = l[1] /\ m \in MenuRecs
    BY <1>2, Fields DEF Sound
  <2>3. At(l, l[N]) = N
    BY <2>1, <2>2, AtIs
  <2>4. ASSUME NEW x \in 1 .. N, NEW y \in 1 .. N, y <= x, x < y + D
        PROVE  Sound(Put(m, x, y), D) /\ Put(m, x, y).list = m.list
    BY <1>2, <2>4, Moved
  <2>5. \A x \in 1 .. N : Sound(Put(m, x, x), D) /\ Put(m, x, x).list = m.list
    <3>1. \A x \in 1 .. N : x <= x /\ x < x + D
      OBVIOUS
    <3>. QED BY <2>4, <3>1
  <2>6. FirstPage(m) = Put(m, 1, 1)
    BY <2>2 DEF FirstPage, Put
  <2>7. Sound(FirstPage(m), D) /\ FirstPage(m).list = m.list
    BY <2>1, <2>5, <2>6
  <2>8. Sound(LastPage(m, D), D) /\ LastPage(m, D).list = m.list
    <3>. DEFINE y == IF N > D - 1 THEN N - (D - 1) ELSE 1
    <3>1. y \in 1 .. N /\ y <= N /\ N < y + D
      BY <2>1
    <3>2. LastPage(m, D) = Put(m, N, y)
      BY <2>2, <2>3 DEF LastPage, Put, Backward
    <3>. HIDE DEF y, N
    <3>. QED BY <2>1, <2>4, <3>1, <3>2
  <2>9. CASE to = m
    BY <2>9
  <2>10. CASE to = NextV(m, D)
    <3>1. CASE i < N
      <4>. DEFINE n == l[i + 1]
                  y == IF OnPage(m, n, D) THEN p ELSE i + 1
      <4>1. i + 1 \in 1 .. N /\ At(l, n) = i + 1
        BY <2>1, <2>2, <3>1, AtIs
      <4>2. Forward(l, m.current, 1) = n
        BY <2>1, <3>1 DEF Forward
      <4>3. y \in 1 .. N /\ y <= i + 1 /\ i + 1 < y + D
        BY <2>1, <4>1 DEF OnPage
      <4>4. to = Put(m, i + 1, y)
        BY <2>1, <2>2, <2>10, <3>1, <4>2 DEF NextV, HasNext, Put
      <4>. HIDE DEF y, N, i
      <4>. QED BY <2>4, <4>1, <4>3, <4>4
    <3>2. CASE ~(i < N)
      BY <2>2, <2>7, <2>10, <3>2 DEF NextV, HasNext
    <3>. QED BY <3>1, <3>2
  <2>11. CASE to = PrevV(m, D)
    <3>1. CASE i > 1
      <4>. DEFINE y == IF m.pagestart = m.current THEN (IF p > D THEN p - D ELSE 1) ELSE p
      <4>1. i - 1 \in 1 .. N /\ Backward(l, m.current, 1) = l[i - 1]
        BY <2>1, <3>1 DEF Backward
      <4>2. m.pagestart = m.current <=> p = i
        BY <2>1
      <4>3. y \in 1 .. N /\ y <= i - 1 /\ i - 1 < y + D
        BY <2>1, <3>1, <4>2
      <4>4. to = [m EXCEPT !.current = l[i - 1],
                           !.pagestart = IF m.pagestart = m.current
                                         THEN Backward(l, m.pagestart, D) ELSE m.pagestart]
        BY <2>2, <2>11, <3>1, <4>1 DEF PrevV, HasPrev
      <4>5. (IF m.pagestart = m.current THEN Backward(l, m.pagestart, D)
             ELSE m.pagestart) = l[y]
        BY <2>1 DEF Backward
      <4>6. to = Put(m, i - 1, y)
        BY <4>4, <4>5, Zenon DEF Put
      <4>. HIDE DEF y, N, i
      <4>. QED BY <2>4, <4>1, <4>3, <4>6
    <3>2. CASE ~(i > 1)
      BY <2>2, <2>8, <2>11, <3>2 DEF PrevV, HasPrev
    <3>. QED BY <3>1, <3>2
  <2>12. CASE to = NextPage(m, D)
    <3>1. CASE p < N
      <4>. DEFINE x == IF p + D > N THEN N ELSE p + D
      <4>1. x \in 1 .. N
        BY <2>1
      <4>2. to = Put(m, x, x)
        BY <2>2, <2>12, <3>1 DEF NextPage, HasNext, Forward, Put
      <4>. HIDE DEF x, N
      <4>. QED BY <2>5, <4>1, <4>2
    <3>2. CASE ~(p < N)
      BY <2>2, <2>7, <2>12, <3>2 DEF NextPage, HasNext
    <3>. QED BY <3>1, <3>2
  <2>13. CASE to = PrevPage(m, D)
    <3>1. CASE p > 1
      <4>. DEFINE x == IF p > D THEN p - D ELSE 1
      <4>1. x \in 1 .. N
        BY <2>1
      <4>2. to = Put(m, x, x)
        BY <2>2, <2>13, <3>1 DEF PrevPage, HasPrev, Backward, Put
      <4>. HIDE DEF x, N
      <4>. QED BY <2>5, <4>1, <4>2
    <3>2. CASE ~(p > 1)
      BY <2>2, <2>8, <2>13, <3>2 DEF PrevPage, HasPrev
    <3>. QED BY <3>1, <3>2
  <2>14. CASE to = FirstPage(m)
    BY <2>7, <2>14
  <2>15. CASE to = LastPage(m, D)
    BY <2>8, <2>15
  <2>. QED BY <2>9, <2>10, <2>11, <2>12, <2>13, <2>14, <2>15 DEF Moves
<1>. QED BY <1>1, <1>2

\* GUI_OP_APPEND_MENU with a node that is not in the list: the old cursor and
\* page stay where they are, or both move to the new item.
LEMMA AppendedKeepsPage ==
  ASSUME NEW D \in Nat \ {0}, NEW m, Sound(m, D),
         NEW n \in Nat \ {0}, n \notin Members(m.list), NEW sel \in BOOLEAN
  PROVE  /\ Sound(Appended(m, n, sel), D)
         /\ Members(Appended(m, n, sel).list) = Members(m.list) \cup {n}
<1>. DEFINE l == Append(m.list, n)
            first == m.submenu = NULL
            s == IF first THEN n ELSE m.submenu
            c == IF first \/ sel THEN n ELSE m.current
            p == IF first \/ sel THEN n ELSE m.pagestart
            b == m.remindLast \/ sel
            a == Appended(m, n, sel)
            N == Len(m.list)
<1>1. /\ m \in MenuRecs /\ m.list \in Seq(Nat \ {0}) /\ NoRepeat(m.list) /\ N \in Nat
      /\ m.submenu \in Nat /\ m.current \in Nat /\ m.pagestart \in Nat
      /\ m.remindLast \in BOOLEAN
      /\ first <=> m.list = << >>
  BY Fields, SMTT(30) DEF Sound, MenuRecs
<1>2. /\ l \in Seq(Nat \ {0}) /\ l # << >> /\ Len(l) = N + 1 /\ l[N + 1] = n
      /\ \A i \in 1 .. N : l[i] = m.list[i]
      /\ Members(l) = Members(m.list) \cup {n}
  <2>1. m.list \in Seq(Nat \ {0})
    BY <1>1
  <2>2. ASSUME NEW q \in Seq(Nat \ {0})
        PROVE  /\ Append(q, n) \in Seq(Nat \ {0}) /\ Append(q, n) # << >>
               /\ Len(Append(q, n)) = Len(q) + 1 /\ Append(q, n)[Len(q) + 1] = n
               /\ \A i \in 1 .. Len(q) : Append(q, n)[i] = q[i]
               /\ Members(Append(q, n)) = Members(q) \cup {n}
    BY AppendIs
  <2>. QED BY <2>1, <2>2
<1>3. s \in Nat /\ c \in Nat /\ p \in Nat /\ b \in BOOLEAN
  BY <1>1
<1>4. a \in MenuRecs /\ a.list = l /\ a.submenu = s /\ a.current = c /\ a.pagestart = p
  <2>1. a = [m EXCEPT !.list = l, !.submenu = s, !.current = c, !.pagestart = p,
                      !.remindLast = b]
    BY DEF Appended
  <2>. HIDE DEF a, l, s, c, p, b
  <2>. QED BY <1>1, <1>2, <1>3, <2>1 DEF MenuRecs
<1>. HIDE DEF a
<1>5. NoRepeat(l)
  <2>1. \A i \in 1 .. N : m.list[i] # n
    BY DEF Members
  <2>. HIDE DEF l
  <2>2. \A i \in 1 .. N + 1 : i \in 1 .. N \/ i = N + 1
    BY <1>1
  <2>. QED BY <1>1, <1>2, <2>1, <2>2, ZenonT(30) DEF NoRepeat
<1>6. s = l[1]
  <2>1. CASE m.list = << >>
    BY <1>1, <1>2, <2>1
  <2>2. CASE m.list # << >>
    <3>1. 1 \in 1 .. N /\ m.submenu = m.list[1]
      BY <1>1, <2>2 DEF Sound
    <3>. QED BY <1>1, <1>2, <2>2, <3>1
  <2>. QED BY <2>1, <2>2
<1>7. Sound(a, D)
  <2>1. CASE first \/ sel
    <3>1. N + 1 \in 1 .. Len(l) /\ N + 1 <= N + 1 /\ N + 1 < N + 1 + D
      BY <1>1, <1>2
    <3>2. c = l[N + 1] /\ p = l[N + 1]
      BY <1>2, <2>1
    <3>. HIDE DEF l, N, c, p, s
    <3>. QED BY <1>2, <1>4, <1>5, <1>6, <3>1, <3>2, Placed
  <2>2. CASE ~(first \/ sel)
    <3>. DEFINE i == At(m.list, m.current)
                q == At(m.list, m.pagestart)
    <3>1. /\ i \in 1 .. N /\ q \in 1 .. N /\ m.current = m.list[i] /\ m.pagestart = m.list[q]
          /\ q <= i /\ i < q + D
      BY <1>1, <2>2, Places
    <3>. HIDE DEF i, q
    <3>2. c = l[i] /\ p = l[q]
      BY <1>2, <2>2, <3>1
    <3>3. i \in 1 .. Len(l) /\ q \in 1 .. Len(l)
      BY <1>1, <1>2, <3>1, SMTT(30)
    <3>. HIDE DEF l, N, c, p, s
    <3>. QED BY <1>2, <1>4, <1>5, <1>6, <3>1, <3>2, <3>3, Placed
  <2>. QED BY <2>1, <2>2
<1>. QED BY <1>2, <1>4, <1>7 DEF a

\* GUI_OP_SORT: the page starts at the current item.
LEMMA SortedKeepsPage ==
  ASSUME NEW D \in Nat \ {0}, NEW m, Sound(m, D),
         NEW str, \A n \in Members(m.list) : str[n] \in Nat
  PROVE  Sound(Sorted(m, str), D) /\ Members(Sorted(m, str).list) = Members(m.list)
<1>. DEFINE l == InOrder(m.list, str)
            h == IF l = << >> THEN NULL ELSE l[1]
            c == IF m.remindLast THEN m.current ELSE h
            a == Sorted(m, str)
<1>0. /\ m \in MenuRecs /\ m.list \in Seq(Nat \ {0}) /\ NoRepeat(m.list)
      /\ m.remindLast \in BOOLEAN /\ m.current \in Nat
  BY DEF Sound, MenuRecs
<1>1. l \in Seq(Nat \ {0}) /\ NoRepeat(l) /\ Members(l) = Members(m.list)
  <2>1. \A i \in 1 .. Len(m.list) : str[m.list[i]] \in Nat
    BY <1>0, MembersIs
  <2>. QED BY <1>0, <2>1, InOrderPermutes
<1>. HIDE DEF l
<1>2. h \in Nat /\ (l # << >> => h \in Members(l)) /\ (l = << >> <=> m.list = << >>)
  BY <1>0, <1>1, MembersIs DEF NULL
<1>3. c \in Nat /\ (l # << >> => c \in Members(l)) /\ (l = << >> => c = NULL)
  BY <1>0, <1>1, <1>2 DEF Sound
<1>4. a = [m EXCEPT !.list = l, !.submenu = h, !.current = c, !.pagestart = c]
  BY DEF Sorted, l
<1>5. a \in MenuRecs /\ a.list = l /\ a.submenu = h /\ a.current = c /\ a.pagestart = c
  <2>. HIDE DEF a, h, c
  <2>. QED BY <1>0, <1>1, <1>2, <1>3, <1>4 DEF MenuRecs
<1>. HIDE DEF a
<1>6. Sound(a, D)
  <2>1. CASE l = << >>
    BY <1>1, <1>3, <1>5, <2>1 DEF Sound
  <2>2. CASE l # << >>
    <3>1. At(l, c) \in 1 .. Len(l) /\ l[At(l, c)] = c
      BY <1>1, <1>3, <2>2, AtIs
    <3>2. At(l, c) <= At(l, c) /\ At(l, c) < At(l, c) + D
      BY <3>1
    <3>3. h = l[1]
      BY <2>2
    <3>. HIDE DEF h, c
    <3>. QED BY <1>1, <1>5, <2>2, <3>1, <3>2, <3>3, Placed
  <2>. QED BY <2>1, <2>2
<1>. QED BY <1>1, <1>5, <1>6 DEF a

-----------------------------------------------------------------------------
(* The invariant of MenuNav                                                *)

\* The variables have their types.
Scalars ==
  /\ phase \in {"render", "ops", "input"} /\ booted \in BOOLEAN
  /\ visible \subseteq Devices /\ itemsList \in {"none", "games", "apps"}
  /\ menus \in Seq(Devices) /\ selected \in 0 .. Len(menus)
  /\ title \in Seq(Titles) /\ Len(title) <= MaxItems

\* Every menu shows its cursor, with the page length of its own list element.
MenusSound ==
  /\ menu \in [Devices -> MenuRecs]
  /\ \A d \in Devices : /\ Sound(menu[d], Displayed[Kind(d)])
                        /\ Members(menu[d].list) \subseteq Nodes

\* From rendering to input the list element noted is that of the selected menu.
ListShown ==
  itemsList # "none" =>
    /\ selected # 0
    /\ phase # "render" => itemsList = Kind(Selected)

IInv == Scalars /\ MenusSound /\ ListShown

\* Page lengths are positive.
LEMMA PageLength ==
  \A d \in Devices : Displayed[Kind(d)] \in Nat \ {0}
BY DisplayedAssumption DEF Kind

\* A device whose menu is replaced by a sound one.
LEMMA MenuReplaced ==
  ASSUME MenusSound, NEW d \in Devices, NEW m,
         Sound(m, Displayed[Kind(d)]), Members(m.list) \subseteq Nodes',
         menu' = [menu EXCEPT ![d] = m], Nodes \subseteq Nodes'
  PROVE  MenusSound'
<1>1. m \in MenuRecs
  BY DEF Sound
<1>2. menu' \in [Devices -> MenuRecs]
  BY <1>1 DEF MenusSound
<1>3. ASSUME NEW e \in Devices
      PROVE  Sound(menu'[e], Displayed[Kind(e)]) /\ Members(menu'[e].list) \subseteq Nodes'
  <2>1. CASE e = d
    <3>1. menu'[e] = m
      BY <2>1 DEF MenusSound
    <3>. QED BY <2>1, <3>1
  <2>2. CASE e # d
    <3>1. menu'[e] = menu[e]
      BY <2>2 DEF MenusSound
    <3>. QED BY <3>1 DEF MenusSound
  <2>. QED BY <2>1, <2>2
<1>. QED BY <1>2, <1>3 DEF MenusSound, Kind

\* No device has been added and every menu is empty.
LEMMA InitHolds == Init => IInv
<1>. SUFFICES ASSUME Init PROVE IInv
  OBVIOUS
<1>1. Scalars
  <2>1. << >> \in Seq(Devices) /\ << >> \in Seq(Titles) /\ Len(<< >>) = 0 /\ 0 <= MaxItems
    BY TitlesAssumption
  <2>2. selected \in 0 .. Len(menus) /\ Len(title) <= MaxItems
    BY <2>1 DEF Init
  <2>. QED BY <2>1, <2>2, Zenon DEF Init, Scalars
<1>2. EmptyMenu \in MenuRecs /\ EmptyMenu.list = << >> /\ Members(EmptyMenu.list) = {}
  BY DEF EmptyMenu, MenuRecs, NULL, Members
<1>3. \A D : Sound(EmptyMenu, D)
  BY <1>2 DEF EmptyMenu, Sound, NoRepeat
<1>4. MenusSound
  BY <1>2, <1>3 DEF Init, MenusSound
<1>. QED BY <1>1, <1>4 DEF IInv, ListShown, Init

\* Steps that leave nodes and menus alone.
LEMMA MenusKept ==
  ASSUME MenusSound, UNCHANGED <<menu, title>>
  PROVE  MenusSound'
BY DEF MenusSound, Nodes, Kind

\* Rendering, the deferred operations other than those on a list, and the end of
\* a phase.
LEMMA FrameSteps ==
  ASSUME IInv,
         \/ Render \/ OpsDone \/ DeferredInit \/ NoInput
         \/ \E d \in Devices : AddMenu(d) \/ SetVisible(d)
  PROVE  IInv'
<1>0. Scalars /\ MenusSound /\ ListShown
  BY DEF IInv
<1>1. CASE Render
  <2>1. selected # 0 => Kind(Selected) \in {"games", "apps"}
    BY DEF Kind
  <2>2. Scalars' /\ ListShown'
    BY <1>0, <1>1, <2>1 DEF Render, Scalars, ListShown, Selected, Kind
  <2>. QED BY <1>0, <1>1, <2>2, MenusKept DEF Render, IInv
<1>2. CASE OpsDone
  <2>1. Scalars' /\ ListShown'
    BY <1>0, <1>2 DEF OpsDone, Scalars, ListShown, Selected, Kind
  <2>. QED BY <1>0, <1>2, <2>1, MenusKept DEF OpsDone, IInv
<1>3. CASE DeferredInit
  <2>1. \A d \in Members(menus) : At(menus, d) \in 1 .. Len(menus)
    BY <1>0, AtIs DEF Scalars
  <2>2. selected' \in 0 .. Len(menus) /\ (selected # 0 => selected' # 0)
    BY <1>0, <1>3, <2>1 DEF DeferredInit, Scalars
  <2>3. Scalars' /\ ListShown'
    BY <1>0, <1>3, <2>2 DEF DeferredInit, Scalars, ListShown, Selected, Kind
  <2>. QED BY <1>0, <1>3, <2>3, MenusKept DEF DeferredInit, IInv
<1>4. CASE NoInput
  <2>1. Scalars' /\ ListShown'
    BY <1>0, <1>4 DEF NoInput, Scalars, ListShown, Selected, Kind
  <2>. QED BY <1>0, <1>4, <2>1, MenusKept DEF NoInput, IInv
<1>5. ASSUME NEW d \in Devices, AddMenu(d) PROVE IInv'
  <2>1. /\ menus' \in Seq(Devices) /\ Len(menus') = Len(menus) + 1
        /\ \A i \in 1 .. Len(menus) : menus'[i] = menus[i]
    BY <1>0, <1>5, AppendIs DEF AddMenu, Scalars
  <2>2. /\ selected' \in 0 .. Len(menus') /\ selected' # 0
        /\ selected # 0 => selected' = selected /\ selected \in 1 .. Len(menus)
    BY <1>0, <1>5, <2>1 DEF AddMenu, Scalars
  <2>3. Scalars'
    BY <1>0, <1>5, <2>1, <2>2 DEF AddMenu, Scalars
  <2>4. ListShown'
    BY <1>0, <1>5, <2>1, <2>2 DEF AddMenu, ListShown, Selected, Kind
  <2>. QED BY <1>0, <1>5, <2>3, <2>4, MenusKept DEF AddMenu, IInv
<1>6. ASSUME NEW d \in Devices, SetVisible(d) PROVE IInv'
  <2>1. Scalars' /\ ListShown'
    BY <1>0, <1>6 DEF SetVisible, Scalars, ListShown, Selected, Kind
  <2>. QED BY <1>0, <1>6, <2>1, MenusKept DEF SetVisible, IInv
<1>. QED BY <1>1, <1>2, <1>3, <1>4, <1>5, <1>6

\* The deferred operations on the list of a device.
LEMMA ListSteps ==
  ASSUME IInv, NEW d \in Devices,
         \/ SortMenu(d) \/ ClearMenu(d)
         \/ \E str \in Titles, sel \in BOOLEAN : AppendMenu(d, str, sel)
  PROVE  IInv'
<1>0. Scalars /\ MenusSound /\ ListShown /\ Displayed[Kind(d)] \in Nat \ {0}
  BY PageLength DEF IInv
<1>1. /\ Sound(menu[d], Displayed[Kind(d)]) /\ Members(menu[d].list) \subseteq Nodes
      /\ menu \in [Devices -> MenuRecs]
  BY <1>0 DEF MenusSound
<1>2. CASE SortMenu(d)
  <2>1. \A n \in Members(menu[d].list) : title[n] \in Nat
    <3>1. \A n \in Nodes : title[n] \in Titles
      BY <1>0 DEF Scalars, Nodes
    <3>. QED BY <1>1, <3>1, TitlesAssumption
  <2>2. menu' = [menu EXCEPT ![d] = Sorted(menu[d], title)] /\ title' = title
    BY <1>2 DEF SortMenu
  <2>3. Nodes' = Nodes
    BY <2>2 DEF Nodes
  <2>4. MenusSound'
    BY <1>0, <1>1, <2>1, <2>2, <2>3, SortedKeepsPage, MenuReplaced
  <2>5. Scalars' /\ ListShown'
    BY <1>0, <1>2 DEF SortMenu, Scalars, ListShown, Selected, Kind
  <2>. QED BY <2>4, <2>5 DEF IInv
<1>3. CASE ClearMenu(d)
  <2>1. Sound(EmptyMenu, Displayed[Kind(d)]) /\ Members(EmptyMenu.list) = {}
    BY DEF EmptyMenu, Sound, MenuRecs, NULL, NoRepeat, Members
  <2>2. menu' = [menu EXCEPT ![d] = EmptyMenu] /\ title' = title
    BY <1>3 DEF ClearMenu
  <2>3. Nodes' = Nodes
    BY <2>2 DEF Nodes
  <2>4. MenusSound'
    BY <1>0, <2>1, <2>2, <2>3, MenuReplaced
  <2>5. Scalars' /\ ListShown'
    BY <1>0, <1>3 DEF ClearMenu, Scalars, ListShown, Selected, Kind
  <2>. QED BY <2>4, <2>5 DEF IInv
<1>4. ASSUME NEW str \in Titles, NEW sel \in BOOLEAN, AppendMenu(d, str, sel) PROVE IInv'
  <2>. DEFINE n == Len(title) + 1
  <2>1. /\ title' \in Seq(Titles) /\ Len(title') = n /\ n \in Nat \ {0} /\ n <= MaxItems
        /\ Nodes' = Nodes \cup {n} /\ n \notin Nodes
    <3>1. /\ title' = Append(title, str) /\ title \in Seq(Titles) /\ Len(title) < MaxItems
          /\ Len(title) \in Nat
      BY <1>0, <1>4 DEF AppendMenu, Scalars
    <3>2. title' \in Seq(Titles) /\ Len(title') = Len(title) + 1
      BY <3>1, AppendIs
    <3>. QED BY <3>1, <3>2, TitlesAssumption DEF Nodes
  <2>2. menu' = [menu EXCEPT ![d] = Appended(menu[d], n, sel)]
    BY <1>4, <2>1 DEF AppendMenu
  <2>3. n \notin Members(menu[d].list)
    BY <1>1, <2>1
  <2>. HIDE DEF n
  <2>4. /\ Sound(Appended(menu[d], n, sel), Displayed[Kind(d)])
        /\ Members(Appended(menu[d], n, sel).list) = Members(menu[d].list) \cup {n}
    BY <1>0, <1>1, <2>1, <2>3, AppendedKeepsPage
  <2>5. Members(Appended(menu[d], n, sel).list) \subseteq Nodes' /\ Nodes \subseteq Nodes'
    BY <1>1, <2>1, <2>4
  <2>6. MenusSound'
    BY <1>0, <2>2, <2>4, <2>5, MenuReplaced
  <2>7. Scalars' /\ ListShown'
    BY <1>0, <1>4, <2>1 DEF AppendMenu, Scalars, ListShown, Selected, Kind
  <2>. QED BY <2>6, <2>7 DEF IInv
<1>. QED BY <1>2, <1>3, <1>4

\* Key presses on the main screen: from menu to menu, and in the list of the
\* selected one with the page length that was noted while it was rendered.
LEMMA KeySteps ==
  ASSUME IInv, NextH \/ PrevH \/ RefreshPosition \/ MoveV
  PROVE  IInv'
<1>0. /\ Scalars /\ MenusSound /\ ListShown /\ phase = "input" /\ itemsList # "none"
      /\ UNCHANGED <<menus, visible, title, itemsList, booted>> /\ phase' = "render"
  BY DEF IInv, NextH, PrevH, RefreshPosition, MoveV
<1>. DEFINE N == Len(menus)
<1>1. N \in Nat /\ selected \in 1 .. N /\ itemsList = Kind(Selected)
  BY <1>0 DEF Scalars, ListShown
<1>2. ASSUME selected' \in 1 .. N, UNCHANGED menu PROVE IInv'
  <2>1. Scalars' /\ ListShown'
    BY <1>0, <1>1, <1>2 DEF Scalars, ListShown
  <2>. QED BY <1>0, <1>2, <2>1, MenusKept DEF IInv
<1>3. CASE NextH
  <2>. DEFINE right == {k \in selected + 1 .. Len(menus) : Shown(k)}
  <2>1. right \in SUBSET (1 .. N)
    BY <1>1
  <2>2. right # {} => \E k \in right : \A j \in right : k <= j
    BY <1>1, <2>1, Ends
  <2>3. selected' = IF right = {} THEN selected
                    ELSE CHOOSE k \in right : \A j \in right : k <= j
    BY <1>3 DEF NextH
  <2>. HIDE DEF right
  <2>4. selected' \in 1 .. N
    BY <1>1, <2>1, <2>2, <2>3
  <2>. QED BY <1>2, <1>3, <2>4 DEF NextH
<1>4. CASE PrevH
  <2>. DEFINE left == {k \in 1 .. selected - 1 : Shown(k)}
  <2>1. left \in SUBSET (1 .. N)
    BY <1>1
  <2>2. left # {} => \E k \in left : \A j \in left : k >= j
    BY <1>1, <2>1, Ends
  <2>3. selected' = IF left = {} THEN selected
                    ELSE CHOOSE k \in left : \A j \in left : k >= j
    BY <1>4 DEF PrevH
  <2>. HIDE DEF left
  <2>4. selected' \in 1 .. N
    BY <1>1, <2>1, <2>2, <2>3
  <2>. QED BY <1>2, <1>4, <2>4 DEF PrevH
<1>5. CASE RefreshPosition
  <2>. DEFINE shown == {k \in 1 .. Len(menus) : Shown(k)}
  <2>1. shown \in SUBSET (1 .. N)
    BY <1>1
  <2>2. shown # {} => \E k \in shown : \A j \in shown : k <= j
    BY <1>1, <2>1, Ends
  <2>3. selected' = IF shown = {} THEN 1
                    ELSE CHOOSE k \in shown : \A j \in shown : k <= j
    BY <1>5 DEF RefreshPosition
  <2>. HIDE DEF shown
  <2>4. 1 \in 1 .. N
    BY <1>1
  <2>5. selected' \in 1 .. N
    BY <2>1, <2>2, <2>3, <2>4
  <2>. QED BY <1>2, <1>5, <2>5 DEF RefreshPosition
<1>6. CASE MoveV
  <2>. DEFINE d == Selected
              D == Displayed[Kind(d)]
  <2>1. d \in Devices
    BY <1>0, <1>1 DEF Scalars, Selected
  <2>2. D \in Nat \ {0} /\ Sound(menu[d], D) /\ Members(menu[d].list) \subseteq Nodes
    BY <1>0, <2>1, PageLength DEF MenusSound
  <2>3. PICK m \in Moves(menu[d], D) : menu' = [menu EXCEPT ![d] = m]
    BY <1>1, <1>6 DEF MoveV
  <2>4. Nodes' = Nodes
    BY <1>0 DEF Nodes
  <2>. HIDE DEF d
  <2>5. Sound(m, D) /\ Members(m.list) \subseteq Nodes'
    BY <2>2, <2>3, <2>4, MovesKeepPage
  <2>6. MenusSound'
    BY <1>0, <2>1, <2>3, <2>4, <2>5, MenuReplaced
  <2>7. Scalars' /\ ListShown'
    BY <1>0, <1>1, <1>6 DEF Scalars, ListShown, MoveV
  <2>. QED BY <2>6, <2>7 DEF IInv
<1>. QED BY <1>3, <1>4, <1>5, <1>6

\* The invariant holds in every reachable state.
THEOREM Invariance == Spec => []IInv
<1>1. IInv /\ [Next]_vars => IInv'
  <2>. SUFFICES ASSUME IInv, [Next]_vars PROVE IInv'
    OBVIOUS
  <2>1. CASE UNCHANGED vars
    BY <2>1, MenusKept DEF vars, IInv, Scalars, ListShown, Selected, Kind
  <2>2. CASE Next
    BY <2>2, FrameSteps, ListSteps, KeySteps DEF Next
  <2>. QED BY <2>1, <2>2
<1>. QED BY <1>1, InitHolds, PTL DEF Spec

\* In a sound menu every pointer is NULL or a node of the menu's list.
LEMMA PointersInList == IInv => TypeOK
<1>. SUFFICES ASSUME IInv PROVE TypeOK
  OBVIOUS
<1>1. Members(menus) \subseteq Devices
  BY MembersIs DEF IInv, Scalars
<1>2. ASSUME NEW d \in Devices
      PROVE  /\ Members(menu[d].list) \subseteq Nodes /\ menu[d].remindLast \in BOOLEAN
             /\ {menu[d].submenu, menu[d].current, menu[d].pagestart}
                  \subseteq {NULL} \cup Members(menu[d].list)
  <2>1. /\ Sound(menu[d], Displayed[Kind(d)]) /\ Members(menu[d].list) \subseteq Nodes
        /\ menu[d].list \in Seq(Nat \ {0}) /\ menu[d].remindLast \in BOOLEAN
    BY Fields DEF IInv, MenusSound
  <2>2. menu[d].list # << >> => menu[d].list[1] \in Members(menu[d].list)
    BY <2>1, MembersIs
  <2>. QED BY <2>1, <2>2 DEF Sound
<1>. QED BY <1>1, <1>2 DEF IInv, Scalars, TypeOK

\* For any devices, titles and page lengths: no order of updates and key presses
\* moves the cursor off the items that are drawn, or leaves a pointer to a node that
\* is no longer in the list.
THEOREM CursorStaysOnScreen == Spec => []CurrentDisplayed
<1>1. IInv => CurrentDisplayed
  <2>. SUFFICES ASSUME IInv, NEW d \in Devices, menu[d].list # << >>
                PROVE  /\ menu[d].current # NULL /\ menu[d].pagestart # NULL
                       /\ OnPage(menu[d], menu[d].current, Displayed[Kind(d)])
    BY PointersInList DEF CurrentDisplayed
  <2>1. Sound(menu[d], Displayed[Kind(d)])
    BY DEF IInv, MenusSound
  <2>. QED BY <2>1, Fields DEF Sound
<1>. QED BY <1>1, Invariance, PTL

-----------------------------------------------------------------------------
(* submenuSort                                                             *)

\* The number of nodes to sort.
N == Len(text)

\* p lists the nodes in the order in which the pointers lead through them.
Chain(p) ==
  /\ p \in [1 .. N -> 1 .. N]
  /\ \A i, j \in 1 .. N : p[i] = p[j] => i = j
  /\ \A k \in 1 .. N : \E i \in 1 .. N : p[i] = k
  /\ head = p[1] /\ prev[p[1]] = 0 /\ next[p[N]] = 0
  /\ \A i \in 1 .. N - 1 : next[p[i]] = p[i + 1] /\ prev[p[i + 1]] = p[i]

\* Nodes with equal titles have not changed places: a node is its first place.
Stable(p) == \A i, j \in 1 .. N : i < j /\ text[p[i]] = text[p[j]] => p[i] < p[j]

\* The first t nodes are in order.
Rising(p, t) == \A k \in 1 .. t - 1 : text[p[k]] <= text[p[k + 1]]

\* A pass that has not swapped has found what it passed in order.
Progress(p) ==
  /\ sorted /\ tip # 0 => \A t \in 1 .. N : p[t] = tip => Rising(p, t)
  /\ sorted /\ tip = 0 => Rising(p, N)
  /\ done => Rising(p, N)

SortTypes ==
  /\ text \in Seq(Texts) /\ N \in Nat \ {0}
  /\ next \in [1 .. N -> Nat] /\ prev \in [1 .. N -> Nat]
  /\ tip \in 0 .. N /\ sorted \in BOOLEAN /\ done \in BOOLEAN /\ (done => tip = 0)

SortInv == SortTypes /\ \E p : Chain(p) /\ Stable(p) /\ Progress(p)

\* The list has nodes, numbered from one, and their titles are numbers.
LEMMA TitlesAre ==
  ASSUME SortTypes
  PROVE  N \in Nat \ {0} /\ ListNodes = 1 .. N /\ \A k \in 1 .. N : text[k] \in Nat
<1>1. N \in Nat \ {0} /\ ListNodes = 1 .. N
  BY DEF SortTypes, ListNodes, N
<1>2. \A k \in 1 .. N : text[k] \in Texts
  BY DEF SortTypes, N
<1>. QED BY <1>1, <1>2, SortAssumption

\* Walking from head leads through the nodes in the order of the chain.
LEMMA WalkIs ==
  ASSUME SortTypes, NEW p, Chain(p)
  PROVE  Walk = p
<1>. DEFINE F(f) == [i \in ListNodes |-> IF i = 1 THEN head
                                          ELSE IF f[i - 1] = 0 THEN 0 ELSE next[f[i - 1]]]
            w == CHOOSE f : f = F(f)
<1>0. N \in Nat \ {0} /\ ListNodes = 1 .. N
  BY TitlesAre
<1>1. Walk = [i \in ListNodes |-> w[i]]
  BY DEF Walk, NULL
<1>2. p = F(p)
  <2>1. p \in [1 .. N -> 1 .. N]
    BY DEF Chain
  <2>2. ASSUME NEW i \in ListNodes PROVE p[i] = F(p)[i]
    <3>1. CASE i = 1
      BY <3>1 DEF Chain
    <3>2. CASE i # 1
      <4>1. i - 1 \in 1 .. N - 1 /\ i - 1 \in 1 .. N /\ (i - 1) + 1 = i
        BY <1>0, <2>2, <3>2
      <4>2. next[p[i - 1]] = p[i] /\ p[i - 1] # 0
        <5>1. next[p[i - 1]] = p[i]
          <6>1. \A k \in 1 .. N - 1 : next[p[k]] = p[k + 1]
            BY DEF Chain
          <6>2. next[p[i - 1]] = p[(i - 1) + 1]
            BY <4>1, <6>1
          <6>. QED BY <4>1, <6>2
        <5>2. p[i - 1] \in 1 .. N
          BY <2>1, <4>1
        <5>. QED BY <5>1, <5>2, <1>0
      <4>. QED BY <3>2, <4>2
    <3>. QED BY <3>1, <3>2
  <2>. QED BY <1>0, <2>1, <2>2
<1>3. w = F(w)
  BY <1>2, Zenon
<1>. HIDE DEF w
<1>4. \A i \in 1 .. N : w[i] = p[i]
  <2>. DEFINE Bad == {i \in 1 .. N : w[i] # p[i]}
  <2>. SUFFICES ASSUME Bad # {} PROVE FALSE
    OBVIOUS
  <2>1. PICK k \in Bad : \A j \in Bad : k <= j
    BY <1>0, Ends
  <2>2. w[k] = IF k = 1 THEN head ELSE IF w[k - 1] = 0 THEN 0 ELSE next[w[k - 1]]
    BY <1>0, <1>3
  <2>3. p[k] = IF k = 1 THEN head ELSE IF p[k - 1] = 0 THEN 0 ELSE next[p[k - 1]]
    BY <1>0, <1>2
  <2>4. k # 1 => k - 1 \in 1 .. N /\ ~(k <= k - 1)
    BY <1>0
  <2>5. k # 1 => w[k - 1] = p[k - 1]
    BY <2>1, <2>4
  <2>. QED BY <2>2, <2>3, <2>5
<1>5. p \in [1 .. N -> 1 .. N]
  BY DEF Chain
<1>. QED BY <1>0, <1>1, <1>4, <1>5

\* A chain makes the list linked both ways.
LEMMA ChainIsLinked ==
  ASSUME SortTypes, NEW p, Chain(p)
  PROVE  Linked
<1>0. N \in Nat \ {0} /\ ListNodes = 1 .. N /\ p \in [1 .. N -> 1 .. N] /\ N = Len(text)
  BY TitlesAre DEF Chain, N
<1>1. Walk = p /\ p \in Seq(1 .. N) /\ Len(p) = N
  BY <1>0, WalkIs
<1>2. Members(Walk) = ListNodes
  <2>1. Members(Walk) = {p[i] : i \in 1 .. N}
    BY <1>1 DEF Members
  <2>2. {p[i] : i \in 1 .. N} = 1 .. N
    <3>1. \A i \in 1 .. N : p[i] \in 1 .. N
      BY DEF Chain
    <3>2. \A k \in 1 .. N : \E i \in 1 .. N : k = p[i]
      BY DEF Chain
    <3>. QED BY <3>1, <3>2, Zenon
  <2>. QED BY <1>0, <2>1, <2>2
<1>3. next[Walk[Len(text)]] = NULL /\ prev[head] = NULL
  BY <1>0, <1>1 DEF Chain, NULL
<1>4. ASSUME NEW k \in 1 .. N, next[k] # 0 PROVE prev[next[k]] = k
  <2>1. PICK i \in 1 .. N : p[i] = k
    BY DEF Chain
  <2>2. i # N
    BY <1>4, <2>1 DEF Chain
  <2>3. i \in 1 .. N - 1
    BY <1>0, <2>2
  <2>. QED BY <2>1, <2>3 DEF Chain
<1>5. tip \in {0} \cup 1 .. N
  BY <1>0 DEF SortTypes
<1>. QED BY <1>0, <1>2, <1>3, <1>4, <1>5, Zenon DEF SortTypes, Linked, NULL

\* swap() exchanges two neighbours of the chain, wherever they are in it, and
\* keeps equal titles in their order.
LEMMA SwapKeepsChain ==
  ASSUME SortTypes, NEW p, Chain(p), Stable(p),
         NEW i \in 1 .. N - 1, tip = p[i], text[p[i]] > text[p[i + 1]], text' = text,
         next' = SwapNext(p[i], p[i + 1]), prev' = SwapPrev(p[i], p[i + 1]),
         head' = IF tip = head THEN p[i + 1] ELSE head
  PROVE  /\ next' \in [1 .. N -> Nat] /\ prev' \in [1 .. N -> Nat]
         /\ \E q : Chain(q)' /\ Stable(q)'
<1>. DEFINE a == p[i]
            b == p[i + 1]
            S(k) == IF k = i THEN i + 1 ELSE IF k = i + 1 THEN i ELSE k
<1>0. /\ N \in Nat \ {0} /\ ListNodes = 1 .. N /\ N' = N
      /\ next \in [1 .. N -> Nat] /\ prev \in [1 .. N -> Nat]
      /\ i \in 1 .. N /\ i + 1 \in 1 .. N
  <2>1. N \in Nat \ {0} /\ ListNodes = 1 .. N /\ N' = N
    BY TitlesAre DEF N
  <2>. QED BY <2>1, SMTT(30) DEF SortTypes
<1>1. p \in [1 .. N -> 1 .. N] /\ \A k \in 1 .. N : p[k] \in 1 .. N
  BY DEF Chain
<1>1i. \A k, j \in 1 .. N : p[k] = p[j] => k = j
  BY DEF Chain
<1>1s. \A k \in 1 .. N : \E j \in 1 .. N : p[j] = k
  BY DEF Chain
<1>1e. head = p[1] /\ prev[p[1]] = 0 /\ next[p[N]] = 0
  BY DEF Chain
<1>1n. \A k \in 1 .. N - 1 : next[p[k]] = p[k + 1]
  BY DEF Chain
<1>1p. \A k \in 1 .. N - 1 : prev[p[k + 1]] = p[k]
  BY DEF Chain
<1>. HIDE DEF N
<1>2. /\ \A k \in 1 .. N : S(k) \in 1 .. N /\ S(S(k)) = k
      /\ \A k, j \in 1 .. N : S(k) = S(j) => k = j
      /\ \A k, j \in 1 .. N : k < j => S(k) < S(j) \/ (k = i /\ j = i + 1)
  BY <1>0
<1>3. PICK q : q \in [1 .. N -> 1 .. N] /\ \A k \in 1 .. N : q[k] = p[S(k)]
  <2>. WITNESS [k \in 1 .. N |-> p[S(k)]]
  <2>. QED BY <1>1, <1>2
<1>4. a \in 1 .. N /\ b \in 1 .. N /\ a # b
  BY <1>0, <1>1, <1>1i
<1>5. prev[a] = IF i = 1 THEN 0 ELSE p[i - 1]
  <2>1. i # 1 => i - 1 \in 1 .. N - 1 /\ (i - 1) + 1 = i
    BY <1>0
  <2>2. i # 1 => prev[p[(i - 1) + 1]] = p[i - 1]
    BY <1>1p, <2>1
  <2>. QED BY <1>1e, <2>1, <2>2
<1>6. next[b] = IF i + 1 = N THEN 0 ELSE p[i + 2]
  <2>1. i + 1 # N => i + 1 \in 1 .. N - 1 /\ (i + 1) + 1 = i + 2
    BY <1>0
  <2>2. i + 1 # N => next[p[i + 1]] = p[(i + 1) + 1]
    BY <1>1n, <2>1
  <2>. QED BY <1>1e, <2>1, <2>2
<1>6a. prev[a] \notin {a, b} /\ next[b] \notin {a, b}
  <2>1. /\ i # 1 => i - 1 \in 1 .. N /\ i - 1 # i /\ i - 1 # i + 1
        /\ i + 1 # N => i + 2 \in 1 .. N /\ i + 2 # i /\ i + 2 # i + 1
        /\ 0 \notin 1 .. N
    BY <1>0
  <2>2. a # 0 /\ b # 0
    BY <1>4, <2>1
  <2>. QED BY <1>0, <1>1i, <1>5, <1>6, <2>1, <2>2
<1>7. /\ next' = [k \in 1 .. N |-> CASE k = a -> next[b] [] k = b -> a
                                     [] k = prev[a] -> b [] OTHER -> next[k]]
      /\ prev' = [k \in 1 .. N |-> CASE k = b -> prev[a] [] k = a -> b
                                     [] k = next[b] -> a [] OTHER -> prev[k]]
  BY <1>0 DEF SwapNext, SwapPrev
<1>8. next' \in [1 .. N -> Nat] /\ prev' \in [1 .. N -> Nat]
  <2>1. next[b] \in Nat /\ prev[a] \in Nat /\ a \in Nat /\ b \in Nat
    BY <1>0, <1>4, SMTT(30)
  <2>2. \A k \in 1 .. N : next[k] \in Nat /\ prev[k] \in Nat
    BY <1>0
  <2>. HIDE DEF a, b
  <2>. QED BY <1>7, <2>1, <2>2
<1>. HIDE DEF a, b
<1>9. /\ next'[a] = next[b] /\ next'[b] = a
      /\ i # 1 => next'[p[i - 1]] = b
      /\ \A k \in 1 .. N : k \notin {i - 1, i, i + 1} => next'[p[k]] = next[p[k]]
  <2>1. next'[a] = next[b] /\ next'[b] = a
    BY <1>4, <1>6a, <1>7
  <2>2. ASSUME i # 1 PROVE next'[p[i - 1]] = b
    <3>1. i - 1 \in 1 .. N /\ i - 1 # i /\ i - 1 # i + 1
      BY <1>0, <2>2
    <3>2. p[i - 1] \in 1 .. N /\ p[i - 1] # a /\ p[i - 1] # b /\ p[i - 1] = prev[a]
      BY <1>0, <1>1, <1>1i, <1>5, <2>2, <3>1 DEF a, b
    <3>. QED BY <1>7, <3>2
  <2>3. ASSUME NEW k \in 1 .. N, k \notin {i - 1, i, i + 1} PROVE next'[p[k]] = next[p[k]]
    <3>1. p[k] \in 1 .. N /\ p[k] # a /\ p[k] # b
      BY <1>0, <1>1, <1>1i, <2>3 DEF a, b
    <3>2. p[k] # prev[a]
      <4>1. (i # 1 => i - 1 \in 1 .. N) /\ p[k] # 0 /\ k # i - 1
        BY <1>0, <2>3, <3>1, SMTT(30)
      <4>. QED BY <1>1i, <1>5, <4>1
    <3>. QED BY <1>7, <3>1, <3>2
  <2>. QED BY <2>1, <2>2, <2>3
<1>10. /\ prev'[b] = prev[a] /\ prev'[a] = b
       /\ i + 1 # N => prev'[p[i + 2]] = a
       /\ \A k \in 1 .. N : k \notin {i, i + 1, i + 2} => prev'[p[k]] = prev[p[k]]
  <2>1. prev'[b] = prev[a] /\ prev'[a] = b
    BY <1>4, <1>6a, <1>7
  <2>2. ASSUME i + 1 # N PROVE prev'[p[i + 2]] = a
    <3>1. i + 2 \in 1 .. N /\ i + 2 # i /\ i + 2 # i + 1
      BY <1>0, <2>2
    <3>2. p[i + 2] \in 1 .. N /\ p[i + 2] # a /\ p[i + 2] # b /\ p[i + 2] = next[b]
      BY <1>0, <1>1, <1>1i, <1>6, <2>2, <3>1 DEF a, b
    <3>. QED BY <1>7, <3>2
  <2>3. ASSUME NEW k \in 1 .. N, k \notin {i, i + 1, i + 2} PROVE prev'[p[k]] = prev[p[k]]
    <3>1. p[k] \in 1 .. N /\ p[k] # a /\ p[k] # b
      BY <1>0, <1>1, <1>1i, <2>3 DEF a, b
    <3>2. p[k] # next[b]
      <4>1. (i + 1 # N => i + 2 \in 1 .. N) /\ p[k] # 0 /\ k # i + 2
        BY <1>0, <2>3, <3>1, SMTT(30)
      <4>. QED BY <1>1i, <1>6, <4>1
    <3>. QED BY <1>7, <3>1, <3>2
  <2>. QED BY <2>1, <2>2, <2>3
<1>11. q[i] = b /\ q[i + 1] = a /\ \A k \in 1 .. N : k \notin {i, i + 1} => q[k] = p[k]
  BY <1>0, <1>3 DEF a, b
<1>12. \A k, j \in 1 .. N : q[k] = q[j] => k = j
  <2>. HIDE DEF S
  <2>. QED BY <1>1i, <1>2, <1>3
<1>13. \A k \in 1 .. N : \E j \in 1 .. N : q[j] = k
  <2>. HIDE DEF S
  <2>. SUFFICES ASSUME NEW k \in 1 .. N PROVE \E j \in 1 .. N : q[j] = k
    OBVIOUS
  <2>1. PICK j \in 1 .. N : p[j] = k
    BY <1>1s
  <2>2. S(j) \in 1 .. N /\ q[S(j)] = k
    BY <1>2, <1>3, <2>1
  <2>. QED BY <2>2
<1>14. head' = q[1]
  <2>1. 1 \in 1 .. N /\ (tip = head <=> i = 1)
    BY <1>0, <1>1i, <1>1e
  <2>2. CASE i = 1
    BY <1>11, <2>1, <2>2 DEF b
  <2>3. CASE i # 1
    <3>1. 1 \notin {i, i + 1}
      BY <1>0, <2>3
    <3>. QED BY <1>1e, <1>11, <2>1, <2>3, <3>1
  <2>. QED BY <2>2, <2>3
<1>15. prev'[q[1]] = 0
  <2>1. CASE i = 1
    BY <1>5, <1>10, <1>11, <2>1
  <2>2. CASE i # 1
    <3>1. 1 \in 1 .. N /\ 1 \notin {i, i + 1, i + 2} /\ 1 \notin {i, i + 1}
      BY <1>0, <2>2
    <3>. QED BY <1>1e, <1>10, <1>11, <3>1
  <2>. QED BY <2>1, <2>2
<1>16. next'[q[N]] = 0
  <2>1. CASE i + 1 = N
    BY <1>6, <1>9, <1>11, <2>1
  <2>2. CASE i + 1 # N
    <3>1. N \in 1 .. N /\ N \notin {i - 1, i, i + 1} /\ N \notin {i, i + 1}
      BY <1>0, <2>2
    <3>. QED BY <1>1e, <1>9, <1>11, <3>1
  <2>. QED BY <2>1, <2>2
<1>17. ASSUME NEW k \in 1 .. N - 1 PROVE next'[q[k]] = q[k + 1] /\ prev'[q[k + 1]] = q[k]
  <2>0. k \in 1 .. N /\ k + 1 \in 1 .. N
    BY <1>0
  <2>1. CASE k = i
    BY <1>9, <1>10, <1>11, <2>1
  <2>2. CASE k = i + 1
    <3>1. i + 1 # N /\ k + 1 = i + 2 /\ i + 2 \in 1 .. N /\ i + 2 \notin {i, i + 1}
      BY <1>0, <2>0, <2>2, SMTT(30)
    <3>2. q[k] = a /\ q[k + 1] = p[i + 2]
      BY <1>11, <2>2, <3>1
    <3>. QED BY <1>6, <1>9, <1>10, <3>1, <3>2
  <2>3. CASE k = i - 1
    <3>1. i # 1 /\ k + 1 = i /\ k \notin {i, i + 1} /\ k \notin {i, i + 1, i + 2}
      BY <1>0, <2>0, <2>3
    <3>2. q[k] = p[i - 1] /\ q[k + 1] = b
      BY <1>11, <2>0, <2>3, <3>1
    <3>. QED BY <1>5, <1>9, <1>10, <3>1, <3>2
  <2>4. CASE k \notin {i - 1, i, i + 1}
    <3>1. k + 1 \notin {i, i + 1, i + 2} /\ k \notin {i, i + 1} /\ k + 1 \notin {i, i + 1}
      BY <1>0, <2>0, <2>4
    <3>2. q[k] = p[k] /\ q[k + 1] = p[k + 1]
      BY <1>11, <2>0, <3>1
    <3>3. next'[p[k]] = next[p[k]] /\ prev'[p[k + 1]] = prev[p[k + 1]]
      BY <1>9, <1>10, <2>0, <2>4, <3>1
    <3>. QED BY <1>1n, <1>1p, <3>2, <3>3
  <2>. QED BY <2>1, <2>2, <2>3, <2>4
<1>18. ASSUME NEW k \in 1 .. N, NEW j \in 1 .. N, k < j, text[q[k]] = text[q[j]]
       PROVE  q[k] < q[j]
  <2>1. CASE S(k) < S(j)
    <3>1. S(k) \in 1 .. N /\ S(j) \in 1 .. N /\ q[k] = p[S(k)] /\ q[j] = p[S(j)]
      BY <1>2, <1>3
    <3>. HIDE DEF S
    <3>. QED BY <1>18, <2>1, <3>1 DEF Stable
  <2>2. CASE k = i /\ j = i + 1
    <3>1. text[q[k]] = text[p[i + 1]] /\ text[q[j]] = text[p[i]]
      BY <1>11, <2>2 DEF a, b
    <3>2. text[p[i]] \in Nat /\ text[p[i + 1]] \in Nat
      BY <1>0, <1>1, TitlesAre
    <3>. HIDE DEF a, b
    <3>3. text[p[i]] = text[p[i + 1]]
      BY <1>18, <3>1
    <3>. QED BY <3>2, <3>3
  <2>. QED BY <1>2, <1>18, <2>1, <2>2
<1>19. Chain(q)'
  <2>1. /\ q \in [1 .. N -> 1 .. N]
        /\ \A k, j \in 1 .. N : q[k] = q[j] => k = j
        /\ \A k \in 1 .. N : \E j \in 1 .. N : q[j] = k
        /\ head' = q[1] /\ prev'[q[1]] = 0 /\ next'[q[N]] = 0
        /\ \A k \in 1 .. N - 1 : next'[q[k]] = q[k + 1] /\ prev'[q[k + 1]] = q[k]
    BY <1>3, <1>12, <1>13, <1>14, <1>15, <1>16, <1>17, Zenon
  <2>2. N' = N
    BY <1>0
  <2>. QED BY <2>1, <2>2 DEF Chain
<1>20. Stable(q)'
  BY <1>0, <1>18, Zenon DEF Stable
<1>. QED BY <1>8, <1>19, <1>20

\* The list as it was appended is its own chain.
LEMMA SortInitHolds == SortInit => SortInv
<1>. SUFFICES ASSUME SortInit PROVE SortInv
  OBVIOUS
<1>1. PICK n \in 1 .. MaxLength : text \in [1 .. n -> Texts]
  BY DEF SortInit
<1>2. text \in Seq(Texts) /\ N = n /\ N \in Nat \ {0} /\ ListNodes = 1 .. N
  BY <1>1, SortAssumption DEF N, ListNodes
<1>3. /\ next = [k \in 1 .. N |-> IF k = N THEN 0 ELSE k + 1]
      /\ prev = [k \in 1 .. N |-> k - 1]
      /\ head = 1 /\ tip = 0 /\ sorted = FALSE /\ done = (N = 1)
  BY <1>2 DEF SortInit, NULL, N
<1>. HIDE DEF N
<1>4. SortTypes
  <2>1. next \in [1 .. N -> Nat] /\ prev \in [1 .. N -> Nat] /\ tip \in 0 .. N
    BY <1>2, <1>3
  <2>. QED BY <1>2, <1>3, <2>1 DEF SortTypes
<1>. DEFINE p == [k \in 1 .. N |-> k]
<1>5. p \in [1 .. N -> 1 .. N] /\ \A k \in 1 .. N : p[k] = k
  OBVIOUS
<1>. HIDE DEF p
<1>6. Chain(p)
  <2>1. /\ 1 \in 1 .. N /\ N \in 1 .. N
        /\ \A i \in 1 .. N - 1 : i \in 1 .. N /\ i + 1 \in 1 .. N /\ i # N
    BY <1>2
  <2>. QED BY <1>2, <1>3, <1>5, <2>1 DEF Chain
<1>7. Stable(p)
  BY <1>5 DEF Stable
<1>8. Progress(p)
  <2>0. done => N = 1
    BY <1>3, Zenon
  <2>1. done => N - 1 = 0
    BY <2>0
  <2>2. done => Rising(p, N)
    BY <2>1 DEF Rising
  <2>. QED BY <1>3, <2>2 DEF Progress
<1>. QED BY <1>4, <1>6, <1>7, <1>8 DEF SortInv

\* The outer loop and the end of a pass leave the list alone.
LEMMA SortPasses ==
  ASSUME SortInv, Pass \/ PassEnd \/ UNCHANGED sortVars
  PROVE  SortInv'
<1>1. PICK p : Chain(p) /\ Stable(p) /\ Progress(p)
  BY DEF SortInv
<1>2. UNCHANGED <<text, next, prev, head>> /\ N' = N
  BY DEF Pass, PassEnd, sortVars, N
<1>3. Chain(p)' /\ Stable(p)' /\ \A t : Rising(p, t)' <=> Rising(p, t)
  BY <1>1, <1>2 DEF Chain, Stable, Rising
<1>4. SortTypes /\ head \in 1 .. N /\ 1 \in 1 .. N
  <2>1. SortTypes /\ N \in Nat \ {0}
    BY DEF SortInv, SortTypes
  <2>. QED BY <1>1, <2>1 DEF Chain
<1>5. CASE Pass
  <2>1. tip = 0 /\ ~done
    BY <1>5 DEF Pass, NULL
  <2>2. CASE sorted
    <3>1. done' = TRUE /\ tip' = tip /\ sorted' = sorted
      BY <1>5, <2>2 DEF Pass
    <3>2. SortTypes'
      BY <1>2, <1>4, <2>1, <3>1 DEF SortTypes
    <3>3. Progress(p)'
      BY <1>1, <1>2, <1>3, <2>1, <2>2, <3>1 DEF Progress
    <3>. QED BY <1>3, <3>2, <3>3 DEF SortInv
  <2>3. CASE ~sorted
    <3>1. tip' = head /\ sorted' = TRUE /\ done' = done
      BY <1>5, <2>3 DEF Pass
    <3>2. SortTypes' /\ tip' # 0
      BY <1>2, <1>4, <2>1, <3>1 DEF SortTypes
    <3>3. ASSUME NEW t \in 1 .. N, p[t] = head PROVE Rising(p, t)
      <4>1. t = 1
        BY <1>1, <1>4, <3>3 DEF Chain
      <4>. QED BY <4>1 DEF Rising
    <3>4. Progress(p)'
      BY <1>2, <1>3, <2>1, <3>1, <3>2, <3>3 DEF Progress
    <3>. QED BY <1>3, <3>2, <3>4 DEF SortInv
  <2>. QED BY <2>2, <2>3
<1>6. CASE PassEnd
  <2>1. tip # 0 /\ next[tip] = 0 /\ tip' = 0 /\ sorted' = sorted /\ done' = done
    BY <1>6 DEF PassEnd, NULL
  <2>2. SortTypes'
    BY <1>2, <1>4, <2>1 DEF SortTypes
  <2>3. N \in 1 .. N /\ p[N] = tip
    <3>1. tip \in 1 .. N /\ N \in Nat \ {0}
      BY <1>4, <2>1 DEF SortTypes
    <3>2. PICK i \in 1 .. N : p[i] = tip
      BY <1>1, <3>1 DEF Chain
    <3>3. i # N => i \in 1 .. N - 1 /\ i + 1 \in 1 .. N
      BY <3>1
    <3>4. i # N => next[p[i]] \in 1 .. N
      <4>1. i # N => next[p[i]] = p[i + 1] /\ p[i + 1] \in 1 .. N
        BY <1>1, <3>3 DEF Chain
      <4>. QED BY <4>1
    <3>5. i = N
      BY <2>1, <3>1, <3>2, <3>4
    <3>. QED BY <3>1, <3>2, <3>5
  <2>4. Progress(p)'
    BY <1>1, <1>2, <1>3, <2>1, <2>3 DEF Progress
  <2>. QED BY <1>3, <2>2, <2>4 DEF SortInv
<1>7. CASE UNCHANGED sortVars
  <2>1. UNCHANGED <<tip, sorted, done>>
    BY <1>7 DEF sortVars
  <2>2. SortTypes'
    BY <1>2, <1>4, <2>1 DEF SortTypes
  <2>3. Progress(p)'
    BY <1>1, <1>2, <1>3, <2>1 DEF Progress
  <2>. QED BY <1>3, <2>2, <2>3 DEF SortInv
<1>. QED BY <1>5, <1>6, <1>7

\* The inner loop swaps two neighbours, or has found them in order.
LEMMA SortCompares ==
  ASSUME SortInv, Compare
  PROVE  SortInv'
<1>1. PICK p : Chain(p) /\ Stable(p) /\ Progress(p)
  BY DEF SortInv
<1>2. /\ SortTypes /\ N \in Nat \ {0} /\ N' = N /\ text' = text /\ done' = done
      /\ tip \in 1 .. N /\ next[tip] # 0 /\ ~done
  <2>1. SortTypes /\ N \in Nat \ {0} /\ tip \in 0 .. N /\ (done => tip = 0)
    BY DEF SortInv, SortTypes
  <2>2. text' = text /\ N' = N /\ done' = done /\ tip # 0 /\ next[tip] # 0
    BY DEF Compare, NULL, N
  <2>. QED BY <2>1, <2>2
<1>3. PICK i \in 1 .. N : p[i] = tip
  BY <1>1, <1>2 DEF Chain
<1>4. i \in 1 .. N - 1 /\ i + 1 \in 1 .. N /\ next[tip] = p[i + 1]
  <2>1. i # N
    BY <1>1, <1>2, <1>3 DEF Chain
  <2>2. i \in 1 .. N - 1 /\ i + 1 \in 1 .. N
    BY <1>2, <2>1
  <2>. QED BY <1>1, <1>3, <2>2 DEF Chain
<1>5. text[p[i]] \in Nat /\ text[p[i + 1]] \in Nat
  <2>1. \A k \in 1 .. N : text[k] \in Nat
    BY <1>2, TitlesAre
  <2>2. p[i] \in 1 .. N /\ p[i + 1] \in 1 .. N
    BY <1>1, <1>4 DEF Chain
  <2>. QED BY <2>1, <2>2
<1>6. CASE text[p[i]] > text[p[i + 1]]
  <2>1. /\ next' = SwapNext(p[i], p[i + 1]) /\ prev' = SwapPrev(p[i], p[i + 1])
        /\ head' = IF tip = head THEN p[i + 1] ELSE head
        /\ sorted' = FALSE /\ tip' = tip
    BY <1>3, <1>4, <1>6 DEF Compare, OutOfOrder
  <2>2. next' \in [1 .. N -> Nat] /\ prev' \in [1 .. N -> Nat] /\ \E q : Chain(q)' /\ Stable(q)'
    BY <1>1, <1>2, <1>3, <1>4, <1>6, <2>1, SwapKeepsChain
  <2>3. SortTypes'
    BY <1>2, <2>1, <2>2 DEF SortTypes
  <2>4. PICK q : Chain(q)' /\ Stable(q)'
    BY <2>2
  <2>5. Progress(q)'
    BY <1>2, <2>1 DEF Progress
  <2>. QED BY <2>3, <2>4, <2>5 DEF SortInv
<1>7. CASE ~(text[p[i]] > text[p[i + 1]])
  <2>1. tip' = p[i + 1] /\ UNCHANGED <<next, prev, head, sorted>>
    BY <1>3, <1>4, <1>7 DEF Compare, OutOfOrder
  <2>2. Chain(p)' /\ Stable(p)'
    <3>1. N' = N /\ text' = text
      BY <1>2
    <3>2. Chain(p)' <=> Chain(p)
      BY <2>1, <3>1, ZenonT(30) DEF Chain
    <3>3. Stable(p)' <=> Stable(p)
      BY <3>1, ZenonT(30) DEF Stable
    <3>. QED BY <1>1, <3>2, <3>3, Zenon
  <2>3. p[i + 1] \in 1 .. N
    BY <1>1, <1>4 DEF Chain
  <2>4. SortTypes' /\ tip' # 0
    BY <1>2, <2>1, <2>3, SMTT(30) DEF SortTypes
  <2>5. ASSUME sorted, NEW t \in 1 .. N, p[t] = p[i + 1] PROVE Rising(p, t)'
    <3>1. t = i + 1
      BY <1>1, <1>4, <2>5 DEF Chain
    <3>2. Rising(p, i)
      BY <1>1, <1>2, <1>3, <2>5 DEF Progress
    <3>3. text[p[i]] <= text[p[i + 1]]
      BY <1>5, <1>7
    <3>4. \A k \in 1 .. t - 1 : k \in 1 .. i - 1 \/ k = i
      BY <1>4, <3>1
    <3>. QED BY <1>2, <3>2, <3>3, <3>4 DEF Rising
  <2>6. Progress(p)'
    BY <1>2, <2>1, <2>4, <2>5 DEF Progress
  <2>. QED BY <2>2, <2>4, <2>6 DEF SortInv
<1>. QED BY <1>6, <1>7

\* Neighbours in order put the whole list in order.
LEMMA RisingSorts ==
  ASSUME SortTypes, NEW p, Chain(p), Rising(p, N)
  PROVE  \A i, j \in 1 .. N : i < j => text[p[i]] <= text[p[j]]
<1>0. N \in Nat \ {0} /\ \A k \in 1 .. N : text[p[k]] \in Nat
  <2>1. N \in Nat \ {0} /\ \A k \in 1 .. N : text[k] \in Nat
    BY TitlesAre
  <2>2. \A k \in 1 .. N : p[k] \in 1 .. N
    BY DEF Chain
  <2>. QED BY <2>1, <2>2
<1>. HIDE DEF N
<1>. SUFFICES ASSUME NEW i \in 1 .. N
              PROVE  \A j \in 1 .. N : i < j => text[p[i]] <= text[p[j]]
  OBVIOUS
<1>. DEFINE Bad == {j \in 1 .. N : i < j /\ ~(text[p[i]] <= text[p[j]])}
<1>. SUFFICES ASSUME Bad # {} PROVE FALSE
  OBVIOUS
<1>1. PICK j \in Bad : \A k \in Bad : j <= k
  BY <1>0, Ends
<1>2. /\ j \in 1 .. N /\ j - 1 \in 1 .. N /\ j - 1 \in 1 .. N - 1
      /\ (j - 1) + 1 = j /\ ~(j <= j - 1)
  BY <1>0
<1>3. text[p[j - 1]] <= text[p[j]]
  <2>1. text[p[j - 1]] <= text[p[(j - 1) + 1]]
    BY <1>2 DEF Rising
  <2>. QED BY <1>2, <2>1
<1>4. text[p[i]] <= text[p[j - 1]]
  <2>1. CASE i = j - 1
    BY <1>0, <2>1
  <2>2. CASE i # j - 1
    <3>1. i < j - 1
      BY <1>2, <2>2
    <3>2. j - 1 \notin Bad
      BY <1>1, <1>2
    <3>. QED BY <1>2, <3>1, <3>2
  <2>. QED BY <2>1, <2>2
<1>5. text[p[i]] <= text[p[j]]
  BY <1>0, <1>2, <1>3, <1>4
<1>. QED BY <1>5

\* A chain in order is the stable order of the appended list.
LEMMA RisingIsInOrder ==
  ASSUME SortTypes, NEW p, Chain(p), Stable(p), Rising(p, N)
  PROVE  InOrder([k \in ListNodes |-> k], text) = p
<1>. DEFINE l == [k \in ListNodes |-> k]
            Before(i, j) == \/ text[l[i]] < text[l[j]]
                            \/ text[l[i]] = text[l[j]] /\ i < j
            Below(j) == {i \in 1 .. Len(l) : Before(i, j)}
            Rank(j) == Cardinality(Below(j))
<1>0. /\ N \in Nat \ {0} /\ ListNodes = 1 .. N /\ p \in [1 .. N -> 1 .. N]
      /\ \A k \in 1 .. N : p[k] \in 1 .. N /\ text[p[k]] \in Nat
  <2>1. N \in Nat \ {0} /\ ListNodes = 1 .. N /\ \A k \in 1 .. N : text[k] \in Nat
    BY TitlesAre
  <2>2. p \in [1 .. N -> 1 .. N] /\ \A k \in 1 .. N : p[k] \in 1 .. N
    BY DEF Chain
  <2>. QED BY <2>1, <2>2
<1>1. InOrder(l, text) =
        [r \in 1 .. Len(l) |-> l[CHOOSE j \in 1 .. Len(l) : Rank(j) = r - 1]]
  BY DEF InOrder
<1>2. Len(l) = N /\ \A k \in 1 .. N : l[k] = k
  BY <1>0
<1>. HIDE DEF l, N
<1>3. \A s, r \in 1 .. N : Before(p[s], p[r]) <=> s < r
  <2>1. \A s, r \in 1 .. N : s < r => text[p[s]] <= text[p[r]]
    BY RisingSorts
  <2>2. \A s, r \in 1 .. N : s < r /\ text[p[s]] = text[p[r]] => p[s] < p[r]
    BY DEF Stable
  <2>3. \A s \in 1 .. N : l[p[s]] = p[s]
    BY <1>0, <1>2
  <2>4. ASSUME NEW s \in 1 .. N, NEW r \in 1 .. N, s < r
        PROVE  Before(p[s], p[r]) /\ ~Before(p[r], p[s])
    <3>1. text[p[s]] <= text[p[r]] /\ (text[p[s]] = text[p[r]] => p[s] < p[r])
      BY <2>1, <2>2, <2>4
    <3>2. l[p[s]] = p[s] /\ l[p[r]] = p[r]
      BY <2>3
    <3>3. text[p[s]] \in Nat /\ text[p[r]] \in Nat /\ p[s] \in Nat /\ p[r] \in Nat
      BY <1>0
    <3>. QED BY <3>1, <3>2, <3>3
  <2>5. \A s \in 1 .. N : ~Before(p[s], p[s])
    BY <1>0, <2>3
  <2>. HIDE DEF Before
  <2>6. \A s, r \in 1 .. N : s < r \/ s = r \/ r < s
    BY <1>0
  <2>. QED BY <1>0, <2>4, <2>5, <2>6
<1>. HIDE DEF Before
<1>4. ASSUME NEW r \in 1 .. N PROVE Rank(p[r]) = r - 1
  <2>. DEFINE f == [s \in 1 .. r - 1 |-> p[s]]
  <2>0. \A s \in 1 .. r - 1 : s \in 1 .. N /\ s < r
    BY <1>0
  <2>1. \A s \in 1 .. N : s < r => s \in 1 .. r - 1
    BY <1>0
  <2>2. \A s \in 1 .. r - 1 : p[s] \in Below(p[r])
    BY <1>0, <1>2, <1>3, <2>0
  <2>3. ASSUME NEW k \in Below(p[r]) PROVE \E s \in 1 .. r - 1 : p[s] = k
    <3>1. k \in 1 .. N /\ Before(k, p[r])
      BY <1>2, <2>3
    <3>2. PICK s \in 1 .. N : p[s] = k
      BY <3>1 DEF Chain
    <3>. QED BY <1>3, <2>1, <3>1, <3>2
  <2>4. \A s, t \in 1 .. r - 1 : p[s] = p[t] => s = t
    BY <2>0 DEF Chain
  <2>. HIDE DEF Below
  <2>5. f \in Bijection(1 .. r - 1, Below(p[r]))
    BY <2>2, <2>3, <2>4 DEF Bijection, Injection, Surjection, IsInjective
  <2>6. IsFiniteSet(1 .. r - 1) /\ Cardinality(1 .. r - 1) = r - 1
    <3>1. 1 \in Int /\ r - 1 \in Int /\ r - 1 >= 0
      BY <1>0
    <3>2. /\ IsFiniteSet(1 .. r - 1)
          /\ Cardinality(1 .. r - 1) = IF 1 > r - 1 THEN 0 ELSE (r - 1) - 1 + 1
      BY <3>1, FS_Interval
    <3>. QED BY <3>1, <3>2
  <2>. HIDE DEF f
  <2>. QED BY <2>5, <2>6, FS_Bijection DEF ExistsBijection
<1>. HIDE DEF Rank
<1>5. ASSUME NEW r \in 1 .. N, NEW j \in 1 .. N, Rank(j) = r - 1 PROVE j = p[r]
  <2>1. PICK s \in 1 .. N : p[s] = j
    BY DEF Chain
  <2>2. s - 1 = r - 1
    BY <1>4, <1>5, <2>1
  <2>3. s = r
    BY <1>0, <2>2
  <2>. QED BY <2>1, <2>3
<1>6. ASSUME NEW r \in 1 .. N PROVE l[CHOOSE j \in 1 .. N : Rank(j) = r - 1] = p[r]
  <2>1. p[r] \in 1 .. N /\ Rank(p[r]) = r - 1
    BY <1>0, <1>4
  <2>2. (CHOOSE j \in 1 .. N : Rank(j) = r - 1) = p[r]
    BY <1>5, <2>1
  <2>. QED BY <1>2, <2>1, <2>2
<1>7. InOrder(l, text) = [r \in 1 .. N |-> p[r]]
  BY <1>1, <1>2, <1>6
<1>. QED BY <1>0, <1>7 DEF l

\* The invariant holds in every reachable state of submenuSort.
THEOREM SortInvariance == SortSpec => []SortInv
<1>1. SortInv /\ [SortNext]_sortVars => SortInv'
  BY SortPasses, SortCompares DEF SortNext, Returned
<1>. QED BY <1>1, SortInitHolds, PTL DEF SortSpec

\* For lists of any length: at every comparison of submenuSort the nodes form
\* one doubly linked list, whichever neighbours swap() exchanges.
THEOREM ListStaysLinked == SortSpec => []Linked
<1>1. SortInv => Linked
  BY ChainIsLinked DEF SortInv
<1>. QED BY <1>1, SortInvariance, PTL

\* For lists of any length: when submenuSort has returned, the list is in the
\* order of its titles, equal titles as they were appended.
THEOREM SortIsStable == SortSpec => []SortsStably
<1>1. SortInv => SortsStably
  <2>. SUFFICES ASSUME SortInv, done
                PROVE  Walk = InOrder([k \in ListNodes |-> k], text)
    BY DEF SortsStably
  <2>1. SortTypes
    BY DEF SortInv
  <2>2. PICK p : Chain(p) /\ Stable(p) /\ Rising(p, N)
    BY DEF SortInv, Progress
  <2>. QED BY <2>1, <2>2, WalkIs, RisingIsInOrder
<1>. QED BY <1>1, SortInvariance, PTL
=============================================================================
