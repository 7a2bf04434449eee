------------------------ MODULE PageAllocatorProofs ------------------------
(***************************************************************************)
(* What the page allocator guarantees for every number of frames: its      *)
(* nodes always form one list, the three heads point where they should, no *)
(* frame is lost, and the list is the bounded queue of PageQueue.          *)
(***************************************************************************)
EXTENDS PageAllocator, ListLemmas, FiniteSetTheorems, FunctionTheorems

-----------------------------------------------------------------------------
(* Lists of nodes                                                          *)

(* s is the list of L nodes that begins in h and is linked by nx.          *)
Linked(h, nx, s, L) ==
  /\ L \in Nodes
  /\ s \in [1..L -> Nodes]
  /\ \A i, j \in 1..L : s[i] = s[j] => i = j
  /\ s[1] = h
  /\ \A i \in 1..(L - 1) : nx[s[i]] = s[i + 1]
  /\ nx[s[L]] = NULL

(* The definition of Chain for any head and any links.                     *)
ChainFrom(h, nx) ==
  LET node[i \in Nodes] ==
        LET before == node[i - 1]
        IN  IF i = 1 THEN h
            ELSE IF before = NULL THEN NULL ELSE nx[before]
  IN  node

LengthOf(chain) == Cardinality({i \in Nodes : chain[i] # NULL})

(* The nodes of the list, in its order.                                    *)
Slots == [i \in 1..ChainLength |-> Chain[i]]

(* Walking the links from h yields the nodes of the list, and then NULL.   *)
LEMMA ChainOfList ==
  ASSUME NEW h, NEW nx, NEW s, NEW L, Linked(h, nx, s, L)
  PROVE  ChainFrom(h, nx) = [i \in Nodes |-> IF i <= L THEN s[i] ELSE NULL]
<1> DEFINE Body(g) == [i \in Nodes |->
                         LET before == g[i - 1]
                         IN  IF i = 1 THEN h
                             ELSE IF before = NULL THEN NULL ELSE nx[before]]
           line == [i \in Nodes |-> IF i <= L THEN s[i] ELSE NULL]
<1>0. /\ K \in Nat /\ L \in 1..K
      /\ \A i \in 1..L : s[i] \in 1..K
      /\ s[1] = h /\ nx[s[L]] = 0
      /\ \A i \in 1..(L - 1) : nx[s[i]] = s[i + 1]
  BY KAssumption DEF Linked, Nodes, NULL
<1>1. ChainFrom(h, nx) = CHOOSE g : g = Body(g)
  BY DEF ChainFrom
<1>2. line = Body(line)
  <2>1. ASSUME NEW i \in Nodes
        PROVE  line[i] = LET before == line[i - 1]
                         IN  IF i = 1 THEN h
                             ELSE IF before = NULL THEN NULL ELSE nx[before]
    <3>1. i \in 1..K
      BY DEF Nodes
    <3>2. CASE i = 1
      BY <1>0, <3>1, <3>2 DEF Nodes, NULL
    <3>3. CASE i # 1
      <4>1. i - 1 \in Nodes
        BY <3>1, <3>3, <1>0 DEF Nodes
      <4>2. line[i - 1] = IF i - 1 <= L THEN s[i - 1] ELSE 0
        BY <4>1 DEF NULL
      <4>3. line[i] = IF i <= L THEN s[i] ELSE 0
        BY DEF NULL
      <4> HIDE DEF line
      <4>4. CASE i <= L
        <5>1. s[i - 1] # 0 /\ nx[s[i - 1]] = s[i]
          BY <1>0, <3>1, <3>3, <4>4
        <5> QED BY <1>0, <3>1, <3>3, <4>2, <4>3, <4>4, <5>1 DEF NULL
      <4>5. CASE i = L + 1
        <5>1. s[i - 1] # 0 /\ nx[s[i - 1]] = 0
          BY <1>0, <3>1, <3>3, <4>5
        <5> QED BY <1>0, <3>1, <3>3, <4>2, <4>3, <4>5, <5>1 DEF NULL
      <4>6. CASE i > L + 1
        BY <1>0, <3>1, <3>3, <4>2, <4>3, <4>6 DEF NULL
      <4> QED BY <4>4, <4>5, <4>6, <3>1, <1>0
    <3> QED BY <3>2, <3>3
  <2> QED BY <2>1
<1> DEFINE c == CHOOSE g : g = Body(g)
<1>3. c = Body(c)
  <2> HIDE DEF Body, line
  <2> QED BY <1>2
<1>4. \A i \in Nodes : c[i] = LET before == c[i - 1]
                              IN  IF i = 1 THEN h
                                  ELSE IF before = NULL THEN NULL
                                       ELSE nx[before]
  <2> HIDE DEF c
  <2> QED BY <1>3
<1>5. \A i \in Nodes : line[i] = LET before == line[i - 1]
                                 IN  IF i = 1 THEN h
                                     ELSE IF before = NULL THEN NULL
                                          ELSE nx[before]
  <2> HIDE DEF line
  <2> QED BY <1>2
<1> DEFINE S == {0} \cup {i \in Nodes : c[i] = line[i]}
<1> HIDE DEF c, line
<1>6. \A i \in 0..K : i \in S
  <2>1. ASSUME NEW i \in 0..(K - 1), i \in S
        PROVE  i + 1 \in S
    <3>1. i + 1 \in Nodes /\ (i + 1) - 1 = i
      BY <1>0 DEF Nodes
    <3>2. CASE i = 0
      BY <3>1, <3>2, <1>4, <1>5
    <3>3. CASE i # 0
      <4>1. c[i] = line[i]
        BY <2>1, <3>3
      <4> QED BY <3>1, <4>1, <1>4, <1>5
    <3> QED BY <3>2, <3>3
  <2>2. 0 \in S
    OBVIOUS
  <2> HIDE DEF S
  <2> QED BY <2>1, <2>2, <1>0, UpTo
<1>7. \A i \in Nodes : c[i] = line[i]
  BY <1>6, <1>0 DEF Nodes
<1>8. c = line
  BY <1>3, <1>7 DEF line
<1> QED BY <1>1, <1>8 DEF c, line

(* The length of the list is the number of nodes walked.                   *)
LEMMA LengthOfList ==
  ASSUME NEW h, NEW nx, NEW s, NEW L, Linked(h, nx, s, L)
  PROVE  LengthOf(ChainFrom(h, nx)) = L
<1>0. /\ K \in Nat /\ L \in 1..K
      /\ \A i \in 1..L : s[i] \in 1..K
  BY KAssumption DEF Linked, Nodes, NULL
<1>1. ChainFrom(h, nx) = [i \in Nodes |-> IF i <= L THEN s[i] ELSE NULL]
  BY ChainOfList
<1>2. {i \in Nodes : ChainFrom(h, nx)[i] # NULL} = 1..L
  BY <1>0, <1>1 DEF Nodes, NULL
<1>3. Cardinality(1..L) = L
  BY <1>0, FS_Interval
<1> QED BY <1>2, <1>3 DEF LengthOf

(* The list that begins in head_free is the one Chain and ChainLength see. *)
LEMMA ListNow ==
  ASSUME NEW s, NEW L, Linked(head_free, next, s, L)
  PROVE  /\ ChainLength = L
         /\ Slots = s
         /\ \A i \in 1..L : Chain[i] = s[i]
<1>1. Chain = ChainFrom(head_free, next)
  BY DEF Chain, ChainFrom
<1>2. ChainLength = LengthOf(ChainFrom(head_free, next))
  BY <1>1 DEF ChainLength, LengthOf
<1>3. ChainLength = L
  BY <1>2, LengthOfList
<1>4. L \in 1..K /\ K \in Nat /\ s = [i \in 1..L |-> s[i]]
  BY KAssumption DEF Linked, Nodes
<1>5. Chain = [i \in Nodes |-> IF i <= L THEN s[i] ELSE NULL]
  BY <1>1, ChainOfList
<1>6. \A i \in 1..L : Chain[i] = s[i]
  BY <1>4, <1>5 DEF Nodes
<1>7. Slots = [i \in 1..L |-> s[i]]
  BY <1>3, <1>6 DEF Slots
<1> QED BY <1>3, <1>4, <1>6, <1>7

(* The same after a step.                                                  *)
LEMMA ListNext ==
  ASSUME NEW s, NEW L, Linked(head_free', next', s, L)
  PROVE  /\ ChainLength' = L
         /\ Slots' = s
         /\ \A i \in 1..L : Chain'[i] = s[i]
<1>1. Chain' = ChainFrom(head_free', next')
  BY DEF Chain, ChainFrom
<1>2. ChainLength' = LengthOf(ChainFrom(head_free', next'))
  BY <1>1 DEF ChainLength, LengthOf
<1>3. ChainLength' = L
  BY <1>2, LengthOfList
<1>4. L \in 1..K /\ K \in Nat /\ s = [i \in 1..L |-> s[i]]
  BY KAssumption DEF Linked, Nodes
<1>5. Chain' = [i \in Nodes |-> IF i <= L THEN s[i] ELSE NULL]
  BY <1>1, ChainOfList
<1>6. \A i \in 1..L : Chain'[i] = s[i]
  BY <1>4, <1>5 DEF Nodes
<1>7. Slots' = [i \in 1..L |-> s[i]]
  BY <1>3, <1>6 DEF Slots
<1> QED BY <1>3, <1>4, <1>6, <1>7

-----------------------------------------------------------------------------
(* The loop of bump                                                        *)

(* The values of a pointer.                                                *)
Pointers == 0..K

(* The list s of length L after its first i nodes have become the last.    *)
Rotated(s, L, i) ==
  [j \in 1..L |-> IF j + i <= L THEN s[j + i] ELSE s[j + i - L]]

(* The definition of moved in Grant, for any heads and links.              *)
MovedFrom(h, e, nx) ==
  LET moved[i \in 0..K] ==
        IF i = 0
        THEN [head_free |-> h, head_end |-> e, next |-> nx]
        ELSE Move(moved[i - 1])
  IN  moved

(* m is the loop of bump from the heads h and e and the links nx.          *)
Loop(m, h, e, nx) ==
  /\ m[0] = [head_free |-> h, head_end |-> e, next |-> nx]
  /\ \A i \in 0..(K - 1) : m[i + 1] = Move(m[i])

(* r are heads and links of the list s after n turns of the loop.          *)
AfterTurns(r, s, L, n) ==
  /\ Linked(r.head_free, r.next, Rotated(s, L, n), L)
  /\ r.head_end = Rotated(s, L, n)[L]
  /\ r.next \in [Pointers -> Pointers]

(* The loop variable of bump starts in the heads and takes one Move at a   *)
(* time.                                                                   *)
LEMMA MovedSteps ==
  ASSUME NEW h, NEW e, NEW nx
  PROVE  Loop(MovedFrom(h, e, nx), h, e, nx)
<1> DEFINE r == [head_free |-> h, head_end |-> e, next |-> nx]
           Body(g) == [i \in 0..K |-> IF i = 0 THEN r ELSE Move(g[i - 1])]
           m == MovedFrom(h, e, nx)
<1>0. K \in Nat /\ K # 0
  BY KAssumption
<1>1. m = CHOOSE g : g = Body(g)
  BY DEF MovedFrom
<1> HIDE DEF r
<1> DEFINE S == {l \in 0..K :
                   \E g : g = [i \in 0..l |-> IF i = 0 THEN r
                                              ELSE Move(g[i - 1])]}
<1>2. 0 \in S
  <2> DEFINE g == [i \in 0..0 |-> r]
  <2>1. g = [i \in 0..0 |-> IF i = 0 THEN r ELSE Move(g[i - 1])]
    OBVIOUS
  <2> HIDE DEF g
  <2> QED BY <2>1, <1>0
<1>3. ASSUME NEW l \in 0..(K - 1), l \in S
      PROVE  l + 1 \in S
  <2>1. PICK g : g = [i \in 0..l |-> IF i = 0 THEN r ELSE Move(g[i - 1])]
    BY <1>3
  <2> DEFINE f == [i \in 0..(l + 1) |-> IF i <= l THEN g[i]
                                        ELSE Move(g[l])]
  <2>2. \A i \in 0..l : g[i] = IF i = 0 THEN r ELSE Move(g[i - 1])
    BY <2>1
  <2>3. ASSUME NEW i \in 0..(l + 1)
        PROVE  f[i] = IF i = 0 THEN r ELSE Move(f[i - 1])
    <3>1. CASE i = 0
      BY <3>1, <2>2
    <3>2. CASE i \in 1..l
      <4>1. f[i] = g[i] /\ f[i - 1] = g[i - 1] /\ i # 0
        BY <3>2
      <4>2. g[i] = Move(g[i - 1])
        BY <2>2, <3>2
      <4> QED BY <4>1, <4>2
    <3>3. CASE i = l + 1
      <4>1. f[i] = Move(g[l]) /\ f[i - 1] = g[l] /\ i # 0
        BY <3>3
      <4> QED BY <4>1
    <3> QED BY <3>1, <3>2, <3>3
  <2>4. f = [i \in 0..(l + 1) |-> IF i = 0 THEN r ELSE Move(f[i - 1])]
    BY <2>3
  <2> HIDE DEF f
  <2> QED BY <2>4, <1>0
<1>4. K \in S
  <2> HIDE DEF S
  <2> QED BY <1>0, <1>2, <1>3, UpTo
<1>5. \E g : g = Body(g)
  BY <1>4
<1>6. m = Body(m)
  <2> HIDE DEF Body, m
  <2> QED BY <1>1, <1>5
<1>7. \A i \in 0..K : m[i] = IF i = 0 THEN r ELSE Move(m[i - 1])
  <2> HIDE DEF m
  <2> QED BY <1>6
<1>8. ASSUME NEW i \in 0..(K - 1)
      PROVE  m[i + 1] = Move(m[i])
  <2>1. i + 1 \in 0..K /\ i + 1 # 0 /\ (i + 1) - 1 = i
    BY <1>0
  <2> HIDE DEF m
  <2> QED BY <2>1, <1>7
<1> QED BY <1>7, <1>8, <1>0 DEF r, Loop

(* b is the list a with its first node put at the end, and mx are the links *)
(* nx after node t has been hung behind node e.                            *)
Turned(a, b, L) == \A j \in 1..L : b[j] = IF j < L THEN a[j + 1] ELSE a[1]

Relinked(nx, mx, t, e) ==
  \A v \in Nodes : mx[v] = IF v = t THEN NULL
                           ELSE IF v = e THEN t ELSE nx[v]

(* Rotating by one more.                                                   *)
LEMMA RotatedStep ==
  ASSUME NEW L \in Nat, NEW s \in [1..L -> Nodes], NEW i \in 0..(L - 1)
  PROVE  /\ Rotated(s, L, i) \in [1..L -> Nodes]
         /\ Rotated(s, L, i + 1) \in [1..L -> Nodes]
         /\ Turned(Rotated(s, L, i), Rotated(s, L, i + 1), L)
BY DEF Rotated, Turned

LEMMA PointerFacts ==
  /\ Nodes \subseteq Pointers
  /\ NULL \in Pointers
  /\ NULL \notin Nodes
BY KAssumption DEF Nodes, Pointers, NULL

(* One turn of the loop keeps the list and makes its first node the last:  *)
(* the node of the frame that is granted becomes the last slot in use.     *)
LEMMA MoveRotates ==
  ASSUME NEW L \in Nat, L >= 2,
         NEW a \in [1..L -> Nodes], NEW b \in [1..L -> Nodes],
         NEW nx \in [Pointers -> Pointers],
         Linked(a[1], nx, a, L),
         Turned(a, b, L),
         NEW mx, Relinked(nx, mx, a[1], a[L])
  PROVE  Linked(nx[a[1]], mx, b, L) /\ b[L] = a[1]
<1>0. /\ L \in Nodes
      /\ nx[a[L]] = NULL
      /\ \A j \in 1..(L - 1) : nx[a[j]] = a[j + 1]
      /\ \A j, k \in 1..L : a[j] = a[k] => j = k
  BY DEF Linked
<1>1. a[1] \in Nodes /\ a[L] \in Nodes /\ a[L] # a[1]
  BY <1>0
<1>4. \A j, k \in 1..L : b[j] = b[k] => j = k
  BY <1>0 DEF Turned
<1>5. b[1] = nx[a[1]]
  BY <1>0 DEF Turned
<1>6. ASSUME NEW j \in 1..(L - 1)
      PROVE  mx[b[j]] = b[j + 1]
  <2>1. b[j] = a[j + 1] /\ a[j + 1] # a[1] /\ a[j + 1] \in Nodes
    BY <1>0 DEF Turned
  <2>2. CASE j + 1 = L
    BY <2>1, <2>2 DEF Turned, Relinked
  <2>3. CASE j + 1 < L
    <3>1. a[j + 1] # a[L]
      BY <2>3, <1>0
    <3>2. mx[b[j]] = nx[a[j + 1]]
      BY <2>1, <3>1 DEF Relinked
    <3> QED BY <3>2, <2>3, <1>0 DEF Turned
  <2> QED BY <2>2, <2>3
<1>7. b[L] = a[1] /\ mx[b[L]] = NULL
  BY <1>1 DEF Turned, Relinked
<1>8. Linked(nx[a[1]], mx, b, L)
  BY <1>0, <1>4, <1>5, <1>6, <1>7 DEF Linked
<1> QED BY <1>7, <1>8

(* n turns move the first n nodes to the end.                              *)
LEMMA MovesRotate ==
  ASSUME NEW h, NEW e, NEW nx, NEW s, NEW L, NEW n,
         Linked(h, nx, s, L), L >= 2, n \in 0..L,
         e = s[L], nx \in [Pointers -> Pointers]
  PROVE  AfterTurns(MovedFrom(h, e, nx)[n], s, L, n)
<1> DEFINE m == MovedFrom(h, e, nx)
           S == {i \in 0..L : AfterTurns(m[i], s, L, i)}
<1>0. L \in 1..K /\ K \in Nat /\ s \in [1..L -> Nodes]
  BY KAssumption DEF Linked, Nodes
<1>1. Rotated(s, L, 0) = s
  BY <1>0 DEF Rotated
<1>2. /\ m[0] = [head_free |-> h, head_end |-> e, next |-> nx]
      /\ \A i \in 0..(K - 1) : m[i + 1] = Move(m[i])
  BY MovedSteps DEF Loop
<1> HIDE DEF m
<1>3. 0 \in S
  BY <1>0, <1>1, <1>2 DEF AfterTurns
<1>4. ASSUME NEW i \in 0..(L - 1), i \in S
      PROVE  i + 1 \in S
  <2>1. m[i + 1] = Move(m[i])
    BY <1>0, <1>2
  <2>2. AfterTurns(m[i], s, L, i)
    BY <1>4
  <2> DEFINE hh == m[i].head_free
             ee == m[i].head_end
             mm == m[i].next
             mx == [[mm EXCEPT ![ee] = hh] EXCEPT ![hh] = NULL]
  <2>3. /\ m[i + 1].head_free = mm[hh]
        /\ m[i + 1].head_end = hh
        /\ m[i + 1].next = mx
    BY <2>1 DEF Move
  <2>4. /\ Linked(hh, mm, Rotated(s, L, i), L)
        /\ ee = Rotated(s, L, i)[L]
        /\ mm \in [Pointers -> Pointers]
    BY <2>2 DEF AfterTurns
  <2> HIDE DEF hh, ee, mm
  <2> DEFINE a == Rotated(s, L, i)
             b == Rotated(s, L, i + 1)
  <2>5. /\ L \in Nat
        /\ a \in [1..L -> Nodes] /\ b \in [1..L -> Nodes]
        /\ Turned(a, b, L)
    <3>1. L \in Nat
      BY <1>0
    <3> QED BY <1>0, <3>1, RotatedStep, Zenon
  <2>7. a[1] = hh /\ a[L] = ee /\ Linked(a[1], mm, a, L)
    BY <2>4 DEF Linked
  <2>8. /\ Linked(mm[hh], mx, b, L)
        /\ hh = b[L]
        /\ mx \in [Pointers -> Pointers]
    <3>1. hh \in Nodes /\ ee \in Nodes
      <4> HIDE DEF a, b
      <4> QED BY <1>0, <2>5, <2>7
    <3>2. mx \in [Pointers -> Pointers]
      BY <2>4, <3>1, PointerFacts
    <3>3. Relinked(mm, mx, hh, ee)
      BY <2>4, <3>1, PointerFacts DEF Relinked
    <3> HIDE DEF mx, a, b
    <3>4. Linked(mm[a[1]], mx, b, L) /\ b[L] = a[1]
      BY <2>4, <2>5, <2>7, <3>3, MoveRotates
    <3> QED BY <2>7, <3>2, <3>4
  <2>6. AfterTurns(m[i + 1], s, L, i + 1)
    <3> HIDE DEF mx
    <3> QED BY <2>3, <2>8 DEF AfterTurns
  <2> QED BY <2>6, <1>0
<1>5. \A i \in 0..L : i \in S
  <2> HIDE DEF S
  <2> QED BY <1>0, <1>3, <1>4, UpTo
<1> QED BY <1>5 DEF m

(* What Grant does to the heads and links.                                 *)
LEMMA GrantMoves ==
  ASSUME NEW n, NEW g, Grant(n, g)
  PROVE  LET m == MovedFrom(head_free, head_end, next)[n]
         IN  head_free' = m.head_free /\ head_end' = m.head_end /\ next' = m.next
BY DEF Grant, MovedFrom

(* Before paging is set up head_end lies outside the list, and a granted   *)
(* node leaves it.                                                         *)
LEMMA MoveDrops ==
  ASSUME NEW L \in Nat, L >= 2, NEW s \in [1..L -> Nodes],
         NEW nx, NEW mx, NEW e, Linked(s[1], nx, s, L),
         \A i \in 1..L : s[i] # e,
         Relinked(nx, mx, s[1], e)
  PROVE  LET b == [j \in 1..(L - 1) |-> s[j + 1]]
         IN  Linked(nx[s[1]], mx, b, L - 1) /\ \A i \in 1..(L - 1) : b[i] # s[1]
<1> DEFINE b == [j \in 1..(L - 1) |-> s[j + 1]]
<1>0. /\ L \in 1..K /\ K \in Nat
      /\ nx[s[L]] = NULL
      /\ \A j \in 1..(L - 1) : nx[s[j]] = s[j + 1]
      /\ \A j, k \in 1..L : s[j] = s[k] => j = k
  BY KAssumption DEF Linked, Nodes
<1>1. /\ L - 1 \in Nodes
      /\ b \in [1..(L - 1) -> Nodes]
      /\ \A j \in 1..(L - 1) : b[j] = s[j + 1] /\ b[j] # s[1]
                               /\ s[j + 1] # e
  <2>1. L - 1 \in Nodes
    BY <1>0 DEF Nodes
  <2> QED BY <1>0, <2>1
<1> HIDE DEF b
<1>2. \A j, k \in 1..(L - 1) : b[j] = b[k] => j = k
  BY <1>0, <1>1
<1>3. b[1] = nx[s[1]]
  BY <1>0, <1>1
<1>4. \A j \in 1..(L - 1) : mx[b[j]] = nx[s[j + 1]]
  BY <1>0, <1>1 DEF Relinked
<1>5. \A j \in 1..((L - 1) - 1) : mx[b[j]] = b[j + 1]
  BY <1>0, <1>1, <1>4
<1>6. mx[b[L - 1]] = NULL
  BY <1>0, <1>1, <1>4
<1>7. Linked(nx[s[1]], mx, b, L - 1)
  BY <1>1, <1>2, <1>3, <1>5, <1>6 DEF Linked
<1> QED BY <1>1, <1>7 DEF b

-----------------------------------------------------------------------------
(* The inductive invariant                                                 *)

(* The nodes form one list of at least two slots, whose first             *)
(* number_of_free_pages are free.  Before paging is set up all of them are *)
(* and head_end is outside the list; then the heads are where HeadsAgree   *)
(* wants them.                                                             *)
Listed ==
  /\ Linked(head_free, next, Slots, ChainLength)
  /\ ChainLength >= 2
  /\ number_of_free_pages <= ChainLength
  /\ ~paging => /\ number_of_free_pages = ChainLength
                /\ \A i \in 1..ChainLength : Slots[i] # head_end
  /\ paging => /\ head_end = Slots[ChainLength]
               /\ head_unalloc = IF number_of_free_pages = 0 THEN head_end
                                 ELSE Slots[number_of_free_pages]

(* Until paging is set up only page tables are granted.                    *)
Boot ==
  ~paging => held = {} /\ pending = NULL /\ ~twice /\ ~clash /\ ~broken

(* A frame of the first page tables has no other owner, and the list has a *)
(* slot for each of the other frames.                                      *)
Owners ==
  /\ kept \cap held = {}
  /\ pending \notin kept
  /\ ChainLength + Cardinality(kept) = Cardinality(Frames)

(* Frames are granted in ascending order: those up to u have been granted, *)
(* the others are in front of the free list q, in order.                   *)
InOrder(q, N, granted, u) ==
  /\ granted = (MetaFrames + 1)..u
  /\ K - u <= N
  /\ \A i \in 1..(K - u) : q[i] = u + i
  /\ \A i \in (K - u + 1)..N : q[i] \in granted

Fresh ==
  /\ held \subseteq used
  /\ pending \in used \cup {NULL}
  /\ \E u \in MetaFrames..K : InOrder(FreeQueue, number_of_free_pages, used, u)

IInv == TypeOK /\ Listed /\ Boot /\ Owners /\ FramesConserved /\ Fresh

-----------------------------------------------------------------------------
(* What the operations do to the list                                      *)

(* The sizes of the model's sets.                                          *)
LEMMA Sizes ==
  /\ K \in Nat /\ K >= 3
  /\ MetaFrames \in Nat /\ MetaFrames >= 1 /\ MetaFrames <= K - 2
  /\ Frames = (MetaFrames + 1)..K
  /\ Frames \subseteq Nodes
  /\ IsFiniteSet(Frames) /\ Cardinality(Frames) = K - MetaFrames
<1>1. K \in Nat /\ K >= 3
  BY KAssumption
<1>2. MetaFrames \in Nat /\ MetaFrames >= 1 /\ MetaFrames <= K - 2
  <2> DEFINE d == K * 16 + 4095
             m == d \div 4096
  <2>1. d \in Nat
    BY <1>1
  <2>2. m \in Int /\ 4096 * m <= d /\ d < 4096 * m + 4096
    <3> HIDE DEF d
    <3> QED BY <2>1
  <2>3. MetaFrames = m
    BY DEF MetaFrames
  <2> HIDE DEF m
  <2> QED BY <1>1, <2>2, <2>3
<1>3. Frames = (MetaFrames + 1)..K
  BY DEF Frames
<1>4. Frames \subseteq Nodes
  BY <1>1, <1>2, <1>3 DEF Nodes
<1>5. IsFiniteSet((MetaFrames + 1)..K)
      /\ Cardinality((MetaFrames + 1)..K) = K - (MetaFrames + 1) + 1
  BY <1>1, <1>2, FS_Interval
<1> QED BY <1>1, <1>2, <1>3, <1>4, <1>5

(* The free list by the slots of the list.                                 *)
LEMMA QueueNow ==
  ASSUME Listed, TypeOK
  PROVE  /\ ChainLength \in Nat /\ number_of_free_pages \in Nat
         /\ Slots \in [1..ChainLength -> Nodes]
         /\ FreeQueue = [i \in 1..number_of_free_pages |-> current[Slots[i]]]
         /\ \A n \in 0..ChainLength :
              FirstFrames(n) = {current[Slots[i]] : i \in 1..n}
         /\ \A i \in 1..ChainLength : Chain[i] = Slots[i]
<1>1. Linked(head_free, next, Slots, ChainLength)
  BY DEF Listed
<1>2. \A i \in 1..ChainLength : Chain[i] = Slots[i]
  BY <1>1, ListNow
<1>3. ChainLength \in Nat /\ number_of_free_pages \in Nat
      /\ number_of_free_pages <= ChainLength
      /\ Slots \in [1..ChainLength -> Nodes]
  <2>1. ChainLength \in Nodes /\ Slots \in [1..ChainLength -> Nodes]
    BY <1>1 DEF Linked
  <2>2. number_of_free_pages \in 0..K /\ K \in Nat
    BY KAssumption DEF TypeOK
  <2>3. number_of_free_pages <= ChainLength
    BY DEF Listed
  <2>4. ChainLength \in Nat /\ number_of_free_pages \in Nat
    BY <2>1, <2>2 DEF Nodes
  <2> QED BY <2>1, <2>3, <2>4
<1>4. FreeQueue = [i \in 1..number_of_free_pages |-> current[Slots[i]]]
  BY <1>2, <1>3 DEF FreeQueue
<1>5. \A n \in 0..ChainLength :
        FirstFrames(n) = {current[Slots[i]] : i \in 1..n}
  BY <1>2, <1>3 DEF FirstFrames
<1> QED BY <1>2, <1>3, <1>4, <1>5

LEMMA QueueNext ==
  ASSUME NEW s, NEW L, Linked(head_free', next', s, L),
         number_of_free_pages' \in Nat, number_of_free_pages' <= L
  PROVE  FreeQueue' = [i \in 1..number_of_free_pages' |-> current'[s[i]]]
<1>1. \A i \in 1..L : Chain'[i] = s[i]
  BY ListNext
<1>2. L \in Nat
  BY KAssumption DEF Linked, Nodes
<1> QED BY <1>1, <1>2 DEF FreeQueue

(* A step that leaves the links, the frames in the slots and the counter   *)
(* alone leaves the free list alone.                                       *)
LEMMA QueueSame ==
  ASSUME Listed, TypeOK,
         UNCHANGED <<next, current, head_free, number_of_free_pages>>
  PROVE  Slots' = Slots /\ ChainLength' = ChainLength /\ FreeQueue' = FreeQueue
<1>1. Linked(head_free', next', Slots, ChainLength)
  BY DEF Listed
<1>2. Slots' = Slots /\ ChainLength' = ChainLength
  BY <1>1, ListNext
<1>3. /\ number_of_free_pages \in Nat /\ number_of_free_pages <= ChainLength
      /\ FreeQueue = [i \in 1..number_of_free_pages |-> current[Slots[i]]]
  BY QueueNow DEF Listed
<1>4. FreeQueue' = [i \in 1..number_of_free_pages' |-> current'[Slots[i]]]
  BY <1>1, <1>3, QueueNext
<1> QED BY <1>2, <1>3, <1>4

(* bump: the first n frames leave the queue, and the list is turned.       *)
LEMMA GrantEffect ==
  ASSUME Listed, TypeOK, paging, NEW n \in 1..K, NEW g, Grant(n, g)
  PROVE  /\ n <= number_of_free_pages
         /\ number_of_free_pages' = number_of_free_pages - n
         /\ ChainLength' = ChainLength
         /\ Slots' = Rotated(Slots, ChainLength, n)
         /\ Linked(head_free', next', Slots', ChainLength')
         /\ head_end' = Slots'[ChainLength]
         /\ next' \in [Pointers -> Pointers]
         /\ FreeQueue' = [i \in 1..(number_of_free_pages - n) |->
                            FreeQueue[i + n]]
         /\ FirstFrames(n) = {FreeQueue[i] : i \in 1..n}
<1> DEFINE L == ChainLength
           b == Rotated(Slots, L, n)
<1>1. /\ n <= number_of_free_pages
      /\ number_of_free_pages' = number_of_free_pages - n
      /\ current' = current
  BY DEF Grant
<1>2. /\ L \in Nat /\ number_of_free_pages \in Nat
      /\ Slots \in [1..L -> Nodes]
      /\ FreeQueue = [i \in 1..number_of_free_pages |-> current[Slots[i]]]
      /\ \A k \in 0..L : FirstFrames(k) = {current[Slots[i]] : i \in 1..k}
  BY QueueNow
<1>3. /\ Linked(head_free, next, Slots, L) /\ L >= 2
      /\ number_of_free_pages <= L /\ head_end = Slots[L]
  BY DEF Listed
<1>4. next \in [Pointers -> Pointers]
  BY DEF TypeOK, Pointers
<1>5. n \in 0..L /\ n \in Nat
  BY <1>1, <1>2, <1>3, KAssumption
<1>6. AfterTurns(MovedFrom(head_free, head_end, next)[n], Slots, L, n)
  <2> HIDE DEF L
  <2> QED BY <1>3, <1>4, <1>5, MovesRotate
<1>7. /\ Linked(head_free', next', b, L)
      /\ head_end' = b[L]
      /\ next' \in [Pointers -> Pointers]
  BY <1>6, GrantMoves DEF AfterTurns
<1>8. ChainLength' = L /\ Slots' = b
  <2> HIDE DEF L, b
  <2> QED BY <1>7, ListNext
<1>9. FreeQueue' = [i \in 1..number_of_free_pages' |-> current'[b[i]]]
  <2>1. number_of_free_pages' \in Nat /\ number_of_free_pages' <= L
    BY <1>1, <1>2, <1>3, <1>5
  <2> HIDE DEF L, b
  <2> QED BY <2>1, <1>7, QueueNext
<1>10. ASSUME NEW i \in 1..(number_of_free_pages - n)
       PROVE  current'[b[i]] = FreeQueue[i + n]
  <2>1. /\ i \in 1..L /\ i + n <= L /\ i + n \in 1..number_of_free_pages
    BY <1>1, <1>2, <1>3, <1>5
  <2>2. b[i] = Slots[i + n]
    BY <2>1 DEF Rotated
  <2>3. FreeQueue[i + n] = current[Slots[i + n]]
    BY <1>2, <2>1
  <2> QED BY <1>1, <2>2, <2>3
<1>11. FreeQueue' = [i \in 1..(number_of_free_pages - n) |-> FreeQueue[i + n]]
  BY <1>1, <1>9, <1>10
<1>12. FirstFrames(n) = {FreeQueue[i] : i \in 1..n}
  <2>1. FirstFrames(n) = {current[Slots[i]] : i \in 1..n}
    BY <1>2, <1>5
  <2>2. \A i \in 1..n : FreeQueue[i] = current[Slots[i]]
    BY <1>1, <1>2, <1>5
  <2> QED BY <2>1, <2>2
<1> QED BY <1>1, <1>7, <1>8, <1>11, <1>12

(* bump_initial: the first frame leaves the queue, and its node the list.  *)
LEMMA BootEffect ==
  ASSUME Listed, TypeOK, bump_initial
  PROVE  /\ ChainLength \in Nat /\ ChainLength >= 3
         /\ number_of_free_pages = ChainLength
         /\ number_of_free_pages' = ChainLength - 1
         /\ ChainLength' = ChainLength - 1
         /\ Slots \in [1..ChainLength -> Nodes]
         /\ Linked(head_free', next', Slots', ChainLength')
         /\ \A i \in 1..ChainLength' : Slots'[i] # head_end'
         /\ head_end' \in Nodes
         /\ next' \in [Pointers -> Pointers]
         /\ FreeQueue' = [i \in 1..(ChainLength - 1) |-> FreeQueue[i + 1]]
         /\ FirstFrames(1) = {FreeQueue[1]}
<1> DEFINE L == ChainLength
           b == [j \in 1..(L - 1) |-> Slots[j + 1]]
<1>1. /\ number_of_free_pages' = number_of_free_pages - 1
      /\ current' = current /\ number_of_free_pages > 2 /\ ~paging
      /\ Grant(1, FirstFrames(1))
  BY DEF Grant, bump_initial
<1>2. /\ L \in Nat /\ number_of_free_pages \in Nat
      /\ Slots \in [1..L -> Nodes]
      /\ FreeQueue = [i \in 1..number_of_free_pages |-> current[Slots[i]]]
      /\ \A k \in 0..L : FirstFrames(k) = {current[Slots[i]] : i \in 1..k}
  BY QueueNow
<1>3. /\ Linked(head_free, next, Slots, L)
      /\ number_of_free_pages = L
      /\ \A i \in 1..L : Slots[i] # head_end
  BY <1>1 DEF Listed
<1>4. next \in [Pointers -> Pointers] /\ head_end \in Pointers
  BY DEF TypeOK, Pointers
<1> DEFINE m == MovedFrom(head_free, head_end, next)
<1>5. m[1] = Move(m[0]) /\ m[0] = [head_free |-> head_free,
                                   head_end |-> head_end, next |-> next]
  <2>1. 0 \in 0..(K - 1) /\ 0 + 1 = 1
    BY KAssumption
  <2>2. /\ \A i \in 0..(K - 1) : m[i + 1] = Move(m[i])
        /\ m[0] = [head_free |-> head_free, head_end |-> head_end,
                   next |-> next]
    BY MovedSteps DEF Loop
  <2> HIDE DEF m
  <2>3. m[0 + 1] = Move(m[0])
    BY <2>1, <2>2, Zenon
  <2> QED BY <2>1, <2>2, <2>3
<1>6. /\ head_free' = m[1].head_free /\ head_end' = m[1].head_end
      /\ next' = m[1].next
  BY <1>1, GrantMoves
<1> HIDE DEF m
<1>7. head_free = Slots[1] /\ Slots[1] \in Nodes
  BY <1>1, <1>2, <1>3 DEF Linked
<1>8. /\ head_free' = next[head_free]
      /\ head_end' = head_free
      /\ next' = [[next EXCEPT ![head_end] = head_free]
                   EXCEPT ![head_free] = NULL]
  <2>1. /\ m[0].head_free = head_free /\ m[0].head_end = head_end
        /\ m[0].next = next
    BY <1>5
  <2>2. /\ m[1].head_free = m[0].next[m[0].head_free]
        /\ m[1].head_end = m[0].head_free
        /\ m[1].next = [[m[0].next EXCEPT ![m[0].head_end] = m[0].head_free]
                         EXCEPT ![m[0].head_free] = NULL]
    BY <1>5 DEF Move
  <2> QED BY <1>6, <2>1, <2>2
<1>9. next' \in [Pointers -> Pointers]
  BY <1>4, <1>7, <1>8, PointerFacts
<1>10. Relinked(next, next', Slots[1], head_end)
  BY <1>4, <1>7, <1>8, PointerFacts DEF Relinked
<1>11. /\ Linked(next[Slots[1]], next', b, L - 1)
       /\ \A i \in 1..(L - 1) : b[i] # Slots[1]
  <2>1. L >= 2 /\ Linked(Slots[1], next, Slots, L)
    BY <1>1, <1>2, <1>3, <1>7
  <2> HIDE DEF L
  <2> QED BY <2>1, <1>2, <1>3, <1>10, MoveDrops
<1>12. Linked(head_free', next', b, L - 1)
  BY <1>7, <1>8, <1>11
<1>13. ChainLength' = L - 1 /\ Slots' = b
  <2> HIDE DEF L, b
  <2> QED BY <1>12, ListNext
<1>14. FreeQueue' = [i \in 1..number_of_free_pages' |-> current'[b[i]]]
  <2>1. number_of_free_pages' \in Nat /\ number_of_free_pages' <= L - 1
    BY <1>1, <1>2, <1>3
  <2> HIDE DEF L, b
  <2> QED BY <2>1, <1>12, QueueNext
<1>15. FreeQueue' = [i \in 1..(L - 1) |-> FreeQueue[i + 1]]
  <2>1. number_of_free_pages' = L - 1
    BY <1>1, <1>3
  <2>2. \A i \in 1..(L - 1) : b[i] = Slots[i + 1]
    OBVIOUS
  <2>3. \A i \in 1..(L - 1) : FreeQueue[i + 1] = current[Slots[i + 1]]
    <3> HIDE DEF L
    <3> QED BY <1>2, <1>3
  <2> HIDE DEF b, L
  <2> QED BY <1>1, <1>14, <2>1, <2>2, <2>3
<1>16. FirstFrames(1) = {FreeQueue[1]}
  <2>1. FirstFrames(1) = {current[Slots[i]] : i \in 1..1}
    BY <1>1, <1>2, <1>3
  <2>2. FreeQueue[1] = current[Slots[1]]
    BY <1>1, <1>2
  <2> QED BY <2>1, <2>2
<1>17. /\ L \in Nat /\ L >= 3 /\ number_of_free_pages' = L - 1
  BY <1>1, <1>2, <1>3
<1>18. /\ \A i \in 1..ChainLength' : Slots'[i] # head_end'
       /\ head_end' \in Nodes
  BY <1>7, <1>8, <1>11, <1>13
<1>19. Linked(head_free', next', Slots', ChainLength')
  BY <1>12, <1>13
<1> QED BY <1>2, <1>3, <1>9, <1>13, <1>15, <1>16, <1>17, <1>18, <1>19

(* kfree: the next slot is filled and joins the queue, unless the list is  *)
(* empty or full.                                                          *)
LEMMA GiveEffect ==
  ASSUME Listed, TypeOK, NEW f \in Frames, GiveBack(f)
  PROVE  /\ paging /\ ~broken /\ ~clash
         /\ Slots' = Slots /\ ChainLength' = ChainLength
         /\ Linked(head_free', next', Slots', ChainLength')
         /\ UNCHANGED <<next, head_free, head_end, paging, kept, used, clash>>
         /\ \/ /\ number_of_free_pages \in 1..(ChainLength - 1)
               /\ number_of_free_pages' = number_of_free_pages + 1
               /\ head_unalloc' = Slots[number_of_free_pages + 1]
               /\ current' \in [0..K -> 0..K]
               /\ broken' = broken
               /\ FreeQueue' = [i \in 1..(number_of_free_pages + 1) |->
                                  IF i <= number_of_free_pages
                                  THEN FreeQueue[i] ELSE f]
            \/ /\ number_of_free_pages \in {0, ChainLength}
               /\ broken'
               /\ UNCHANGED <<current, head_unalloc, number_of_free_pages>>
               /\ FreeQueue' = FreeQueue
<1> DEFINE L == ChainLength
           N == number_of_free_pages
<1>0. /\ paging /\ ~broken /\ ~clash
      /\ UNCHANGED <<next, head_free, head_end, paging, kept, used, clash>>
  BY DEF GiveBack, FillSlot, heads
<1>1. /\ L \in Nat /\ N \in Nat
      /\ Slots \in [1..L -> Nodes]
      /\ FreeQueue = [i \in 1..N |-> current[Slots[i]]]
  BY QueueNow
<1>2. /\ Linked(head_free, next, Slots, L)
      /\ N <= L /\ L >= 2
      /\ head_unalloc = IF N = 0 THEN Slots[L] ELSE Slots[N]
  BY <1>0 DEF Listed
<1>3. Linked(head_free', next', Slots, L)
  BY <1>0, <1>2
<1>4. Slots' = Slots /\ ChainLength' = L
  <2> HIDE DEF L
  <2> QED BY <1>3, ListNext
<1>5. /\ \A i \in 1..(L - 1) : next[Slots[i]] = Slots[i + 1]
      /\ next[Slots[L]] = NULL
      /\ \A i, j \in 1..L : Slots[i] = Slots[j] => i = j
  BY <1>2 DEF Linked
<1>6. CASE next[head_unalloc] # NULL
  <2>1. N \in 1..(L - 1)
    BY <1>1, <1>2, <1>5, <1>6
  <2>2. next[head_unalloc] = Slots[N + 1] /\ Slots[N + 1] \in Nodes
    BY <1>1, <1>2, <1>5, <2>1
  <2>3. /\ head_unalloc' = Slots[N + 1]
        /\ current' = [current EXCEPT ![Slots[N + 1]] = f]
        /\ number_of_free_pages' = N + 1
        /\ broken' = broken
    BY <1>6, <2>2 DEF GiveBack, FillSlot
  <2>4. Slots[N + 1] \in 0..K /\ f \in 0..K
    <3>1. f \in Nodes
      BY Sizes
    <3> QED BY <2>2, <3>1, PointerFacts DEF Pointers
  <2>5. current \in [0..K -> 0..K]
    BY DEF TypeOK
  <2>6. current' \in [0..K -> 0..K]
    BY <2>3, <2>4, <2>5
  <2>7. \A v \in Nodes : current'[v] = IF v = Slots[N + 1] THEN f
                                       ELSE current[v]
    BY <2>3, <2>5, PointerFacts DEF Pointers
  <2>8. FreeQueue' = [i \in 1..(N + 1) |-> current'[Slots[i]]]
    <3>1. number_of_free_pages' \in Nat /\ number_of_free_pages' <= L
      BY <1>1, <2>1, <2>3
    <3>2. FreeQueue' = [i \in 1..number_of_free_pages' |-> current'[Slots[i]]]
      <4> HIDE DEF L
      <4> QED BY <3>1, <1>3, QueueNext
    <3> QED BY <3>2, <2>3
  <2>9. ASSUME NEW i \in 1..(N + 1)
        PROVE  current'[Slots[i]] = IF i <= N THEN FreeQueue[i] ELSE f
    <3>1. Slots[i] \in Nodes /\ (Slots[i] = Slots[N + 1] => i = N + 1)
      BY <1>1, <1>5, <2>1
    <3>2. CASE i = N + 1
      BY <3>1, <3>2, <2>7, <1>1
    <3>3. CASE i <= N
      BY <3>1, <3>3, <2>7, <1>1
    <3> QED BY <3>2, <3>3, <1>1
  <2>10. FreeQueue' = [i \in 1..(N + 1) |-> IF i <= N THEN FreeQueue[i] ELSE f]
    BY <2>8, <2>9
  <2> QED BY <1>0, <1>3, <1>4, <2>1, <2>3, <2>6, <2>10
<1>7. CASE next[head_unalloc] = NULL
  <2>1. N \in {0, L}
    <3> SUFFICES ASSUME N \in 1..(L - 1) PROVE FALSE
      BY <1>1, <1>2
    <3>1. next[head_unalloc] = Slots[N + 1] /\ Slots[N + 1] \in Nodes
      BY <1>1, <1>2, <1>5
    <3> QED BY <3>1, <1>7, PointerFacts
  <2>2. /\ broken' /\ UNCHANGED <<current, head_unalloc, number_of_free_pages>>
    BY <1>7 DEF GiveBack, heads
  <2>3. FreeQueue' = FreeQueue
    BY <1>0, <2>2, QueueSame
  <2> QED BY <1>0, <1>3, <1>4, <2>1, <2>2, <2>3
<1> QED BY <1>6, <1>7

-----------------------------------------------------------------------------
(* Who has the frames                                                      *)

(* q is a queue of N frames; r is q without the first n, whose frames are  *)
(* FirstOf(q, n), or q and then f.                                           *)
IsQueue(q, N) == q = [i \in 1..N |-> q[i]]
FirstOf(q, n) == {q[i] : i \in 1..n}
Dropped(q, r, N, n) == \A i \in 1..(N - n) : r[i] = q[i + n]
Added(q, r, N, f) == \A i \in 1..(N + 1) : r[i] = IF i <= N THEN q[i] ELSE f

(* Each frame is in the queue q of length N, held or kept, and those in    *)
(* the queue are not kept.                                                 *)
Shared(q, N, h, k) ==
  /\ \A i \in 1..N : q[i] \in Frames /\ q[i] \notin k
  /\ \A x \in Frames : x \in h \/ x \in k \/ \E i \in 1..N : q[i] = x

(* No frame is in two places.                                              *)
Single(q, N, h) ==
  /\ \A i, j \in 1..N : q[i] = q[j] => i = j
  /\ \A i \in 1..N : q[i] \notin h

(* FramesConserved by the places of the queue.                             *)
LEMMA SharedIff ==
  ASSUME NEW N, NEW q, IsQueue(q, N),
         NEW h \in SUBSET Frames, NEW k \in SUBSET Frames
  PROVE  /\ Shared(q, N, h, k) <=>
              Range(q) \cup h \cup k = Frames /\ Range(q) \cap k = {}
         /\ Single(q, N, h) <=> IsInjective(q) /\ Range(q) \cap h = {}
<1>1. DOMAIN q = 1..N
  BY DEF IsQueue
<1>2. \A x : x \in Range(q) <=> \E i \in 1..N : q[i] = x
  BY <1>1 DEF Range
<1>3. Shared(q, N, h, k) <=>
        Range(q) \cup h \cup k = Frames /\ Range(q) \cap k = {}
  <2>1. ASSUME Shared(q, N, h, k)
        PROVE  Range(q) \cup h \cup k = Frames /\ Range(q) \cap k = {}
    BY <1>2, <2>1 DEF Shared
  <2>2. ASSUME Range(q) \cup h \cup k = Frames, Range(q) \cap k = {}
        PROVE  Shared(q, N, h, k)
    <3>1. \A i \in 1..N : q[i] \in Range(q)
      BY <1>2
    <3>2. \A x \in Frames : x \in Range(q) \/ x \in h \/ x \in k
      BY <2>2
    <3>3. \A x \in Range(q) : x \in Frames /\ x \notin k
      BY <2>2
    <3> QED BY <1>2, <3>1, <3>2, <3>3 DEF Shared
  <2> QED BY <2>1, <2>2
<1>4. Single(q, N, h) <=> IsInjective(q) /\ Range(q) \cap h = {}
  <2>1. IsInjective(q) <=> \A i, j \in 1..N : q[i] = q[j] => i = j
    BY <1>1 DEF IsInjective
  <2>2. Range(q) \cap h = {} <=> \A i \in 1..N : q[i] \notin h
    BY <1>2
  <2> QED BY <2>1, <2>2 DEF Single
<1> QED BY <1>3, <1>4

(* Taking n frames from the front.                                         *)
LEMMA TakeShared ==
  ASSUME NEW N \in Nat, NEW n \in 0..N, NEW q, NEW r, NEW h, NEW k, NEW g,
         Dropped(q, r, N, n), g = FirstOf(q, n),
         Shared(q, N, h, k)
  PROVE  Shared(r, N - n, h \cup g, k)
<1>a. /\ \A i \in 1..(N - n) : r[i] = q[i + n]
      /\ g = {q[i] : i \in 1..n}
  BY DEF Dropped, FirstOf
<1>1. \A i \in 1..(N - n) : r[i] \in Frames /\ r[i] \notin k
  BY <1>a DEF Shared
<1>2. ASSUME NEW x \in Frames, x \notin h, x \notin k, x \notin g
      PROVE  \E i \in 1..(N - n) : r[i] = x
  <2>1. PICK i \in 1..N : q[i] = x
    BY <1>2 DEF Shared
  <2>2. i \notin 1..n
    BY <1>2, <2>1, <1>a
  <2>3. i - n \in 1..(N - n) /\ (i - n) + n = i
    BY <2>2
  <2>4. r[i - n] = x
    BY <2>1, <2>3, <1>a
  <2> QED BY <2>3, <2>4
<1> QED BY <1>1, <1>2 DEF Shared

(* No two places of the front hold the same frame.                         *)
LEMMA FrontCount ==
  ASSUME NEW N \in Nat, NEW n \in 0..N, NEW q, NEW h, Single(q, N, h)
  PROVE  Cardinality(FirstOf(q, n)) = n
<1> DEFINE f == [i \in 1..n |-> q[i]]
           g == FirstOf(q, n)
<1>1. \A i, j \in 1..n : q[i] = q[j] => i = j
  BY DEF Single
<1>2. f \in Bijection(1..n, g)
  <2>1. f \in [1..n -> g]
    BY DEF FirstOf
  <2>2. \A i, j \in 1..n : f[i] = f[j] => i = j
    BY <1>1
  <2>3. \A x \in g : \E i \in 1..n : f[i] = x
    BY DEF FirstOf
  <2> HIDE DEF f, g
  <2> QED BY <2>1, <2>2, <2>3, Fun_IsBij
<1>3. IsFiniteSet(1..n) /\ Cardinality(1..n) = n
  BY FS_Interval
<1> HIDE DEF f, g
<1>4. Cardinality(g) = n
  BY <1>2, <1>3, FS_Bijection DEF ExistsBijection
<1> QED BY <1>4 DEF g

LEMMA TakeSingle ==
  ASSUME NEW N \in Nat, NEW n \in 0..N, NEW q, NEW r, NEW h, NEW g,
         Dropped(q, r, N, n), g = FirstOf(q, n),
         Single(q, N, h)
  PROVE  /\ Single(r, N - n, h \cup g)
         /\ g \cap h = {}
<1>a. /\ \A i \in 1..(N - n) : r[i] = q[i + n]
      /\ g = {q[i] : i \in 1..n}
  BY DEF Dropped, FirstOf
<1>1. /\ \A i, j \in 1..N : q[i] = q[j] => i = j
      /\ \A i \in 1..N : q[i] \notin h
  BY DEF Single
<1>2. \A i, j \in 1..(N - n) : r[i] = r[j] => i = j
  <2> SUFFICES ASSUME NEW i \in 1..(N - n), NEW j \in 1..(N - n),
                      r[i] = r[j]
               PROVE  i = j
    OBVIOUS
  <2>1. i + n \in 1..N /\ j + n \in 1..N /\ q[i + n] = q[j + n]
    BY <1>a
  <2>2. i + n = j + n
    BY <1>1, <2>1
  <2> QED BY <2>2
<1>3. \A i \in 1..(N - n) : r[i] \notin h \cup g
  <2> SUFFICES ASSUME NEW i \in 1..(N - n), r[i] \in g
               PROVE  FALSE
    BY <1>1, <1>a
  <2>1. PICK j \in 1..n : q[j] = r[i]
    BY <1>a
  <2>2. j \in 1..N /\ i + n \in 1..N /\ q[j] = q[i + n]
    BY <2>1, <1>a
  <2>3. j = i + n
    BY <1>1, <2>2
  <2> QED BY <2>3
<1>4. g \cap h = {}
  BY <1>1, <1>a
<1> QED BY <1>2, <1>3, <1>4 DEF Single

(* Putting a frame at the end, as its holder or once more.                 *)
LEMMA GiveShared ==
  ASSUME NEW N \in Nat, NEW q, NEW r, NEW h, NEW k, NEW f \in Frames, f \notin k,
         Added(q, r, N, f),
         Shared(q, N, h, k)
  PROVE  /\ Shared(r, N + 1, h \ {f}, k)
         /\ Shared(r, N + 1, h, k)
         /\ Single(q, N, h) /\ f \in h => Single(r, N + 1, h \ {f})
<1>a. \A i \in 1..(N + 1) : r[i] = IF i <= N THEN q[i] ELSE f
  BY DEF Added
<1>1. \A i \in 1..N : r[i] = q[i] /\ i \in 1..(N + 1)
  BY <1>a
<1>2. r[N + 1] = f /\ N + 1 \in 1..(N + 1)
  BY <1>a
<1>3. \A i \in 1..(N + 1) : r[i] \in Frames /\ r[i] \notin k
  BY <1>1, <1>2 DEF Shared
<1>4. \A x \in Frames : x \in h \ {f} \/ x \in k \/ \E i \in 1..(N + 1) : r[i] = x
  BY <1>1, <1>2 DEF Shared
<1>5. ASSUME Single(q, N, h), f \in h
      PROVE  Single(r, N + 1, h \ {f})
  <2>1. /\ \A i, j \in 1..N : q[i] = q[j] => i = j
        /\ \A i \in 1..N : q[i] \notin h
    BY <1>5 DEF Single
  <2>2. \A i \in 1..N : r[i] # f
    BY <1>1, <1>5, <2>1
  <2>3. ASSUME NEW i \in 1..(N + 1), NEW j \in 1..(N + 1), r[i] = r[j]
        PROVE  i = j
    <3>1. CASE i \in 1..N /\ j \in 1..N
      BY <3>1, <2>1, <2>3, <1>1
    <3>2. CASE i = N + 1 /\ j # N + 1
      BY <3>2, <2>2, <2>3, <1>2
    <3>3. CASE i # N + 1 /\ j = N + 1
      BY <3>3, <2>2, <2>3, <1>2
    <3> QED BY <3>1, <3>2, <3>3
  <2>4. \A i \in 1..(N + 1) : r[i] \notin h \ {f}
    BY <2>1, <1>1, <1>2
  <2> QED BY <2>3, <2>4 DEF Single
<1> QED BY <1>3, <1>4, <1>5 DEF Shared

(* g are n frames taken from those never granted, or all of these and some *)
(* that had been granted.                                                  *)
AllFresh(g, u, n) == g = (u + 1)..(u + n)
LastFresh(g, us, u) ==
  us \cup g = Frames /\ g \subseteq us \cup (u + 1)..K /\ (u + 1)..K \subseteq g

(* Taking frames from the front keeps the order.                           *)
LEMMA TakeFresh ==
  ASSUME NEW N \in Nat, NEW n \in 0..N, NEW q, NEW r, NEW g, NEW us,
         NEW u \in MetaFrames..K, InOrder(q, N, us, u),
         Dropped(q, r, N, n), g = FirstOf(q, n),
         n <= K - u
  PROVE  /\ AllFresh(g, u, n)
         /\ u + n \in MetaFrames..K
         /\ InOrder(r, N - n, us \cup g, u + n)
<1>a. /\ \A i \in 1..(N - n) : r[i] = q[i + n]
      /\ g = {q[i] : i \in 1..n}
  BY DEF Dropped, FirstOf
<1>0. /\ K \in Nat /\ MetaFrames \in Nat /\ u \in Nat /\ u <= K
      /\ MetaFrames <= u /\ MetaFrames <= K
      /\ Frames = (MetaFrames + 1)..K
  BY Sizes
<1>1. /\ us = (MetaFrames + 1)..u
      /\ K - u <= N
      /\ \A i \in 1..(K - u) : q[i] = u + i
      /\ \A i \in (K - u + 1)..N : q[i] \in us
  BY DEF InOrder
<1>2. \A i \in 1..n : q[i] = u + i
  BY <1>0, <1>1
<1>3. g = (u + 1)..(u + n)
  <2>1. ASSUME NEW x \in (u + 1)..(u + n)
        PROVE  x \in g
    <3>1. x - u \in 1..n /\ u + (x - u) = x
      BY <1>0
    <3>2. q[x - u] = x
      BY <1>2, <3>1
    <3> QED BY <3>1, <3>2, <1>a
  <2>2. \A x \in g : x \in (u + 1)..(u + n)
    BY <1>0, <1>2, <1>a
  <2> QED BY <2>1, <2>2, <1>a
<1>4. us \cup g = (MetaFrames + 1)..(u + n)
  BY <1>0, <1>1, <1>3
<1>5. u + n \in MetaFrames..K /\ K - (u + n) <= N - n
  BY <1>0, <1>1
<1>6. ASSUME NEW i \in 1..(K - (u + n))
      PROVE  r[i] = (u + n) + i
  <2>1. i \in 1..(N - n) /\ i + n \in 1..(K - u)
    BY <1>0, <1>1
  <2>2. q[i + n] = u + (i + n)
    BY <1>1, <2>1
  <2> QED BY <1>0, <2>1, <2>2, <1>a
<1>7. ASSUME NEW i \in (K - (u + n) + 1)..(N - n)
      PROVE  r[i] \in us \cup g
  <2>1. i \in 1..(N - n) /\ i + n \in (K - u + 1)..N
    BY <1>0, <1>1
  <2> QED BY <1>1, <2>1, <1>a
<1> QED BY <1>3, <1>4, <1>5, <1>6, <1>7 DEF InOrder, AllFresh

(* And when the last frame not granted yet is among them.                  *)
LEMMA TakeLast ==
  ASSUME NEW N \in Nat, NEW n \in 0..N, NEW q, NEW r, NEW g, NEW us,
         NEW u \in MetaFrames..K, InOrder(q, N, us, u),
         Dropped(q, r, N, n), g = FirstOf(q, n),
         n > K - u
  PROVE  /\ LastFresh(g, us, u)
         /\ InOrder(r, N - n, us \cup g, K)
<1>a. /\ \A i \in 1..(N - n) : r[i] = q[i + n]
      /\ g = {q[i] : i \in 1..n}
  BY DEF Dropped, FirstOf
<1>0. /\ K \in Nat /\ MetaFrames \in Nat /\ u \in Nat /\ u <= K
      /\ MetaFrames <= u /\ MetaFrames <= K
      /\ Frames = (MetaFrames + 1)..K
  BY Sizes
<1>1. /\ us = (MetaFrames + 1)..u
      /\ K - u <= N
      /\ \A i \in 1..(K - u) : q[i] = u + i
      /\ \A i \in (K - u + 1)..N : q[i] \in us
  BY DEF InOrder
<1>2. ASSUME NEW x \in (u + 1)..K
      PROVE  x \in g
  <2>1. x - u \in 1..(K - u) /\ x - u \in 1..n /\ u + (x - u) = x
    BY <1>0
  <2>2. q[x - u] = x
    BY <1>1, <2>1
  <2> QED BY <2>1, <2>2, <1>a
<1>3. ASSUME NEW i \in 1..n
      PROVE  q[i] \in us \cup (u + 1)..K
  <2>1. CASE i <= K - u
    BY <2>1, <1>0, <1>1
  <2>2. CASE i > K - u
    <3>1. i \in (K - u + 1)..N
      BY <2>2, <1>0
    <3> QED BY <3>1, <1>1
  <2> QED BY <2>1, <2>2, <1>0
<1>4. g \subseteq us \cup (u + 1)..K
  BY <1>3, <1>a
<1>5. us \cup (u + 1)..K = Frames
  BY <1>0, <1>1
<1>6. us \cup g = Frames
  BY <1>2, <1>4, <1>5
<1>7. ASSUME NEW i \in (K - K + 1)..(N - n)
      PROVE  r[i] \in us \cup g
  <2>1. i \in 1..(N - n) /\ i + n \in (K - u + 1)..N
    BY <1>0, <1>1
  <2> QED BY <1>1, <2>1, <1>a
<1>8. /\ K - K <= N - n /\ 1..(K - K) = {}
      /\ us \cup g = (MetaFrames + 1)..K
  BY <1>0, <1>6
<1>9. InOrder(r, N - n, us \cup g, K)
  BY <1>7, <1>8 DEF InOrder
<1> QED BY <1>2, <1>4, <1>6, <1>9 DEF LastFresh

LEMMA TakeKeepsOrder ==
  ASSUME NEW N \in Nat, NEW n \in 0..N, NEW q, NEW r, NEW g, NEW us,
         NEW u \in MetaFrames..K, InOrder(q, N, us, u),
         Dropped(q, r, N, n), g = FirstOf(q, n)
  PROVE  \E w \in MetaFrames..K : InOrder(r, N - n, us \cup g, w)
<1>1. u \in Nat /\ K \in Nat /\ K \in MetaFrames..K
  BY Sizes
<1>2. /\ n <= K - u => /\ u + n \in MetaFrames..K
                       /\ InOrder(r, N - n, us \cup g, u + n)
      /\ n > K - u => InOrder(r, N - n, us \cup g, K)
  BY TakeFresh, TakeLast
<1> QED BY <1>1, <1>2

(* Putting back a frame that has been granted keeps the order.             *)
LEMMA GiveInOrder ==
  ASSUME NEW N \in Nat, NEW q, NEW r, NEW us, NEW f \in us,
         NEW u \in MetaFrames..K, InOrder(q, N, us, u),
         Added(q, r, N, f)
  PROVE  InOrder(r, N + 1, us, u)
<1>a. \A i \in 1..(N + 1) : r[i] = IF i <= N THEN q[i] ELSE f
  BY DEF Added
<1>0. K \in Nat /\ u \in Int /\ u <= K
  BY Sizes
<1>1. /\ us = (MetaFrames + 1)..u
      /\ K - u <= N
      /\ \A i \in 1..(K - u) : q[i] = u + i
      /\ \A i \in (K - u + 1)..N : q[i] \in us
  BY DEF InOrder
<1>2. \A i \in 1..(K - u) : r[i] = u + i
  BY <1>0, <1>1, <1>a
<1>3. ASSUME NEW i \in (K - u + 1)..(N + 1)
      PROVE  r[i] \in us
  <2>1. i \in 1..(N + 1)
    BY <1>0
  <2>2. CASE i <= N
    BY <2>1, <2>2, <1>0, <1>1, <1>a
  <2>3. CASE i > N
    BY <2>1, <2>3, <1>0, <1>a
  <2> QED BY <2>1, <2>2, <2>3
<1> QED BY <1>0, <1>1, <1>2, <1>3 DEF InOrder

-----------------------------------------------------------------------------
(* Every step preserves the invariant                                      *)

LEMMA ConservedNow ==
  ASSUME IInv
  PROVE  /\ ~broken =>
              /\ Shared(FreeQueue, number_of_free_pages, held, kept)
              /\ ~twice => Single(FreeQueue, number_of_free_pages, held)
                           /\ ~clash
         /\ broken => number_of_free_pages = 0 \/ twice
<1>1. held \in SUBSET Frames /\ kept \in SUBSET Frames
  BY DEF IInv, TypeOK
<1>2. IsQueue(FreeQueue, number_of_free_pages)
  BY DEF FreeQueue, IsQueue
<1>3. /\ Shared(FreeQueue, number_of_free_pages, held, kept) <=>
           Range(FreeQueue) \cup held \cup kept = Frames
           /\ Range(FreeQueue) \cap kept = {}
      /\ Single(FreeQueue, number_of_free_pages, held) <=>
           IsInjective(FreeQueue) /\ Range(FreeQueue) \cap held = {}
  BY <1>1, <1>2, SharedIff
<1> QED BY <1>3 DEF IInv, FramesConserved

LEMMA ConservedNext ==
  ASSUME held' \in SUBSET Frames, kept' \in SUBSET Frames,
         ~broken' =>
              /\ Shared(FreeQueue', number_of_free_pages', held', kept')
              /\ ~twice' => Single(FreeQueue', number_of_free_pages', held')
                            /\ ~clash',
         broken' => number_of_free_pages' = 0 \/ twice'
  PROVE  FramesConserved'
<1>1. IsQueue(FreeQueue', number_of_free_pages')
  BY DEF FreeQueue, IsQueue
<1>2. /\ Shared(FreeQueue', number_of_free_pages', held', kept') <=>
           Range(FreeQueue') \cup held' \cup kept' = Frames
           /\ Range(FreeQueue') \cap kept' = {}
      /\ Single(FreeQueue', number_of_free_pages', held') <=>
           IsInjective(FreeQueue') /\ Range(FreeQueue') \cap held' = {}
  BY <1>1, SharedIff
<1> QED BY <1>2 DEF FramesConserved

(* The first state.                                                        *)
LEMMA InitIInv ==
  ASSUME Init
  PROVE  IInv
<1> DEFINE M == MetaFrames
           L == K - M
           s == [i \in 1..L |-> M + i]
<1>0. /\ K \in Nat /\ K >= 3 /\ M \in Nat /\ M >= 1 /\ M <= K - 2
      /\ Frames = (M + 1)..K /\ Cardinality(Frames) = L
  BY Sizes
<1> HIDE DEF M
<1>1. next = [i \in 0..K |-> IF i \in 1..(K - 1) THEN i + 1 ELSE 0]
      /\ current = [i \in 0..K |-> i]
      /\ head_free = M + 1 /\ number_of_free_pages = L
  BY DEF Init, M, NULL, InitialFrame
<1>2. Linked(head_free, next, s, L)
  <2>1. L \in Nodes /\ s \in [1..L -> Nodes]
    BY <1>0 DEF Nodes
  <2>2. s[1] = head_free /\ next[s[L]] = NULL
    BY <1>0, <1>1 DEF NULL
  <2>3. ASSUME NEW i \in 1..(L - 1)
        PROVE  next[s[i]] = s[i + 1]
    <3>1. s[i] = M + i /\ s[i + 1] = M + (i + 1) /\ M + i \in 1..(K - 1)
      BY <1>0
    <3> HIDE DEF s
    <3> QED BY <1>0, <1>1, <3>1
  <2>4. \A i, j \in 1..L : s[i] = s[j] => i = j
    BY <1>0
  <2> QED BY <2>1, <2>2, <2>3, <2>4 DEF Linked
<1>3. ChainLength = L /\ Slots = s
  <2> HIDE DEF L, s
  <2> QED BY <1>2, ListNow
<1>4. /\ head_end = NULL /\ head_unalloc = NULL /\ ~paging /\ kept = {}
      /\ held = {} /\ used = {} /\ ~broken /\ pending = NULL
      /\ ~twice /\ ~clash
  BY DEF Init
<1>5. TypeOK
  <2>1. next \in [0..K -> 0..K] /\ current \in [0..K -> 0..K]
        /\ head_free \in Nodes /\ number_of_free_pages \in 0..K
    BY <1>0, <1>1 DEF Nodes
  <2>2. head_end \in 0..K /\ head_unalloc \in 0..K
    BY <1>0, <1>4 DEF NULL
  <2>3. paging \in BOOLEAN /\ broken \in BOOLEAN /\ twice \in BOOLEAN
        /\ clash \in BOOLEAN
    BY Zenon DEF Init
  <2> QED BY <2>1, <2>2, <2>3, <1>4, Zenon DEF TypeOK
<1>6. Listed
  <2>1. \A i \in 1..L : s[i] # NULL
    BY <1>0 DEF NULL
  <2>2. L >= 2
    BY <1>0
  <2> HIDE DEF s, L
  <2>3. number_of_free_pages <= L
    BY <1>1, <1>0 DEF L
  <2> QED BY <1>1, <1>2, <1>3, <1>4, <2>1, <2>2, <2>3 DEF Listed
<1>7. Boot
  BY <1>4 DEF Boot
<1>8. Owners
  <2>1. Cardinality({}) = 0
    BY FS_EmptySet
  <2> QED BY <1>0, <1>3, <1>4, <2>1 DEF Owners
<1>9. FreeQueue = [i \in 1..L |-> M + i]
  <2>1. FreeQueue = [i \in 1..number_of_free_pages |-> current[s[i]]]
    BY <1>3, <1>5, <1>6, QueueNow
  <2>2. \A i \in 1..L : current[s[i]] = M + i
    BY <1>0, <1>1
  <2> HIDE DEF s
  <2> QED BY <1>1, <2>1, <2>2
<1>10. FramesConserved
  <2>1. IsQueue(FreeQueue, L)
    BY <1>9 DEF IsQueue
  <2>2. Shared(FreeQueue, L, held, kept)
    <3>1. \A i \in 1..L : FreeQueue[i] \in Frames
      BY <1>0, <1>9
    <3>2. ASSUME NEW x \in Frames
          PROVE  \E i \in 1..L : FreeQueue[i] = x
      <4>1. x - M \in 1..L /\ M + (x - M) = x
        BY <1>0
      <4>2. FreeQueue[x - M] = x
        BY <4>1, <1>9
      <4> QED BY <4>1, <4>2
    <3> QED BY <1>4, <3>1, <3>2 DEF Shared
  <2>3. Single(FreeQueue, L, held)
    BY <1>0, <1>4, <1>9 DEF Single
  <2>4. /\ Range(FreeQueue) \cup held \cup kept = Frames
        /\ Range(FreeQueue) \cap kept = {}
        /\ IsInjective(FreeQueue) /\ Range(FreeQueue) \cap held = {}
    <3>1. held \in SUBSET Frames /\ kept \in SUBSET Frames
      BY <1>4
    <3> HIDE DEF L
    <3>2. /\ Shared(FreeQueue, L, held, kept) <=>
               Range(FreeQueue) \cup held \cup kept = Frames
               /\ Range(FreeQueue) \cap kept = {}
          /\ Single(FreeQueue, L, held) <=>
               IsInjective(FreeQueue) /\ Range(FreeQueue) \cap held = {}
      BY <2>1, <3>1, SharedIff
    <3> QED BY <2>2, <2>3, <3>2, Zenon
  <2> QED BY <1>4, <2>4 DEF FramesConserved
<1>11. Fresh
  <2>1. InOrder(FreeQueue, number_of_free_pages, used, M)
    <3>1. used = (M + 1)..M
      BY <1>0, <1>4
    <3>2. \A i \in 1..L : FreeQueue[i] = M + i
      BY <1>9
    <3>3. K - M <= number_of_free_pages /\ (L + 1)..number_of_free_pages = {}
      BY <1>0, <1>1
    <3> QED BY <3>1, <3>2, <3>3 DEF InOrder, M
  <2>2. M \in MetaFrames..K
    BY <1>0 DEF M
  <2> QED BY <2>1, <2>2, <1>4 DEF Fresh
<1> QED BY <1>5, <1>6, <1>7, <1>8, <1>10, <1>11 DEF IInv

(* A page table of the boot phase.                                         *)
LEMMA BootStep ==
  ASSUME IInv, bump_initial
  PROVE  IInv'
<1> DEFINE L == ChainLength
           q == FreeQueue
           r == FreeQueue'
           g == FirstFrames(1)
<1>0. TypeOK /\ Listed /\ Boot /\ Owners /\ Fresh
  BY DEF IInv
<1>1. /\ L \in Nat /\ L >= 3
      /\ number_of_free_pages = L
      /\ number_of_free_pages' = L - 1
      /\ ChainLength' = L - 1
      /\ Linked(head_free', next', Slots', ChainLength')
      /\ \A i \in 1..ChainLength' : Slots'[i] # head_end'
      /\ head_end' \in Nodes
      /\ next' \in [Pointers -> Pointers]
      /\ r = [i \in 1..(L - 1) |-> q[i + 1]]
      /\ g = {q[1]}
  BY <1>0, BootEffect
<1>2. /\ ~paging /\ kept' = kept \cup g /\ used' = used \cup g
      /\ UNCHANGED <<held, clash, current, head_unalloc, paging, broken,
                     pending, twice>>
  BY DEF bump_initial, Grant
<1>3. /\ held = {} /\ pending = NULL /\ ~twice /\ ~clash /\ ~broken
  BY <1>0, <1>2 DEF Boot
<1>4. Shared(q, L, {}, kept) /\ Single(q, L, {})
  BY <1>1, <1>3, ConservedNow
<1> HIDE DEF q, r, g, L
<1>5. Dropped(q, r, L, 1)
  BY <1>1 DEF Dropped
<1>6. g = FirstOf(q, 1) /\ 1 \in 0..L
  BY <1>1 DEF FirstOf
<1>7. Shared(r, L - 1, {} \cup g, kept) /\ Single(r, L - 1, {} \cup g)
  BY <1>1, <1>4, <1>5, <1>6, TakeShared, TakeSingle
<1>8. q[1] \in Frames /\ q[1] \notin kept
  BY <1>1, <1>4 DEF Shared
<1>9. kept' \in SUBSET Frames /\ held' = {} /\ used' \in SUBSET Frames
  BY <1>0, <1>1, <1>2, <1>3, <1>8 DEF TypeOK
<1>10. TypeOK'
  <2>1. next' \in [0..K -> 0..K] /\ head_end' \in 0..K
    BY <1>1, PointerFacts DEF Pointers
  <2>2. head_free' \in Nodes
    <3>1. Slots' \in [1..ChainLength' -> Nodes] /\ Slots'[1] = head_free'
      BY <1>1 DEF Linked
    <3> QED BY <3>1, <1>1
  <2>3. number_of_free_pages' \in 0..K
    <3>1. number_of_free_pages \in 0..K /\ K \in Nat
      BY <1>0, KAssumption DEF TypeOK
    <3> QED BY <3>1, <1>1
  <2> QED BY <1>0, <1>2, <1>9, <2>1, <2>2, <2>3, Zenon DEF TypeOK
<1>11. Listed'
  BY <1>1, <1>2 DEF Listed
<1>12. Boot'
  BY <1>2, <1>3 DEF Boot
<1>13. Owners'
  <2>1. IsFiniteSet(kept)
    BY <1>0, Sizes, FS_Subset DEF TypeOK
  <2>2. /\ Cardinality(kept') = Cardinality(kept) + 1
        /\ Cardinality(kept) \in Nat
    BY <2>1, <1>1, <1>2, <1>8, FS_AddElement, FS_CardinalityType
  <2>3. L + Cardinality(kept) = Cardinality(Frames)
    BY <1>0 DEF Owners, L
  <2>4. NULL \notin kept'
    BY <1>9, Sizes, PointerFacts
  <2>5. ChainLength' + Cardinality(kept') = Cardinality(Frames)
    BY <1>1, <2>2, <2>3
  <2> QED BY <1>2, <1>3, <1>9, <2>4, <2>5 DEF Owners
<1>14. FramesConserved'
  <2>1. Shared(r, L - 1, {}, kept \cup g) /\ Single(r, L - 1, {})
    BY <1>7 DEF Shared, Single
  <2> QED BY <2>1, <1>1, <1>2, <1>3, <1>9, ConservedNext DEF r
<1>15. Fresh'
  <2>1. PICK u \in MetaFrames..K : InOrder(q, L, used, u)
    BY <1>0, <1>1 DEF Fresh, q
  <2>2. \E w \in MetaFrames..K : InOrder(r, L - 1, used \cup g, w)
    BY <2>1, <1>1, <1>5, <1>6, TakeKeepsOrder
  <2> QED BY <2>2, <1>1, <1>2, <1>3, <1>9 DEF Fresh, r
<1> QED BY <1>10, <1>11, <1>12, <1>13, <1>14, <1>15 DEF IInv

(* A step that leaves everything but the heads alone.                      *)
LEMMA PagingStep ==
  ASSUME IInv, init_after_paging
  PROVE  IInv'
<1>0. TypeOK /\ Listed /\ Boot /\ Owners /\ Fresh /\ FramesConserved
  BY DEF IInv
<1>1. /\ ~paging /\ paging' = TRUE
      /\ head_end' = Chain[ChainLength] /\ head_unalloc' = Chain[ChainLength]
      /\ UNCHANGED <<next, current, head_free, number_of_free_pages, kept,
                     held, used, broken, pending, twice, clash>>
  BY DEF init_after_paging
<1>2. Slots' = Slots /\ ChainLength' = ChainLength /\ FreeQueue' = FreeQueue
  BY <1>0, <1>1, QueueSame
<1>3. /\ ChainLength \in Nat /\ ChainLength >= 2
      /\ number_of_free_pages = ChainLength
      /\ Chain[ChainLength] = Slots[ChainLength]
      /\ Slots[ChainLength] \in Nodes
      /\ Linked(head_free, next, Slots, ChainLength)
  <2>1. /\ ChainLength \in Nat /\ Slots \in [1..ChainLength -> Nodes]
        /\ \A i \in 1..ChainLength : Chain[i] = Slots[i]
    BY <1>0, QueueNow
  <2>2. /\ ChainLength >= 2 /\ number_of_free_pages = ChainLength
        /\ Linked(head_free, next, Slots, ChainLength)
    BY <1>0, <1>1 DEF Listed
  <2> QED BY <2>1, <2>2
<1>4. TypeOK'
  <2>1. head_end' \in 0..K /\ head_unalloc' \in 0..K
    BY <1>1, <1>3, PointerFacts DEF Pointers
  <2> QED BY <1>0, <1>1, <2>1, Zenon DEF TypeOK
<1>5. Listed'
  <2>1. number_of_free_pages' = ChainLength' /\ ChainLength' >= 2
        /\ number_of_free_pages' # 0 /\ number_of_free_pages' <= ChainLength'
    BY <1>1, <1>2, <1>3
  <2>2. Linked(head_free', next', Slots', ChainLength')
    BY <1>1, <1>2, <1>3
  <2>3. head_end' = Slots'[ChainLength'] /\ head_unalloc' = Slots'[ChainLength']
    BY <1>1, <1>2, <1>3
  <2> QED BY <1>1, <2>1, <2>2, <2>3 DEF Listed
<1>6. Boot' /\ Owners'
  BY <1>0, <1>1, <1>2 DEF Boot, Owners
<1>7. FramesConserved'
  BY <1>0, <1>1, <1>2 DEF FramesConserved
<1>8. Fresh'
  BY <1>0, <1>1, <1>2 DEF Fresh
<1> QED BY <1>4, <1>5, <1>6, <1>7, <1>8 DEF IInv

(* Pages are granted.                                                      *)
LEMMA BumpStep ==
  ASSUME IInv, NEW n \in 1..K, bump(n)
  PROVE  IInv'
<1> DEFINE L == ChainLength
           N == number_of_free_pages
           q == FreeQueue
           r == FreeQueue'
           g == FirstFrames(n)
<1>0. TypeOK /\ Listed /\ Boot /\ Owners /\ Fresh
  BY DEF IInv
<1>1. /\ paging /\ ~broken /\ ~clash /\ Grant(n, g)
      /\ held' = held \cup g
      /\ clash' = (g \cap held # {} \/ Cardinality(g) < n)
      /\ used' = used \cup g
      /\ pending = NULL
      /\ UNCHANGED <<kept, current, head_unalloc, paging, broken, pending,
                     twice>>
  BY DEF bump, Grant
<1>2. /\ n <= N
      /\ number_of_free_pages' = N - n
      /\ ChainLength' = L
      /\ Slots' = Rotated(Slots, L, n)
      /\ Linked(head_free', next', Slots', ChainLength')
      /\ head_end' = Slots'[L]
      /\ next' \in [Pointers -> Pointers]
      /\ r = [i \in 1..(N - n) |-> q[i + n]]
      /\ g = {q[i] : i \in 1..n}
  BY <1>0, <1>1, GrantEffect
<1>3. /\ L \in Nat /\ N \in Nat /\ N <= L /\ L >= 2
      /\ head_unalloc = IF N = 0 THEN head_end ELSE Slots[N]
      /\ Slots \in [1..L -> Nodes]
  BY <1>0, <1>1, QueueNow DEF Listed
<1>4. /\ Shared(q, N, held, kept)
      /\ ~twice => Single(q, N, held)
  BY <1>1, ConservedNow
<1> HIDE DEF q, r, g, L, N
<1>5. Dropped(q, r, N, n) /\ g = FirstOf(q, n) /\ n \in 0..N /\ n \in Nat
  <2>1. n \in 0..N /\ n \in Nat
    BY <1>2, <1>3, KAssumption
  <2> QED BY <1>2, <2>1 DEF Dropped, FirstOf
<1>6. /\ Shared(r, N - n, held \cup g, kept)
      /\ ~twice => /\ Single(r, N - n, held \cup g)
                   /\ g \cap held = {} /\ Cardinality(g) = n
  <2>1. N \in Nat
    BY <1>3
  <2>2. Shared(r, N - n, held \cup g, kept)
    BY <2>1, <1>4, <1>5, TakeShared
  <2>3. ASSUME Single(q, N, held)
        PROVE  /\ Single(r, N - n, held \cup g)
               /\ g \cap held = {} /\ Cardinality(g) = n
    <3>1. Single(r, N - n, held \cup g)
      BY <2>1, <2>3, <1>5, TakeSingle
    <3>2. g \cap held = {}
      BY <2>1, <2>3, <1>5, TakeSingle
    <3>3. Cardinality(g) = n
      <4>1. Cardinality(FirstOf(q, n)) = n
        BY <2>1, <2>3, <1>5, FrontCount
      <4> QED BY <4>1, <1>5, Zenon
    <3> QED BY <3>1, <3>2, <3>3
  <2> QED BY <2>2, <2>3, <1>4
<1>7. g \subseteq Frames /\ g \cap kept = {}
  <2>1. \A i \in 1..n : q[i] \in Frames /\ q[i] \notin kept
    BY <1>2, <1>3, <1>4, <1>5 DEF Shared
  <2> QED BY <1>2, <2>1
<1>8. TypeOK'
  <2>1. next' \in [0..K -> 0..K]
    BY <1>2 DEF Pointers
  <2>2. /\ Slots' \in [1..L -> Nodes] /\ Slots'[1] = head_free'
    BY <1>2 DEF Linked
  <2>3. head_free' \in Nodes /\ head_end' \in Nodes
    BY <2>2, <1>2, <1>3
  <2>4. head_end' \in 0..K
    BY <2>3, PointerFacts DEF Pointers
  <2>5. number_of_free_pages' \in 0..K
    <3>1. N \in 0..K /\ K \in Nat
      BY <1>0, KAssumption DEF TypeOK, N
    <3> QED BY <3>1, <1>2, <1>5
  <2>6. held' \subseteq Frames /\ used' \subseteq Frames
    BY <1>0, <1>1, <1>7 DEF TypeOK
  <2>7. clash' \in BOOLEAN
    BY <1>1
  <2> QED BY <1>0, <1>1, <2>1, <2>3, <2>4, <2>5, <2>6, <2>7, Zenon DEF TypeOK
<1>9. Listed'
  <2>1. number_of_free_pages' <= ChainLength' /\ ChainLength' >= 2
    BY <1>2, <1>3, <1>5
  <2>2. head_unalloc' = IF number_of_free_pages' = 0 THEN head_end'
                        ELSE Slots'[number_of_free_pages']
    <3>1. head_unalloc' = Slots[N]
      BY <1>1, <1>2, <1>3, <1>5
    <3>2. CASE n = N
      <4>1. Slots'[L] = Slots[L + n - L] /\ L + n - L = N
        BY <3>2, <1>2, <1>3, <1>5 DEF Rotated
      <4> QED BY <3>1, <3>2, <4>1, <1>2, <1>3
    <3>3. CASE n < N
      <4>1. (N - n) + n = N /\ N - n \in 1..L /\ N - n # 0
        BY <3>3, <1>2, <1>3, <1>5
      <4>2. Slots'[N - n] = Slots[(N - n) + n]
        BY <4>1, <1>2, <1>3, <1>5 DEF Rotated
      <4> QED BY <3>1, <4>1, <4>2, <1>2
    <3> QED BY <3>2, <3>3, <1>2, <1>3, <1>5
  <2> QED BY <1>1, <1>2, <2>1, <2>2 DEF Listed
<1>10. Boot'
  BY <1>1 DEF Boot
<1>11. Owners'
  BY <1>0, <1>1, <1>2, <1>7 DEF Owners, L
<1>12. FramesConserved'
  <2>1. held' \in SUBSET Frames /\ kept' \in SUBSET Frames
    BY <1>8 DEF TypeOK
  <2>2. Shared(r, number_of_free_pages', held', kept')
    BY <1>1, <1>2, <1>6
  <2>3. ~twice' => Single(r, number_of_free_pages', held') /\ ~clash'
    <3> SUFFICES ASSUME ~twice
                 PROVE  Single(r, number_of_free_pages', held') /\ ~clash'
      BY <1>1
    <3>1. Single(r, number_of_free_pages', held')
      BY <1>1, <1>2, <1>6
    <3>2. g \cap held = {} /\ ~(Cardinality(g) < n)
      BY <1>5, <1>6
    <3> QED BY <1>1, <3>1, <3>2
  <2>4. ~broken'
    BY <1>1
  <2> QED BY <2>1, <2>2, <2>3, <2>4, ConservedNext DEF r
<1>13. Fresh'
  <2>1. PICK u \in MetaFrames..K : InOrder(q, N, used, u)
    BY <1>0 DEF Fresh, q, N
  <2>2. \E w \in MetaFrames..K : InOrder(r, N - n, used \cup g, w)
    BY <2>1, <1>3, <1>5, TakeKeepsOrder
  <2>3. held' \subseteq used' /\ pending' \in used' \cup {NULL}
    BY <1>0, <1>1 DEF Fresh
  <2> QED BY <2>2, <2>3, <1>1, <1>2 DEF Fresh, r
<1> QED BY <1>8, <1>9, <1>10, <1>11, <1>12, <1>13 DEF IInv

(* With every slot of the list free, all frames but the kept ones are in   *)
(* the queue: nobody is left who could free one.                           *)
LEMMA FullQueue ==
  ASSUME IInv, ~twice, ~broken, number_of_free_pages = ChainLength,
         NEW f \in held
  PROVE  FALSE
<1> DEFINE L == ChainLength
           q == FreeQueue
           T == (Frames \ kept) \ {f}
<1>0. TypeOK /\ Listed /\ Owners
  BY DEF IInv
<1>1. L \in Nat /\ q = [i \in 1..L |-> current[Slots[i]]]
  BY <1>0, QueueNow
<1>2. Shared(q, L, held, kept) /\ Single(q, L, held)
  BY ConservedNow
<1>3. q \in [1..L -> T] /\ \A i, j \in 1..L : q[i] = q[j] => i = j
  <2>1. \A i \in 1..L : q[i] \in T
    BY <1>2 DEF Shared, Single
  <2>2. q = [i \in 1..L |-> q[i]]
    BY <1>1
  <2>3. \A i, j \in 1..L : q[i] = q[j] => i = j
    BY <1>2 DEF Single
  <2> HIDE DEF q, T
  <2> QED BY <2>1, <2>2, <2>3
<1>4. f \in Frames \ kept
  BY <1>0 DEF TypeOK, Owners
<1>5. IsFiniteSet(Frames) /\ IsFiniteSet(kept) /\ kept \in SUBSET Frames
  BY <1>0, Sizes, FS_Subset DEF TypeOK
<1>6. /\ IsFiniteSet(Frames \ kept)
      /\ Cardinality(Frames \ kept) = Cardinality(Frames) - Cardinality(kept)
  <2>1. Frames \cap kept = kept
    BY <1>5
  <2>2. /\ IsFiniteSet(Frames \ kept)
        /\ Cardinality(Frames \ kept)
             = Cardinality(Frames) - Cardinality(Frames \cap kept)
    BY <1>5, FS_Difference
  <2> QED BY <2>1, <2>2
<1>7. IsFiniteSet(T) /\ Cardinality(T) = Cardinality(Frames \ kept) - 1
  BY <1>4, <1>6, FS_RemoveElement
<1>8. Cardinality(Frames) \in Nat /\ Cardinality(kept) \in Nat
      /\ L + Cardinality(kept) = Cardinality(Frames)
  BY <1>0, <1>5, FS_CardinalityType DEF Owners
<1>9. Cardinality(T) = L - 1
  BY <1>1, <1>6, <1>7, <1>8
<1>10. Cardinality(1..L) = L
  BY <1>1, FS_Interval
<1>11. q \in Injection(1..L, T)
  <2> HIDE DEF q, T
  <2> QED BY <1>3, Fun_IsInj
<1>12. Cardinality(1..L) <= Cardinality(T)
  <2> HIDE DEF q, T
  <2> QED BY <1>7, <1>11, FS_Injection
<1> QED BY <1>1, <1>9, <1>10, <1>12

(* A frame is given back, by its holder or once more.                      *)
LEMMA GiveStep ==
  ASSUME IInv, NEW f \in Frames, f \notin kept, f \in used, GiveBack(f),
         \/ f \in held /\ held' = held \ {f} /\ UNCHANGED twice
         \/ held' = held /\ twice' = TRUE,
         pending' \in {NULL, f, pending}
  PROVE  IInv'
<1> DEFINE L == ChainLength
           N == number_of_free_pages
           q == FreeQueue
           r == FreeQueue'
<1>0. TypeOK /\ Listed /\ Boot /\ Owners /\ Fresh
  BY DEF IInv
<1>1. /\ paging /\ ~broken /\ ~clash
      /\ Slots' = Slots /\ ChainLength' = L
      /\ Linked(head_free', next', Slots', ChainLength')
      /\ UNCHANGED <<next, head_free, head_end, paging, kept, used, clash>>
      /\ \/ /\ N \in 1..(L - 1)
            /\ number_of_free_pages' = N + 1
            /\ head_unalloc' = Slots[N + 1]
            /\ current' \in [0..K -> 0..K]
            /\ broken' = broken
            /\ r = [i \in 1..(N + 1) |-> IF i <= N THEN q[i] ELSE f]
         \/ /\ N \in {0, L}
            /\ broken'
            /\ UNCHANGED <<current, head_unalloc, number_of_free_pages>>
            /\ r = q
  BY <1>0, GiveEffect
<1>2. /\ L \in Nat /\ N \in Nat /\ N <= L /\ L >= 2
      /\ head_end = Slots[L]
      /\ head_unalloc = IF N = 0 THEN head_end ELSE Slots[N]
      /\ Slots \in [1..L -> Nodes]
  BY <1>0, <1>1, QueueNow DEF Listed
<1>3. /\ Shared(q, N, held, kept)
      /\ ~twice => Single(q, N, held)
  BY <1>1, ConservedNow
<1>4. held' \subseteq held
  OBVIOUS
<1>5. pending' \in Frames \cup {NULL} /\ pending' \notin kept
      /\ pending' \in used \cup {NULL}
  <2>1. NULL \notin kept
    BY <1>0, Sizes, PointerFacts DEF TypeOK
  <2>2. pending \in Frames \cup {NULL} /\ pending \notin kept
        /\ pending \in used \cup {NULL}
    BY <1>0 DEF TypeOK, Owners, Fresh
  <2> QED BY <2>1, <2>2
<1> HIDE DEF q, r, L, N
<1>6. twice' \in BOOLEAN
  BY <1>0, Zenon DEF TypeOK
<1>7. Boot'
  BY <1>1 DEF Boot
<1>8. Owners'
  BY <1>0, <1>1, <1>4, <1>5 DEF Owners, L
<1>9. CASE /\ N \in 1..(L - 1)
           /\ number_of_free_pages' = N + 1
           /\ head_unalloc' = Slots[N + 1]
           /\ current' \in [0..K -> 0..K]
           /\ broken' = broken
           /\ r = [i \in 1..(N + 1) |-> IF i <= N THEN q[i] ELSE f]
  <2>1. Added(q, r, N, f)
    BY <1>9 DEF Added
  <2>2. TypeOK'
    <3>1. head_unalloc' \in Nodes
      BY <1>2, <1>9
    <3>2. head_unalloc' \in 0..K
      BY <3>1, PointerFacts DEF Pointers
    <3>3. number_of_free_pages' \in 0..K
      <4>1. L \in 1..K /\ K \in Nat
        BY <1>1, KAssumption DEF Linked, Nodes
      <4> QED BY <4>1, <1>2, <1>9
    <3>4. held' \subseteq Frames
      BY <1>0, <1>4 DEF TypeOK
    <3> QED BY <1>0, <1>1, <1>5, <1>6, <1>9, <3>2, <3>3, <3>4, Zenon DEF TypeOK
  <2>3. Listed'
    <3>1. number_of_free_pages' <= ChainLength' /\ ChainLength' >= 2
          /\ number_of_free_pages' # 0
      BY <1>1, <1>2, <1>9
    <3>2. head_end' = Slots'[ChainLength']
          /\ head_unalloc' = Slots'[number_of_free_pages']
      BY <1>1, <1>2, <1>9
    <3> QED BY <1>1, <3>1, <3>2 DEF Listed
  <2>4. FramesConserved'
    <3>1. Shared(r, N + 1, held \ {f}, kept) /\ Shared(r, N + 1, held, kept)
      BY <1>2, <1>3, <2>1, GiveShared
    <3>2. ASSUME ~twice, f \in held
          PROVE  Single(r, N + 1, held \ {f})
      BY <1>2, <1>3, <2>1, <3>2, GiveShared
    <3>3. held' \in SUBSET Frames /\ kept' \in SUBSET Frames
      BY <2>2 DEF TypeOK
    <3>4. Shared(r, number_of_free_pages', held', kept')
      BY <3>1, <1>1, <1>9
    <3>5. ASSUME ~twice'
          PROVE  Single(r, number_of_free_pages', held') /\ ~clash'
      <4>1. ~twice /\ f \in held /\ held' = held \ {f}
        BY <3>5
      <4>2. Single(r, number_of_free_pages', held')
        BY <3>2, <4>1, <1>9
      <4> QED BY <4>2, <1>1
    <3>6. ~broken'
      BY <1>1, <1>9
    <3> QED BY <3>3, <3>4, <3>5, <3>6, ConservedNext DEF r
  <2>5. Fresh'
    <3>1. PICK u \in MetaFrames..K : InOrder(q, N, used, u)
      BY <1>0 DEF Fresh, q, N
    <3>2. InOrder(r, N + 1, used, u)
      BY <3>1, <2>1, <1>2, GiveInOrder
    <3>3. held' \subseteq used' /\ pending' \in used' \cup {NULL}
      BY <1>0, <1>1, <1>4, <1>5 DEF Fresh
    <3> QED BY <3>2, <3>3, <1>1, <1>9 DEF Fresh, r
  <2> QED BY <2>2, <2>3, <2>4, <2>5, <1>7, <1>8 DEF IInv
<1>10. CASE /\ N \in {0, L}
            /\ broken'
            /\ UNCHANGED <<current, head_unalloc, number_of_free_pages>>
            /\ r = q
  <2>1. TypeOK'
    <3>1. held' \subseteq Frames
      BY <1>0, <1>4 DEF TypeOK
    <3>2. broken' \in BOOLEAN
      <4>1. broken' = TRUE \/ broken' = broken
        BY Zenon DEF GiveBack
      <4>2. broken \in BOOLEAN
        BY <1>0, Zenon DEF TypeOK
      <4> QED BY <4>1, <4>2, Zenon
    <3> QED BY <1>0, <1>1, <1>5, <1>6, <1>10, <3>1, <3>2, Zenon DEF TypeOK
  <2>2. Listed'
    <3>1. number_of_free_pages' <= ChainLength' /\ ChainLength' >= 2
      BY <1>1, <1>2, <1>10 DEF N
    <3>2. /\ head_end' = Slots'[ChainLength']
          /\ head_unalloc' = IF number_of_free_pages' = 0 THEN head_end'
                             ELSE Slots'[number_of_free_pages']
      BY <1>1, <1>2, <1>10 DEF N
    <3> QED BY <1>1, <3>1, <3>2 DEF Listed
  <2>3. FramesConserved'
    <3>1. number_of_free_pages' = 0 \/ twice'
      <4> SUFFICES ASSUME N = L, ~twice' PROVE FALSE
        BY <1>10 DEF N
      <4>1. ~twice /\ f \in held
        OBVIOUS
      <4> QED BY <4>1, <1>1, FullQueue DEF N, L
    <3> QED BY <3>1, <1>10 DEF FramesConserved
  <2>4. Fresh'
    <3>1. PICK u \in MetaFrames..K : InOrder(q, N, used, u)
      BY <1>0 DEF Fresh, q, N
    <3>2. held' \subseteq used' /\ pending' \in used' \cup {NULL}
      BY <1>0, <1>1, <1>4, <1>5 DEF Fresh
    <3> QED BY <3>1, <3>2, <1>1, <1>10 DEF Fresh, r, N
  <2> QED BY <2>1, <2>2, <2>3, <2>4, <1>7, <1>8 DEF IInv
<1> QED BY <1>1, <1>9, <1>10 DEF r, N

(* Nothing happens.                                                        *)
LEMMA StutterStep ==
  ASSUME IInv, UNCHANGED vars
  PROVE  IInv'
<1>0. TypeOK /\ Listed /\ Boot /\ Owners /\ Fresh /\ FramesConserved
  BY DEF IInv
<1>1. UNCHANGED <<next, current, head_free, head_end, head_unalloc,
                  number_of_free_pages, paging, kept, held, used, broken,
                  pending, twice, clash>>
  BY DEF vars
<1>2. Slots' = Slots /\ ChainLength' = ChainLength /\ FreeQueue' = FreeQueue
  BY <1>0, <1>1, QueueSame
<1>3. TypeOK'
  BY <1>0, <1>1, Zenon DEF TypeOK
<1>4. Listed'
  BY <1>0, <1>1, <1>2 DEF Listed
<1>5. Boot' /\ Owners'
  BY <1>0, <1>1, <1>2 DEF Boot, Owners
<1>6. FramesConserved'
  BY <1>0, <1>1, <1>2 DEF FramesConserved
<1>7. Fresh'
  BY <1>0, <1>1, <1>2 DEF Fresh
<1> QED BY <1>3, <1>4, <1>5, <1>6, <1>7 DEF IInv

(* Every step of the allocator.                                            *)
LEMMA NextStep ==
  ASSUME IInv, [Next]_vars
  PROVE  IInv'
<1>0. /\ held \subseteq Frames /\ held \subseteq used /\ kept \cap held = {}
      /\ pending # NULL => pending \in Frames /\ pending \in used
      /\ pending \notin kept
  BY DEF IInv, TypeOK, Owners, Fresh
<1>1. CASE bump_initial
  BY <1>1, BootStep
<1>2. CASE init_after_paging
  BY <1>2, PagingStep
<1>3. ASSUME NEW n \in 1..K, bump(n)
      PROVE  IInv'
  BY <1>3, BumpStep
<1>4. ASSUME NEW f \in held, kfree(f)
      PROVE  IInv'
  <2>1. GiveBack(f) /\ held' = held \ {f} /\ UNCHANGED <<pending, twice>>
    BY <1>4 DEF kfree
  <2>2. f \in Frames /\ f \in used /\ f \notin kept
    BY <1>0
  <2> QED BY <2>1, <2>2, GiveStep
<1>5. ASSUME NEW f \in held, clear_vmas(f)
      PROVE  IInv'
  <2>1. GiveBack(f) /\ held' = held \ {f} /\ pending' = f /\ UNCHANGED twice
    BY <1>5 DEF clear_vmas
  <2>2. f \in Frames /\ f \in used /\ f \notin kept
    BY <1>0
  <2> QED BY <2>1, <2>2, GiveStep
<1>6. CASE FreeAgain
  <2>1. /\ pending # NULL /\ GiveBack(pending) /\ pending' = NULL
        /\ twice' = TRUE /\ held' = held
    BY <1>6 DEF FreeAgain
  <2>2. pending \in Frames /\ pending \in used /\ pending \notin kept
    BY <1>0, <2>1
  <2> QED BY <2>1, <2>2, GiveStep
<1>7. CASE UNCHANGED vars
  BY <1>7, StutterStep
<1> QED
  BY <1>1, <1>2, <1>3, <1>4, <1>5, <1>6, <1>7 DEF Next, Halted

-----------------------------------------------------------------------------
(* The theorems                                                            *)

(* The invariant holds in every state of every behaviour.                  *)
THEOREM Inductive == Spec => []IInv
<1>1. Init => IInv
  BY InitIInv
<1>2. IInv /\ [Next]_vars => IInv'
  BY NextStep
<1> QED BY <1>1, <1>2, PTL DEF Spec

(* The nodes and heads of the list have their types: head_free never       *)
(* becomes NULL, however many pages are granted.                           *)
THEOREM TypeCorrect == Spec => []TypeOK
<1>1. IInv => TypeOK
  BY DEF IInv
<1> QED BY <1>1, Inductive, PTL

(* head_unalloc is the last free node and head_end the last node of the    *)
(* list whenever kfree or bump uses them.                                  *)
THEOREM HeadsAlwaysAgree == Spec => []HeadsAgree
<1>1. ASSUME IInv
      PROVE  HeadsAgree
  <2>1. TypeOK /\ Listed
    BY <1>1 DEF IInv
  <2>2. /\ ChainLength \in Nat /\ number_of_free_pages \in Nat
        /\ \A i \in 1..ChainLength : Chain[i] = Slots[i]
    BY <2>1, QueueNow
  <2>3. /\ ChainLength >= 2 /\ number_of_free_pages <= ChainLength
        /\ paging => /\ head_end = Slots[ChainLength]
                     /\ head_unalloc = IF number_of_free_pages = 0
                                       THEN head_end
                                       ELSE Slots[number_of_free_pages]
    BY <2>1 DEF Listed
  <2>4. Chain[ChainLength] = Slots[ChainLength]
    BY <2>2, <2>3
  <2>5. number_of_free_pages # 0 =>
          Chain[number_of_free_pages] = Slots[number_of_free_pages]
    BY <2>2, <2>3
  <2> QED BY <2>3, <2>4, <2>5 DEF HeadsAgree
<1> QED BY <1>1, Inductive, PTL

(* bump and kfree lose no frame, and without a second free of the same     *)
(* frame none has two owners.                                              *)
THEOREM NoFrameIsLost == Spec => []FramesConserved
<1>1. IInv => FramesConserved
  BY DEF IInv
<1> QED BY <1>1, Inductive, PTL

(* What bump(n) hands out, for the order of frames.                        *)
LEMMA BumpFresh ==
  ASSUME IInv, NEW n \in 1..K, bump(n)
  PROVE  LET granted == held' \ held
             first == current[head_free]
         IN  /\ granted \cap used # {} => Frames = used'
             /\ granted # {} /\ granted \cap used = {}
                  => granted = first..(first + Cardinality(granted) - 1)
<1> DEFINE N == number_of_free_pages
           q == FreeQueue
           r == FreeQueue'
           g == FirstFrames(n)
           granted == held' \ held
           first == current[head_free]
<1>0. TypeOK /\ Listed /\ Fresh
  BY DEF IInv
<1>1. paging /\ Grant(n, g) /\ held' = held \cup g /\ used' = used \cup g
  BY DEF bump, Grant
<1>2. /\ n <= N
      /\ r = [i \in 1..(N - n) |-> q[i + n]]
      /\ g = {q[i] : i \in 1..n}
  BY <1>0, <1>1, GrantEffect
<1>3. /\ N \in Nat /\ first = q[1]
  <2>1. /\ N \in Nat /\ q = [i \in 1..N |-> current[Slots[i]]]
        /\ Slots[1] = head_free
    BY <1>0, QueueNow DEF Listed, Linked
  <2>2. 1 \in 1..N
    BY <1>2, <2>1, KAssumption
  <2> QED BY <2>1, <2>2
<1>4. PICK u \in MetaFrames..K : InOrder(q, N, used, u)
  BY <1>0 DEF Fresh
<1>5. held \subseteq used /\ granted = g \ held
  BY <1>0, <1>1 DEF Fresh
<1> HIDE DEF q, r, g, N, granted, first
<1>6. Dropped(q, r, N, n) /\ g = FirstOf(q, n) /\ n \in 0..N /\ n \in Nat
  <2>1. n \in 0..N /\ n \in Nat
    BY <1>2, <1>3, KAssumption
  <2> QED BY <1>2, <2>1 DEF Dropped, FirstOf
<1>7. /\ n <= K - u => g = (u + 1)..(u + n)
      /\ n > K - u => /\ used \cup g = Frames
                      /\ g \subseteq used \cup (u + 1)..K
                      /\ (u + 1)..K \subseteq g
  <2>1. N \in Nat /\ u \in MetaFrames..K /\ InOrder(q, N, used, u)
    BY <1>3, <1>4
  <2>2. n <= K - u => AllFresh(g, u, n)
    BY <2>1, <1>6, TakeFresh
  <2>3. n > K - u => LastFresh(g, used, u)
    BY <2>1, <1>6, TakeLast
  <2> QED BY <2>2, <2>3 DEF AllFresh, LastFresh
<1>8. /\ used = (MetaFrames + 1)..u
      /\ \A i \in 1..(K - u) : q[i] = u + i
      /\ u \in Nat /\ K \in Nat /\ u <= K /\ MetaFrames \in Nat
  BY <1>4, Sizes DEF InOrder
<1>9. \A x \in (u + 1)..K : x \notin used /\ x \notin held
  BY <1>5, <1>8
<1>10. CASE n <= K - u
  <2>1. g = (u + 1)..(u + n) /\ first = u + 1
    BY <1>3, <1>6, <1>7, <1>8, <1>10
  <2>2. \A x \in g : x \notin used /\ x \notin held
    BY <2>1, <1>6, <1>8, <1>9, <1>10
  <2>3. granted = (u + 1)..(u + n) /\ granted \cap used = {}
    BY <1>5, <2>1, <2>2
  <2>4. Cardinality((u + 1)..(u + n)) = (u + n) - (u + 1) + 1
    BY <1>6, <1>8, FS_Interval
  <2>5. Cardinality(granted) = n
    BY <2>3, <2>4, <1>6, <1>8
  <2>6. first + Cardinality(granted) - 1 = u + n
    BY <2>1, <2>5, <1>6, <1>8
  <2>7. granted = first..(first + Cardinality(granted) - 1)
    BY <2>1, <2>3, <2>6
  <2> QED BY <2>3, <2>7 DEF granted, first
<1>11. CASE n > K - u
  <2>1. used' = Frames
    BY <1>1, <1>7, <1>11 DEF g
  <2>2. ASSUME granted # {}, granted \cap used = {}
        PROVE  granted = first..(first + Cardinality(granted) - 1)
    <3>1. granted = (u + 1)..K
      BY <2>2, <1>5, <1>7, <1>9, <1>11
    <3>2. K - u >= 1 /\ first = u + 1
      BY <2>2, <3>1, <1>3, <1>8
    <3>3. Cardinality((u + 1)..K) = K - (u + 1) + 1
      BY <1>8, <3>2, FS_Interval
    <3>4. first + Cardinality(granted) - 1 = K
      BY <3>1, <3>2, <3>3, <1>8
    <3> QED BY <3>1, <3>2, <3>4
  <2> QED BY <2>1, <2>2 DEF granted, first
<1>12. n <= K - u \/ n > K - u
  BY <1>6, <1>8
<1> QED BY <1>10, <1>11, <1>12, Zenon

(* A frame is handed out a second time only once every frame has been, and *)
(* until then a request for several pages gets adjacent frames.            *)
THEOREM FreshFramesFirst == Spec => FreshFirst
<1> DEFINE A == LET granted == held' \ held
                    first == current[head_free]
                IN  /\ granted \cap used # {} => Frames = used'
                    /\ granted # {} /\ granted \cap used = {}
                         => granted = first..(first + Cardinality(granted) - 1)
<1>1. ASSUME IInv, [Next]_vars
      PROVE  [A]_vars
  <2>1. ASSUME held' \subseteq held PROVE A
    BY <2>1
  <2>2. CASE bump_initial
    BY <2>1, <2>2 DEF bump_initial
  <2>3. CASE init_after_paging
    BY <2>1, <2>3 DEF init_after_paging
  <2>4. ASSUME NEW n \in 1..K, bump(n)
        PROVE  A
    BY <1>1, <2>4, BumpFresh
  <2>5. ASSUME NEW f \in held, kfree(f) \/ clear_vmas(f)
        PROVE  A
    BY <2>1, <2>5 DEF kfree, clear_vmas
  <2>6. CASE FreeAgain
    BY <2>1, <2>6 DEF FreeAgain
  <2>7. CASE UNCHANGED vars
    BY <2>7
  <2> HIDE DEF A
  <2> QED BY <1>1, <2>2, <2>3, <2>4, <2>5, <2>6, <2>7 DEF Next, Halted
<1>2. FreshFirst <=> [][A]_vars
  BY DEF FreshFirst
<1> QED BY <1>1, <1>2, Inductive, PTL DEF Spec

-----------------------------------------------------------------------------
(* The list implements PageQueue                                           *)

(* The free list as a sequence.                                            *)
LEMMA QueueSeq ==
  ASSUME IInv
  PROVE  /\ FreeQueue \in Seq(0..K)
         /\ Len(FreeQueue) = number_of_free_pages
         /\ number_of_free_pages \in Nat
<1>1. /\ ChainLength \in Nat /\ number_of_free_pages \in Nat
      /\ number_of_free_pages <= ChainLength
      /\ Slots \in [1..ChainLength -> Nodes]
      /\ FreeQueue = [i \in 1..number_of_free_pages |-> current[Slots[i]]]
  BY QueueNow DEF IInv, Listed
<1>2. current \in [Pointers -> Pointers]
  BY DEF IInv, TypeOK, Pointers
<1>3. \A i \in 1..number_of_free_pages : current[Slots[i]] \in Pointers
  BY <1>1, <1>2, PointerFacts
<1>4. FreeQueue \in [1..number_of_free_pages -> Pointers]
  BY <1>1, <1>3
<1> QED BY <1>1, <1>4 DEF Pointers

LEMMA QueueInit ==
  ASSUME Init
  PROVE  Queue!Init
<1>1. IInv
  BY InitIInv
<1>2. FreeQueue \in Seq(0..K) /\ Len(FreeQueue) = number_of_free_pages
  BY <1>1, QueueSeq
<1>3. ~paging
  BY DEF Init
<1>4. number_of_free_pages = ChainLength
  BY <1>1, <1>3 DEF IInv, Listed
<1>5. broken = FALSE
  BY Zenon DEF Init
<1> QED BY <1>2, <1>4, <1>5 DEF Queue!Init

(* bump is Take.                                                           *)
LEMMA BumpTakes ==
  ASSUME IInv, NEW n \in 1..K, bump(n)
  PROVE  Queue!Next
<1> DEFINE N == number_of_free_pages
           q == FreeQueue
<1>1. paging /\ ~broken /\ Grant(n, FirstFrames(n)) /\ broken' = broken
  BY DEF bump, Grant
<1>2. /\ n <= N /\ ChainLength' = ChainLength
      /\ FreeQueue' = [i \in 1..(N - n) |-> q[i + n]]
  BY <1>1, GrantEffect DEF IInv
<1>3. q \in Seq(0..K) /\ Len(q) = N /\ N \in Nat
  BY QueueSeq
<1> HIDE DEF q, N
<1>4. n \in 1..N /\ n \in Nat
  BY <1>2, <1>3, KAssumption
<1>5. SubSeq(q, n + 1, N) = [i \in 1..(N - n) |-> q[i + n]]
  <2>1. SubSeq(q, n + 1, N) = [i \in 1..(N - (n + 1) + 1) |-> q[(n + 1) + i - 1]]
    BY <1>3, <1>4
  <2>2. N - (n + 1) + 1 = N - n
    BY <1>3, <1>4
  <2>3. \A i \in 1..(N - n) : (n + 1) + i - 1 = i + n
    BY <1>3, <1>4
  <2> QED BY <2>1, <2>2, <2>3
<1>6. Queue!Take(n)
  BY <1>1, <1>2, <1>3, <1>4, <1>5 DEF Queue!Take, q
<1> QED BY <1>3, <1>4, <1>6 DEF Queue!Next, q

(* bump_initial is TakeSlot.                                               *)
LEMMA BootTakesSlot ==
  ASSUME IInv, bump_initial
  PROVE  Queue!Next
<1> DEFINE L == ChainLength
           q == FreeQueue
<1>1. ~broken /\ broken' = broken
  BY DEF IInv, Boot, bump_initial, Grant
<1>2. /\ L \in Nat /\ L >= 3 /\ number_of_free_pages = L
      /\ ChainLength' = L - 1
      /\ FreeQueue' = [i \in 1..(L - 1) |-> q[i + 1]]
  BY BootEffect DEF IInv
<1>3. q \in Seq(0..K) /\ Len(q) = L
  BY <1>2, QueueSeq
<1> HIDE DEF q
<1>4. q # <<>> /\ Tail(q) = [i \in 1..(L - 1) |-> q[i + 1]]
  <2>1. L \in Nat /\ L >= 3 /\ L = Len(q) /\ q \in Seq(0..K)
    BY <1>2, <1>3
  <2> HIDE DEF L
  <2>2. q # <<>>
    BY <2>1
  <2>3. /\ Tail(q) \in Seq(0..K) /\ Len(Tail(q)) = L - 1
        /\ \A i \in 1..(L - 1) : Tail(q)[i] = q[i + 1]
    BY <2>1, <2>2
  <2> DEFINE t == Tail(q)
  <2>4. t \in [1..Len(t) -> 0..K]
    BY <2>3, LenProperties
  <2> HIDE DEF t
  <2>5. Len(t) = L - 1 /\ \A i \in 1..(L - 1) : t[i] = q[i + 1]
    BY <2>3 DEF t
  <2>6. t = [i \in 1..(L - 1) |-> q[i + 1]]
    BY <2>4, <2>5
  <2> QED BY <2>2, <2>6 DEF t
<1>5. Queue!TakeSlot
  BY <1>1, <1>2, <1>4 DEF Queue!TakeSlot, q
<1> QED BY <1>5 DEF Queue!Next

(* kfree is Give, with the same two reasons to break.                      *)
LEMMA GiveGives ==
  ASSUME IInv, NEW f \in Frames, GiveBack(f)
  PROVE  Queue!Next
<1> DEFINE L == ChainLength
           N == number_of_free_pages
           q == FreeQueue
           r == FreeQueue'
<1>1. /\ ~broken /\ ChainLength' = L
      /\ \/ /\ N \in 1..(L - 1)
            /\ broken' = broken
            /\ r = [i \in 1..(N + 1) |-> IF i <= N THEN q[i] ELSE f]
         \/ /\ N \in {0, L}
            /\ broken'
            /\ r = q
  BY GiveEffect DEF IInv
<1>2. q \in Seq(0..K) /\ Len(q) = N /\ N \in Nat /\ L \in Nat
  BY QueueSeq, QueueNow DEF IInv
<1>3. f \in 0..K
  BY Sizes, PointerFacts DEF Pointers
<1> HIDE DEF q, r, L, N
<1>4. CASE N \in 1..(L - 1)
  <2>1. broken' = broken /\ r = [i \in 1..(N + 1) |-> IF i <= N THEN q[i] ELSE f]
    BY <1>1, <1>2, <1>4
  <2>2. Append(q, f) = [i \in 1..(N + 1) |-> IF i <= N THEN q[i] ELSE f]
    <3>1. /\ Append(q, f) \in Seq(0..K) /\ Len(Append(q, f)) = N + 1
          /\ \A i \in 1..(N + 1) :
               Append(q, f)[i] = IF i <= N THEN q[i] ELSE f
      BY <1>2, <1>3
    <3> DEFINE a == Append(q, f)
    <3>2. a \in [1..Len(a) -> 0..K]
      BY <3>1, LenProperties
    <3> HIDE DEF a
    <3>3. Len(a) = N + 1 /\ \A i \in 1..(N + 1) : a[i] = IF i <= N THEN q[i] ELSE f
      BY <3>1 DEF a
    <3>4. a = [i \in 1..(N + 1) |-> IF i <= N THEN q[i] ELSE f]
      BY <3>2, <3>3
    <3> QED BY <3>4 DEF a
  <2>3. Queue!Give(f)
    BY <1>1, <1>2, <1>4, <2>1, <2>2 DEF Queue!Give, q, r, L
  <2> QED BY <1>3, <2>3 DEF Queue!Next
<1>5. CASE N \notin 1..(L - 1)
  <2>1. broken' /\ r = q
    BY <1>1, <1>5
  <2>2. broken' = TRUE
    <3>1. broken' = TRUE \/ broken' = broken
      BY Zenon DEF GiveBack
    <3>2. broken' \in BOOLEAN
      <4>1. broken \in BOOLEAN
        BY Zenon DEF IInv, TypeOK
      <4> QED BY <3>1, <4>1, Zenon
    <3> QED BY <2>1, <3>2, Zenon
  <2>3. Queue!Give(f)
    BY <1>1, <1>2, <1>5, <2>1, <2>2 DEF Queue!Give, q, r, L
  <2> QED BY <1>3, <2>3 DEF Queue!Next
<1> QED BY <1>4, <1>5

(* The allocator is a bounded queue of frames: granted from the front,     *)
(* given back at the end, broken only by a frame given back to a queue     *)
(* that is full or was drained to nothing.                                 *)
THEOREM ListIsQueue == Spec => ImplementsQueue
<1>1. Init => Queue!Init
  BY QueueInit
<1>2. IInv /\ [Next]_vars => [Queue!Next]_Queue!vars
  <2> SUFFICES ASSUME IInv, [Next]_vars
               PROVE  [Queue!Next]_Queue!vars
    OBVIOUS
  <2>0. /\ TypeOK /\ Listed /\ held \subseteq Frames
        /\ pending # NULL => pending \in Frames
    BY DEF IInv, TypeOK
  <2>1. CASE bump_initial
    BY <2>1, BootTakesSlot
  <2>2. ASSUME UNCHANGED <<next, current, head_free, number_of_free_pages,
                           broken>>
        PROVE  UNCHANGED Queue!vars
    BY <2>0, <2>2, QueueSame DEF Queue!vars
  <2>3. CASE init_after_paging
    BY <2>2, <2>3 DEF init_after_paging
  <2>4. ASSUME NEW n \in 1..K, bump(n)
        PROVE  Queue!Next
    BY <2>4, BumpTakes
  <2>5. ASSUME NEW f \in held, kfree(f) \/ clear_vmas(f)
        PROVE  Queue!Next
    BY <2>0, <2>5, GiveGives DEF kfree, clear_vmas
  <2>6. CASE FreeAgain
    BY <2>0, <2>6, GiveGives DEF FreeAgain
  <2>7. CASE UNCHANGED vars
    BY <2>2, <2>7 DEF vars
  <2> QED
    BY <2>1, <2>3, <2>4, <2>5, <2>6, <2>7 DEF Next, Halted
<1> QED
  BY <1>1, <1>2, Inductive, PTL DEF Spec, ImplementsQueue, Queue!Spec
=============================================================================
